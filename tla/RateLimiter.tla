---------------------------- MODULE RateLimiter ----------------------------
(***************************************************************************)
(* AuthUtilsService.checkRateLimit over two Redis keys per subject: a      *)
(* counter that lives for a window from its first increment, and a block   *)
(* that lives for a window from the first call over the limit.  Rate       *)
(* limiting is taken to be enabled (the flag of line 182 admits all).      *)
(*                                                                         *)
(* Time passes in ticks that interleave with every awaited command; a key  *)
(* holds the ticks it has left.  The process of a call may die before any  *)
(* of its commands, and a command may fail.                                *)
(***************************************************************************)
EXTENDS Integers, Functions, Redis

CONSTANTS Key,          \* subjects of a limit: an e-mail or an IP address
          Call,         \* calls of checkRateLimit that may be running
          KeyOf,        \* the key a call is about
          MaxAttempts,  \* maxAttempts
          Window        \* windowMs, in ticks

\* What the constants are; LoginService, which instantiates them, assumes it.
LimiterConstants ==
  /\ KeyOf \in [Call -> Key]
  /\ MaxAttempts \in Nat \ {0}
  /\ Window \in Nat \ {0}

VARIABLES
  count,     \* the counter; 0 when the key does not exist
  countTtl,  \* its ticks left; 0 when none were set
  blocked,   \* ticks left of the key ":locked"; 0 when it does not exist
  call,      \* where each call stands
  recent,    \* history: per key and age in ticks, the calls the counter admitted
  unarmed    \* history: the keys whose counter was created and never armed

limits == <<count, countTtl, blocked>>
vars == <<limits, call, recent, unarmed>>

Age == 0 .. Window - 1

TypeOK ==
  /\ count \in [Key -> 0 .. MaxAttempts + 2]
  /\ countTtl \in [Key -> 0 .. Window]
  /\ blocked \in [Key -> 0 .. Window]
  /\ call \in [Call -> {"idle", "look", "count", "arm", "block", "admitted", "limited"}]
  /\ recent \in [Key -> [Age -> Nat]]
  /\ unarmed \subseteq Key

Init ==
  /\ count = [k \in Key |-> 0]
  /\ countTtl = [k \in Key |-> 0]
  /\ blocked = [k \in Key |-> 0]
  /\ call = [c \in Call |-> "idle"]
  /\ recent = [k \in Key |-> [a \in Age |-> 0]]
  /\ unarmed = {}

-----------------------------------------------------------------------------

\* The calls of one request start together (Promise.all).
Ask(cs) ==
  /\ \A c \in cs : call[c] = "idle"
  /\ call' = [c \in Call |-> IF c \in cs THEN "look" ELSE call[c]]
  /\ UNCHANGED <<limits, recent, unarmed>>

\* The call is over; an admitted one is remembered with its age.
Answer(c, answer) ==
  /\ call' = [call EXCEPT ![c] = answer]
  /\ recent' = IF answer = "admitted"
               THEN [recent EXCEPT ![KeyOf[c]][0] = @ + 1]
               ELSE recent

LookForBlock(c) ==
  /\ call[c] = "look"
  /\ \E found \in Got(blocked[KeyOf[c]] > 0, FALSE) :
       Answer(c, IF found THEN "limited" ELSE "count")
  /\ UNCHANGED <<limits, unarmed>>

\* Bound: all counts above the limit act alike.
Counted(n) == IF n > MaxAttempts + 2 THEN MaxAttempts + 2 ELSE n

\* A failed incr answers null, which is neither 1 nor above the limit: the call
\* is admitted, whatever the counter says and whether it was raised or not.
Mut_OverLimit(n) == n > MaxAttempts + 1
OverLimit(n) == n > MaxAttempts

Mut_IsFirst(n) == n = 0
IsFirst(n) == n = 1

Increment(c) ==
  LET k == KeyOf[c]
      n == Counted(count[k] + 1)
  IN /\ call[c] = "count"
     /\ \/ /\ count' = [count EXCEPT ![k] = n]
           /\ Answer(c, IF IsFirst(n) THEN "arm" ELSE IF OverLimit(n) THEN "block" ELSE "admitted")
           /\ UNCHANGED unarmed
        \/ /\ RedisMayFail
           /\ count' \in {count, [count EXCEPT ![k] = n]}
           /\ call' = [call EXCEPT ![c] = "admitted"]
           /\ unarmed' = IF count[k] = 0 /\ count'[k] > 0 THEN unarmed \cup {k} ELSE unarmed
           /\ UNCHANGED recent
     /\ UNCHANGED <<countTtl, blocked>>

\* expire: the counter that the call has created gets its time to live.
SetExpiry(c) ==
  /\ call[c] = "arm"
  /\ \/ countTtl' = [countTtl EXCEPT ![KeyOf[c]] = Window] /\ UNCHANGED unarmed
     \/ RedisMayFail /\ UNCHANGED countTtl /\ unarmed' = unarmed \cup {KeyOf[c]}
  /\ Answer(c, "admitted")
  /\ UNCHANGED <<count, blocked>>

Block(c) ==
  /\ call[c] = "block"
  /\ \E t \in Stored(Window, blocked[KeyOf[c]]) :
       blocked' = [blocked EXCEPT ![KeyOf[c]] = t]
  /\ Answer(c, "limited")
  /\ UNCHANGED <<count, countTtl, unarmed>>

\* The request that made the calls is over.
Forget(cs) ==
  /\ \A c \in cs : call[c] \in {"admitted", "limited"}
  /\ call' = [c \in Call |-> IF c \in cs THEN "idle" ELSE call[c]]
  /\ UNCHANGED <<limits, recent, unarmed>>

\* The process that made the calls dies; what Redis has been told stays.
Abandon(cs) ==
  /\ call' = [c \in Call |-> IF c \in cs THEN "idle" ELSE call[c]]
  /\ unarmed' = unarmed \cup {KeyOf[c] : c \in {d \in cs : call[d] = "arm"}}
  /\ UNCHANGED <<limits, recent>>

\* A key whose last tick has passed is gone.
Tick ==
  /\ count' = [k \in Key |-> IF countTtl[k] = 1 THEN 0 ELSE count[k]]
  /\ countTtl' = [k \in Key |-> IF countTtl[k] = 0 THEN 0 ELSE countTtl[k] - 1]
  /\ blocked' = [k \in Key |-> IF blocked[k] = 0 THEN 0 ELSE blocked[k] - 1]
  /\ recent' = [k \in Key |-> [a \in Age |-> IF a = 0 THEN 0 ELSE recent[k][a - 1]]]
  /\ UNCHANGED <<call, unarmed>>

Step(c) == LookForBlock(c) \/ Increment(c) \/ SetExpiry(c) \/ Block(c)

Next ==
  \/ \E c \in Call : Ask({c}) \/ Step(c) \/ Forget({c}) \/ Abandon({c})
  \/ Tick

Spec == Init /\ [][Next]_vars

-----------------------------------------------------------------------------

\* A counter without a time to live limits its key for ever.  Between incr and
\* expire of its first call each counter is one; it stays one only if that very
\* call died there, or its incr or expire was not answered (lines 199-205): no
\* order of other calls, refusals or ends of windows leaves one behind.
CountersExpire ==
  \A k \in Key : count[k] > 0 /\ countTtl[k] = 0
                 => k \in unarmed \/ \E c \in Call : KeyOf[c] = k /\ call[c] = "arm"

\* In the time of one window the counter of a key admits less often than twice
\* the limit: the windows of two counters may meet there, but not the first call
\* of one and the last of the other (lines 198-210).  What is admitted because
\* incr failed comes on top of it.
Admitted(k) == SumFunction(recent[k])
BurstBounded == \A k \in Key : Admitted(k) < 2 * MaxAttempts

\* README.md:1067, "Max 5 attempts per 15 minutes per email/IP".
AtMostMaxPerWindow == \A k \in Key : Admitted(k) <= MaxAttempts
=============================================================================
