-------------------------- MODULE LinnworksClient --------------------------
(***************************************************************************)
(* LinnworksClient: calls of one process to Linnworks, which share a       *)
(* session and the times of the last requests.  A request waits for a slot *)
(* of the rate limit; a call is authorised before, authorised once more    *)
(* when Linnworks rejects the session, and tried again when it fails.      *)
(*                                                                         *)
(* Time passes in ticks between any two steps; a delay that is over may be *)
(* noticed late.  What Linnworks answers is arbitrary.  An error thrown    *)
(* inside the loop is caught there, so that every failure is retried,      *)
(* whatever its status; the delay between attempts is any time.            *)
(***************************************************************************)
EXTENDS Integers, SequencesExt

CONSTANTS Call,     \* calls of the public methods
          Limit,    \* linnworks_rate_limit_per_minute: 145
          Window,   \* ticks of its minute
          Retries,  \* linnworks_retry_attempts: 3
          Ttl,      \* ticks a session lives: 30 min
          Margin    \* ticks before its end in which it is not used: 1 min

\* What the constants are.
ClientConstants ==
  /\ Limit \in Nat \ {0} /\ Window \in Nat \ {0} /\ Retries \in Nat
  /\ Ttl \in Nat /\ Margin \in Nat

VARIABLES
  session,  \* ticks until the cached session expires; 0 if there is none
  stamps,   \* requestTimestamps, the oldest first, as ages
  call,
  sent      \* history: ages of the requests that were sent, younger than Window,
            \* the oldest first

vars == <<session, stamps, call, sent>>

Waiting == {"authNap", "nap"}
Steps == {"authorize", "authFetch", "slot", "fetch", "backoff"} \cup Waiting
CallState ==
  [pc : {"idle", "ok", "failed"} \cup Steps,
   attempt : 0 .. Retries,
   again : BOOLEAN,       \* authorised again, after a 401?
   refreshed : BOOLEAN,   \* refreshedAfterUnauthorized
   wait : 0 .. Window,    \* ticks left to sleep
   since : 0 .. Ttl]      \* ticks since authorize looked at the clock

TypeOK ==
  /\ session \in 0 .. Ttl
  /\ stamps \in Seq(0 .. Window + 1) /\ Len(stamps) <= Limit
  /\ call \in [Call -> CallState]
  /\ sent \in Seq(0 .. Window - 1)

Idle == [pc |-> "idle", attempt |-> 0, again |-> FALSE, refreshed |-> FALSE,
         wait |-> 0, since |-> 0]

Init ==
  /\ session = 0 /\ stamps = <<>> /\ sent = <<>>
  /\ call = [c \in Call |-> Idle]

At(c, step) == call[c].pc = step
Proceed(c, step) == call' = [call EXCEPT ![c].pc = step]

-----------------------------------------------------------------------------
(* waitForRateLimitSlot, up to its sleep; after it, once more.             *)

Mut_WindowStart == Window - 2
WindowStart == Window

\* The loop with shift: what is too old goes from the front.
Shift(ages, oldest) ==
  LET young == {i \in DOMAIN ages : ages[i] <= oldest}
  IN  IF young = {} THEN <<>> ELSE SubSeq(ages, Min(young), Len(ages))

Remembered == Shift(stamps, WindowStart)

TakeSlot(c, next, nap) ==
  IF Len(Remembered) < Limit
  THEN /\ stamps' = Append(Remembered, 0)
       /\ sent' = Append(sent, 0)
       /\ Proceed(c, next)
  ELSE /\ stamps' = Remembered
       /\ call' = [call EXCEPT ![c].pc = nap,
                               ![c].wait = Max({Window - Head(Remembered), 1})]
       /\ UNCHANGED sent

-----------------------------------------------------------------------------
(* authorize, from request; again is its second place there.               *)

Start(c) ==
  /\ At(c, "idle")
  /\ Proceed(c, "authorize")
  /\ UNCHANGED <<session, stamps, sent>>

\* request has a session now.
Authorized(c) ==
  call' = [call EXCEPT ![c].pc = "slot", ![c].since = 0, ![c].again = FALSE,
                       ![c].refreshed = @ \/ call[c].again]

Authorize(c) ==
  /\ At(c, "authorize")
  /\ \/ session > Margin /\ Authorized(c) /\ UNCHANGED <<stamps, sent>>
     \/ session <= Margin /\ TakeSlot(c, "authFetch", "authNap")
  /\ UNCHANGED session

\* A failure inside the loop.
FailAttempt(c) ==
  call' = [call EXCEPT ![c].pc = IF call[c].attempt = Retries THEN "failed" ELSE "backoff",
                       ![c].since = 0, ![c].again = FALSE]

AuthAnswered(c) ==
  /\ At(c, "authFetch")
  /\ session' = Max({Ttl - call[c].since, 0}) /\ Authorized(c)
  /\ UNCHANGED <<stamps, sent>>

\* The first authorisation is outside the loop.
AuthFailed(c) ==
  /\ At(c, "authFetch")
  /\ \/ call[c].again /\ FailAttempt(c)
     \/ ~call[c].again /\ Proceed(c, "failed")
  /\ UNCHANGED <<session, stamps, sent>>

-----------------------------------------------------------------------------
(* request, after its first authorisation.                                 *)

WaitForSlot(c) ==
  /\ At(c, "slot")
  /\ TakeSlot(c, "fetch", "nap")
  /\ UNCHANGED session

WakeUp(c) ==
  /\ call[c].pc \in Waiting /\ call[c].wait = 0
  /\ \/ At(c, "authNap") /\ TakeSlot(c, "authFetch", "authNap")
     \/ At(c, "nap") /\ TakeSlot(c, "fetch", "nap")
  /\ UNCHANGED session

Answered(c) ==
  /\ At(c, "fetch")
  /\ Proceed(c, "ok")
  /\ UNCHANGED <<session, stamps, sent>>

Mut_MayRefresh(c) == TRUE
MayRefresh(c) == ~call[c].refreshed

\* 401 or 403; the session may be a newer one than the one rejected.
Unauthorized(c) ==
  /\ At(c, "fetch") /\ MayRefresh(c)
  /\ session' = 0
  /\ call' = [call EXCEPT ![c].pc = "authorize", ![c].again = TRUE]
  /\ UNCHANGED <<stamps, sent>>

\* Any other status, no answer in time, and a second 401.
RequestFailed(c) ==
  /\ At(c, "fetch")
  /\ FailAttempt(c)
  /\ UNCHANGED <<session, stamps, sent>>

Retry(c) ==
  /\ At(c, "backoff")
  /\ call' = [call EXCEPT ![c].pc = "slot", ![c].attempt = @ + 1]
  /\ UNCHANGED <<session, stamps, sent>>

-----------------------------------------------------------------------------

Tick ==
  /\ session' = Max({session - 1, 0})
  /\ stamps' = [i \in DOMAIN stamps |-> Min({stamps[i] + 1, Window + 1})]
  /\ call' = [c \in Call |->
       [call[c] EXCEPT !.wait = Max({@ - 1, 0}),
                       !.since = IF call[c].pc \in {"authNap", "authFetch"}
                                 THEN Min({@ + 1, Ttl}) ELSE @]]
  /\ sent' = Shift([i \in DOMAIN sent |-> sent[i] + 1], Window - 1)

Step(c) ==
  \/ Authorize(c) \/ AuthAnswered(c) \/ AuthFailed(c) \/ WaitForSlot(c)
  \/ WakeUp(c) \/ Answered(c) \/ Unauthorized(c) \/ RequestFailed(c) \/ Retry(c)

Next == Tick \/ \E c \in Call : Start(c) \/ Step(c)

Spec == Init /\ [][Next]_vars

\* Node resumes a call when its promise is settled, fetch is aborted when it
\* takes too long, and time passes.
Fairness == WF_vars(Tick) /\ \A c \in Call : WF_vars(Step(c))

FairSpec == Spec /\ Fairness

-----------------------------------------------------------------------------

\* No minute has more requests than the limit, those for a session included,
\* however the calls meet at the slots (lines 283-304).
RateKept == Len(sent) <= Limit

\* A call that was made is answered or throws (lines 121-180): neither rejected
\* sessions nor others that take the slots keep it for ever.
CallsEnd ==
  \A c \in Call : ~At(c, "idle") ~> call[c].pc \in {"ok", "failed"}
=============================================================================
