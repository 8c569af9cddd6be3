---------------------------- MODULE LoginService ----------------------------
(***************************************************************************)
(* LoginService.login for one account: the rate limits, the snapshot of    *)
(* the user and of AuthSecurity, the comparison of the password, and the   *)
(* write that follows a wrong one, or the session and the reset that       *)
(* follow a right one.                                                     *)
(*                                                                         *)
(* An unknown e-mail touches the rate limits only and is left out; every   *)
(* status but BLOCKED and SUSPENDED goes the way of ACTIVE (line 87).      *)
(* createSession is one step here that succeeds or not (TokenService has   *)
(* its parts).  The rows that are appended to the login history are never  *)
(* read by the program and are left out.  The process that serves an       *)
(* attempt may die before any of its steps.                                *)
(***************************************************************************)
EXTENDS Integers, FiniteSets, Redis

CONSTANTS Attempt,          \* attempts that may be running
          Key, KeysOf,      \* rate limits, and those an attempt is subject to
          LoginMaxAttempts, \* LOGIN_MAX_ATTEMPTS
          LoginWindow,      \* LOGIN_WINDOW_MS, in ticks
          MaxFailed,        \* MAX_FAILED_ATTEMPTS
          Lockout,          \* LOCKOUT_DURATION_MS, in ticks
          MaxInside,        \* bound: attempts past the limits at the same time
          Accounts          \* the accounts an instance looks at

ASSUME LoginServiceAssumption ==
  /\ KeysOf \in [Attempt -> SUBSET Key]
  /\ IsFiniteSet(Attempt)
  /\ LoginMaxAttempts \in Nat \ {0} /\ LoginWindow \in Nat \ {0}
  /\ MaxFailed \in Nat \ {0} /\ Lockout \in Nat \ {0} /\ MaxInside \in Nat
  /\ Accounts \subseteq [local : BOOLEAN, status : {"ACTIVE", "BLOCKED"}, verified : BOOLEAN]

Call == {c \in Attempt \X Key : c[2] \in KeysOf[c[1]]}
CallsOf(a) == {a} \X KeysOf[a]

VARIABLES
  account,        \* the AuthUser row; login does not change it
  failedAttempts, \* AuthSecurity.failedAttempts
  lockExpiresAt,  \* AuthSecurity.lockExpiresAt: ticks to come, 0 if past, or Never
  attempt,        \* where each attempt stands, and what it has read
  misses,         \* history: wrong passwords since the last success
  met,            \* history: two attempts were inside together since then
  early,          \* history: attempts that were inside when the lock was set
  count, countTtl, blocked, call, recent, unarmed    \* see RateLimiter

user == <<account, failedAttempts, lockExpiresAt>>
told == <<misses, met, early>>
limiter == <<count, countTtl, blocked, call, recent, unarmed>>
loginVars == <<user, told, attempt, limiter>>

RL == INSTANCE RateLimiter
        WITH KeyOf <- [c \in Call |-> c[2]],
             MaxAttempts <- LoginMaxAttempts, Window <- LoginWindow

Never == -1      \* null

LoginTypeOK ==
  /\ account \in Accounts
  /\ failedAttempts \in 0 .. MaxFailed + 1
  /\ lockExpiresAt \in Never .. Lockout
  /\ misses \in 0 .. MaxFailed /\ met \in BOOLEAN /\ early \subseteq Attempt
  /\ attempt \in [Attempt -> [pc : {"idle", "limits", "compare", "session", "reset", "over"},
                              seen : 0 .. MaxFailed + 1]]
  /\ RL!TypeOK

Idle == [pc |-> "idle", seen |-> 0]

LoginInit ==
  /\ account \in Accounts
  /\ failedAttempts = 0
  /\ lockExpiresAt = Never
  /\ misses = 0 /\ met = FALSE /\ early = {}
  /\ attempt = [a \in Attempt |-> Idle]
  /\ RL!Init

-----------------------------------------------------------------------------

At(a, step) == attempt[a].pc = step
Proceed(a, step) == attempt' = [attempt EXCEPT ![a] = [pc |-> step, seen |-> 0]]
Inside == {a \in Attempt : attempt[a].pc \in {"compare", "session", "reset"}}

\* The counter and the history stop at a bound past which all values act alike.
UpTo(bound, n) == IF n > bound THEN bound ELSE n

Login(a) ==
  /\ At(a, "idle")
  /\ Proceed(a, "limits")
  /\ RL!Ask(CallsOf(a))
  /\ UNCHANGED <<user, told>>

CheckLimits(a) ==
  /\ \E c \in CallsOf(a) : RL!Step(c)
  /\ UNCHANGED <<user, told, attempt>>

\* One refusal is the answer, while the other limit is still being checked.
TooMany(a) ==
  /\ At(a, "limits")
  /\ \E c \in CallsOf(a) : call[c] = "limited"
  /\ Proceed(a, "over")
  /\ UNCHANGED <<user, told, limiter>>

\* What the row decides before the password is looked at (lines 81-118).
Mut_Refused == ~account.local \/ account.status = "BLOCKED"
Refused == ~account.local \/ account.status = "BLOCKED" \/ lockExpiresAt > 0

FindUser(a) ==
  /\ At(a, "limits") /\ \A c \in CallsOf(a) : call[c] = "admitted"
  /\ Cardinality(Inside) < MaxInside
  /\ \/ Refused /\ Proceed(a, "over") /\ UNCHANGED met
     \/ /\ ~Refused
        /\ attempt' = [attempt EXCEPT ![a] = [pc |-> "compare", seen |-> failedAttempts]]
        /\ met' = (met \/ Inside # {})
  /\ UNCHANGED <<user, misses, early, limiter>>

\* handleFailedLoginAttempt writes what the snapshot makes of it; a count below
\* the limit writes null over lockExpiresAt.
Mut_LockFor(n) == IF n > MaxFailed THEN Lockout ELSE Never
LockFor(n) == IF n >= MaxFailed THEN Lockout ELSE Never

NewFailedAttempts(seen) == seen + 1

WrongPassword(a) ==
  LET n == NewFailedAttempts(attempt[a].seen)
  IN /\ At(a, "compare")
     /\ failedAttempts' = UpTo(MaxFailed + 1, n)
     /\ lockExpiresAt' = LockFor(n)
     /\ misses' = UpTo(MaxFailed, misses + 1)
     /\ early' = IF lockExpiresAt' > 0 THEN Inside \ {a} ELSE {}
     /\ Proceed(a, "over")
     /\ UNCHANGED <<account, met, limiter>>

RightPassword(a) ==
  /\ At(a, "compare")
  /\ Proceed(a, IF account.verified THEN "session" ELSE "over")
  /\ UNCHANGED <<user, told, limiter>>

\* createSession throws when another login of the user holds the lock.
OpenSession(a) ==
  /\ At(a, "session")
  /\ Proceed(a, "reset") \/ Proceed(a, "over")
  /\ UNCHANGED <<user, told, limiter>>

\* Not awaited: the client has its answer already.
ResetFailedAttempts(a) ==
  /\ At(a, "reset")
  /\ failedAttempts' = 0 /\ lockExpiresAt' = Never
  /\ misses' = 0 /\ met' = (Inside # {a}) /\ early' = {}
  /\ Proceed(a, "over")
  /\ UNCHANGED <<account, limiter>>

Leave(a) ==
  /\ At(a, "over")
  /\ attempt' = [attempt EXCEPT ![a] = Idle]
  /\ RL!Forget(CallsOf(a))
  /\ UNCHANGED <<user, told>>

\* The server process dies, or a query of the database throws.
Die(a) ==
  /\ ~At(a, "idle")
  /\ attempt' = [attempt EXCEPT ![a] = Idle]
  /\ RL!Abandon(CallsOf(a))
  /\ UNCHANGED <<user, told>>

Tick ==
  /\ RL!Tick
  /\ lockExpiresAt' = IF lockExpiresAt > 0 THEN lockExpiresAt - 1 ELSE lockExpiresAt
  /\ early' = IF lockExpiresAt' = 0 THEN {} ELSE early
  /\ UNCHANGED <<account, failedAttempts, misses, met, attempt>>

Handle(a) ==
  \/ CheckLimits(a) \/ TooMany(a) \/ FindUser(a)
  \/ WrongPassword(a) \/ RightPassword(a) \/ OpenSession(a) \/ ResetFailedAttempts(a)
  \/ Leave(a)

LoginNext ==
  \/ \E a \in Attempt : Handle(a) \/ Die(a) \/ Login(a)
  \/ Tick

LoginSpec == LoginInit /\ [][LoginNext]_loginVars

-----------------------------------------------------------------------------

\* Between attempts, the account has a lock (which may have run out since) if
\* and only if MAX_FAILED_ATTEMPTS wrong passwords were given since the last
\* success (README.md:111).  Lines 193-204 count from a snapshot.
LockoutAfterMaxFailures ==
  Inside = {} => (misses = MaxFailed <=> lockExpiresAt # Never)

\* That is so as long as no two attempts were inside together since the last
\* success, whatever dies on the way and whatever the rate limits let through;
\* a success that nobody overlaps sets things right again.
LockoutWhenAlone == ~met => LockoutAfterMaxFailures

\* A lock that stands is lifted or shortened, other than by time, only by an
\* attempt that had read the row before the lock was set: whoever comes later is
\* turned away until it has run out (lines 101, 134, 166 and 194).
StandingLockStays ==
  [][lockExpiresAt > 0 /\ lockExpiresAt' < lockExpiresAt - 1
       => \E a \in early : a \in Inside /\ a \notin Inside']_loginVars

\* The promises of the rate limiter, with two limits checked at a time.
CountersExpire == RL!CountersExpire
BurstBounded == RL!BurstBounded

\* README.md:1067, "Max 5 attempts per 15 minutes per email/IP".
AtMostMaxPerWindow == RL!AtMostMaxPerWindow
=============================================================================
