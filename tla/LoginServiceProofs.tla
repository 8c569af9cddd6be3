------------------------- MODULE LoginServiceProofs -------------------------
(***************************************************************************)
(* Theorems about LoginService: types, the expiry of the rate limits'      *)
(* counters, how often they admit, the lockout, and who may lift it.       *)
(***************************************************************************)
EXTENDS LoginService, FoldTheorems, TLAPS

USE LoginServiceAssumption

LEMMA Calls ==
  /\ \A c \in Call : c[2] \in Key
  /\ \A a \in Attempt : CallsOf(a) \subseteq Call
BY DEF Call, CallsOf

-----------------------------------------------------------------------------
(* The rate limits.                                                        *)

\* An answer concerns one call, and the history of its key.
LEMMA AnswerTypes ==
  ASSUME RL!TypeOK, NEW c \in Call,
         NEW answer \in {"count", "arm", "block", "admitted", "limited"},
         RL!Answer(c, answer)
  PROVE  /\ call' = [call EXCEPT ![c] = answer]
         /\ call' \in [Call -> {"idle", "look", "count", "arm", "block", "admitted", "limited"}]
         /\ recent' \in [Key -> [RL!Age -> Nat]]
<1>1. c[2] \in Key /\ 0 \in RL!Age
  BY Calls DEF RL!Age
<1>2. recent' \in [Key -> [RL!Age -> Nat]]
  <2>1. recent[c[2]] \in [RL!Age -> Nat] /\ recent \in [Key -> [RL!Age -> Nat]]
    BY <1>1 DEF RL!TypeOK
  <2>2. [recent[c[2]] EXCEPT ![0] = recent[c[2]][0] + 1] \in [RL!Age -> Nat]
    BY <1>1, <2>1
  <2>3. recent' = recent
        \/ recent' = [recent EXCEPT ![c[2]] = [recent[c[2]] EXCEPT ![0] = recent[c[2]][0] + 1]]
    BY DEF RL!Answer
  <2> QED BY <1>1, <2>1, <2>2, <2>3
<1> QED BY <1>2 DEF RL!Answer, RL!TypeOK

LEMMA StepTypes ==
  ASSUME RL!TypeOK, NEW c \in Call, RL!Step(c)
  PROVE  RL!TypeOK'
<1>1. c[2] \in Key /\ [d \in Call |-> d[2]][c] = c[2]
  BY Calls
<1>2. CASE RL!LookForBlock(c)
  <2>1. PICK answer \in {"limited", "count"} : RL!Answer(c, answer)
    BY <1>2 DEF RL!LookForBlock
  <2> QED BY <1>2, <2>1, AnswerTypes DEF RL!LookForBlock, RL!limits, RL!TypeOK
<1>3. CASE RL!Increment(c)
  <2> DEFINE n == RL!Counted(count[c[2]] + 1)
  <2>1. n \in 0 .. LoginMaxAttempts + 2 /\ count \in [Key -> 0 .. LoginMaxAttempts + 2]
    BY <1>1 DEF RL!TypeOK, RL!Counted
  <2>2. count' = count \/ count' = [count EXCEPT ![c[2]] = n]
    BY <1>1, <1>3 DEF RL!Increment
  <2>3. count' \in [Key -> 0 .. LoginMaxAttempts + 2]
    <3> HIDE DEF n
    <3> QED BY <1>1, <2>1, <2>2
  <2>4. unarmed' \subseteq Key
    BY <1>1, <1>3 DEF RL!Increment, RL!TypeOK
  <2>5. /\ call' \in [Call -> {"idle", "look", "count", "arm", "block", "admitted", "limited"}]
        /\ recent' \in [Key -> [RL!Age -> Nat]]
    <3>1. \/ \E answer \in {"arm", "block", "admitted"} : RL!Answer(c, answer)
          \/ call' = [call EXCEPT ![c] = "admitted"] /\ UNCHANGED recent
      BY <1>3 DEF RL!Increment
    <3> QED BY <3>1, AnswerTypes DEF RL!TypeOK
  <2> QED BY <1>3, <2>3, <2>4, <2>5 DEF RL!Increment, RL!TypeOK
<1>4. CASE RL!SetExpiry(c)
  <2>1. countTtl' \in [Key -> 0 .. LoginWindow] /\ unarmed' \subseteq Key
    BY <1>1, <1>4 DEF RL!SetExpiry, RL!TypeOK
  <2> QED BY <1>4, <2>1, AnswerTypes DEF RL!SetExpiry, RL!TypeOK
<1>5. CASE RL!Block(c)
  <2>1. blocked' \in [Key -> 0 .. LoginWindow]
    BY <1>1, <1>5 DEF RL!Block, RL!Stored, RL!TypeOK
  <2> QED BY <1>5, <2>1, AnswerTypes DEF RL!Block, RL!TypeOK
<1> QED BY <1>2, <1>3, <1>4, <1>5 DEF RL!Step

LEMMA TickTypes == RL!TypeOK /\ RL!Tick => RL!TypeOK'
<1> SUFFICES ASSUME RL!TypeOK, RL!Tick PROVE RL!TypeOK'
  OBVIOUS
<1>1. recent' \in [Key -> [RL!Age -> Nat]]
  <2>1. \A k \in Key : [a \in RL!Age |-> IF a = 0 THEN 0 ELSE recent[k][a - 1]] \in [RL!Age -> Nat]
    BY DEF RL!TypeOK, RL!Age
  <2> QED BY <2>1 DEF RL!Tick
<1>2. count' \in [Key -> 0 .. LoginMaxAttempts + 2]
  BY DEF RL!TypeOK, RL!Tick
<1>3. \A t \in 0 .. LoginWindow : (IF t = 0 THEN 0 ELSE t - 1) \in 0 .. LoginWindow
  OBVIOUS
<1>4. countTtl' \in [Key -> 0 .. LoginWindow] /\ blocked' \in [Key -> 0 .. LoginWindow]
  BY <1>3, Zenon DEF RL!TypeOK, RL!Tick
<1> QED BY <1>1, <1>2, <1>4 DEF RL!TypeOK, RL!Tick

\* The limiter part of a step of an attempt, or of time.
LimiterStep ==
  \/ \E a \in Attempt : \/ RL!Ask(CallsOf(a)) \/ RL!Forget(CallsOf(a))
                         \/ RL!Abandon(CallsOf(a))
  \/ \E c \in Call : RL!Step(c)
  \/ RL!Tick
  \/ UNCHANGED limiter

LEMMA AbandonedCalls ==
  ASSUME NEW a \in Attempt, RL!Abandon(CallsOf(a))
  PROVE  /\ \A c \in Call : call'[c] = IF c \in CallsOf(a) THEN "idle" ELSE call[c]
         /\ unarmed' = unarmed \cup {c[2] : c \in {d \in CallsOf(a) : call[d] = "arm"}}
         /\ UNCHANGED <<count, countTtl, blocked, recent>>
<1>1. \A c \in CallsOf(a) : [d \in Call |-> d[2]][c] = c[2]
  BY Calls
<1>2. {[d \in Call |-> d[2]][c] : c \in {d \in CallsOf(a) : call[d] = "arm"}}
      = {c[2] : c \in {d \in CallsOf(a) : call[d] = "arm"}}
  BY <1>1
<1>3. UNCHANGED <<count, countTtl, blocked, recent>>
  BY DEF RL!Abandon, RL!limits
<1>4. \A c \in Call : call'[c] = IF c \in CallsOf(a) THEN "idle" ELSE call[c]
  BY DEF RL!Abandon
<1>5. unarmed' = unarmed \cup {c[2] : c \in {d \in CallsOf(a) : call[d] = "arm"}}
  BY <1>2 DEF RL!Abandon
<1> QED BY <1>3, <1>4, <1>5

LEMMA LimiterTypes ==
  ASSUME RL!TypeOK, LimiterStep
  PROVE  RL!TypeOK'
<1>1. ASSUME NEW a \in Attempt, RL!Ask(CallsOf(a)) \/ RL!Forget(CallsOf(a))
      PROVE  RL!TypeOK'
  BY <1>1 DEF RL!Ask, RL!Forget, RL!TypeOK, RL!limits
<1>2. ASSUME NEW a \in Attempt, RL!Abandon(CallsOf(a)) PROVE RL!TypeOK'
  <2>1. unarmed' \subseteq Key
    BY <1>2, AbandonedCalls, Calls DEF RL!TypeOK
  <2> QED BY <1>2, <2>1 DEF RL!Abandon, RL!TypeOK, RL!limits
<1>3. CASE UNCHANGED limiter
  BY <1>3 DEF RL!TypeOK, limiter
<1> QED BY <1>1, <1>2, <1>3, StepTypes, TickTypes DEF LimiterStep

-----------------------------------------------------------------------------
(* Types.                                                                  *)

Steps == {"idle", "limits", "compare", "session", "reset", "over"}
AttemptState == [pc : Steps, seen : 0 .. MaxFailed + 1]

UserTypes ==
  /\ account \in Accounts
  /\ failedAttempts \in 0 .. MaxFailed + 1
  /\ lockExpiresAt \in Never .. Lockout

ToldTypes == misses \in 0 .. MaxFailed /\ met \in BOOLEAN /\ early \subseteq Attempt

LEMMA TypeParts ==
  LoginTypeOK <=> UserTypes /\ ToldTypes /\ attempt \in [Attempt -> AttemptState] /\ RL!TypeOK
BY DEF LoginTypeOK, UserTypes, ToldTypes, AttemptState, Steps

\* A step of an attempt moves it and no other.
Moves(a, state) ==
  /\ attempt'[a] = state
  /\ \A b \in Attempt \ {a} : attempt'[b] = attempt[b]

LEMMA MovesType ==
  ASSUME attempt \in [Attempt -> AttemptState], NEW a \in Attempt, NEW state \in AttemptState,
         attempt' = [attempt EXCEPT ![a] = state]
  PROVE  attempt' \in [Attempt -> AttemptState] /\ Moves(a, state)
BY DEF Moves

LEMMA ProceedType ==
  ASSUME attempt \in [Attempt -> AttemptState], NEW a \in Attempt, NEW step \in Steps,
         Proceed(a, step)
  PROVE  attempt' \in [Attempt -> AttemptState] /\ Moves(a, [pc |-> step, seen |-> 0])
<1>1. [pc |-> step, seen |-> 0] \in AttemptState
  BY DEF AttemptState
<1> QED BY <1>1, MovesType DEF Proceed

LEMMA InitTypes == LoginInit => LoginTypeOK
<1> SUFFICES ASSUME LoginInit PROVE LoginTypeOK
  OBVIOUS
<1>1. UserTypes /\ ToldTypes
  <2>1. /\ account \in Accounts /\ failedAttempts = 0 /\ lockExpiresAt = Never
        /\ misses = 0 /\ met = FALSE /\ early = {}
    BY DEF LoginInit
  <2>2. 0 \in 0 .. MaxFailed + 1 /\ 0 \in 0 .. MaxFailed /\ Never \in Never .. Lockout
    BY DEF Never
  <2> QED BY <2>1, <2>2 DEF UserTypes, ToldTypes
<1>2. attempt \in [Attempt -> AttemptState]
  BY DEF LoginInit, AttemptState, Steps, Idle
<1>3. RL!TypeOK
  BY DEF LoginInit, RL!Init, RL!TypeOK
<1> QED BY <1>1, <1>2, <1>3, TypeParts

\* What a step asks of the limiter.
LEMMA StepOfLimiter == [LoginNext]_loginVars => LimiterStep
BY Calls DEF LoginNext, Handle, Login, CheckLimits, TooMany, FindUser, WrongPassword,
   RightPassword, OpenSession, ResetFailedAttempts, Leave, Die, Tick, loginVars, LimiterStep

\* What a step makes of the attempts.
LEMMA AttemptTypes ==
  ASSUME LoginTypeOK, [LoginNext]_loginVars
  PROVE  attempt' \in [Attempt -> AttemptState]
<1>0. UserTypes /\ attempt \in [Attempt -> AttemptState]
  BY TypeParts
<1>1. ASSUME NEW a \in Attempt, NEW step \in Steps, Proceed(a, step)
      PROVE  attempt' \in [Attempt -> AttemptState]
  BY <1>0, <1>1, ProceedType
<1>2. ASSUME NEW a \in Attempt, FindUser(a)
      PROVE  attempt' \in [Attempt -> AttemptState]
  <2>1. CASE Proceed(a, "over")
    BY <1>1, <2>1 DEF Steps
  <2>2. CASE attempt' = [attempt EXCEPT ![a] = [pc |-> "compare", seen |-> failedAttempts]]
    <3>1. [pc |-> "compare", seen |-> failedAttempts] \in AttemptState
      BY <1>0 DEF AttemptState, Steps, UserTypes
    <3> QED BY <1>0, <2>2, <3>1, MovesType
  <2> QED BY <1>2, <2>1, <2>2 DEF FindUser
<1>3. ASSUME NEW a \in Attempt, Leave(a) \/ Die(a)
      PROVE  attempt' \in [Attempt -> AttemptState]
  <2>1. Idle \in AttemptState
    BY DEF Idle, AttemptState, Steps
  <2> QED BY <1>0, <1>3, <2>1, MovesType DEF Leave, Die
<1>4. ASSUME NEW a \in Attempt,
             \/ TooMany(a) \/ WrongPassword(a) \/ RightPassword(a) \/ OpenSession(a)
             \/ ResetFailedAttempts(a) \/ Login(a)
      PROVE  attempt' \in [Attempt -> AttemptState]
  BY <1>1, <1>4 DEF TooMany, WrongPassword, RightPassword, OpenSession, ResetFailedAttempts,
     Login, Steps
<1>5. CASE UNCHANGED attempt
  BY <1>0, <1>5
<1> QED BY <1>2, <1>3, <1>4, <1>5 DEF LoginNext, Handle, CheckLimits, Tick, loginVars

\* What a step makes of the rows, and of what is told of them.
LEMMA UserTypesStep ==
  ASSUME LoginTypeOK, [LoginNext]_loginVars
  PROVE  UserTypes' /\ ToldTypes'
<1>0. UserTypes /\ ToldTypes /\ attempt \in [Attempt -> AttemptState]
  BY TypeParts
<1>1. ASSUME NEW a \in Attempt, WrongPassword(a)
      PROVE  UserTypes' /\ ToldTypes'
  <2>1. attempt[a].seen + 1 \in 1 .. MaxFailed + 2
    BY <1>0 DEF AttemptState
  <2>2. /\ failedAttempts' \in 0 .. MaxFailed + 1
        /\ lockExpiresAt' \in Never .. Lockout
    BY <1>1, <2>1 DEF WrongPassword, NewFailedAttempts, UpTo, LockFor, Never
  <2>3. misses' \in 0 .. MaxFailed
    BY <1>0, <1>1 DEF WrongPassword, UpTo, ToldTypes
  <2>4. early' \subseteq Attempt
    BY <1>1 DEF WrongPassword, Inside
  <2> QED BY <1>0, <1>1, <2>2, <2>3, <2>4 DEF WrongPassword, UserTypes, ToldTypes
<1>2. ASSUME NEW a \in Attempt, FindUser(a)
      PROVE  UserTypes' /\ ToldTypes'
  <2>1. UNCHANGED <<user, misses, early>> /\ (met' = met \/ met' = (met \/ Inside # {}))
    BY <1>2 DEF FindUser
  <2>2. met' \in BOOLEAN
    BY <1>0, <2>1 DEF ToldTypes
  <2> QED BY <1>0, <2>1, <2>2 DEF UserTypes, ToldTypes, user
<1>5. ASSUME NEW a \in Attempt, ResetFailedAttempts(a)
      PROVE  UserTypes' /\ ToldTypes'
  <2>1. /\ UNCHANGED account /\ failedAttempts' = 0 /\ lockExpiresAt' = Never
        /\ misses' = 0 /\ met' = (Inside # {a}) /\ early' = {}
    BY <1>5 DEF ResetFailedAttempts
  <2>2. 0 \in 0 .. MaxFailed + 1 /\ 0 \in 0 .. MaxFailed /\ Never \in Never .. Lockout
    BY DEF Never
  <2> QED BY <1>0, <2>1, <2>2 DEF UserTypes, ToldTypes
<1>3. CASE Tick
  <2>1. lockExpiresAt' \in Never .. Lockout
    BY <1>0, <1>3 DEF Tick, UserTypes, Never
  <2> QED BY <1>0, <1>3, <2>1 DEF Tick, UserTypes, ToldTypes
<1>4. CASE UNCHANGED <<user, told>>
  BY <1>0, <1>4 DEF user, told, UserTypes, ToldTypes
<1> QED BY <1>1, <1>2, <1>3, <1>4, <1>5 DEF LoginNext, Handle, Login, CheckLimits, TooMany,
        RightPassword, OpenSession, Leave, Die, loginVars

LEMMA TypeStep == LoginTypeOK /\ [LoginNext]_loginVars => LoginTypeOK'
<1> SUFFICES ASSUME LoginTypeOK, [LoginNext]_loginVars PROVE LoginTypeOK'
  OBVIOUS
<1>1. RL!TypeOK'
  BY StepOfLimiter, LimiterTypes, TypeParts
<1>2. (UserTypes /\ ToldTypes /\ attempt \in [Attempt -> AttemptState] /\ RL!TypeOK)'
  BY <1>1, AttemptTypes, UserTypesStep
<1> QED BY <1>2 DEF LoginTypeOK, UserTypes, ToldTypes, AttemptState, Steps

\* Rows, keys and attempts keep their types, for all limits and accounts.
THEOREM TypeCorrect == LoginSpec => []LoginTypeOK
BY InitTypes, TypeStep, PTL DEF LoginSpec

-----------------------------------------------------------------------------
(* The counters of the rate limits.                                        *)

Arming(k) == \E c \in Call : c[2] = k /\ call[c] = "arm"
Expiring(k) == count[k] > 0 /\ countTtl[k] = 0 => k \in unarmed \/ Arming(k)

LEMMA CountersMeaning == CountersExpire <=> \A k \in Key : Expiring(k)
BY DEF CountersExpire, RL!CountersExpire, Expiring, Arming

\* A key whose counter stays, and whose calls at "arm" stay or are written down.
LEMMA ExpiringStays ==
  ASSUME NEW k \in Key, Expiring(k), count'[k] = count[k], countTtl'[k] = countTtl[k],
         unarmed \subseteq unarmed',
         \A c \in Call : c[2] = k /\ call[c] = "arm" => call'[c] = "arm" \/ k \in unarmed'
  PROVE  Expiring(k)'
BY DEF Expiring, Arming

LEMMA StepKeepsCounters ==
  ASSUME RL!TypeOK, \A k \in Key : Expiring(k), NEW c \in Call, RL!Step(c)
  PROVE  \A k \in Key : Expiring(k)'
<1>0. c[2] \in Key /\ [d \in Call |-> d[2]][c] = c[2]
  BY Calls
<1>1. CASE RL!LookForBlock(c)
  <2>1. PICK answer \in {"limited", "count"} : RL!Answer(c, answer)
    BY <1>1 DEF RL!LookForBlock
  <2> QED BY <1>1, <2>1, AnswerTypes, ExpiringStays DEF RL!LookForBlock, RL!limits, RL!TypeOK
<1>2. CASE RL!Increment(c)
  <2> DEFINE n == RL!Counted(count[c[2]] + 1)
  <2>1. /\ count \in [Key -> Nat] /\ n \in Nat
        /\ n # 1 => count[c[2]] > 0
    BY <1>0 DEF RL!TypeOK, RL!Counted
  <2>2. UNCHANGED countTtl /\ call[c] = "count" /\ unarmed \subseteq unarmed'
    BY <1>0, <1>2 DEF RL!Increment
  <2>3. count' = count \/ count' = [count EXCEPT ![c[2]] = n]
    BY <1>0, <1>2 DEF RL!Increment
  <2>4. \A d \in Call : call[d] = "arm" => call'[d] = "arm"
    BY <1>0, <1>2 DEF RL!Increment, RL!Answer, RL!TypeOK
  <2>5. count[c[2]] \in Nat
    BY <1>0, <2>1
  <2>6. n = 1 /\ ~RL!Answer(c, "arm")
         => unarmed' = IF count[c[2]] = 0 /\ count'[c[2]] > 0
                       THEN unarmed \cup {c[2]} ELSE unarmed
    BY <1>0, <1>2 DEF RL!Increment, RL!IsFirst
  <2> HIDE DEF n
  <2>7. ASSUME NEW k \in Key \ {c[2]} PROVE Expiring(k)'
    <3>1. count'[k] = count[k] /\ countTtl'[k] = countTtl[k]
      BY <1>0, <2>1, <2>2, <2>3
    <3>2. \A d \in Call : d[2] = k /\ call[d] = "arm" => call'[d] = "arm" \/ k \in unarmed'
      BY <2>4
    <3>3. Expiring(k) /\ k \in Key /\ unarmed \subseteq unarmed'
      BY <2>2
    <3> QED BY <3>1, <3>2, <3>3, ExpiringStays
  <2>8. count[c[2]] > 0 => Expiring(c[2])'
    BY <1>0, <2>2, <2>4 DEF Expiring, Arming
  <2>9. ASSUME count[c[2]] = 0, count'[c[2]] > 0
        PROVE  c[2] \in unarmed' \/ Arming(c[2])'
    <3>1. CASE RL!Answer(c, "arm")
      BY <1>0, <3>1 DEF RL!Answer, Arming, RL!TypeOK
    <3>2. CASE unarmed' = IF count[c[2]] = 0 /\ count'[c[2]] > 0
                          THEN unarmed \cup {c[2]} ELSE unarmed
      BY <2>9, <3>2
    <3>3. n = 1
      BY <2>1, <2>9
    <3> QED BY <2>6, <3>1, <3>2, <3>3
  <2>10. Expiring(c[2])'
    BY <2>8, <2>9, <2>5 DEF Expiring
  <2> QED BY <2>7, <2>10
<1>3. CASE RL!SetExpiry(c)
  <2>1. /\ call' = [call EXCEPT ![c] = "admitted"] /\ UNCHANGED count
        /\ unarmed \subseteq unarmed'
    BY <1>3, AnswerTypes DEF RL!SetExpiry
  <2>2. \/ countTtl' = [countTtl EXCEPT ![c[2]] = LoginWindow]
        \/ UNCHANGED countTtl /\ c[2] \in unarmed'
    BY <1>0, <1>3 DEF RL!SetExpiry
  <2>3. \A k \in Key \ {c[2]} : Expiring(k)'
    BY <1>0, <2>1, <2>2, ExpiringStays DEF RL!TypeOK
  <2>4. Expiring(c[2])'
    BY <1>0, <2>1, <2>2 DEF Expiring, RL!TypeOK
  <2> QED BY <2>3, <2>4
<1>4. CASE RL!Block(c)
  <2>1. call' = [call EXCEPT ![c] = "limited"] /\ call[c] = "block"
    BY <1>4, AnswerTypes DEF RL!Block
  <2> QED BY <1>4, <2>1, ExpiringStays DEF RL!Block, RL!TypeOK
<1> QED BY <1>1, <1>2, <1>3, <1>4 DEF RL!Step

LEMMA LimiterKeepsCounters ==
  ASSUME RL!TypeOK, \A k \in Key : Expiring(k), LimiterStep
  PROVE  \A k \in Key : Expiring(k)'
<1>1. ASSUME NEW a \in Attempt, RL!Ask(CallsOf(a)) \/ RL!Forget(CallsOf(a))
      PROVE  \A k \in Key : Expiring(k)'
  <2>1. \A c \in Call : call[c] = "arm" => call'[c] = "arm"
    BY <1>1 DEF RL!Ask, RL!Forget
  <2> QED BY <1>1, <2>1, ExpiringStays DEF RL!Ask, RL!Forget, RL!limits
<1>2. ASSUME NEW a \in Attempt, RL!Abandon(CallsOf(a)) PROVE \A k \in Key : Expiring(k)'
  BY <1>2, AbandonedCalls, ExpiringStays
<1>3. CASE RL!Tick
  <2>1. ASSUME NEW k \in Key
        PROVE  count'[k] > 0 /\ countTtl'[k] = 0 => count[k] > 0 /\ countTtl[k] = 0
    BY <1>3 DEF RL!Tick, RL!TypeOK
  <2>2. UNCHANGED <<call, unarmed>>
    BY <1>3 DEF RL!Tick
  <2> QED BY <2>1, <2>2 DEF Expiring, Arming
<1>4. CASE UNCHANGED limiter
  BY <1>4 DEF limiter, Expiring, Arming
<1> QED BY <1>1, <1>2, <1>3, <1>4, StepKeepsCounters DEF LimiterStep

\* Whatever dies and whatever Redis does not answer, a counter that has no time
\* to live is one whose own first call was cut short between incr and expire, or
\* is between them (checkRateLimit, lines 199-205).
THEOREM CountersDoExpire == LoginSpec => []CountersExpire
<1>1. LoginInit => CountersExpire
  BY DEF LoginInit, RL!Init, CountersExpire, RL!CountersExpire
<1>2. LoginTypeOK /\ CountersExpire /\ [LoginNext]_loginVars => CountersExpire'
  <2> SUFFICES ASSUME LoginTypeOK, CountersExpire, [LoginNext]_loginVars PROVE CountersExpire'
    OBVIOUS
  <2>1. \A k \in Key : Expiring(k)'
    BY StepOfLimiter, LimiterKeepsCounters, CountersMeaning, TypeParts
  <2> QED BY <2>1 DEF CountersExpire, RL!CountersExpire, Expiring, Arming
<1> QED BY <1>1, <1>2, TypeCorrect, PTL DEF LoginSpec

-----------------------------------------------------------------------------
(* How often a key is admitted in the time of one window.                  *)

\* What the counter says of the history of its key: of what is not its own, the
\* counter before has counted less than the limit.  Once armed, it has counted
\* whatever is younger than itself.
Taken(n) == IF n < LoginMaxAttempts THEN n ELSE LoginMaxAttempts
Windows(n, ttl, history) ==
  LET total == SumOfFirst(history, LoginWindow)
  IN /\ n = 0 => ttl = 0 /\ total <= LoginMaxAttempts - 1
     /\ n > 0 => total <= LoginMaxAttempts + Taken(n) - 1
     /\ ttl > 0 => SumOfFirst(history, LoginWindow - ttl) <= Taken(n) - 1

\* Of what the counter has counted, the call that will arm it is not admitted yet.
Roomy(n, history) == SumOfFirst(history, LoginWindow) <= LoginMaxAttempts + Taken(n) - 2

Armer(c) == call[c] = "arm"

BurstInv ==
  /\ \A c, d \in Call : c[2] = d[2] /\ Armer(c) /\ Armer(d) => c = d
  /\ \A c \in Call : Armer(c) => count[c[2]] > 0 /\ countTtl[c[2]] = 0
  /\ \A c \in Call : Armer(c) => Roomy(count[c[2]], recent[c[2]])
  /\ \A k \in Key : Windows(count[k], countTtl[k], recent[k])

Counter == 0 .. LoginMaxAttempts + 2
Lifetime == 0 .. LoginWindow
History == [0 .. LoginWindow - 1 -> Nat]

LEMMA LimiterTyped ==
  ASSUME RL!TypeOK
  PROVE  /\ count \in [Key -> Counter] /\ countTtl \in [Key -> Lifetime]
         /\ recent \in [Key -> History] /\ DOMAIN call = Call
BY DEF RL!TypeOK, RL!Age, Counter, Lifetime, History

LEMMA SumsOfHistory ==
  ASSUME NEW h \in History, NEW n \in 0 .. LoginWindow
  PROVE  SumOfFirst(h, n) \in Nat
<1>1. n \in Nat /\ \A i \in 0 .. n - 1 : h[i] \in Nat
  BY DEF History
<1> QED BY <1>1, SumOfFirstIsNat

\* One admission more.
Plus(h) == [h EXCEPT ![0] = @ + 1]

LEMMA PlusAddsOne ==
  ASSUME NEW h \in History
  PROVE  /\ Plus(h) \in History
         /\ \A n \in 1 .. LoginWindow : SumOfFirst(Plus(h), n) = SumOfFirst(h, n) + 1
         /\ SumOfFirst(Plus(h), 0) = 0
<1>1. Plus(h) \in History /\ \A i \in 0 .. LoginWindow - 1 :
         h[i] \in Nat /\ Plus(h)[i] = IF i = 0 THEN h[i] + 1 ELSE h[i]
  BY DEF History, Plus
<1>2. ASSUME NEW n \in 1 .. LoginWindow
      PROVE  SumOfFirst(Plus(h), n) = SumOfFirst(h, n) + 1
  <2> DEFINE g == Plus(h)
  <2>1. n \in Nat \ {0}
        /\ \A i \in 0 .. n - 1 : h[i] \in Nat /\ g[i] = IF i = 0 THEN h[i] + 1 ELSE h[i]
    BY <1>1
  <2> HIDE DEF g
  <2>2. SumOfFirst(g, n) = SumOfFirst(h, n) + 1
    BY <2>1, SumOfFirstPlusOne
  <2> QED BY <2>2 DEF g
<1> QED BY <1>1, <1>2, SumOfFirstNone

LEMMA CountedOnceMore ==
  ASSUME NEW n \in Counter, n # 0, n < LoginMaxAttempts, NEW ttl \in Lifetime,
         NEW h \in History, Windows(n, ttl, h)
  PROVE  Windows(n + 1, ttl, Plus(h)) /\ (Roomy(n, h) => Roomy(n + 1, Plus(h)))
<1>1. /\ n \in Nat /\ ttl \in 0 .. LoginWindow /\ LoginWindow - ttl \in 0 .. LoginWindow
      /\ LoginWindow \in 1 .. LoginWindow /\ LoginMaxAttempts \in Nat
  BY DEF Counter, Lifetime
<1> DEFINE total == SumOfFirst(h, LoginWindow)
           total2 == SumOfFirst(Plus(h), LoginWindow)
           young == SumOfFirst(h, LoginWindow - ttl)
           young2 == SumOfFirst(Plus(h), LoginWindow - ttl)
<1>2. total \in Nat /\ young \in Nat
  BY <1>1, SumsOfHistory
<1>3. total2 = total + 1 /\ young2 = IF ttl = LoginWindow THEN 0 ELSE young + 1
  BY <1>1, PlusAddsOne
<1>4. /\ n > 0 => total <= LoginMaxAttempts + Taken(n) - 1
      /\ ttl > 0 => young <= Taken(n) - 1
      /\ Roomy(n, h) <=> total <= LoginMaxAttempts + Taken(n) - 2
      /\ Roomy(n + 1, Plus(h)) <=> total2 <= LoginMaxAttempts + Taken(n + 1) - 2
  BY DEF Windows, Roomy
<1>5. Taken(n) = n /\ Taken(n + 1) = n + 1
  BY <1>1 DEF Taken
<1> HIDE DEF total, total2, young, young2
<1>6. /\ total2 <= LoginMaxAttempts + Taken(n + 1) - 1
      /\ ttl > 0 => young2 <= Taken(n + 1) - 1
      /\ Roomy(n, h) => Roomy(n + 1, Plus(h))
  BY <1>1, <1>2, <1>3, <1>4, <1>5
<1>7. n + 1 # 0
  BY <1>1
<1> QED BY <1>6, <1>7 DEF Windows, total2, young2

LEMMA CountedAboveLimit ==
  ASSUME NEW n \in Counter, n >= LoginMaxAttempts, NEW m \in Counter, m >= n,
         NEW ttl \in Lifetime, NEW h \in History, Windows(n, ttl, h)
  PROVE  Windows(m, ttl, h) /\ (Roomy(n, h) => Roomy(m, h))
<1>1. Taken(m) = LoginMaxAttempts /\ Taken(n) = LoginMaxAttempts /\ n # 0 /\ m # 0 /\ n > 0
  BY DEF Taken, Counter
<1> QED BY <1>1 DEF Windows, Roomy

\* A counter that rises without an admission leaves more room.
LEMMA CountedForNothing ==
  ASSUME NEW n \in Counter, NEW m \in Counter, m = n + 1,
         NEW ttl \in Lifetime, NEW h \in History, Windows(n, ttl, h)
  PROVE  Windows(m, ttl, h) /\ (Roomy(n, h) => Roomy(m, h))
<1>1. n \in Nat /\ m \in Nat /\ ttl \in Nat /\ LoginMaxAttempts \in Nat \ {0}
      /\ LoginWindow \in Nat /\ LoginWindow - ttl \in 0 .. LoginWindow
  BY DEF Counter, Lifetime
<1>2. Taken(n) \in Nat /\ Taken(m) \in Nat /\ Taken(n) <= Taken(m) /\ Taken(m) >= 1
  BY <1>1 DEF Taken
<1> DEFINE total == SumOfFirst(h, LoginWindow)
           young == SumOfFirst(h, LoginWindow - ttl)
<1>3. total \in Nat /\ young \in Nat
  BY <1>1, SumsOfHistory
<1>4. /\ n = 0 => ttl = 0 /\ total <= LoginMaxAttempts - 1
      /\ n > 0 => total <= LoginMaxAttempts + Taken(n) - 1
      /\ ttl > 0 => young <= Taken(n) - 1
      /\ Roomy(n, h) <=> total <= LoginMaxAttempts + Taken(n) - 2
      /\ Roomy(m, h) <=> total <= LoginMaxAttempts + Taken(m) - 2
  BY DEF Windows, Roomy
<1> HIDE DEF total, young
<1>5. /\ m # 0 /\ total <= LoginMaxAttempts + Taken(m) - 1
      /\ ttl > 0 => young <= Taken(m) - 1
      /\ Roomy(n, h) => Roomy(m, h)
  BY <1>1, <1>2, <1>3, <1>4
<1> QED BY <1>5 DEF Windows, total, young

LEMMA CounterCreated ==
  ASSUME NEW h \in History, Windows(0, 0, h)
  PROVE  Windows(1, 0, h) /\ Roomy(1, h)
<1>1. SumOfFirst(h, LoginWindow) \in Nat /\ Taken(1) = 1
  BY SumsOfHistory DEF Taken
<1>2. SumOfFirst(h, LoginWindow) <= LoginMaxAttempts + 1 - 2
  BY <1>1 DEF Windows
<1> QED BY <1>1, <1>2 DEF Windows, Roomy

\* The call that was to arm the counter is admitted, whether expire worked or not.
LEMMA CounterArmed ==
  ASSUME NEW n \in Counter, n > 0, NEW h \in History, Windows(n, 0, h), Roomy(n, h)
  PROVE  Windows(n, LoginWindow, Plus(h)) /\ Windows(n, 0, Plus(h))
<1>1. LoginWindow \in 1 .. LoginWindow /\ LoginWindow - LoginWindow = 0 /\ n \in Nat
  BY DEF Counter
<1>2. /\ SumOfFirst(Plus(h), LoginWindow) = SumOfFirst(h, LoginWindow) + 1
      /\ SumOfFirst(h, LoginWindow) \in Nat
      /\ SumOfFirst(Plus(h), LoginWindow - LoginWindow) = 0
  BY <1>1, PlusAddsOne, SumsOfHistory
<1>3. Taken(n) \in 1 .. LoginMaxAttempts
  BY <1>1 DEF Taken
<1>4. /\ SumOfFirst(Plus(h), LoginWindow) <= LoginMaxAttempts + Taken(n) - 1
      /\ SumOfFirst(Plus(h), LoginWindow - LoginWindow) <= Taken(n) - 1
  BY <1>2, <1>3 DEF Roomy
<1> QED BY <1>1, <1>4 DEF Windows

\* All that was admitted is a tick older.
Older(h) == [a \in 0 .. LoginWindow - 1 |-> IF a = 0 THEN 0 ELSE h[a - 1]]

LEMMA OlderIsLater ==
  ASSUME NEW h \in History
  PROVE  /\ Older(h) \in History
         /\ \A n \in 0 .. LoginWindow - 1 : SumOfFirst(Older(h), n + 1) = SumOfFirst(h, n)
<1>1. /\ Older(h) \in History
      /\ \A i \in 0 .. LoginWindow - 1 : Older(h)[i] = IF i = 0 THEN 0 ELSE h[i - 1]
  BY DEF History, Older
<1>2. ASSUME NEW n \in 0 .. LoginWindow - 1
      PROVE  SumOfFirst(Older(h), n + 1) = SumOfFirst(h, n)
  <2> DEFINE g == Older(h)
  <2>1. /\ n \in Nat /\ \A i \in 0 .. n - 1 : h[i] \in Nat
        /\ \A i \in 0 .. n : g[i] = IF i = 0 THEN 0 ELSE h[i - 1]
    BY <1>1 DEF History
  <2> HIDE DEF g
  <2>2. SumOfFirst(g, n + 1) = SumOfFirst(h, n)
    BY <2>1, SumOfFirstShifted
  <2> QED BY <2>2 DEF g
<1> QED BY <1>1, <1>2

LEMMA TimePasses ==
  ASSUME NEW n \in Counter, NEW ttl \in Lifetime, NEW h \in History, Windows(n, ttl, h)
  PROVE  /\ Windows(IF ttl = 1 THEN 0 ELSE n, IF ttl = 0 THEN 0 ELSE ttl - 1, Older(h))
         /\ Roomy(n, h) => Roomy(n, Older(h))
<1> DEFINE total == SumOfFirst(h, LoginWindow)
           total2 == SumOfFirst(Older(h), LoginWindow)
           older == SumOfFirst(h, LoginWindow - 1)
           young == SumOfFirst(h, LoginWindow - ttl)
           young2 == SumOfFirst(Older(h), LoginWindow - (ttl - 1))
<1>0. n \in Nat /\ LoginWindow \in Nat \ {0} /\ LoginMaxAttempts \in Nat \ {0}
      /\ ttl \in 0 .. LoginWindow
  BY DEF Counter, Lifetime
<1>1. total \in Nat /\ older \in Nat /\ young \in Nat
  BY <1>0, SumsOfHistory
<1>2. total2 = older
  <2>1. LoginWindow - 1 \in 0 .. LoginWindow - 1 /\ (LoginWindow - 1) + 1 = LoginWindow
    OBVIOUS
  <2>2. SumOfFirst(Older(h), (LoginWindow - 1) + 1) = SumOfFirst(h, LoginWindow - 1)
    BY <2>1, OlderIsLater
  <2> QED BY <2>1, <2>2
<1>3. older <= total
  <2>1. /\ LoginWindow - 1 \in Nat /\ (LoginWindow - 1) + 1 = LoginWindow
        /\ \A i \in 0 .. LoginWindow - 1 : h[i] \in Nat
    BY DEF History
  <2>2. SumOfFirst(h, (LoginWindow - 1) + 1)
        = SumOfFirst(h, LoginWindow - 1) + h[LoginWindow - 1]
    BY <2>1, SumOfFirstNext
  <2>3. h[LoginWindow - 1] \in Nat
    BY <2>1
  <2> QED BY <1>1, <2>1, <2>2, <2>3
<1>4. ttl > 0 => young2 = young
  <2> SUFFICES ASSUME ttl > 0 PROVE young2 = young
    OBVIOUS
  <2>1. LoginWindow - ttl \in 0 .. LoginWindow - 1
        /\ LoginWindow - (ttl - 1) = (LoginWindow - ttl) + 1
    BY <1>0
  <2>2. SumOfFirst(Older(h), (LoginWindow - ttl) + 1) = SumOfFirst(h, LoginWindow - ttl)
    BY <2>1, OlderIsLater
  <2> QED BY <2>1, <2>2
<1>5. /\ n = 0 => ttl = 0 /\ total <= LoginMaxAttempts - 1
      /\ n > 0 => total <= LoginMaxAttempts + Taken(n) - 1
      /\ ttl > 0 => young <= Taken(n) - 1
  BY DEF Windows
<1>6. Taken(n) \in Nat /\ Taken(n) <= LoginMaxAttempts
  BY <1>0 DEF Taken
<1>10. Roomy(n, h) => Roomy(n, Older(h))
  <2>1. /\ Roomy(n, h) <=> total <= LoginMaxAttempts + Taken(n) - 2
        /\ Roomy(n, Older(h)) <=> total2 <= LoginMaxAttempts + Taken(n) - 2
    BY DEF Roomy
  <2> HIDE DEF total, total2, older
  <2> QED BY <1>0, <1>1, <1>2, <1>3, <1>6, <2>1
<1>7. CASE ttl = 0
  <2>1. /\ n = 0 => total2 <= LoginMaxAttempts - 1
        /\ n > 0 => total2 <= LoginMaxAttempts + Taken(n) - 1
    <3> HIDE DEF total, total2, older, young, young2
    <3> QED BY <1>0, <1>1, <1>2, <1>3, <1>5, <1>6, <1>7
  <2>2. Windows(n, 0, Older(h))
    BY <1>0, <2>1 DEF Windows
  <2> QED BY <1>7, <1>10, <2>2
<1>8. CASE ttl = 1
  <2>1. total2 <= LoginMaxAttempts - 1
    <3>1. young = older
      BY <1>8
    <3> HIDE DEF total, total2, older, young, young2
    <3> QED BY <1>0, <1>1, <1>2, <1>5, <1>6, <1>8, <3>1
  <2>2. Windows(0, 0, Older(h))
    BY <2>1 DEF Windows
  <2> QED BY <1>8, <1>10, <2>2
<1>9. CASE ttl > 1
  <2>1. n # 0 /\ total2 <= LoginMaxAttempts + Taken(n) - 1 /\ young2 <= Taken(n) - 1
    <3> HIDE DEF total, total2, older, young, young2
    <3> QED BY <1>0, <1>1, <1>2, <1>3, <1>4, <1>5, <1>6, <1>9
  <2>2. ttl - 1 > 0
    BY <1>0, <1>9
  <2>3. Windows(n, ttl - 1, Older(h))
    BY <2>1, <2>2 DEF Windows
  <2>4. ttl # 1 /\ ttl # 0
    BY <1>0, <1>9
  <2> QED BY <1>10, <2>3, <2>4
<1> QED BY <1>0, <1>7, <1>8, <1>9

\* What a step of a call makes of its key, all others staying as they are.
LEMMA OneKeyMoves ==
  ASSUME RL!TypeOK, BurstInv, NEW k \in Key, NEW n, NEW ttl, NEW h, Windows(n, ttl, h),
         count' = [count EXCEPT ![k] = n], countTtl' = [countTtl EXCEPT ![k] = ttl],
         recent' = [recent EXCEPT ![k] = h]
  PROVE  \A j \in Key : Windows(count'[j], countTtl'[j], recent'[j])
BY DEF RL!TypeOK, BurstInv

\* A call that adds no armer and leaves its key as it is.
LEMMA CountersStay ==
  ASSUME BurstInv, UNCHANGED <<count, countTtl, recent>>,
         \A d \in Call : Armer(d)' => Armer(d)
  PROVE  BurstInv'
BY DEF BurstInv

LEMMA StepKeepsBurst ==
  ASSUME RL!TypeOK, BurstInv, NEW c \in Call, RL!Step(c)
  PROVE  BurstInv'
<1> DEFINE k == c[2]
<1>0. /\ k \in Key /\ count[k] \in Counter /\ countTtl[k] \in Lifetime /\ recent[k] \in History
      /\ Windows(count[k], countTtl[k], recent[k]) /\ [d \in Call |-> d[2]][c] = k
  BY Calls, LimiterTyped DEF BurstInv
<1>1. CASE RL!LookForBlock(c)
  <2>1. PICK answer \in {"limited", "count"} : RL!Answer(c, answer)
    BY <1>1 DEF RL!LookForBlock
  <2>2. /\ call' = [call EXCEPT ![c] = answer] /\ UNCHANGED <<count, countTtl, recent>>
    BY <1>1, <2>1 DEF RL!LookForBlock, RL!limits, RL!Answer
  <2>3. \A d \in Call : Armer(d)' => Armer(d)
    BY <2>2, LimiterTyped DEF Armer
  <2> QED BY <2>2, <2>3, CountersStay
<1>2. CASE RL!Increment(c)
  <2> DEFINE n == RL!Counted(count[k] + 1)
             answer == IF RL!IsFirst(n) THEN "arm"
                       ELSE IF RL!OverLimit(n) THEN "block" ELSE "admitted"
  <2>1. \/ count' = [count EXCEPT ![k] = n] /\ RL!Answer(c, answer)
        \/ /\ count' \in {count, [count EXCEPT ![k] = n]}
           /\ call' = [call EXCEPT ![c] = "admitted"] /\ UNCHANGED recent
    BY <1>0, <1>2 DEF RL!Increment
  <2>2. UNCHANGED countTtl
    BY <1>2 DEF RL!Increment
  <2>3. count[k] \in 0 .. LoginMaxAttempts + 2 /\ LoginMaxAttempts \in Nat \ {0}
    BY <1>0 DEF Counter
  <2>4. n = IF count[k] + 1 > LoginMaxAttempts + 2 THEN LoginMaxAttempts + 2 ELSE count[k] + 1
    BY DEF RL!Counted
  <2>5. n > 0 /\ n \in Counter
    BY <2>3, <2>4 DEF Counter
  <2>6. answer = "arm" <=> count[k] = 0
    BY <2>3, <2>4 DEF RL!IsFirst
  <2>7. count[k] = 0 => (\A d \in Call : d[2] = k => ~Armer(d)) /\ countTtl[k] = 0
    BY <1>0 DEF BurstInv, Windows
  <2>8. \A d \in Call : d[2] # k /\ Armer(d) => d[2] \in Key
    BY Calls
  <2>9. CASE UNCHANGED <<count, recent>> /\ call' = [call EXCEPT ![c] = "admitted"]
    <3>1. \A d \in Call : Armer(d)' => Armer(d)
      BY <2>9, LimiterTyped DEF Armer
    <3> QED BY <2>2, <2>9, <3>1, CountersStay
  <2>10. CASE /\ count' = [count EXCEPT ![k] = n] /\ UNCHANGED recent
              /\ call' = [call EXCEPT ![c] = "admitted"]
    <3>1. Windows(n, countTtl[k], recent[k])
          /\ (count[k] # 0 => (Roomy(count[k], recent[k]) => Roomy(n, recent[k])))
      <4>1. CASE n = count[k] + 1
        <5> HIDE DEF n
        <5> QED BY <1>0, <2>5, <4>1, CountedForNothing
      <4>2. CASE n = count[k] /\ count[k] >= LoginMaxAttempts
        <5> HIDE DEF n
        <5> QED BY <1>0, <4>2
      <4> QED BY <2>3, <2>4, <4>1, <4>2
    <3>2. countTtl' = [countTtl EXCEPT ![k] = countTtl[k]]
          /\ recent' = [recent EXCEPT ![k] = recent[k]]
      BY <2>2, <2>10, LimiterTyped
    <3>3. \A j \in Key : Windows(count'[j], countTtl'[j], recent'[j])
      <4> HIDE DEF n
      <4> QED BY <1>0, <2>10, <3>1, <3>2, OneKeyMoves
    <3>4. \A d \in Call : Armer(d)' => Armer(d)
      BY <2>10, LimiterTyped DEF Armer
    <3>5. /\ count'[k] = n /\ \A j \in Key \ {k} : count'[j] = count[j]
      <4> HIDE DEF n
      <4> QED BY <1>0, <2>10, LimiterTyped
    <3>6. ASSUME NEW d \in Call, Armer(d)'
          PROVE  /\ count'[d[2]] > 0 /\ countTtl'[d[2]] = 0
                 /\ Roomy(count'[d[2]], recent'[d[2]])
      <4>1. Armer(d) /\ d[2] \in Key /\ count[d[2]] > 0 /\ countTtl[d[2]] = 0
            /\ Roomy(count[d[2]], recent[d[2]])
        BY <3>4, <3>6, Calls DEF BurstInv
      <4> HIDE DEF n
      <4>2. CASE d[2] = k
        BY <2>2, <2>5, <2>7, <2>10, <3>1, <3>5, <4>1, <4>2
      <4>3. CASE d[2] # k
        BY <2>2, <2>10, <3>5, <4>1, <4>3
      <4> QED BY <4>2, <4>3
    <3> QED BY <3>3, <3>4, <3>6 DEF BurstInv
  <2>11. CASE count' = [count EXCEPT ![k] = n] /\ RL!Answer(c, answer)
    <3>1. /\ call' = [call EXCEPT ![c] = answer]
          /\ recent' = IF answer = "admitted" THEN [recent EXCEPT ![k] = Plus(recent[k])]
                                              ELSE recent
      BY <1>0, <2>11 DEF RL!Answer, Plus
    <3>2. \A d \in Call : Armer(d)' => Armer(d) \/ (d = c /\ count[k] = 0)
      BY <2>6, <3>1, LimiterTyped DEF Armer
    <3>3. countTtl' = [countTtl EXCEPT ![k] = countTtl[k]] /\ recent[k] = recent[k]
      BY <2>2, LimiterTyped
    <3>4. PICK h \in History :
            /\ recent' = [recent EXCEPT ![k] = h] /\ Windows(n, countTtl[k], h)
            /\ count[k] = 0 => Roomy(n, h)
            /\ count[k] # 0 => (Roomy(count[k], recent[k]) => Roomy(n, h))
      <4>1. answer # "admitted" => recent' = [recent EXCEPT ![k] = recent[k]]
        BY <3>1, LimiterTyped
      <4>2. CASE count[k] = 0
        <5>1. n = 1
          BY <2>3, <2>4, <4>2
        <5>2. Windows(1, 0, recent[k]) /\ Roomy(1, recent[k])
          BY <1>0, <2>7, <4>2, CounterCreated
        <5> HIDE DEF n
        <5> QED BY <1>0, <2>6, <2>7, <4>1, <4>2, <5>1, <5>2
      <4>3. CASE count[k] # 0 /\ count[k] < LoginMaxAttempts
        <5>1. n = count[k] + 1 /\ ~RL!OverLimit(n) /\ ~RL!IsFirst(n)
          BY <2>3, <2>4, <4>3 DEF RL!OverLimit, RL!IsFirst
        <5>2. recent' = [recent EXCEPT ![k] = Plus(recent[k])] /\ Plus(recent[k]) \in History
          BY <1>0, <3>1, <5>1, PlusAddsOne
        <5>3. Windows(count[k] + 1, countTtl[k], Plus(recent[k]))
              /\ (Roomy(count[k], recent[k]) => Roomy(count[k] + 1, Plus(recent[k])))
          BY <1>0, <4>3, CountedOnceMore
        <5>4. Windows(n, countTtl[k], Plus(recent[k]))
              /\ (Roomy(count[k], recent[k]) => Roomy(n, Plus(recent[k])))
          BY <5>1, <5>3, Zenon
        <5> HIDE DEF n
        <5> QED BY <4>3, <5>2, <5>4
      <4>4. CASE count[k] >= LoginMaxAttempts
        <5>1. n >= count[k] /\ RL!OverLimit(n) /\ ~RL!IsFirst(n)
          BY <2>3, <2>4, <4>4 DEF RL!OverLimit, RL!IsFirst
        <5>2. Windows(n, countTtl[k], recent[k])
              /\ (Roomy(count[k], recent[k]) => Roomy(n, recent[k]))
          BY <1>0, <2>5, <4>4, <5>1, CountedAboveLimit
        <5>3. count[k] # 0
          BY <2>3, <4>4
        <5> QED BY <1>0, <4>1, <5>1, <5>2, <5>3
      <4> QED BY <2>3, <4>2, <4>3, <4>4
    <3>5. \A j \in Key : Windows(count'[j], countTtl'[j], recent'[j])
      <4> HIDE DEF n
      <4> QED BY <1>0, <2>11, <3>3, <3>4, OneKeyMoves
    <3>6. /\ count'[k] = n /\ recent'[k] = h
          /\ \A j \in Key \ {k} : count'[j] = count[j] /\ recent'[j] = recent[j]
      <4> HIDE DEF n
      <4> QED BY <1>0, <2>11, <3>4, LimiterTyped
    <3>7. ASSUME NEW d \in Call, Armer(d)'
          PROVE  /\ count'[d[2]] > 0 /\ countTtl'[d[2]] = 0
                 /\ Roomy(count'[d[2]], recent'[d[2]])
      <4>0. d[2] \in Key
        BY Calls
      <4> HIDE DEF n, answer
      <4>1. CASE d[2] = k /\ count[k] = 0
        BY <2>2, <2>5, <2>7, <3>4, <3>6, <4>1
      <4>2. CASE d[2] = k /\ count[k] # 0
        <5>1. count[k] > 0 /\ countTtl[k] = 0 /\ Roomy(count[k], recent[k])
          BY <3>2, <3>7, <4>2 DEF BurstInv
        <5> QED BY <2>2, <2>5, <3>4, <3>6, <4>2, <5>1
      <4>3. CASE d[2] # k
        <5>1. count[d[2]] > 0 /\ countTtl[d[2]] = 0 /\ Roomy(count[d[2]], recent[d[2]])
          BY <3>2, <3>7, <4>3 DEF BurstInv
        <5> QED BY <2>2, <3>6, <4>0, <4>3, <5>1
      <4> QED BY <4>1, <4>2, <4>3
    <3>8. \A d, e \in Call : d[2] = e[2] /\ Armer(d)' /\ Armer(e)' => d = e
      <4> HIDE DEF answer, n
      <4> QED BY <2>7, <3>2 DEF BurstInv
    <3> QED BY <3>5, <3>7, <3>8 DEF BurstInv
  <2> QED BY <2>1, <2>9, <2>10, <2>11
<1>3. CASE RL!SetExpiry(c)
  <2>1. /\ UNCHANGED count /\ RL!Answer(c, "admitted") /\ Armer(c)
    BY <1>0, <1>3 DEF RL!SetExpiry, Armer
  <2>2. /\ call' = [call EXCEPT ![c] = "admitted"]
        /\ recent' = [recent EXCEPT ![k] = Plus(recent[k])]
    BY <1>0, <2>1 DEF RL!Answer, Plus
  <2>3. count[k] > 0 /\ countTtl[k] = 0 /\ Roomy(count[k], recent[k])
    BY <2>1 DEF BurstInv
  <2>4. Windows(count[k], LoginWindow, Plus(recent[k])) /\ Windows(count[k], 0, Plus(recent[k]))
    BY <1>0, <2>3, CounterArmed
  <2>5. PICK ttl \in {0, LoginWindow} : countTtl' = [countTtl EXCEPT ![k] = ttl]
    <3>1. countTtl' = [countTtl EXCEPT ![k] = LoginWindow] \/ countTtl' = countTtl
      BY <1>0, <1>3 DEF RL!SetExpiry
    <3> QED BY <1>0, <2>3, <3>1, LimiterTyped
  <2>6. count' = [count EXCEPT ![k] = count[k]]
    BY <2>1, LimiterTyped
  <2>7. \A j \in Key : Windows(count'[j], countTtl'[j], recent'[j])
    BY <1>0, <2>2, <2>4, <2>5, <2>6, OneKeyMoves
  <2>8. \A d \in Call : Armer(d)' => Armer(d) /\ d[2] # k
    BY <2>1, <2>2, LimiterTyped DEF Armer, BurstInv
  <2>9. \A d \in Call : Armer(d)' => /\ count'[d[2]] > 0 /\ countTtl'[d[2]] = 0
                                     /\ Roomy(count'[d[2]], recent'[d[2]])
    BY <1>0, <2>1, <2>2, <2>5, <2>8, Calls, LimiterTyped DEF BurstInv
  <2> QED BY <2>7, <2>8, <2>9 DEF BurstInv
<1>4. CASE RL!Block(c)
  <2>1. call' = [call EXCEPT ![c] = "limited"] /\ UNCHANGED <<count, countTtl, recent>>
    BY <1>4 DEF RL!Block, RL!Answer
  <2>2. \A d \in Call : Armer(d)' => Armer(d)
    BY <2>1, LimiterTyped DEF Armer
  <2> QED BY <2>1, <2>2, CountersStay
<1> QED BY <1>1, <1>2, <1>3, <1>4 DEF RL!Step

LEMMA LimiterKeepsBurst ==
  ASSUME RL!TypeOK, BurstInv, LimiterStep
  PROVE  BurstInv'
<1>1. ASSUME NEW a \in Attempt, RL!Ask(CallsOf(a)) \/ RL!Forget(CallsOf(a))
      PROVE  BurstInv'
  <2>1. /\ \A c \in Call : Armer(c)' => Armer(c)
        /\ UNCHANGED <<count, countTtl, recent>>
    BY <1>1 DEF RL!Ask, RL!Forget, Armer, RL!limits
  <2> QED BY <2>1, CountersStay
<1>2. ASSUME NEW a \in Attempt, RL!Abandon(CallsOf(a)) PROVE BurstInv'
  <2>1. \A c \in Call : Armer(c)' => Armer(c)
    BY <1>2, AbandonedCalls DEF Armer
  <2> QED BY <1>2, <2>1, AbandonedCalls, CountersStay
<1>3. CASE RL!Tick
  <2>1. ASSUME NEW k \in Key
        PROVE  /\ count'[k] = IF countTtl[k] = 1 THEN 0 ELSE count[k]
               /\ countTtl'[k] = IF countTtl[k] = 0 THEN 0 ELSE countTtl[k] - 1
               /\ recent'[k] = Older(recent[k])
    BY <1>3 DEF RL!Tick, Older, RL!Age
  <2>2. ASSUME NEW k \in Key
        PROVE  /\ Windows(count'[k], countTtl'[k], recent'[k])
               /\ Roomy(count[k], recent[k]) => Roomy(count[k], recent'[k])
    <3>1. /\ count[k] \in Counter /\ countTtl[k] \in Lifetime /\ recent[k] \in History
          /\ Windows(count[k], countTtl[k], recent[k])
      BY LimiterTyped DEF BurstInv
    <3>2. /\ Windows(IF countTtl[k] = 1 THEN 0 ELSE count[k],
                     IF countTtl[k] = 0 THEN 0 ELSE countTtl[k] - 1, Older(recent[k]))
          /\ Roomy(count[k], recent[k]) => Roomy(count[k], Older(recent[k]))
      BY <3>1, TimePasses
    <3> QED BY <2>1, <3>2, Zenon
  <2>3. \A c \in Call : Armer(c)' <=> Armer(c)
    BY <1>3 DEF RL!Tick, Armer
  <2>4. \A c \in Call : Armer(c)' => count'[c[2]] = count[c[2]] /\ countTtl'[c[2]] = 0
                                    /\ count[c[2]] > 0
    BY <2>1, <2>3, Calls DEF BurstInv
  <2>5. \A c \in Call : Armer(c)' => Roomy(count'[c[2]], recent'[c[2]])
    BY <2>2, <2>3, <2>4, Calls DEF BurstInv
  <2> QED BY <2>2, <2>3, <2>4, <2>5 DEF BurstInv
<1>4. CASE UNCHANGED limiter
  <2>1. \A c \in Call : Armer(c)' => Armer(c)
    BY <1>4 DEF limiter, Armer
  <2> QED BY <1>4, <2>1, CountersStay DEF limiter
<1> QED BY <1>1, <1>2, <1>3, <1>4, StepKeepsBurst DEF LimiterStep

LEMMA BurstInit == LoginInit => BurstInv
<1> SUFFICES ASSUME LoginInit PROVE BurstInv
  OBVIOUS
<1>1. /\ count = [k \in Key |-> 0] /\ countTtl = [k \in Key |-> 0]
      /\ call = [c \in Call |-> "idle"]
      /\ recent = [k \in Key |-> [a \in 0 .. LoginWindow - 1 |-> 0]]
  BY DEF LoginInit, RL!Init, RL!Age
<1> DEFINE none == [a \in 0 .. LoginWindow - 1 |-> 0]
<1>2. \A a \in 0 .. LoginWindow - 1 : none[a] = 0
  OBVIOUS
<1>3. SumOfFirst(none, LoginWindow) = 0
  <2> DEFINE G == {n \in Nat : n <= LoginWindow => SumOfFirst(none, n) = 0}
  <2> HIDE DEF none
  <2>1. 0 \in G
    BY SumOfFirstNone
  <2>2. ASSUME NEW n \in Nat, n \in G
        PROVE  n + 1 \in G
    <3> SUFFICES ASSUME n + 1 <= LoginWindow PROVE SumOfFirst(none, n + 1) = 0
      OBVIOUS
    <3>1. SumOfFirst(none, n) = 0 /\ none[n] = 0 /\ \A i \in 0 .. n : none[i] \in Nat
      BY <1>2, <2>2
    <3>2. SumOfFirst(none, n + 1) = SumOfFirst(none, n) + none[n]
      BY <3>1, SumOfFirstNext
    <3> QED BY <3>1, <3>2
  <2> HIDE DEF G
  <2>3. LoginWindow \in G
    BY <2>1, <2>2, InductionOnNat
  <2> QED BY <2>3 DEF G
<1>4. Windows(0, 0, none)
  BY <1>3 DEF Windows
<1> HIDE DEF none
<1>5. \A k \in Key : Windows(count[k], countTtl[k], recent[k])
  BY <1>1, <1>4 DEF none
<1> QED BY <1>1, <1>5 DEF BurstInv, Armer

\* SumFunction as RateLimiter has it is the sum above.
LEMMA AdmittedIsTotal ==
  ASSUME RL!TypeOK, NEW k \in Key
  PROVE  RL!Admitted(k) = SumOfFirst(recent[k], LoginWindow)
<1>1. DOMAIN recent[k] = 0 .. LoginWindow - 1
  BY DEF RL!TypeOK, RL!Age
<1>2. RL!Admitted(k) = SumFunctionOnSet(recent[k], DOMAIN recent[k])
  BY DEF RL!Admitted, RL!SumFunction, RL!SumFunctionOnSet, RL!FoldFunctionOnSet,
         RL!MapThenFoldSet, SumFunctionOnSet, FoldFunctionOnSet, MapThenFoldSet
<1> QED BY <1>1, <1>2 DEF SumOfFirst

\* In the time of one window a counter admits less often than twice the limit,
\* for any limit, window and number of concurrent requests, whatever dies and
\* whatever Redis does not answer (checkRateLimit, lines 198-210).
THEOREM BurstsAreBounded == LoginSpec => []BurstBounded
<1>1. LoginTypeOK /\ BurstInv => BurstBounded
  <2> SUFFICES ASSUME LoginTypeOK, BurstInv, NEW k \in Key
               PROVE  RL!Admitted(k) < 2 * LoginMaxAttempts
    BY DEF BurstBounded, RL!BurstBounded
  <2> DEFINE total == SumOfFirst(recent[k], LoginWindow)
             n == count[k]
             ttl == countTtl[k]
  <2>1. /\ RL!TypeOK /\ n \in Counter /\ ttl \in Lifetime /\ recent[k] \in History
        /\ Windows(n, ttl, recent[k])
    BY LimiterTyped DEF LoginTypeOK, BurstInv
  <2>2. total \in Nat
    BY <2>1, SumsOfHistory
  <2>3. /\ n = 0 => total <= LoginMaxAttempts - 1
        /\ n > 0 => total <= LoginMaxAttempts + Taken(n) - 1
    BY <2>1 DEF Windows
  <2>4. n \in Nat /\ ttl \in Nat /\ Taken(n) \in Nat /\ Taken(n) <= LoginMaxAttempts
    BY <2>1 DEF Counter, Lifetime, Taken
  <2>5. total < 2 * LoginMaxAttempts
    <3> HIDE DEF total, n, ttl
    <3> QED BY <2>2, <2>3, <2>4
  <2> QED BY <2>1, <2>5, AdmittedIsTotal
<1>2. LoginTypeOK /\ BurstInv /\ [LoginNext]_loginVars => BurstInv'
  BY StepOfLimiter, LimiterKeepsBurst, TypeParts
<1> QED BY <1>1, <1>2, BurstInit, TypeCorrect, PTL DEF LoginSpec

-----------------------------------------------------------------------------
(* The lockout.                                                            *)

\* The history of misses, the counter and the lock tell the same story, and
\* whoever is inside knows it: nobody is while a lock stands.
Counting ==
  /\ misses = UpTo(MaxFailed, failedAttempts)
  /\ lockExpiresAt # Never <=> failedAttempts >= MaxFailed
Alone ==
  /\ \A a, b \in Inside : a = b
  /\ Inside # {} => lockExpiresAt <= 0
  /\ \A a \in Attempt : At(a, "compare") => attempt[a].seen = failedAttempts
AloneInv == ~met => Counting /\ Alone

\* Whoever is inside while a lock stands was there when it was set.
EarlyInv == lockExpiresAt > 0 => Inside \subseteq early

\* A step that leaves the user alone and takes nobody inside.
LEMMA NobodyEnters ==
  ASSUME AloneInv, EarlyInv, UNCHANGED <<user, told>>, NEW a \in Attempt,
         \A b \in Attempt \ {a} : attempt'[b] = attempt[b],
         a \in Inside' => a \in Inside,
         At(a, "compare")' => At(a, "compare") /\ attempt'[a].seen = attempt[a].seen
  PROVE  AloneInv' /\ EarlyInv'
<1>1. Inside' \subseteq Inside
  BY DEF Inside
<1>2. Counting => Counting'
  BY DEF Counting, user, told
<1>3. Alone => Alone'
  BY <1>1 DEF Alone, At, user
<1> QED BY <1>1, <1>2, <1>3 DEF AloneInv, EarlyInv, user, told

LEMMA HandleKeepsLocks ==
  ASSUME LoginTypeOK, AloneInv, EarlyInv, NEW a \in Attempt,
         Handle(a) \/ Die(a) \/ Login(a)
  PROVE  AloneInv' /\ EarlyInv'
<1> USE DEF At, Steps
<1>0. UserTypes /\ ToldTypes /\ attempt \in [Attempt -> AttemptState]
  BY TypeParts
<1>1. CASE CheckLimits(a)
  BY <1>1, NobodyEnters DEF CheckLimits, Inside
<1>2. CASE TooMany(a) \/ RightPassword(a) \/ OpenSession(a) \/ Login(a)
  <2>1. PICK step \in {"over", "session", "reset", "limits"} :
          /\ Proceed(a, step)
          /\ step \in {"session", "reset"} => a \in Inside
          /\ UNCHANGED <<user, told>>
    BY <1>2 DEF TooMany, RightPassword, OpenSession, Login, Inside
  <2>2. Moves(a, [pc |-> step, seen |-> 0])
    BY <1>0, <2>1, ProceedType
  <2>3. a \in Inside' => a \in Inside
    BY <2>1, <2>2 DEF Moves, Inside
  <2> QED BY <2>1, <2>2, <2>3, NobodyEnters DEF Moves
<1>3. CASE FindUser(a)
  <2>0. lockExpiresAt \in Int /\ UNCHANGED <<user, misses, early>>
    BY <1>0, <1>3 DEF UserTypes, Never, FindUser
  <2>1. CASE Refused /\ Proceed(a, "over") /\ UNCHANGED met
    <3>1. Moves(a, [pc |-> "over", seen |-> 0])
      BY <1>0, <2>1, ProceedType
    <3>2. UNCHANGED <<user, told>>
      BY <2>0, <2>1 DEF told
    <3> QED BY <3>1, <3>2, NobodyEnters DEF Moves, Inside
  <2>2. CASE /\ ~Refused /\ met' = (met \/ Inside # {})
             /\ attempt' = [attempt EXCEPT ![a] = [pc |-> "compare", seen |-> failedAttempts]]
    <3>1. [pc |-> "compare", seen |-> failedAttempts] \in AttemptState
      BY <1>0 DEF AttemptState, UserTypes
    <3>2. Moves(a, [pc |-> "compare", seen |-> failedAttempts])
      BY <1>0, <2>2, <3>1, MovesType
    <3>3. lockExpiresAt <= 0
      BY <2>0, <2>2 DEF Refused
    <3>4. EarlyInv'
      BY <2>0, <3>3 DEF EarlyInv, user
    <3>5. ASSUME ~met' PROVE Counting' /\ Alone'
      <4>1. ~met /\ Inside = {}
        BY <2>2, <3>5
      <4>2. Inside' \subseteq {a}
        BY <3>2, <4>1 DEF Moves, Inside
      <4>3. \A b \in Attempt : At(b, "compare")' => b = a
        BY <4>2 DEF Inside
      <4>4. Counting'
        BY <2>0, <4>1 DEF AloneInv, Counting, user
      <4>5. Alone'
        BY <2>0, <3>2, <3>3, <4>2, <4>3 DEF Alone, Moves, user
      <4> QED BY <4>4, <4>5
    <3> QED BY <3>4, <3>5 DEF AloneInv
  <2> QED BY <1>3, <2>1, <2>2 DEF FindUser
<1>4. CASE WrongPassword(a)
  <2>1. a \in Inside /\ UNCHANGED met
    BY <1>4 DEF WrongPassword, Inside
  <2>2. Moves(a, [pc |-> "over", seen |-> 0])
    BY <1>0, <1>4, ProceedType DEF WrongPassword
  <2>3. Inside' = Inside \ {a}
    BY <2>2 DEF Moves, Inside
  <2>4. EarlyInv'
    BY <1>4, <2>3 DEF EarlyInv, WrongPassword
  <2>5. ASSUME ~met PROVE Counting' /\ Alone'
    <3>1. /\ attempt[a].seen = failedAttempts /\ Counting /\ \A b \in Inside : b = a
      BY <1>4, <2>1, <2>5 DEF WrongPassword, AloneInv, Alone
    <3>2. /\ failedAttempts' = UpTo(MaxFailed + 1, failedAttempts + 1)
          /\ lockExpiresAt' = LockFor(failedAttempts + 1)
          /\ misses' = UpTo(MaxFailed, misses + 1)
      BY <1>4, <3>1 DEF WrongPassword, NewFailedAttempts
    <3>3. misses = UpTo(MaxFailed, failedAttempts) /\ failedAttempts \in Nat
      BY <1>0, <3>1 DEF Counting, UserTypes
    <3>4. Counting'
      BY <3>2, <3>3 DEF Counting, UpTo, LockFor, Never
    <3>5. Inside' = {}
      BY <2>3, <3>1
    <3>6. \A b \in Attempt : ~At(b, "compare")'
      BY <3>5 DEF Inside
    <3> QED BY <3>4, <3>5, <3>6 DEF Alone
  <2> QED BY <2>1, <2>4, <2>5 DEF AloneInv
<1>5. CASE ResetFailedAttempts(a)
  <2>1. a \in Inside
    BY <1>5 DEF ResetFailedAttempts, Inside
  <2>2. Moves(a, [pc |-> "over", seen |-> 0])
    BY <1>0, <1>5, ProceedType DEF ResetFailedAttempts
  <2>3. Inside' = Inside \ {a}
    BY <2>2 DEF Moves, Inside
  <2>4. Counting'
    BY <1>5 DEF ResetFailedAttempts, Counting, UpTo
  <2>5. EarlyInv'
    BY <1>5 DEF ResetFailedAttempts, EarlyInv, Never
  <2>6. ASSUME ~met' PROVE Alone'
    <3>1. Inside' = {}
      BY <1>5, <2>3, <2>6 DEF ResetFailedAttempts
    <3>2. \A b \in Attempt : ~At(b, "compare")'
      BY <3>1 DEF Inside
    <3> QED BY <3>1, <3>2 DEF Alone
  <2> QED BY <2>4, <2>5, <2>6 DEF AloneInv
<1>6. CASE Leave(a) \/ Die(a)
  <2>1. attempt' = [attempt EXCEPT ![a] = Idle] /\ UNCHANGED <<user, told>>
    BY <1>6 DEF Leave, Die
  <2>2. Idle \in AttemptState
    BY DEF Idle, AttemptState
  <2>3. Moves(a, Idle)
    BY <1>0, <2>1, <2>2, MovesType
  <2> QED BY <2>1, <2>3, NobodyEnters DEF Moves, Idle, Inside
<1> QED BY <1>1, <1>2, <1>3, <1>4, <1>5, <1>6 DEF Handle

LEMMA LocksStep ==
  LoginTypeOK /\ AloneInv /\ EarlyInv /\ [LoginNext]_loginVars => AloneInv' /\ EarlyInv'
<1> SUFFICES ASSUME LoginTypeOK, AloneInv, EarlyInv, [LoginNext]_loginVars
             PROVE  AloneInv' /\ EarlyInv'
  OBVIOUS
<1>0. lockExpiresAt \in Never .. Lockout
  BY TypeParts DEF UserTypes
<1>1. CASE Tick
  <2>1. /\ lockExpiresAt' # Never <=> lockExpiresAt # Never
        /\ lockExpiresAt <= 0 => lockExpiresAt' <= 0
        /\ lockExpiresAt' > 0 => lockExpiresAt > 0 /\ early' = early
    BY <1>0, <1>1 DEF Tick, Never
  <2>2. UNCHANGED <<failedAttempts, misses, met, attempt>>
    BY <1>1 DEF Tick
  <2> QED BY <2>1, <2>2 DEF AloneInv, EarlyInv, Counting, Alone, Inside, At
<1>2. CASE UNCHANGED loginVars
  BY <1>2 DEF loginVars, user, told, AloneInv, EarlyInv, Counting, Alone, Inside, At
<1> QED BY <1>1, <1>2, HandleKeepsLocks DEF LoginNext

LEMMA LocksInit == LoginInit => AloneInv /\ EarlyInv
BY DEF LoginInit, AloneInv, EarlyInv, Counting, Alone, Inside, At, Idle, UpTo, Never

\* MAX_FAILED_ATTEMPTS wrong passwords lock the account and fewer never do, as
\* long as no two attempts were inside together since the last success
\* (handleFailedLoginAttempt, lines 193-204), for any number of attempts,
\* whatever dies; lockout_race shows that two that meet may be too many.
THEOREM LockoutHolds == LoginSpec => []LockoutWhenAlone
<1>1. LoginTypeOK /\ AloneInv => LockoutWhenAlone
  BY DEF LoginTypeOK, AloneInv, Counting, LockoutWhenAlone, LockoutAfterMaxFailures, UpTo
<1> QED BY <1>1, LocksStep, LocksInit, TypeCorrect, PTL DEF LoginSpec

\* Of all attempts that may overlap, only those that were inside when a lock was
\* set can lift it or shorten it (login, lines 101, 134, 166 and 194).
THEOREM LocksStand == LoginSpec => StandingLockStays
<1>1. LoginTypeOK /\ AloneInv /\ EarlyInv /\ [LoginNext]_loginVars
      => (lockExpiresAt > 0 /\ lockExpiresAt' < lockExpiresAt - 1
            => \E a \in early : a \in Inside /\ a \notin Inside')
  <2> SUFFICES ASSUME LoginTypeOK, EarlyInv, [LoginNext]_loginVars, lockExpiresAt > 0,
                      lockExpiresAt' < lockExpiresAt - 1
               PROVE  \E a \in early : a \in Inside /\ a \notin Inside'
    OBVIOUS
  <2>0. lockExpiresAt \in Int /\ attempt \in [Attempt -> AttemptState]
    BY TypeParts DEF UserTypes, Never
  <2>1. lockExpiresAt' # lockExpiresAt /\ ~Tick
    BY <2>0 DEF Tick
  <2>2. PICK a \in Attempt : WrongPassword(a) \/ ResetFailedAttempts(a)
    BY <2>1 DEF LoginNext, Handle, Login, CheckLimits, TooMany, FindUser, RightPassword,
       OpenSession, Leave, Die, loginVars, user
  <2>3. a \in Inside /\ a \in early
    BY <2>2 DEF EarlyInv, WrongPassword, ResetFailedAttempts, Inside, At
  <2>4. Moves(a, [pc |-> "over", seen |-> 0])
    BY <2>0, <2>2, ProceedType DEF WrongPassword, ResetFailedAttempts, Steps
  <2>5. a \notin Inside'
    BY <2>4 DEF Moves, Inside
  <2> QED BY <2>3, <2>5
<1> QED BY <1>1, LocksStep, LocksInit, TypeCorrect, PTL DEF LoginSpec, StandingLockStays
=============================================================================
