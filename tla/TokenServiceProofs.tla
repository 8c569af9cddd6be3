------------------------- MODULE TokenServiceProofs -------------------------
(***************************************************************************)
(* Theorems about TokenService: types; the mutual exclusion that the login *)
(* lock gives to createSession; and, as long as one request at a time is   *)
(* at work on the sessions, what the lists and versions promise and that   *)
(* they implement RefreshSessions.                                         *)
(***************************************************************************)
EXTENDS TokenService, SequenceTheorems, FiniteSetTheorems, TLAPS

USE TokenServiceAssumption

Step == {"idle"} \cup Steps \cup Final

LEMMA EmptyList == <<>> \in SessionList
BY DEF SessionList

LEMMA ListEdits ==
  ASSUME NEW s \in SessionList, NEW j \in Jti
  PROVE  /\ WithSession(s, j) \in SessionList
         /\ <<>> \in SessionList
         /\ s # <<>> => Head(s) \in Jti /\ Tail(s) \in SessionList
         /\ ToRevoke(s) \in SessionList
  BY DEF SessionList, WithSession, ToRevoke

\* enforceMaxDevices cuts the list at its surplus: both parts are lists of jtis.
LEMMA SurplusCuts ==
  ASSUME NEW s \in SessionList, Surplus(s) > 0
  PROVE  /\ SubSeq(s, Surplus(s) + 1, Len(s)) \in SessionList
         /\ SubSeq(s, 1, Surplus(s)) \in SessionList
<1>1. Len(s) \in Nat /\ Surplus(s) \in Nat /\ Surplus(s) <= Len(s)
  BY DEF SessionList, Surplus
<1> QED
  BY <1>1, SubSeqProperties DEF SessionList

\* What a step of a request does to its record, and to no other.
LEMMA ProceedWithType ==
  ASSUME req \in [Request -> RequestState], NEW r \in Request, NEW step \in Step,
         NEW list \in SessionList, NEW todo \in SessionList,
         ProceedWith(r, step, list, todo)
  PROVE  /\ req' \in [Request -> RequestState]
         /\ req'[r].pc = step /\ req'[r].op = req[r].op
         /\ \A q \in Request \ {r} : req'[q] = req[q]
<1>1. req' = [req EXCEPT ![r] = [req[r] EXCEPT !.pc = step, !.list = list, !.todo = todo]]
  BY DEF ProceedWith
<1>2. [req[r] EXCEPT !.pc = step, !.list = list, !.todo = todo] \in RequestState
  BY DEF RequestState, Step
<1> QED BY <1>1, <1>2 DEF RequestState

LEMMA ProceedType ==
  ASSUME req \in [Request -> RequestState], NEW r \in Request, NEW step \in Step,
         Proceed(r, step)
  PROVE  /\ req' \in [Request -> RequestState]
         /\ req'[r].pc = step /\ req'[r].op = req[r].op
         /\ \A q \in Request \ {r} : req'[q] = req[q]
  BY DEF Proceed, RequestState, Step

LEMMA ArriveType ==
  ASSUME SessionTypes, NEW r \in Request, NEW op \in Ops, NEW token \in Jti \cup {NoToken},
         NEW step \in Step, Arrive(r, op, token, step)
  PROVE  /\ SessionTypes'
         /\ req'[r].pc = step /\ req'[r].op = op
         /\ \A q \in Request \ {r} : req'[q] = req[q]
         /\ loginLock' = loginLock
<1>1. req' = [req EXCEPT ![r] = [req[r] EXCEPT !.pc = step, !.op = op, !.token = token,
                                              !.version = tokenVersion]]
  BY DEF Arrive
<1>2. [req[r] EXCEPT !.pc = step, !.op = op, !.token = token, !.version = tokenVersion]
        \in RequestState
  <2>1. req[r] \in RequestState /\ tokenVersion \in Nat
    BY DEF SessionTypes, TV!VersionTypeOK
  <2> QED BY <2>1 DEF RequestState, Step
<1>3. req' \in [Request -> RequestState]
  BY <1>1, <1>2 DEF SessionTypes
<1>4. UNCHANGED <<redis, access, handed>>
  BY DEF Arrive
<1>5. SessionTypes'
  BY <1>3, <1>4 DEF SessionTypes, TV!VersionTypeOK, redis, access, handed
<1>6. req'[r].pc = step /\ req'[r].op = op
  BY <1>1 DEF SessionTypes, RequestState
<1> QED BY <1>1, <1>4, <1>5, <1>6 DEF SessionTypes, redis

\* Steps that leave the access tokens alone keep the types of TokenVersion.
LEMMA AccessUntouched ==
  ASSUME SessionTypes, UNCHANGED access, issued' \subseteq Nat
  PROVE  TV!VersionTypeOK'
  BY DEF SessionTypes, TV!VersionTypeOK, access

-----------------------------------------------------------------------------
(* Types, one lemma per group of handlers.                                 *)

LEMMA CreateSessionTypes ==
  ASSUME SessionTypes, NEW r \in Request,
         \/ AcquireLock(r) \/ StoreKey(r) \/ AddSessionRead(r) \/ AddSessionWrite(r)
         \/ EnforceRead(r) \/ Evict(r) \/ EvictEnd(r) \/ Unlock(r)
  PROVE  SessionTypes'
<1> USE DEF redis, handed
<1>0. /\ r \in Jti /\ Free \in Request \cup {Free}
      /\ req[r].list \in SessionList /\ req[r].todo \in SessionList /\ req[r].version \in Nat
      /\ issued \subseteq Nat /\ <<>> \in SessionList
  BY ListEdits DEF SessionTypes, TV!VersionTypeOK, Jti, RequestState
<1>1. CASE AcquireLock(r)
  <2>1. req' \in [Request -> RequestState]
    BY <1>0, <1>1, ProceedType, ProceedWithType
    DEF AcquireLock, End, SessionTypes, Step, Steps, Final
  <2>2. loginLock' \in Request \cup {Free}
    BY <1>1 DEF AcquireLock, SessionTypes
  <2> QED BY <1>0, <1>1, <2>1, <2>2, AccessUntouched DEF AcquireLock, SessionTypes
<1>2. CASE StoreKey(r)
  <2>1. req' \in [Request -> RequestState]
    BY <1>2, ProceedType DEF StoreKey, SessionTypes, Step, Steps
  <2>2. refreshKeys' \subseteq Jti
    BY <1>0, <1>2 DEF StoreKey, Stored, GenerateSecureId, SessionTypes
  <2> QED BY <1>0, <1>2, <2>1, <2>2, AccessUntouched DEF StoreKey, SessionTypes
<1>3. CASE AddSessionRead(r)
  <2>1. PICK s \in Got(sessions, <<>>) :
          ProceedWith(r, "addWrite", WithSession(s, GenerateSecureId(r)), <<>>)
    BY <1>3 DEF AddSessionRead
  <2>2. s \in SessionList
    BY <1>0, <2>1 DEF Got, SessionTypes
  <2>3. req' \in [Request -> RequestState]
    BY <1>0, <2>1, <2>2, ListEdits, ProceedWithType DEF SessionTypes, Step, Steps, GenerateSecureId
  <2> QED BY <1>0, <1>3, <2>3, AccessUntouched DEF AddSessionRead, SessionTypes
<1>4. CASE AddSessionWrite(r)
  <2>1. req' \in [Request -> RequestState]
    BY <1>4, ProceedType DEF AddSessionWrite, SessionTypes, Step, Steps
  <2>2. sessions' \in SessionList
    BY <1>0, <1>4 DEF AddSessionWrite, Stored, SessionTypes
  <2> QED BY <1>0, <1>4, <2>1, <2>2, AccessUntouched DEF AddSessionWrite, SessionTypes
<1>5. CASE EnforceRead(r)
  <2>1. PICK s \in Got(sessions, <<>>) :
          IF Surplus(s) > 0
          THEN ProceedWith(r, "evict", SubSeq(s, Surplus(s) + 1, Len(s)),
                                       SubSeq(s, 1, Surplus(s)))
          ELSE ProceedWith(r, "unlock", <<>>, <<>>)
    BY <1>5 DEF EnforceRead
  <2>2. s \in SessionList
    BY <1>0, <2>1 DEF Got, SessionTypes
  <2>3. req' \in [Request -> RequestState]
    BY <1>0, <2>1, <2>2, SurplusCuts, ProceedWithType DEF SessionTypes, Step, Steps
  <2> QED BY <1>0, <1>5, <2>3, AccessUntouched DEF EnforceRead, SessionTypes
<1>6. CASE Evict(r)
  <2>1. Tail(req[r].todo) \in SessionList
    BY <1>0, <1>6, ListEdits DEF Evict
  <2>2. req' \in [Request -> RequestState]
    BY <1>6, <2>1 DEF Evict, SessionTypes, RequestState
  <2>3. refreshKeys' \subseteq Jti
    BY <1>6 DEF Evict, Stored, SessionTypes
  <2> QED BY <1>0, <1>6, <2>2, <2>3, AccessUntouched DEF Evict, SessionTypes
<1>7. CASE EvictEnd(r)
  <2>1. req' \in [Request -> RequestState]
    BY <1>7, ProceedType DEF EvictEnd, SessionTypes, Step, Steps
  <2>2. sessions' \in SessionList
    BY <1>0, <1>7 DEF EvictEnd, Stored, SessionTypes
  <2> QED BY <1>0, <1>7, <2>1, <2>2, AccessUntouched DEF EvictEnd, SessionTypes
<1>8. CASE Unlock(r)
  <2>1. req' \in [Request -> RequestState]
    BY <1>0, <1>8, ProceedWithType DEF Unlock, Deliver, End, SessionTypes, Step, Final
  <2>2. loginLock' \in Request \cup {Free}
    BY <1>8 DEF Unlock, Stored, SessionTypes
  <2>3. issued' \subseteq Nat /\ delivered' \subseteq Jti
    BY <1>0, <1>8 DEF Unlock, Deliver, SessionTypes
  <2> QED BY <1>0, <1>8, <2>1, <2>2, <2>3, AccessUntouched DEF Unlock, SessionTypes
<1> QED BY <1>1, <1>2, <1>3, <1>4, <1>5, <1>6, <1>7, <1>8

LEMMA RefreshTypes ==
  ASSUME SessionTypes, NEW r \in Request, LookupKey(r) \/ FindUser(r) \/ RotateOut(r)
  PROVE  SessionTypes'
<1> USE DEF redis, handed
<1>0. /\ r \in Jti /\ req[r].version \in Nat /\ tokenVersion \in Nat
      /\ issued \subseteq Nat /\ <<>> \in SessionList
  BY ListEdits DEF SessionTypes, TV!VersionTypeOK, Jti, RequestState
<1>1. CASE LookupKey(r)
  <2>1. PICK found \in Got(req[r].token \in refreshKeys, FALSE) :
          Proceed(r, IF found THEN "findUser" ELSE "revRead")
    BY <1>1 DEF LookupKey
  <2>2. req' \in [Request -> RequestState]
    BY <2>1, ProceedType DEF SessionTypes, Step, Steps
  <2> QED BY <1>0, <1>1, <2>2, AccessUntouched DEF LookupKey, SessionTypes
<1>2. CASE FindUser(r)
  <2>1. req' \in [Request -> RequestState]
    <3>1. req' = [req EXCEPT ![r] =
                    [req[r] EXCEPT !.pc = IF active THEN "store" ELSE "revRead",
                                   !.version = tokenVersion]]
      BY <1>2 DEF FindUser
    <3>2. [req[r] EXCEPT !.pc = IF active THEN "store" ELSE "revRead",
                         !.version = tokenVersion] \in RequestState
      BY <1>0 DEF SessionTypes, RequestState, Steps
    <3> QED BY <3>1, <3>2 DEF SessionTypes
  <2> QED BY <1>0, <1>2, <2>1, AccessUntouched DEF FindUser, SessionTypes
<1>3. CASE RotateOut(r)
  <2>1. req' \in [Request -> RequestState]
    BY <1>0, <1>3, ProceedWithType DEF RotateOut, Deliver, End, SessionTypes, Step, Final
  <2>2. refreshKeys' \subseteq Jti
    BY <1>3 DEF RotateOut, Stored, WithoutOld, SessionTypes
  <2>3. issued' \subseteq Nat /\ delivered' \subseteq Jti
    BY <1>0, <1>3 DEF RotateOut, Deliver, SessionTypes
  <2> QED BY <1>0, <1>3, <2>1, <2>2, <2>3, AccessUntouched DEF RotateOut, SessionTypes
<1> QED BY <1>1, <1>2, <1>3

\* Filtering a list of jtis gives a list of jtis.
LEMMA RemoveType ==
  ASSUME NEW s \in SessionList, NEW j
  PROVE  Without(s, j) \in SessionList
<1>1. CASE Contains(s, j)
  <2> DEFINE i == CHOOSE i \in 1 .. Len(s) : s[i] = j
  <2>1. i \in 1 .. Len(s) /\ Len(s) \in Nat
    BY <1>1 DEF Contains, SessionList
  <2> HIDE DEF i
  <2>2. SubSeq(s, 1, i - 1) \in SessionList /\ SubSeq(s, i + 1, Len(s)) \in SessionList
    BY <2>1, SubSeqProperties DEF SessionList
  <2>3. RemoveAt(s, i) \in SessionList
    BY <2>2, ConcatProperties DEF RemoveAt, SessionList
  <2> QED BY <1>1, <2>3 DEF Without, i
<1>2. CASE ~Contains(s, j)
  BY <1>2 DEF Without
<1> QED BY <1>1, <1>2

LEMMA LogoutTypes ==
  ASSUME SessionTypes, NEW r \in Request,
         ForgetKey(r) \/ DropSessionRead(r) \/ DropSessionWrite(r)
  PROVE  SessionTypes'
<1> USE DEF redis, handed
<1>0. /\ issued \subseteq Nat /\ <<>> \in SessionList
      /\ req[r].list \in SessionList
  BY EmptyList DEF SessionTypes, TV!VersionTypeOK, RequestState
<1>1. CASE ForgetKey(r)
  <2>1. req' \in [Request -> RequestState]
    BY <1>1, ProceedType DEF ForgetKey, SessionTypes, Step, Steps
  <2>2. refreshKeys' \subseteq Jti
    BY <1>1 DEF ForgetKey, Stored, SessionTypes
  <2> QED BY <1>0, <1>1, <2>1, <2>2, AccessUntouched DEF ForgetKey, SessionTypes
<1>2. CASE DropSessionRead(r)
  <2>1. PICK s \in Got(sessions, <<>>) :
          ProceedWith(r, "dropWrite", Without(s, req[r].token), <<>>)
    BY <1>2 DEF DropSessionRead
  <2>2. Without(s, req[r].token) \in SessionList
    BY <1>0, <2>1, RemoveType DEF Got, SessionTypes
  <2>3. req' \in [Request -> RequestState]
    BY <1>0, <2>1, <2>2, ProceedWithType DEF SessionTypes, Step, Steps
  <2> QED BY <1>0, <1>2, <2>3, AccessUntouched DEF DropSessionRead, SessionTypes
<1>3. CASE DropSessionWrite(r)
  <2>1. req' \in [Request -> RequestState]
    BY <1>0, <1>3, ProceedWithType DEF DropSessionWrite, End, SessionTypes, Step, Final
  <2>2. sessions' \in SessionList
    BY <1>0, <1>3 DEF DropSessionWrite, Stored, SessionTypes
  <2> QED BY <1>0, <1>3, <2>1, <2>2, AccessUntouched DEF DropSessionWrite, SessionTypes
<1> QED BY <1>1, <1>2, <1>3

LEMMA RevokeTypes ==
  ASSUME SessionTypes, NEW r \in Request, RevokeRead(r) \/ RevokeKey(r) \/ RevokeList(r)
  PROVE  SessionTypes'
<1> USE DEF redis, handed
<1>0. /\ issued \subseteq Nat /\ <<>> \in SessionList
      /\ req[r].todo \in SessionList
  BY EmptyList DEF SessionTypes, TV!VersionTypeOK, RequestState
<1>1. CASE RevokeRead(r)
  <2>1. PICK s \in Got(sessions, <<>>) : ProceedWith(r, "revoke", <<>>, ToRevoke(s))
    BY <1>1 DEF RevokeRead
  <2>2. ToRevoke(s) \in SessionList
    BY <1>0 DEF Got, ToRevoke, SessionTypes
  <2>3. req' \in [Request -> RequestState]
    BY <1>0, <2>1, <2>2, ProceedWithType DEF SessionTypes, Step, Steps
  <2> QED BY <1>0, <1>1, <2>3, AccessUntouched DEF RevokeRead, SessionTypes
<1>2. CASE RevokeKey(r)
  <2>1. Tail(req[r].todo) \in SessionList
    BY <1>0, <1>2 DEF RevokeKey, SessionList
  <2>2. req' \in [Request -> RequestState]
    BY <1>2, <2>1 DEF RevokeKey, SessionTypes, RequestState
  <2>3. refreshKeys' \subseteq Jti
    BY <1>2 DEF RevokeKey, Stored, SessionTypes
  <2> QED BY <1>0, <1>2, <2>2, <2>3, AccessUntouched DEF RevokeKey, SessionTypes
<1>3. CASE RevokeList(r)
  <2>1. req' \in [Request -> RequestState]
    BY <1>3, ProceedType DEF RevokeList, SessionTypes, Step, Steps
  <2>2. sessions' \in SessionList
    BY <1>0, <1>3 DEF RevokeList, Stored, SessionTypes
  <2> QED BY <1>0, <1>3, <2>1, <2>2, AccessUntouched DEF RevokeList, SessionTypes
<1> QED BY <1>1, <1>2, <1>3

\* Steps of the access-token part: increments, checks, expiry, a block.
LEMMA AccessTypes ==
  ASSUME SessionTypes,
         \/ \E r \in Request : TV!ReadVersion(r) \/ TV!WriteVersion(r) \/ TV!ClearCache(r)
         \/ \E c \in Checker : TV!CheckStep(c)
         \/ TV!CacheExpires \/ TV!Deactivate
  PROVE  TV!VersionTypeOK' /\ UNCHANGED issued
<1> USE DEF TV!VersionTypeOK
<1>0. TV!VersionTypeOK
  BY DEF SessionTypes
<1>1. ASSUME NEW r \in Request, TV!ReadVersion(r) PROVE TV!VersionTypeOK' /\ UNCHANGED issued
  BY <1>0, <1>1 DEF TV!ReadVersion
<1>2. ASSUME NEW r \in Request, TV!WriteVersion(r) PROVE TV!VersionTypeOK' /\ UNCHANGED issued
  BY <1>0, <1>2 DEF TV!WriteVersion, TV!NextVersion
<1>3. ASSUME NEW r \in Request, TV!ClearCache(r) PROVE TV!VersionTypeOK' /\ UNCHANGED issued
  <2>1. versionCache' \in Nat \cup {NoVersion} /\ staleFill' \in BOOLEAN
    BY <1>0, <1>3 DEF TV!ClearCache, TV!Stored
  <2> QED BY <1>0, <1>3, <2>1 DEF TV!ClearCache
<1>4. ASSUME NEW c \in Checker, TV!Present(c) PROVE TV!VersionTypeOK' /\ UNCHANGED issued
  <2>1. PICK v \in Nat : check' = [check EXCEPT ![c].pc = "lookup", ![c].token = v]
    BY <1>0, <1>4 DEF TV!Present
  <2>2. check' \in [Checker -> [pc : {"idle", "lookup", "read", "fill", "accepted",
                                      "rejected"}, token : Nat, seen : Nat]]
    BY <1>0, <2>1
  <2> QED BY <1>0, <1>4, <2>2 DEF TV!Present
<1>5. ASSUME NEW c \in Checker, TV!LookupCache(c) PROVE TV!VersionTypeOK' /\ UNCHANGED issued
  BY <1>0, <1>5 DEF TV!LookupCache, TV!Verdict
<1>6. ASSUME NEW c \in Checker, TV!ReadDatabase(c) PROVE TV!VersionTypeOK' /\ UNCHANGED issued
  BY <1>0, <1>6 DEF TV!ReadDatabase
<1>7. ASSUME NEW c \in Checker, TV!FillCache(c) PROVE TV!VersionTypeOK' /\ UNCHANGED issued
  BY <1>0, <1>7 DEF TV!FillCache, TV!Filling, TV!Verdict
<1>8. CASE TV!CacheExpires
  BY <1>0, <1>8 DEF TV!CacheExpires
<1>9. CASE TV!Deactivate
  BY <1>0, <1>9 DEF TV!Deactivate
<1> QED BY <1>1, <1>2, <1>3, <1>4, <1>5, <1>6, <1>7, <1>8, <1>9 DEF TV!CheckStep

LEMMA IncrementTypes ==
  ASSUME SessionTypes, NEW r \in Request, Increment(r)
  PROVE  SessionTypes'
<1>1. TV!VersionTypeOK' /\ UNCHANGED redis /\ UNCHANGED delivered
  BY AccessTypes DEF Increment
<1>2. req' \in [Request -> RequestState]
  BY EmptyList, ProceedWithType DEF Increment, End, SessionTypes, Step, Final
<1> QED BY <1>1, <1>2 DEF SessionTypes, redis

LEMMA InitTypes == Init => SessionTypes
<1> SUFFICES ASSUME Init PROVE SessionTypes
  OBVIOUS
<1>1. sessions \in SessionList
  BY DEF Init, InitialList, SessionList, Jti, InitialJtis
<1>2. req \in [Request -> RequestState]
  BY EmptyList DEF Init, RequestState, Ops
<1>3. TV!VersionTypeOK
  <2>1. writer \in [Request -> [pc : {"idle", "write", "clear", "done", "aborted", "uncleared"},
                                seen : Nat]]
    BY DEF Init, TV!VersionInit
  <2>2. check \in [Checker -> [pc : {"idle", "lookup", "read", "fill", "accepted", "rejected"},
                               token : Nat, seen : Nat]]
    BY DEF Init, TV!VersionInit
  <2> QED BY <2>1, <2>2 DEF Init, TV!VersionInit, TV!VersionTypeOK, TV!InitialVersion
<1> QED BY <1>1, <1>2, <1>3 DEF Init, SessionTypes, Jti

LEMMA NewRequestFacts ==
  ASSUME SessionTypes, NEW r \in Request, NewRequest(r)
  PROVE  /\ SessionTypes'
         /\ loginLock' = loginLock
         /\ \A q \in Request \ {r} : req'[q] = req[q]
         /\ req'[r].pc \in {"lock", "lookup", "forget", "revRead"}
         /\ req'[r].pc = "lookup" => req'[r].op = "refresh"
<1> USE DEF Step, Steps, Ops
<1>1. CASE CreateSession(r)
  BY <1>1, ArriveType DEF CreateSession
<1>2. CASE RefreshToken(r)
  <2>1. PICK j \in delivered : Arrive(r, "refresh", j, "lookup")
    BY <1>2 DEF RefreshToken
  <2> QED BY <2>1, ArriveType DEF SessionTypes
<1>3. CASE Logout(r)
  <2>1. PICK j \in delivered : Arrive(r, "logout", j, "forget")
    BY <1>3 DEF Logout
  <2> QED BY <2>1, ArriveType DEF SessionTypes
<1>4. CASE LogoutAllDevices(r)
  BY <1>4, ArriveType DEF LogoutAllDevices
<1> QED BY <1>1, <1>2, <1>3, <1>4 DEF NewRequest

LEMMA TypeStep == SessionTypes /\ [Next]_vars => SessionTypes'
<1> SUFFICES ASSUME SessionTypes, [Next]_vars PROVE SessionTypes'
  OBVIOUS
<1>1. ASSUME NEW r \in Request, NewRequest(r) PROVE SessionTypes'
  BY <1>1, NewRequestFacts
<1>2. ASSUME NEW r \in Request, Handle(r) PROVE SessionTypes'
  BY <1>2, CreateSessionTypes, RefreshTypes, LogoutTypes, RevokeTypes, IncrementTypes DEF Handle
<1>3. ASSUME NEW r \in Request, Crash(r) PROVE SessionTypes'
  <2>1. req' \in [Request -> RequestState]
    BY <1>3, EmptyList, ProceedWithType DEF Crash, End, SessionTypes, Step, Final
  <2>2. TV!VersionTypeOK'
    BY <1>3, AccessUntouched DEF Crash, SessionTypes, TV!VersionTypeOK, handed
  <2> QED BY <1>3, <2>1, <2>2 DEF Crash, SessionTypes, redis, handed
<1>4. CASE LockExpires
  <2>1. TV!VersionTypeOK'
    BY <1>4, AccessUntouched DEF LockExpires, SessionTypes, TV!VersionTypeOK, handed
  <2> QED BY <1>4, <2>1 DEF LockExpires, SessionTypes, handed
<1>5. CASE Block \/ Authenticate
  BY <1>5, AccessTypes DEF Block, Authenticate, SessionTypes, redis
<1>6. CASE UNCHANGED vars
  BY <1>6, AccessUntouched DEF vars, SessionTypes, TV!VersionTypeOK, redis, handed
<1> QED BY <1>1, <1>2, <1>3, <1>4, <1>5, <1>6 DEF Next

LEMMA TypesHold == Spec => []SessionTypes
BY InitTypes, TypeStep, PTL DEF Spec

\* What an instance lets happen never changes.
LEMMA WorkloadStays == Spec => [](workload \in Workloads)
<1>1. Init => workload \in Workloads
  BY DEF Init
<1>2. workload \in Workloads /\ [Next]_vars => (workload \in Workloads)'
  BY DEF Next, vars
<1> QED BY <1>1, <1>2, PTL DEF Spec

\* Keys, lists, locks and requests keep their types, for every workload.
THEOREM TypeCorrect == Spec => []TypeOK
<1>1. SessionTypes /\ workload \in Workloads => TypeOK
  BY DEF TypeOK
<1> QED BY <1>1, TypesHold, WorkloadStays, PTL

-----------------------------------------------------------------------------
(* The login lock.                                                         *)

\* What a request came for can be told from some of its steps: one that looks a
\* token up will store a key without the lock, one that unlocks had locked.
Consistent(r) ==
  /\ req[r].pc \in {"lookup", "findUser"} => req[r].op = "refresh"
  /\ req[r].pc \in {"maxRead", "evict", "unlock"} => req[r].op = "login"

LockInv == LockOwned /\ \A r \in Request : Consistent(r)

\* A step of r that leaves the lock alone and does not bring r into
\* createSession keeps the invariant.
LEMMA LockUntouched ==
  ASSUME LockInv, NEW r \in Request, loginLock' = loginLock,
         \A q \in Request \ {r} : req'[q] = req[q],
         Creating(r)' => Creating(r), Consistent(r)'
  PROVE  LockInv'
BY DEF LockInv, LockOwned, Creating, Consistent

LEMMA HandlersKeepLockInv ==
  ASSUME SessionTypes, LockInv, NEW r \in Request, Handle(r)
  PROVE  LockInv'
<1> USE DEF At, Step, Steps, Final
<1>0. /\ req \in [Request -> RequestState] /\ <<>> \in SessionList
      /\ r \in Jti /\ sessions \in SessionList
      /\ req[r].list \in SessionList /\ req[r].todo \in SessionList
      /\ Free \notin Request
  BY EmptyList DEF SessionTypes, RequestState, Jti, Request, Free
<1>1. CASE AcquireLock(r)
  <2>1. CASE LockFree /\ loginLock' = r /\ Proceed(r, "store")
    <3>1. \A q \in Request : ~Creating(q)
      BY <1>0, <2>1 DEF LockInv, LockOwned, LockFree
    <3>2. /\ req'[r].pc = "store"
          /\ \A q \in Request \ {r} : req'[q] = req[q]
      BY <1>0, <2>1, ProceedType
    <3> QED BY <2>1, <3>1, <3>2 DEF LockInv, LockOwned, Creating, Consistent
  <2>2. CASE /\ loginLock' \in IF loginLock = Free THEN {Free, r} ELSE {loginLock}
             /\ End(r, "refused")
    <3>1. /\ req'[r].pc = "refused"
          /\ \A q \in Request \ {r} : req'[q] = req[q]
      BY <1>0, <2>2, ProceedWithType DEF End
    <3>2. loginLock = Free => \A q \in Request : ~Creating(q)
      BY <1>0 DEF LockInv, LockOwned
    <3> QED BY <2>2, <3>1, <3>2 DEF LockInv, LockOwned, Creating, Consistent
  <2> QED BY <1>1, <2>1, <2>2 DEF AcquireLock
<1>2. CASE Unlock(r)
  <2>1. /\ req'[r].pc = "ok"
        /\ \A q \in Request \ {r} : req'[q] = req[q]
    BY <1>0, <1>2, ProceedWithType DEF Unlock, Deliver, End
  <2>2. Creating(r) /\ loginLock = r
    BY <1>2 DEF Unlock, LockInv, LockOwned, Creating, Consistent
  <2>3. \A q \in Request \ {r} : ~Creating(q)
    BY <2>2 DEF LockInv, LockOwned
  <2> QED BY <2>1, <2>3 DEF LockInv, LockOwned, Creating, Consistent
<1>3. CASE \/ StoreKey(r) \/ AddSessionWrite(r) \/ EvictEnd(r)
           \/ LookupKey(r) \/ ForgetKey(r) \/ RevokeList(r)
  <2>1. ASSUME NEW step \in Step, Proceed(r, step), loginLock' = loginLock,
               Creating(r) \/ req[r].op # "login" \/ step \in {"dropRead", "increment"},
               step = "findUser" => req[r].op = "refresh",
               step \in {"maxRead", "unlock"} => req[r].op = "login",
               step \notin {"lookup", "evict"}
        PROVE  LockInv'
    <3>1. /\ req'[r].pc = step /\ req'[r].op = req[r].op
          /\ \A q \in Request \ {r} : req'[q] = req[q]
      BY <1>0, <2>1, ProceedType
    <3> QED BY <2>1, <3>1, LockUntouched DEF Creating, Consistent
  <2>2. Consistent(r)
    BY DEF LockInv
  <2>3. CASE StoreKey(r)
    BY <2>1, <2>3 DEF StoreKey, Creating
  <2>4. CASE AddSessionWrite(r)
    <3>1. CASE req[r].op = "login"
      BY <2>1, <2>4, <3>1 DEF AddSessionWrite, Creating
    <3>2. CASE req[r].op # "login"
      BY <2>1, <2>4, <3>2 DEF AddSessionWrite, Creating
    <3> QED BY <3>1, <3>2
  <2>5. CASE EvictEnd(r)
    BY <2>1, <2>2, <2>5 DEF EvictEnd, Creating, Consistent
  <2>6. CASE LookupKey(r)
    <3>1. req[r].op = "refresh"
      BY <2>2, <2>6 DEF LookupKey, Consistent
    <3>2. PICK found \in Got(req[r].token \in refreshKeys, FALSE) :
            Proceed(r, IF found THEN "findUser" ELSE "revRead")
      BY <2>6 DEF LookupKey
    <3>3. Proceed(r, "findUser") \/ Proceed(r, "revRead")
      BY <3>2
    <3> QED BY <2>1, <2>6, <3>1, <3>3 DEF LookupKey, redis
  <2>7. CASE ForgetKey(r)
    BY <2>1, <2>7 DEF ForgetKey
  <2>8. CASE RevokeList(r)
    BY <2>1, <2>8 DEF RevokeList
  <2> QED BY <1>3, <2>3, <2>4, <2>5, <2>6, <2>7, <2>8
<1>4. CASE AddSessionRead(r)
  <2>1. PICK s \in Got(sessions, <<>>) :
          ProceedWith(r, "addWrite", WithSession(s, GenerateSecureId(r)), <<>>)
    BY <1>4 DEF AddSessionRead
  <2>2. WithSession(s, GenerateSecureId(r)) \in SessionList
    BY <1>0, <2>1, ListEdits DEF Got, GenerateSecureId
  <2>3. /\ req'[r].pc = "addWrite" /\ req'[r].op = req[r].op
        /\ \A q \in Request \ {r} : req'[q] = req[q]
    BY <1>0, <2>1, <2>2, ProceedWithType
  <2> QED BY <1>4, <2>3, LockUntouched DEF AddSessionRead, Creating, Consistent, redis
<1>5. CASE EnforceRead(r)
  <2>1. PICK s \in Got(sessions, <<>>) :
          IF Surplus(s) > 0
          THEN ProceedWith(r, "evict", SubSeq(s, Surplus(s) + 1, Len(s)),
                                       SubSeq(s, 1, Surplus(s)))
          ELSE ProceedWith(r, "unlock", <<>>, <<>>)
    BY <1>5 DEF EnforceRead
  <2>2. s \in SessionList
    BY <1>0, <2>1 DEF Got
  <2>3. /\ req'[r].pc \in {"evict", "unlock"} /\ req'[r].op = req[r].op
        /\ \A q \in Request \ {r} : req'[q] = req[q]
    BY <1>0, <2>1, <2>2, SurplusCuts, ProceedWithType
  <2>4. req[r].op = "login"
    BY <1>5 DEF EnforceRead, LockInv, Consistent
  <2> QED BY <1>5, <2>3, <2>4, LockUntouched DEF EnforceRead, Creating, Consistent, redis
<1>6. CASE Evict(r) \/ RevokeKey(r)
  <2>1. /\ req'[r].pc = req[r].pc /\ req'[r].op = req[r].op
        /\ \A q \in Request \ {r} : req'[q] = req[q]
    BY <1>0, <1>6 DEF Evict, RevokeKey, RequestState
  <2> QED BY <1>6, <2>1, LockUntouched DEF Evict, RevokeKey, Creating, Consistent, LockInv
<1>7. CASE FindUser(r)
  <2>1. /\ req'[r].pc \in {"store", "revRead"} /\ req'[r].op = req[r].op
        /\ \A q \in Request \ {r} : req'[q] = req[q]
    BY <1>0, <1>7 DEF FindUser, RequestState
  <2>2. req[r].op = "refresh"
    BY <1>7 DEF FindUser, LockInv, Consistent
  <2> QED BY <1>7, <2>1, <2>2, LockUntouched DEF FindUser, Creating, Consistent, redis
<1>8. CASE RotateOut(r) \/ DropSessionWrite(r)
  <2>1. /\ req'[r].pc = "ok"
        /\ \A q \in Request \ {r} : req'[q] = req[q]
    BY <1>0, <1>8, ProceedWithType DEF RotateOut, DropSessionWrite, Deliver, End
  <2> QED BY <1>8, <2>1, LockUntouched DEF RotateOut, DropSessionWrite, Creating, Consistent
<1>9. CASE DropSessionRead(r) \/ RevokeRead(r)
  <2>1. PICK list \in SessionList, todo \in SessionList :
          ProceedWith(r, req'[r].pc, list, todo) /\ req'[r].pc \in {"dropWrite", "revoke"}
    <3>1. CASE DropSessionRead(r)
      <4>1. PICK s \in SessionList : ProceedWith(r, "dropWrite", Without(s, req[r].token), <<>>)
        BY <1>0, <3>1 DEF DropSessionRead, Got
      <4>2. Without(s, req[r].token) \in SessionList
        BY RemoveType
      <4>3. req'[r].pc = "dropWrite"
        BY <1>0, <4>1, <4>2, ProceedWithType
      <4> QED BY <1>0, <4>1, <4>2, <4>3
    <3>2. CASE RevokeRead(r)
      <4>1. PICK s \in SessionList : ProceedWith(r, "revoke", <<>>, s)
        BY <1>0, <3>2 DEF RevokeRead, Got, ToRevoke
      <4>2. req'[r].pc = "revoke"
        BY <1>0, <4>1, ProceedWithType
      <4> QED BY <1>0, <4>1, <4>2
    <3> QED BY <1>9, <3>1, <3>2
  <2>2. \A q \in Request \ {r} : req'[q] = req[q]
    BY <1>0, <2>1, ProceedWithType
  <2> QED BY <1>9, <2>1, <2>2, LockUntouched
      DEF DropSessionRead, RevokeRead, Creating, Consistent, redis
<1>10. CASE Increment(r)
  <2>1. loginLock' = loginLock
    BY <1>10 DEF Increment, redis
  <2>2. CASE UNCHANGED req
    BY <2>1, <2>2 DEF LockInv, LockOwned, Creating, Consistent
  <2>3. CASE End(r, IF req[r].op = "logoutAll" THEN "ok" ELSE "refused")
    <3>1. /\ req'[r].pc \in {"ok", "refused"}
          /\ \A q \in Request \ {r} : req'[q] = req[q]
      BY <1>0, <2>3, ProceedWithType DEF End
    <3> QED BY <2>1, <3>1, LockUntouched DEF Creating, Consistent
  <2> QED BY <1>10, <2>2, <2>3 DEF Increment
<1> QED
  BY <1>1, <1>2, <1>3, <1>4, <1>5, <1>6, <1>7, <1>8, <1>9, <1>10 DEF Handle

\* A request inside createSession owns the login lock and so is alone there,
\* whatever crashes or fails, if no live holder outlasts the lock's 5 s
\* (createSession, lines 39-46 and 114-116).
THEOREM LockIsOwned ==
  ASSUME \A w \in Workloads : "slow" \notin w.happens
  PROVE  Spec => []LockOwned
<1>1. Init => LockInv
  BY DEF Init, LockInv, LockOwned, Creating, Consistent
<1>2. SessionTypes /\ workload \in Workloads /\ LockInv /\ [Next]_vars => LockInv'
  <2> SUFFICES ASSUME SessionTypes, workload \in Workloads, LockInv, [Next]_vars PROVE LockInv'
    OBVIOUS
  <2>1. ASSUME NEW r \in Request, NewRequest(r) PROVE LockInv'
    BY <2>1, NewRequestFacts, LockUntouched DEF Creating, Consistent
  <2>2. ASSUME NEW r \in Request, Handle(r) PROVE LockInv'
    BY <2>2, HandlersKeepLockInv
  <2>3. ASSUME NEW r \in Request, Crash(r) PROVE LockInv'
    <3>1. /\ req'[r].pc = "crashed"
          /\ \A q \in Request \ {r} : req'[q] = req[q]
      BY <2>3, EmptyList, ProceedWithType DEF Crash, End, SessionTypes, Step, Final
    <3> QED BY <2>3, <3>1, LockUntouched DEF Crash, redis, Creating, Consistent
  <2>4. CASE LockExpires
    <3>1. \A q \in Request : ~Creating(q)
      BY <2>4 DEF LockExpires, LockInv, LockOwned, Creating, Final
    <3> QED BY <2>4, <3>1 DEF LockExpires, LockInv, LockOwned, Creating, Consistent
  <2>5. CASE Block \/ Authenticate \/ UNCHANGED vars
    <3>1. UNCHANGED <<req, loginLock>>
      BY <2>5 DEF Block, Authenticate, vars, redis
    <3> QED BY <3>1 DEF LockInv, LockOwned, Creating, Consistent
  <2> QED BY <2>1, <2>2, <2>3, <2>4, <2>5 DEF Next
<1>3. LockInv => LockOwned
  BY DEF LockInv
<1> QED BY <1>1, <1>2, <1>3, TypesHold, WorkloadStays, PTL DEF Spec

-----------------------------------------------------------------------------
(* What the edits do to the entries of a list.                             *)

LEMMA Entries ==
  ASSUME NEW s \in SessionList
  PROVE  /\ Len(s) \in Nat
         /\ ToSet(s) \subseteq Jti
         /\ \A j : j \in ToSet(s) <=> \E i \in 1 .. Len(s) : s[i] = j
BY DEF SessionList, ToSet

LEMMA EmptyEntries == ToSet(<<>>) = {}
BY DEF ToSet

LEMMA AppendEntries ==
  ASSUME NEW s \in SessionList, NEW j \in Jti, j \notin ToSet(s)
  PROVE  /\ WithSession(s, j) = Append(s, j)
         /\ Append(s, j) \in SessionList
         /\ ToSet(Append(s, j)) = ToSet(s) \cup {j}
<1>1. WithSession(s, j) = Append(s, j)
  BY Entries DEF WithSession, Contains
<1>2. /\ Append(s, j) \in SessionList
      /\ Len(s) \in Nat /\ Len(Append(s, j)) = Len(s) + 1
      /\ \A i \in 1 .. Len(s) : Append(s, j)[i] = s[i]
      /\ Append(s, j)[Len(s) + 1] = j
  BY DEF SessionList
<1>3. \A x : x \in ToSet(Append(s, j)) <=> x \in ToSet(s) \cup {j}
  <2>1. ASSUME NEW x, x \in ToSet(Append(s, j)) PROVE x \in ToSet(s) \cup {j}
    <3>1. PICK i \in 1 .. Len(s) + 1 : Append(s, j)[i] = x
      <4>1. \E i \in 1 .. Len(Append(s, j)) : Append(s, j)[i] = x
        BY <1>2, <2>1, Entries
      <4> QED BY <1>2, <4>1
    <3>2. CASE i = Len(s) + 1
      BY <1>2, <3>1, <3>2
    <3>3. CASE i # Len(s) + 1
      <4>1. i \in 1 .. Len(s)
        BY <1>2, <3>1, <3>3
      <4> QED BY <1>2, <3>1, <4>1, Entries
    <3> QED BY <3>2, <3>3
  <2>2. ASSUME NEW x \in ToSet(s) PROVE x \in ToSet(Append(s, j))
    <3>1. PICK i \in 1 .. Len(s) : s[i] = x
      BY <2>2, Entries
    <3>2. i \in 1 .. Len(s) + 1 /\ Append(s, j)[i] = x
      BY <1>2, <3>1
    <3> QED BY <1>2, <3>2, Entries
  <2>3. j \in ToSet(Append(s, j))
    <3>1. Len(s) + 1 \in 1 .. Len(Append(s, j))
      BY <1>2
    <3> QED BY <1>2, <3>1, Entries
  <2> QED BY <2>1, <2>2, <2>3
<1> QED BY <1>1, <1>2, <1>3

LEMMA HeadEntries ==
  ASSUME NEW s \in SessionList, s # <<>>
  PROVE  /\ Head(s) \in ToSet(s)
         /\ ToSet(s) = {Head(s)} \cup ToSet(Tail(s))
<1>1. /\ Tail(s) \in SessionList /\ Len(s) \in Nat \ {0}
      /\ Len(Tail(s)) = Len(s) - 1
      /\ \A i \in 1 .. Len(s) - 1 : Tail(s)[i] = s[i + 1]
      /\ Head(s) = s[1]
  BY DEF SessionList
<1>2. ASSUME NEW j \in ToSet(s) PROVE j \in {Head(s)} \cup ToSet(Tail(s))
  <2>1. PICK i \in 1 .. Len(s) : s[i] = j
    BY Entries
  <2>2. CASE i = 1
    BY <1>1, <2>1, <2>2
  <2>3. CASE i # 1
    <3>1. i - 1 \in 1 .. Len(s) - 1 /\ Tail(s)[i - 1] = j
      <4>1. i - 1 \in 1 .. Len(s) - 1 /\ (i - 1) + 1 = i
        BY <1>1, <2>1, <2>3
      <4> QED BY <1>1, <2>1, <4>1
    <3> QED BY <1>1, <3>1, Entries
  <2> QED BY <2>2, <2>3
<1>3. Head(s) \in ToSet(s)
  <2>1. 1 \in 1 .. Len(s)
    BY <1>1
  <2> QED BY <1>1, <2>1, Entries
<1>4. ASSUME NEW j \in ToSet(Tail(s)) PROVE j \in ToSet(s)
  <2>1. PICK i \in 1 .. Len(s) - 1 : Tail(s)[i] = j
    <3>1. \E i \in 1 .. Len(Tail(s)) : Tail(s)[i] = j
      BY <1>1, <1>4, Entries
    <3> QED BY <1>1, <3>1
  <2>2. i + 1 \in 1 .. Len(s) /\ s[i + 1] = j
    BY <1>1, <2>1
  <2> QED BY <2>2, Entries
<1> QED BY <1>2, <1>3, <1>4

\* The two parts at a cut hold what the list held.
LEMMA CutEntries ==
  ASSUME NEW s \in SessionList, NEW k \in Nat, k <= Len(s)
  PROVE  /\ SubSeq(s, 1, k) \in SessionList /\ SubSeq(s, k + 1, Len(s)) \in SessionList
         /\ Len(SubSeq(s, k + 1, Len(s))) = Len(s) - k
         /\ ToSet(s) = ToSet(SubSeq(s, 1, k)) \cup ToSet(SubSeq(s, k + 1, Len(s)))
         /\ k < Len(s) => s[Len(s)] \in ToSet(SubSeq(s, k + 1, Len(s)))
         /\ \A j \in ToSet(SubSeq(s, 1, k)) : \E i \in 1 .. k : s[i] = j
<1> DEFINE a == SubSeq(s, 1, k)
           b == SubSeq(s, k + 1, Len(s))
<1>0. Len(s) \in Nat
  BY Entries
<1>1. /\ a \in SessionList /\ Len(a) = k
      /\ \A i \in 1 .. k : a[i] = s[i]
  <2>1. a \in SessionList
    BY <1>0, SubSeqProperties DEF SessionList
  <2>2. Len(a) = k /\ \A i \in 1 .. k : a[i] = s[i]
    BY <1>0, SubSeqProperties DEF SessionList
  <2> QED BY <2>1, <2>2
<1>2. /\ b \in SessionList /\ Len(b) = Len(s) - k
      /\ \A i \in 1 .. Len(s) - k : b[i] = s[k + i]
  <2>1. b \in SessionList
    BY <1>0, SubSeqProperties DEF SessionList
  <2>2. Len(b) = Len(s) - k /\ \A i \in 1 .. Len(s) - k : b[i] = s[k + i]
    BY <1>0, SubSeqProperties DEF SessionList
  <2> QED BY <2>1, <2>2
<1> HIDE DEF a, b
<1>3. ASSUME NEW j \in ToSet(s) PROVE j \in ToSet(a) \cup ToSet(b)
  <2>1. PICK i \in 1 .. Len(s) : s[i] = j
    BY Entries
  <2>2. CASE i <= k
    <3>1. i \in 1 .. k /\ a[i] = j
      BY <1>0, <1>1, <2>1, <2>2
    <3> QED BY <1>1, <3>1, Entries
  <2>3. CASE i > k
    <3>1. i - k \in 1 .. Len(s) - k /\ k + (i - k) = i
      BY <1>0, <2>1, <2>3
    <3>2. b[i - k] = j
      BY <1>2, <2>1, <3>1
    <3> QED BY <1>2, <3>1, <3>2, Entries
  <2> QED BY <1>0, <2>1, <2>2, <2>3
<1>4. ASSUME NEW j \in ToSet(a) PROVE j \in ToSet(s) /\ \E i \in 1 .. k : s[i] = j
  <2>1. PICK i \in 1 .. k : a[i] = j
    BY <1>1, Entries
  <2>2. i \in 1 .. Len(s) /\ s[i] = j
    BY <1>0, <1>1, <2>1
  <2> QED BY <2>1, <2>2, Entries
<1>5. ASSUME NEW j \in ToSet(b) PROVE j \in ToSet(s)
  <2>1. PICK i \in 1 .. Len(s) - k : b[i] = j
    BY <1>2, Entries
  <2>2. k + i \in 1 .. Len(s) /\ s[k + i] = j
    BY <1>0, <1>2, <2>1
  <2> QED BY <2>2, Entries
<1>6. ASSUME k < Len(s) PROVE s[Len(s)] \in ToSet(b)
  <2>1. Len(s) - k \in 1 .. Len(s) - k /\ k + (Len(s) - k) = Len(s)
    BY <1>0, <1>6
  <2>2. b[Len(s) - k] = s[Len(s)]
    BY <1>2, <2>1
  <2> QED BY <1>2, <2>1, <2>2, Entries
<1> QED BY <1>1, <1>2, <1>3, <1>4, <1>5, <1>6 DEF a, b

LEMMA WithoutEntries ==
  ASSUME NEW s \in SessionList, NEW j
  PROVE  ToSet(s) \ {j} \subseteq ToSet(Without(s, j)) /\ ToSet(Without(s, j)) \subseteq ToSet(s)
<1>0. Len(s) \in Nat
  BY Entries
<1>1. CASE Contains(s, j)
  <2> DEFINE i == CHOOSE i \in 1 .. Len(s) : s[i] = j
             a == SubSeq(s, 1, i - 1)
             b == SubSeq(s, i + 1, Len(s))
             w == a \o b
  <2>1. i \in 1 .. Len(s) /\ s[i] = j
    BY <1>1 DEF Contains
  <2>2. Without(s, j) = w
    BY <1>1 DEF Without, RemoveAt
  <2> HIDE DEF i
  <2>3. /\ a \in SessionList /\ Len(a) = i - 1
        /\ \A n \in 1 .. i - 1 : a[n] = s[n]
    <3>1. a \in SessionList
      BY <1>0, <2>1, SubSeqProperties DEF SessionList
    <3>2. Len(a) = i - 1 /\ \A n \in 1 .. i - 1 : a[n] = s[n]
      BY <1>0, <2>1, SubSeqProperties DEF SessionList
    <3> QED BY <3>1, <3>2
  <2>4. /\ b \in SessionList /\ Len(b) = Len(s) - i
        /\ \A n \in 1 .. Len(s) - i : b[n] = s[i + n]
    <3>1. b \in SessionList
      BY <1>0, <2>1, SubSeqProperties DEF SessionList
    <3>2. Len(b) = Len(s) - i /\ \A n \in 1 .. Len(s) - i : b[n] = s[i + n]
      BY <1>0, <2>1, SubSeqProperties DEF SessionList
    <3> QED BY <3>1, <3>2
  <2> HIDE DEF a, b
  <2>5. /\ w \in SessionList /\ Len(w) = Len(a) + Len(b)
        /\ \A n \in 1 .. Len(a) + Len(b) :
             w[n] = IF n <= Len(a) THEN a[n] ELSE b[n - Len(a)]
    BY <2>3, <2>4, ConcatProperties DEF SessionList
  <2> HIDE DEF w
  <2>6. ASSUME NEW x \in ToSet(s), x # j PROVE x \in ToSet(w)
    <3>1. PICK n \in 1 .. Len(s) : s[n] = x
      BY Entries
    <3>2. CASE n < i
      <4>1. n \in 1 .. i - 1 /\ n \in 1 .. Len(a) + Len(b) /\ n <= Len(a)
        BY <1>0, <2>1, <2>3, <2>4, <3>1, <3>2
      <4>2. w[n] = x
        BY <2>3, <2>5, <3>1, <4>1
      <4> QED BY <2>5, <4>1, <4>2, Entries
    <3>3. CASE n > i
      <4>1. /\ n - i \in 1 .. Len(s) - i /\ i + (n - i) = n
            /\ n - 1 \in 1 .. Len(a) + Len(b) /\ ~(n - 1 <= Len(a)) /\ n - 1 - Len(a) = n - i
        BY <1>0, <2>1, <2>3, <2>4, <3>1, <3>3
      <4>2. w[n - 1] = b[n - i]
        BY <2>5, <4>1
      <4>3. b[n - i] = x
        BY <2>4, <3>1, <4>1
      <4> QED BY <2>5, <4>1, <4>2, <4>3, Entries
    <3>4. n # i
      BY <2>1, <2>6, <3>1
    <3> QED BY <1>0, <2>1, <3>1, <3>2, <3>3, <3>4
  <2>7. ASSUME NEW x \in ToSet(w) PROVE x \in ToSet(s)
    <3>1. PICK n \in 1 .. Len(a) + Len(b) : w[n] = x
      BY <2>5, Entries
    <3>2. CASE n <= Len(a)
      <4>1. n \in 1 .. i - 1 /\ n \in 1 .. Len(s)
        BY <1>0, <2>1, <2>3, <3>1, <3>2
      <4>2. s[n] = x
        BY <2>3, <2>5, <3>1, <3>2, <4>1
      <4> QED BY <4>1, <4>2, Entries
    <3>3. CASE ~(n <= Len(a))
      <4>1. n - Len(a) \in 1 .. Len(s) - i /\ i + (n - Len(a)) \in 1 .. Len(s)
        BY <1>0, <2>1, <2>3, <2>4, <3>1, <3>3
      <4>2. s[i + (n - Len(a))] = x
        BY <2>4, <2>5, <3>1, <3>3, <4>1
      <4> QED BY <4>1, <4>2, Entries
    <3> QED BY <3>2, <3>3
  <2> QED BY <2>2, <2>6, <2>7
<1>2. CASE ~Contains(s, j)
  BY <1>2 DEF Without
<1> QED BY <1>1, <1>2

\* A list has no more entries than it is long.
LEMMA EntriesBound ==
  ASSUME NEW s \in SessionList
  PROVE  IsFiniteSet(ToSet(s)) /\ Cardinality(ToSet(s)) <= Len(s)
<1>1. Len(s) \in Nat /\ 1 .. Len(s) = DOMAIN s /\ s \in [1 .. Len(s) -> Jti]
  BY DEF SessionList
<1>2. s \in Surjection(1 .. Len(s), ToSet(s))
  BY <1>1 DEF Surjection, ToSet
<1>3. IsFiniteSet(1 .. Len(s)) /\ Cardinality(1 .. Len(s)) = Len(s)
  BY <1>1, FS_Interval
<1> QED BY <1>2, <1>3, FS_Surjection

-----------------------------------------------------------------------------
(* One request at a time on the sessions: because the requests come one    *)
(* after the other, or because they all log in, under the lock.            *)

Active(r) == req[r].pc \in Steps \ {"lock"}
Sole == \A q, r \in Request : Active(q) /\ Active(r) => q = r

Serial == \A q, r \in InFlight : q = r

LoginsOnly ==
  \A r \in Request : /\ At(r, "lock") => req[r].op = "login"
                     /\ Active(r) => Creating(r)

\* The last entry of s, and no other, is j.
Newest(s, j) ==
  /\ Len(s) > 0 /\ s[Len(s)] = j
  /\ \A i \in 1 .. Len(s) : s[i] = j => i = Len(s)

\* What a step of request r tells of keys, list and delivered tokens: q is its
\* record, live the tokens that would be accepted.
Course(q, r, keys, list, sent) ==
  LET live == sent \cap keys IN
  /\ q.pc = "lock" => q.op = "login"
  /\ q.pc = "lookup" => q.op = "refresh" /\ q.token \in sent
  /\ q.pc = "findUser" => q.op = "refresh" /\ q.token \in live
  /\ q.pc \in {"store", "addRead", "addWrite"}
     => q.op \in {"login", "refresh"} /\ (q.op = "refresh" => q.token \in live)
  /\ q.pc = "rotate" => q.op = "refresh" /\ q.token \in live
  /\ q.pc \in {"addRead", "addWrite", "maxRead", "evict", "unlock", "rotate"} => r \in keys
  /\ q.pc = "addWrite" => /\ live \subseteq ToSet(q.list)
                          /\ ToSet(q.list) \subseteq ToSet(list) \cup {r}
                          /\ Newest(q.list, r)
  /\ q.pc = "maxRead" => Newest(list, r)
  /\ q.pc \in {"rotate", "unlock"} => r \in ToSet(list)
  /\ q.pc = "evict" => /\ r \in ToSet(q.list) /\ r \notin ToSet(q.todo)
                       /\ live \subseteq ToSet(q.list) \cup ToSet(q.todo)
                       /\ ToSet(q.list) \subseteq ToSet(list)
                       /\ Len(q.list) <= MaxDevices
  /\ q.pc = "unlock" => Len(list) <= MaxDevices
  /\ q.pc \in {"dropRead", "dropWrite"} => q.token \notin keys
  /\ q.pc = "dropWrite" => /\ live \subseteq ToSet(q.list)
                           /\ ToSet(q.list) \subseteq ToSet(list)
  /\ q.pc = "revoke" => live \subseteq ToSet(q.todo)
  /\ q.pc = "increment" => live = {}

Before == {"idle", "lock", "lookup", "findUser", "store", "addRead"}

SessInv ==
  /\ NoOrphans
  /\ \A r \in Request : req[r].pc \in Before => r \notin ToSet(sessions)
  /\ \A r \in Request : r \in delivered => req[r].pc = "ok"
  /\ \A r \in Request : Course(req[r], r, refreshKeys, sessions, delivered)

\* What a step tells of versions.
VersionInv ==
  /\ \A v \in issued : v <= tokenVersion
  /\ \A r \in Request : req[r].version <= tokenVersion
  /\ \A r \in Request : ~At(r, "increment") /\ req[r].pc \notin Final => writer[r].pc = "idle"
  /\ \A r \in Request : At(r, "increment") /\ writer[r].pc = "write"
                        => writer[r].seen = tokenVersion
  /\ \A r \in Request : At(r, "increment") /\ writer[r].pc = "clear"
                        => \A v \in issued : v < tokenVersion

LEMMA Goes ==
  ASSUME SessionTypes, NEW r \in Request, NEW step, NEW list, NEW todo,
         ProceedWith(r, step, list, todo)
  PROVE  /\ req'[r].pc = step /\ req'[r].list = list /\ req'[r].todo = todo
         /\ req'[r].op = req[r].op /\ req'[r].token = req[r].token
         /\ req'[r].version = req[r].version
         /\ \A q \in Request \ {r} : req'[q] = req[q]
<1>1. req \in [Request -> RequestState]
  BY DEF SessionTypes
<1>2. req' = [req EXCEPT ![r] = [req[r] EXCEPT !.pc = step, !.list = list, !.todo = todo]]
  BY DEF ProceedWith
<1>3. req'[r] = [req[r] EXCEPT !.pc = step, !.list = list, !.todo = todo]
  BY <1>1, <1>2
<1>4. \A q \in Request \ {r} : req'[q] = req[q]
  BY <1>1, <1>2
<1> QED BY <1>1, <1>3, <1>4 DEF RequestState

LEMMA GoesOn ==
  ASSUME SessionTypes, NEW r \in Request, NEW step, Proceed(r, step)
  PROVE  /\ req'[r].pc = step /\ req'[r].list = req[r].list /\ req'[r].todo = req[r].todo
         /\ req'[r].op = req[r].op /\ req'[r].token = req[r].token
         /\ req'[r].version = req[r].version
         /\ \A q \in Request \ {r} : req'[q] = req[q]
<1>1. req \in [Request -> RequestState]
  BY DEF SessionTypes
<1>2. req'[r] = [req[r] EXCEPT !.pc = step]
  BY <1>1 DEF Proceed
<1>3. \A q \in Request \ {r} : req'[q] = req[q]
  BY <1>1 DEF Proceed
<1> QED BY <1>1, <1>2, <1>3 DEF RequestState

\* The bookkeeping of a step of r, once what it tells of r has been shown.
LEMMA SessFrame ==
  ASSUME SessionTypes, SessInv, NEW r \in Request, \A q \in Request \ {r} : req'[q] = req[q],
         (\A q \in Request \ {r} : ~Active(q)) \/ UNCHANGED <<refreshKeys, sessions, delivered>>,
         LiveTokens' \subseteq ToSet(sessions'),
         ToSet(sessions') \subseteq ToSet(sessions) \cup {r},
         req'[r].pc \in Before => /\ req[r].pc \in Before
                                  /\ ToSet(sessions') \subseteq ToSet(sessions),
         delivered' \subseteq delivered \cup {r}, r \in delivered' => req'[r].pc = "ok",
         Course(req'[r], r, refreshKeys', sessions', delivered')
  PROVE  SessInv'
<1>1. NoOrphans'
  BY DEF NoOrphans
<1>2. \A q \in Request : req'[q].pc \in Before => q \notin ToSet(sessions')
  BY DEF SessInv
<1>3. \A q \in Request : q \in delivered' => req'[q].pc = "ok"
  BY DEF SessInv
<1>4. ASSUME NEW q \in Request \ {r}
      PROVE  Course(req'[q], q, refreshKeys', sessions', delivered')
  <2>1. req'[q] = req[q] /\ Course(req[q], q, refreshKeys, sessions, delivered)
    BY <1>4 DEF SessInv
  <2>2. CASE UNCHANGED <<refreshKeys, sessions, delivered>>
    BY <2>1, <2>2
  <2>3. CASE ~Active(q)
    BY <2>1, <2>3 DEF Active, Course, Steps
  <2> QED BY <1>4, <2>2, <2>3
<1> QED BY <1>1, <1>2, <1>3, <1>4 DEF SessInv

\* A step that leaves keys, list and delivered tokens alone.
LEMMA SessQuiet ==
  ASSUME SessionTypes, SessInv, NEW r \in Request, \A q \in Request \ {r} : req'[q] = req[q],
         UNCHANGED <<refreshKeys, sessions, delivered>>, req[r].pc # "ok",
         req'[r].pc \in Before => req[r].pc \in Before,
         Course(req'[r], r, refreshKeys, sessions, delivered)
  PROVE  SessInv'
<1>1. LiveTokens' \subseteq ToSet(sessions')
  BY DEF SessInv, NoOrphans, LiveTokens
<1>2. r \notin delivered'
  BY DEF SessInv
<1> QED BY <1>1, <1>2, SessFrame

\* Nothing is told of a request that has ended.
LEMMA OverCourse ==
  ASSUME NEW q, NEW r, NEW keys, NEW list, NEW sent, q.pc \in Final
  PROVE  Course(q, r, keys, list, sent) /\ q.pc \notin Before
BY DEF Course, Final, Before

LEMMA LoginKeepsSess ==
  ASSUME SessionTypes, SessInv, ~RedisMayFail, NEW r \in Request,
         \A q \in Request \ {r} : ~Active(q),
         \/ StoreKey(r) \/ AddSessionRead(r) \/ AddSessionWrite(r)
         \/ EnforceRead(r) \/ Evict(r) \/ EvictEnd(r) \/ Unlock(r)
  PROVE  SessInv'
<1> USE DEF At
<1>0. /\ r \in Jti /\ sessions \in SessionList
      /\ req[r].list \in SessionList /\ req[r].todo \in SessionList
      /\ Course(req[r], r, refreshKeys, sessions, delivered)
      /\ LiveTokens \subseteq ToSet(sessions)
      /\ req[r].pc \in Before => r \notin ToSet(sessions)
      /\ req[r].pc # "ok" => r \notin delivered
  BY DEF SessionTypes, RequestState, Jti, SessInv, NoOrphans
<1>1. CASE StoreKey(r)
  <2>1. /\ refreshKeys' = refreshKeys \cup {r} /\ UNCHANGED <<sessions, delivered>>
        /\ req[r].pc = "store"
    BY <1>1 DEF StoreKey, Stored, GenerateSecureId, handed
  <2>2. /\ req'[r].pc = "addRead" /\ req'[r].op = req[r].op /\ req'[r].token = req[r].token
        /\ \A q \in Request \ {r} : req'[q] = req[q]
    BY <1>1, GoesOn DEF StoreKey
  <2>3. LiveTokens' = LiveTokens /\ r \notin delivered'
    BY <1>0, <2>1 DEF LiveTokens
  <2>4. Course(req'[r], r, refreshKeys', sessions', delivered')
    BY <1>0, <2>1, <2>2 DEF Course
  <2> QED BY <1>0, <2>1, <2>2, <2>3, <2>4, SessFrame DEF Before
<1>2. CASE AddSessionRead(r)
  <2>1. /\ ProceedWith(r, "addWrite", WithSession(sessions, r), <<>>)
        /\ UNCHANGED <<refreshKeys, sessions, delivered>> /\ req[r].pc = "addRead"
    BY <1>2 DEF AddSessionRead, Got, GenerateSecureId, redis, handed
  <2>2. /\ req'[r].pc = "addWrite" /\ req'[r].op = req[r].op /\ req'[r].token = req[r].token
        /\ req'[r].list = WithSession(sessions, r)
        /\ \A q \in Request \ {r} : req'[q] = req[q]
    <3> DEFINE list == WithSession(sessions, r)
    <3>1. ProceedWith(r, "addWrite", list, <<>>)
      BY <2>1
    <3> HIDE DEF list
    <3>2. /\ req'[r].pc = "addWrite" /\ req'[r].op = req[r].op /\ req'[r].token = req[r].token
          /\ req'[r].list = list
          /\ \A q \in Request \ {r} : req'[q] = req[q]
      BY <3>1, Goes
    <3> QED BY <3>2 DEF list
  <2>3. r \notin ToSet(sessions)
    BY <1>0, <2>1 DEF Before
  <2>4. req'[r].list = Append(sessions, r) /\ ToSet(req'[r].list) = ToSet(sessions) \cup {r}
    <3>1. /\ WithSession(sessions, r) = Append(sessions, r)
          /\ ToSet(Append(sessions, r)) = ToSet(sessions) \cup {r}
      BY <1>0, <2>3, AppendEntries
    <3> QED BY <2>2, <3>1
  <2>5. Newest(Append(sessions, r), r)
    <3>1. /\ Len(sessions) \in Nat /\ Len(Append(sessions, r)) = Len(sessions) + 1
          /\ Append(sessions, r)[Len(sessions) + 1] = r
          /\ \A i \in 1 .. Len(sessions) : Append(sessions, r)[i] = sessions[i]
      BY <1>0 DEF SessionList
    <3>2. \A i \in 1 .. Len(sessions) : sessions[i] # r
      BY <1>0, <2>3, Entries
    <3> QED BY <3>1, <3>2 DEF Newest
  <2>6. Course(req'[r], r, refreshKeys, sessions, delivered)
    BY <1>0, <2>1, <2>2, <2>4, <2>5 DEF Course, LiveTokens
  <2> QED BY <2>1, <2>2, <2>6, SessQuiet DEF Before
<1>3. CASE AddSessionWrite(r)
  <2>1. /\ sessions' = req[r].list /\ UNCHANGED <<refreshKeys, delivered>>
        /\ req[r].pc = "addWrite"
    BY <1>3 DEF AddSessionWrite, Stored, handed
  <2>2. /\ req'[r].pc = IF req[r].op = "login" THEN "maxRead" ELSE "rotate"
        /\ req'[r].op = req[r].op /\ req'[r].token = req[r].token
        /\ \A q \in Request \ {r} : req'[q] = req[q]
    BY <1>3, GoesOn DEF AddSessionWrite
  <2>3. /\ Newest(req[r].list, r) /\ req[r].op \in {"login", "refresh"}
        /\ req[r].op = "refresh" => req[r].token \in LiveTokens
        /\ LiveTokens \subseteq ToSet(req[r].list) /\ r \in refreshKeys
        /\ ToSet(req[r].list) \subseteq ToSet(sessions) \cup {r}
    BY <1>0, <2>1 DEF Course, LiveTokens
  <2>4. r \in ToSet(req[r].list)
    <3>1. Len(req[r].list) \in 1 .. Len(req[r].list) /\ req[r].list[Len(req[r].list)] = r
      BY <1>0, <2>3, Entries DEF Newest
    <3> QED BY <1>0, <3>1, Entries
  <2>5. Course(req'[r], r, refreshKeys', sessions', delivered')
    BY <2>1, <2>2, <2>3, <2>4 DEF Course, LiveTokens
  <2>6. LiveTokens' \subseteq ToSet(sessions') /\ r \notin delivered'
    BY <1>0, <2>1, <2>3 DEF LiveTokens
  <2> QED BY <2>1, <2>2, <2>3, <2>5, <2>6, SessFrame DEF Before
<1>4. CASE EnforceRead(r)
  <2>1. /\ UNCHANGED <<refreshKeys, sessions, delivered>> /\ req[r].pc = "maxRead"
        /\ IF Surplus(sessions) > 0
           THEN ProceedWith(r, "evict", SubSeq(sessions, Surplus(sessions) + 1, Len(sessions)),
                                        SubSeq(sessions, 1, Surplus(sessions)))
           ELSE ProceedWith(r, "unlock", <<>>, <<>>)
    BY <1>4 DEF EnforceRead, Got, redis, handed
  <2>2. Newest(sessions, r) /\ r \in refreshKeys
    BY <1>0, <2>1 DEF Course
  <2>3. Len(sessions) \in Nat
    BY <1>0, Entries
  <2>4. CASE Surplus(sessions) > 0
    <3> DEFINE n == Surplus(sessions)
               keep == SubSeq(sessions, n + 1, Len(sessions))
               drop == SubSeq(sessions, 1, n)
    <3>1. n \in Nat /\ n < Len(sessions) /\ Len(sessions) - n = MaxDevices
      BY <2>3, <2>4 DEF Surplus
    <3>3. /\ Len(keep) = MaxDevices
          /\ ToSet(sessions) = ToSet(drop) \cup ToSet(keep)
          /\ sessions[Len(sessions)] \in ToSet(keep)
          /\ \A j \in ToSet(drop) : \E i \in 1 .. n : sessions[i] = j
      BY <1>0, <3>1, CutEntries
    <3>6. ProceedWith(r, "evict", keep, drop)
      BY <2>1, <2>4
    <3> HIDE DEF keep, drop, n
    <3>2. /\ req'[r].pc = "evict" /\ req'[r].list = keep /\ req'[r].todo = drop
          /\ \A q \in Request \ {r} : req'[q] = req[q]
      BY <3>6, Goes
    <3>4. r \in ToSet(keep) /\ r \notin ToSet(drop)
      BY <2>2, <2>3, <3>1, <3>3 DEF Newest
    <3>5. Course(req'[r], r, refreshKeys, sessions, delivered)
      BY <1>0, <2>2, <3>2, <3>3, <3>4 DEF Course, LiveTokens
    <3> QED BY <2>1, <3>2, <3>5, SessQuiet DEF Before
  <2>5. CASE ~(Surplus(sessions) > 0)
    <3>1. /\ req'[r].pc = "unlock"
          /\ \A q \in Request \ {r} : req'[q] = req[q]
      BY <2>1, <2>5, Goes
    <3>2. Len(sessions) <= MaxDevices
      BY <2>3, <2>5 DEF Surplus
    <3>3. r \in ToSet(sessions)
      <4>1. Len(sessions) \in 1 .. Len(sessions) /\ sessions[Len(sessions)] = r
        BY <2>2, <2>3 DEF Newest
      <4> QED BY <1>0, <4>1, Entries
    <3>4. Course(req'[r], r, refreshKeys, sessions, delivered)
      BY <2>2, <3>1, <3>2, <3>3 DEF Course
    <3> QED BY <2>1, <3>1, <3>4, SessQuiet DEF Before
  <2> QED BY <2>4, <2>5
<1>5. CASE Evict(r)
  <2> DEFINE h == Head(req[r].todo)
             rest == Tail(req[r].todo)
  <2>1. /\ refreshKeys' = refreshKeys \ {h} /\ UNCHANGED <<sessions, delivered>>
        /\ req[r].pc = "evict" /\ req[r].todo # <<>>
        /\ ProceedWith(r, "evict", req[r].list, rest)
    <3>1. req' = [req EXCEPT ![r].pc = "evict", ![r].list = req[r].list, ![r].todo = rest]
      <4>1. req \in [Request -> RequestState] /\ req[r].pc = "evict"
        BY <1>5 DEF Evict, SessionTypes
      <4>2. req' = [req EXCEPT ![r] = [req[r] EXCEPT !.todo = rest]]
        BY <1>5 DEF Evict
      <4>3. [req[r] EXCEPT !.todo = rest]
              = [req[r] EXCEPT !.pc = "evict", !.list = req[r].list, !.todo = rest]
        BY <4>1 DEF RequestState
      <4> QED BY <4>2, <4>3
    <3> QED BY <1>5, <3>1 DEF Evict, Stored, handed, ProceedWith
  <2>2. ToSet(req[r].todo) = {h} \cup ToSet(rest)
    BY <1>0, <2>1, HeadEntries
  <2> HIDE DEF h, rest
  <2>3. /\ req'[r].pc = "evict" /\ req'[r].list = req[r].list /\ req'[r].todo = rest
        /\ \A q \in Request \ {r} : req'[q] = req[q]
    BY <2>1, Goes
  <2>4. /\ r \in refreshKeys /\ r \in ToSet(req[r].list) /\ r \notin ToSet(req[r].todo)
        /\ LiveTokens \subseteq ToSet(req[r].list) \cup ToSet(req[r].todo)
        /\ ToSet(req[r].list) \subseteq ToSet(sessions) /\ Len(req[r].list) <= MaxDevices
    BY <1>0, <2>1 DEF Course, LiveTokens
  <2>5. LiveTokens' = LiveTokens \ {h} /\ r \in refreshKeys' /\ r \notin delivered'
    BY <1>0, <2>1, <2>2, <2>4 DEF LiveTokens
  <2>6. LiveTokens' \subseteq ToSet(req[r].list) \cup ToSet(rest) /\ r \notin ToSet(rest)
    BY <2>2, <2>4, <2>5
  <2>7. Course(req'[r], r, refreshKeys', sessions', delivered')
    BY <2>1, <2>3, <2>4, <2>5, <2>6 DEF Course, LiveTokens
  <2> QED BY <1>0, <2>1, <2>3, <2>5, <2>7, SessFrame DEF Before
<1>6. CASE EvictEnd(r)
  <2>1. /\ sessions' = req[r].list /\ UNCHANGED <<refreshKeys, delivered>>
        /\ req[r].pc = "evict" /\ req[r].todo = <<>>
    BY <1>6 DEF EvictEnd, Stored, handed
  <2>2. req'[r].pc = "unlock" /\ \A q \in Request \ {r} : req'[q] = req[q]
    BY <1>6, GoesOn DEF EvictEnd
  <2>3. /\ r \in refreshKeys /\ r \in ToSet(req[r].list) /\ LiveTokens \subseteq ToSet(req[r].list)
        /\ ToSet(req[r].list) \subseteq ToSet(sessions) /\ Len(req[r].list) <= MaxDevices
    BY <1>0, <2>1, EmptyEntries DEF Course, LiveTokens
  <2>4. Course(req'[r], r, refreshKeys', sessions', delivered')
    BY <2>1, <2>2, <2>3 DEF Course
  <2>5. LiveTokens' \subseteq ToSet(sessions') /\ r \notin delivered'
    BY <1>0, <2>1, <2>3 DEF LiveTokens
  <2> QED BY <2>1, <2>2, <2>3, <2>4, <2>5, SessFrame DEF Before
<1>7. CASE Unlock(r)
  <2>1. /\ UNCHANGED <<refreshKeys, sessions>> /\ req[r].pc = "unlock"
        /\ delivered' = delivered \cup {r} /\ End(r, "ok")
    BY <1>7 DEF Unlock, Deliver
  <2>2. req'[r].pc = "ok" /\ \A q \in Request \ {r} : req'[q] = req[q]
    BY <2>1, Goes DEF End
  <2>3. r \in ToSet(sessions)
    BY <1>0, <2>1 DEF Course
  <2>4. LiveTokens' \subseteq ToSet(sessions')
    BY <1>0, <2>1, <2>3 DEF LiveTokens
  <2>5. /\ Course(req'[r], r, refreshKeys', sessions', delivered')
        /\ req'[r].pc \notin Before
    BY <2>2, OverCourse DEF Final
  <2> QED BY <2>1, <2>2, <2>4, <2>5, SessFrame
<1> QED BY <1>1, <1>2, <1>3, <1>4, <1>5, <1>6, <1>7

LEMMA RefreshKeepsSess ==
  ASSUME SessionTypes, SessInv, ~RedisMayFail, NEW r \in Request,
         \A q \in Request \ {r} : ~Active(q),
         LookupKey(r) \/ FindUser(r) \/ RotateOut(r)
  PROVE  SessInv'
<1> USE DEF At
<1>0. /\ Course(req[r], r, refreshKeys, sessions, delivered)
      /\ LiveTokens \subseteq ToSet(sessions)
      /\ req[r].pc # "ok" => r \notin delivered
  BY DEF SessInv, NoOrphans
<1>1. CASE LookupKey(r)
  <2>1. /\ UNCHANGED <<refreshKeys, sessions, delivered>> /\ req[r].pc = "lookup"
        /\ Proceed(r, IF req[r].token \in refreshKeys THEN "findUser" ELSE "revRead")
    BY <1>1 DEF LookupKey, Got, redis, handed
  <2>2. /\ req'[r].pc = IF req[r].token \in refreshKeys THEN "findUser" ELSE "revRead"
        /\ req'[r].op = req[r].op /\ req'[r].token = req[r].token
        /\ \A q \in Request \ {r} : req'[q] = req[q]
    BY <2>1, GoesOn
  <2>3. Course(req'[r], r, refreshKeys, sessions, delivered)
    BY <1>0, <2>1, <2>2 DEF Course
  <2> QED BY <2>1, <2>2, <2>3, SessQuiet DEF Before
<1>2. CASE FindUser(r)
  <2>1. UNCHANGED <<refreshKeys, sessions, delivered>> /\ req[r].pc = "findUser"
    BY <1>2 DEF FindUser, redis, handed
  <2>2. /\ req'[r].pc \in {"store", "revRead"}
        /\ req'[r].op = req[r].op /\ req'[r].token = req[r].token
        /\ \A q \in Request \ {r} : req'[q] = req[q]
    <3>1. req \in [Request -> RequestState]
      BY DEF SessionTypes
    <3>2. /\ req'[r] = [req[r] EXCEPT !.pc = IF active THEN "store" ELSE "revRead",
                                      !.version = tokenVersion]
          /\ \A q \in Request \ {r} : req'[q] = req[q]
      BY <1>2, <3>1 DEF FindUser
    <3> QED BY <3>1, <3>2 DEF RequestState
  <2>3. Course(req'[r], r, refreshKeys, sessions, delivered)
    BY <1>0, <2>1, <2>2 DEF Course
  <2> QED BY <2>1, <2>2, <2>3, SessQuiet DEF Before
<1>3. CASE RotateOut(r)
  <2>1. /\ UNCHANGED sessions /\ req[r].pc = "rotate"
        /\ refreshKeys' = refreshKeys \ {req[r].token}
        /\ delivered' = delivered \cup {r} /\ End(r, "ok")
    BY <1>3 DEF RotateOut, Deliver, Stored, WithoutOld
  <2>2. req'[r].pc = "ok" /\ \A q \in Request \ {r} : req'[q] = req[q]
    BY <2>1, Goes DEF End
  <2>3. r \in ToSet(sessions)
    BY <1>0, <2>1 DEF Course
  <2>4. LiveTokens' \subseteq ToSet(sessions')
    BY <1>0, <2>1, <2>3 DEF LiveTokens
  <2>5. /\ Course(req'[r], r, refreshKeys', sessions', delivered')
        /\ req'[r].pc \notin Before
    BY <2>2, OverCourse DEF Final
  <2> QED BY <2>1, <2>2, <2>4, <2>5, SessFrame
<1> QED BY <1>1, <1>2, <1>3

LEMMA LogoutKeepsSess ==
  ASSUME SessionTypes, SessInv, ~RedisMayFail, NEW r \in Request,
         \A q \in Request \ {r} : ~Active(q),
         ForgetKey(r) \/ DropSessionRead(r) \/ DropSessionWrite(r)
  PROVE  SessInv'
<1> USE DEF At
<1>0. /\ sessions \in SessionList
      /\ Course(req[r], r, refreshKeys, sessions, delivered)
      /\ LiveTokens \subseteq ToSet(sessions)
      /\ req[r].pc # "ok" => r \notin delivered
  BY DEF SessionTypes, SessInv, NoOrphans
<1>1. CASE ForgetKey(r)
  <2>1. /\ refreshKeys' = refreshKeys \ {req[r].token} /\ UNCHANGED <<sessions, delivered>>
        /\ req[r].pc = "forget"
    BY <1>1 DEF ForgetKey, Stored, handed
  <2>2. /\ req'[r].pc = "dropRead" /\ req'[r].token = req[r].token
        /\ \A q \in Request \ {r} : req'[q] = req[q]
    BY <1>1, GoesOn DEF ForgetKey
  <2>3. Course(req'[r], r, refreshKeys', sessions', delivered')
    BY <2>1, <2>2 DEF Course
  <2>4. LiveTokens' \subseteq ToSet(sessions') /\ r \notin delivered'
    BY <1>0, <2>1 DEF LiveTokens
  <2> QED BY <2>1, <2>2, <2>3, <2>4, SessFrame DEF Before
<1>2. CASE DropSessionRead(r)
  <2> DEFINE list == Without(sessions, req[r].token)
  <2>1. /\ ProceedWith(r, "dropWrite", list, <<>>)
        /\ UNCHANGED <<refreshKeys, sessions, delivered>> /\ req[r].pc = "dropRead"
    BY <1>2 DEF DropSessionRead, Got, redis, handed
  <2>2. /\ ToSet(sessions) \ {req[r].token} \subseteq ToSet(list)
        /\ ToSet(list) \subseteq ToSet(sessions)
    BY <1>0, WithoutEntries
  <2> HIDE DEF list
  <2>3. /\ req'[r].pc = "dropWrite" /\ req'[r].token = req[r].token /\ req'[r].list = list
        /\ \A q \in Request \ {r} : req'[q] = req[q]
    BY <2>1, Goes
  <2>4. req[r].token \notin refreshKeys
    BY <1>0, <2>1 DEF Course
  <2>5. Course(req'[r], r, refreshKeys, sessions, delivered)
    BY <1>0, <2>2, <2>3, <2>4 DEF Course, LiveTokens
  <2> QED BY <2>1, <2>3, <2>5, SessQuiet DEF Before
<1>3. CASE DropSessionWrite(r)
  <2>1. /\ sessions' = req[r].list /\ UNCHANGED <<refreshKeys, delivered>>
        /\ req[r].pc = "dropWrite" /\ End(r, "ok")
    BY <1>3 DEF DropSessionWrite, Stored, handed
  <2>2. req'[r].pc = "ok" /\ \A q \in Request \ {r} : req'[q] = req[q]
    BY <2>1, Goes DEF End
  <2>3. LiveTokens \subseteq ToSet(req[r].list) /\ ToSet(req[r].list) \subseteq ToSet(sessions)
    BY <1>0, <2>1 DEF Course, LiveTokens
  <2>4. LiveTokens' \subseteq ToSet(sessions')
    BY <2>1, <2>3 DEF LiveTokens
  <2>5. /\ Course(req'[r], r, refreshKeys', sessions', delivered')
        /\ req'[r].pc \notin Before
    BY <2>2, OverCourse DEF Final
  <2> QED BY <2>1, <2>2, <2>3, <2>4, <2>5, SessFrame
<1> QED BY <1>1, <1>2, <1>3

LEMMA RevokeKeepsSess ==
  ASSUME SessionTypes, SessInv, ~RedisMayFail, NEW r \in Request,
         \A q \in Request \ {r} : ~Active(q),
         RevokeRead(r) \/ RevokeKey(r) \/ RevokeList(r) \/ Increment(r)
  PROVE  SessInv'
<1> USE DEF At
<1>0. /\ sessions \in SessionList /\ req[r].todo \in SessionList
      /\ Course(req[r], r, refreshKeys, sessions, delivered)
      /\ LiveTokens \subseteq ToSet(sessions)
      /\ req[r].pc # "ok" => r \notin delivered
  BY DEF SessionTypes, RequestState, SessInv, NoOrphans
<1>1. CASE RevokeRead(r)
  <2>1. /\ ProceedWith(r, "revoke", <<>>, sessions)
        /\ UNCHANGED <<refreshKeys, sessions, delivered>> /\ req[r].pc = "revRead"
    BY <1>1 DEF RevokeRead, Got, ToRevoke, redis, handed
  <2>2. /\ req'[r].pc = "revoke" /\ req'[r].todo = sessions
        /\ \A q \in Request \ {r} : req'[q] = req[q]
    BY <2>1, Goes
  <2>3. Course(req'[r], r, refreshKeys, sessions, delivered)
    BY <1>0, <2>2 DEF Course, LiveTokens
  <2> QED BY <2>1, <2>2, <2>3, SessQuiet DEF Before
<1>2. CASE RevokeKey(r)
  <2> DEFINE h == Head(req[r].todo)
             rest == Tail(req[r].todo)
  <2>1. /\ refreshKeys' = refreshKeys \ {h} /\ UNCHANGED <<sessions, delivered>>
        /\ req[r].pc = "revoke" /\ req[r].todo # <<>>
        /\ req'[r].pc = "revoke" /\ req'[r].todo = rest
        /\ \A q \in Request \ {r} : req'[q] = req[q]
    <3>1. req \in [Request -> RequestState]
      BY DEF SessionTypes
    <3>2. /\ req'[r] = [req[r] EXCEPT !.todo = rest]
          /\ \A q \in Request \ {r} : req'[q] = req[q]
      BY <1>2, <3>1 DEF RevokeKey
    <3>3. req'[r].pc = req[r].pc /\ req'[r].todo = rest
      BY <3>1, <3>2 DEF RequestState
    <3> QED BY <1>2, <3>2, <3>3 DEF RevokeKey, Stored, handed
  <2>2. ToSet(req[r].todo) = {h} \cup ToSet(rest)
    BY <1>0, <2>1, HeadEntries
  <2> HIDE DEF h, rest
  <2>3. LiveTokens \subseteq ToSet(req[r].todo)
    BY <1>0, <2>1 DEF Course, LiveTokens
  <2>4. LiveTokens' = LiveTokens \ {h} /\ r \notin delivered'
    BY <1>0, <2>1 DEF LiveTokens
  <2>5. LiveTokens' \subseteq ToSet(rest)
    BY <2>2, <2>3, <2>4
  <2>6. Course(req'[r], r, refreshKeys', sessions', delivered')
    BY <2>1, <2>5 DEF Course, LiveTokens
  <2> QED BY <1>0, <2>1, <2>4, <2>6, SessFrame DEF Before
<1>3. CASE RevokeList(r)
  <2>1. /\ sessions' = <<>> /\ UNCHANGED <<refreshKeys, delivered>>
        /\ req[r].pc = "revoke" /\ req[r].todo = <<>>
    BY <1>3 DEF RevokeList, Stored, handed
  <2>2. req'[r].pc = "increment" /\ \A q \in Request \ {r} : req'[q] = req[q]
    BY <1>3, GoesOn DEF RevokeList
  <2>3. LiveTokens = {}
    BY <1>0, <2>1, EmptyEntries DEF Course, LiveTokens
  <2>4. LiveTokens' = {} /\ r \notin delivered' /\ ToSet(sessions') = {}
    BY <1>0, <2>1, <2>3, EmptyEntries DEF LiveTokens
  <2>5. Course(req'[r], r, refreshKeys', sessions', delivered')
    BY <2>2, <2>4 DEF Course, LiveTokens
  <2> QED BY <2>1, <2>2, <2>4, <2>5, SessFrame DEF Before
<1>4. CASE Increment(r)
  <2>1. UNCHANGED <<refreshKeys, sessions, delivered>> /\ req[r].pc = "increment"
    BY <1>4 DEF Increment, redis
  <2>2. CASE UNCHANGED req
    BY <1>0, <2>1, <2>2, SessQuiet DEF Before
  <2>3. CASE End(r, IF req[r].op = "logoutAll" THEN "ok" ELSE "refused")
    <3>1. /\ req'[r].pc \in {"ok", "refused"}
          /\ \A q \in Request \ {r} : req'[q] = req[q]
      BY <2>3, Goes DEF End
    <3>2. Course(req'[r], r, refreshKeys, sessions, delivered) /\ req'[r].pc \notin Before
      BY <3>1, OverCourse DEF Final
    <3> QED BY <2>1, <3>1, <3>2, SessQuiet
  <2> QED BY <1>4, <2>2, <2>3 DEF Increment
<1> QED BY <1>1, <1>2, <1>3, <1>4

-----------------------------------------------------------------------------
(* Who is active: what a step does to the course of the requests.          *)

LEMMA Arriving ==
  ASSUME SessionTypes, NEW r \in Request, NewRequest(r)
  PROVE  /\ \A q \in Request \ {r} : req'[q] = req[q]
         /\ req[r].pc = "idle" /\ Cardinality(InFlight) < workload.inFlight
         /\ UNCHANGED <<redis, access, handed>>
         /\ req'[r].version = tokenVersion
         /\ req'[r].op \in workload.happens
         /\ \/ req'[r].pc = "lock" /\ req'[r].op = "login"
            \/ req'[r].pc = "lookup" /\ req'[r].op = "refresh" /\ req'[r].token \in delivered
            \/ req'[r].pc = "forget" /\ req'[r].op = "logout"
            \/ req'[r].pc = "revRead" /\ req'[r].op = "logoutAll"
<1>0. req \in [Request -> RequestState]
  BY DEF SessionTypes
<1>1. ASSUME NEW op, NEW token, NEW step, Arrive(r, op, token, step)
      PROVE  /\ \A q \in Request \ {r} : req'[q] = req[q]
             /\ req[r].pc = "idle" /\ Cardinality(InFlight) < workload.inFlight
             /\ UNCHANGED <<redis, access, handed>> /\ op \in workload.happens
             /\ req'[r].version = tokenVersion /\ req'[r].op = op
             /\ req'[r].pc = step /\ req'[r].token = token
  <2>1. req'[r] = [req[r] EXCEPT !.pc = step, !.op = op, !.token = token,
                                 !.version = tokenVersion]
    BY <1>0, <1>1 DEF Arrive
  <2>2. \A q \in Request \ {r} : req'[q] = req[q]
    BY <1>0, <1>1 DEF Arrive
  <2>3. /\ req'[r].version = tokenVersion /\ req'[r].op = op
        /\ req'[r].pc = step /\ req'[r].token = token
    BY <1>0, <2>1 DEF RequestState
  <2> QED BY <1>1, <2>2, <2>3 DEF Arrive, At
<1>2. CASE CreateSession(r)
  BY <1>1, <1>2 DEF CreateSession
<1>3. CASE RefreshToken(r)
  <2>1. PICK j \in delivered : Arrive(r, "refresh", j, "lookup")
    BY <1>3 DEF RefreshToken
  <2> QED BY <1>1, <2>1
<1>4. CASE Logout(r)
  <2>1. PICK j \in delivered : Arrive(r, "logout", j, "forget")
    BY <1>4 DEF Logout
  <2> QED BY <1>1, <2>1
<1>5. CASE LogoutAllDevices(r)
  BY <1>1, <1>5 DEF LogoutAllDevices
<1> QED BY <1>2, <1>3, <1>4, <1>5 DEF NewRequest

LEMMA Crashing ==
  ASSUME SessionTypes, NEW r \in Request, Crash(r)
  PROVE  /\ \A q \in Request \ {r} : req'[q] = req[q]
         /\ req[r].pc \in Steps /\ req'[r].pc = "crashed"
         /\ req'[r].version = req[r].version /\ req'[r].op = req[r].op
         /\ UNCHANGED <<redis, access, handed>>
<1>1. ProceedWith(r, "crashed", <<>>, <<>>)
  BY DEF Crash, End
<1> QED BY <1>1, Goes DEF Crash, InFlight

\* Where a handler takes a request that came for op: from step p to step q.
Passes(op, p, q) ==
  \/ p = "lock" /\ q \in {"store", "refused"}
  \/ p = "store" /\ q = "addRead"
  \/ p = "addRead" /\ q = "addWrite"
  \/ p = "addWrite" /\ q = IF op = "login" THEN "maxRead" ELSE "rotate"
  \/ p = "maxRead" /\ q \in {"evict", "unlock"}
  \/ p = "evict" /\ q \in {"evict", "unlock"}
  \/ p \in {"unlock", "rotate", "dropWrite"} /\ q = "ok"
  \/ p = "lookup" /\ q \in {"findUser", "revRead"}
  \/ p = "findUser" /\ q \in {"store", "revRead"}
  \/ p = "forget" /\ q = "dropRead"
  \/ p = "dropRead" /\ q = "dropWrite"
  \/ p = "revRead" /\ q = "revoke"
  \/ p = "revoke" /\ q \in {"revoke", "increment"}
  \/ p = "increment" /\ q \in {"increment", "ok", "refused"}

LEMMA Handling ==
  ASSUME SessionTypes, NEW r \in Request, Handle(r)
  PROVE  /\ \A q \in Request \ {r} : req'[q] = req[q]
         /\ req'[r].op = req[r].op
         /\ req'[r].version \in {req[r].version, tokenVersion}
         /\ Passes(req[r].op, req[r].pc, req'[r].pc)
<1> DEFINE Goal == /\ \A q \in Request \ {r} : req'[q] = req[q]
                   /\ req'[r].op = req[r].op
                   /\ req'[r].version \in {req[r].version, tokenVersion}
                   /\ Passes(req[r].op, req[r].pc, req'[r].pc)
<1> SUFFICES Goal
  OBVIOUS
<1> USE DEF At
<1>0. req \in [Request -> RequestState]
  BY DEF SessionTypes
<1>1. ASSUME NEW step, Proceed(r, step), Passes(req[r].op, req[r].pc, step)
      PROVE  Goal
  BY <1>1, GoesOn
<1>2. ASSUME NEW step, NEW list, NEW todo, ProceedWith(r, step, list, todo),
             Passes(req[r].op, req[r].pc, step)
      PROVE  Goal
  BY <1>2, Goes
<1> HIDE DEF Goal
<1>3. CASE AcquireLock(r)
  <2>1. Proceed(r, "store") \/ ProceedWith(r, "refused", <<>>, <<>>)
    BY <1>3 DEF AcquireLock, End
  <2>2. Passes(req[r].op, req[r].pc, "store") /\ Passes(req[r].op, req[r].pc, "refused")
    BY <1>3 DEF AcquireLock, Passes
  <2> QED BY <1>1, <1>2, <2>1, <2>2
<1>4. CASE StoreKey(r)
  <2>1. Passes(req[r].op, req[r].pc, "addRead") /\ Proceed(r, "addRead")
    BY <1>4 DEF StoreKey, Passes
  <2> QED BY <1>1, <2>1
<1>5. CASE AddSessionRead(r)
  <2>1. \E list : ProceedWith(r, "addWrite", list, <<>>)
    BY <1>5 DEF AddSessionRead
  <2>2. Passes(req[r].op, req[r].pc, "addWrite")
    BY <1>5 DEF AddSessionRead, Passes
  <2> QED BY <1>2, <2>1, <2>2
<1>6. CASE AddSessionWrite(r)
  <2> DEFINE step == IF req[r].op = "login" THEN "maxRead" ELSE "rotate"
  <2>1. Proceed(r, step) /\ Passes(req[r].op, req[r].pc, step)
    BY <1>6 DEF AddSessionWrite, Passes
  <2> QED BY <1>1, <2>1
<1>7. CASE EnforceRead(r)
  <2>1. \E step \in {"evict", "unlock"} : \E list, todo : ProceedWith(r, step, list, todo)
    <3>1. PICK s \in Got(sessions, <<>>) :
            IF Surplus(s) > 0
            THEN ProceedWith(r, "evict", SubSeq(s, Surplus(s) + 1, Len(s)),
                                         SubSeq(s, 1, Surplus(s)))
            ELSE ProceedWith(r, "unlock", <<>>, <<>>)
      BY <1>7 DEF EnforceRead
    <3> QED BY <3>1
  <2>2. \A step \in {"evict", "unlock"} : Passes(req[r].op, req[r].pc, step)
    BY <1>7 DEF EnforceRead, Passes
  <2> QED BY <1>2, <2>1, <2>2
<1>8. CASE Evict(r) \/ RevokeKey(r)
  <2>1. /\ req'[r] = [req[r] EXCEPT !.todo = Tail(@)]
        /\ \A q \in Request \ {r} : req'[q] = req[q]
    BY <1>0, <1>8 DEF Evict, RevokeKey
  <2>2. /\ req'[r].op = req[r].op /\ req'[r].pc = req[r].pc
        /\ req'[r].version = req[r].version
    BY <1>0, <2>1 DEF RequestState
  <2>3. Passes(req[r].op, req[r].pc, req[r].pc)
    BY <1>8 DEF Evict, RevokeKey, Passes
  <2> QED BY <2>1, <2>2, <2>3 DEF Goal
<1>9. CASE EvictEnd(r)
  <2>1. Passes(req[r].op, req[r].pc, "unlock") /\ Proceed(r, "unlock")
    BY <1>9 DEF EvictEnd, Passes
  <2> QED BY <1>1, <2>1
<1>10. CASE Unlock(r) \/ RotateOut(r) \/ DropSessionWrite(r)
  <2>1. Passes(req[r].op, req[r].pc, "ok") /\ ProceedWith(r, "ok", <<>>, <<>>)
    BY <1>10 DEF Unlock, RotateOut, DropSessionWrite, Deliver, End, Passes
  <2> QED BY <1>2, <2>1
<1>11. CASE LookupKey(r)
  <2>1. Proceed(r, "findUser") \/ Proceed(r, "revRead")
    BY <1>11 DEF LookupKey
  <2>2. Passes(req[r].op, req[r].pc, "findUser") /\ Passes(req[r].op, req[r].pc, "revRead")
    BY <1>11 DEF LookupKey, Passes
  <2> QED BY <1>1, <2>1, <2>2
<1>12. CASE FindUser(r)
  <2>1. /\ req'[r] = [req[r] EXCEPT !.pc = IF active THEN "store" ELSE "revRead",
                                    !.version = tokenVersion]
        /\ \A q \in Request \ {r} : req'[q] = req[q]
    BY <1>0, <1>12 DEF FindUser
  <2>2. /\ req'[r].op = req[r].op /\ req'[r].version = tokenVersion
        /\ req'[r].pc = IF active THEN "store" ELSE "revRead"
    BY <1>0, <2>1 DEF RequestState
  <2>3. Passes(req[r].op, req[r].pc, req'[r].pc)
    BY <1>12, <2>2 DEF FindUser, Passes
  <2> QED BY <2>1, <2>2, <2>3 DEF Goal
<1>13. CASE ForgetKey(r)
  <2>1. Passes(req[r].op, req[r].pc, "dropRead") /\ Proceed(r, "dropRead")
    BY <1>13 DEF ForgetKey, Passes
  <2> QED BY <1>1, <2>1
<1>14. CASE DropSessionRead(r)
  <2>1. \E list : ProceedWith(r, "dropWrite", list, <<>>)
    BY <1>14 DEF DropSessionRead
  <2>2. Passes(req[r].op, req[r].pc, "dropWrite")
    BY <1>14 DEF DropSessionRead, Passes
  <2> QED BY <1>2, <2>1, <2>2
<1>15. CASE RevokeRead(r)
  <2>1. \E todo : ProceedWith(r, "revoke", <<>>, todo)
    BY <1>15 DEF RevokeRead
  <2>2. Passes(req[r].op, req[r].pc, "revoke")
    BY <1>15 DEF RevokeRead, Passes
  <2> QED BY <1>2, <2>1, <2>2
<1>16. CASE RevokeList(r)
  <2>1. Passes(req[r].op, req[r].pc, "increment") /\ Proceed(r, "increment")
    BY <1>16 DEF RevokeList, Passes
  <2> QED BY <1>1, <2>1
<1>17. CASE Increment(r)
  <2>1. \A step \in {"increment", "ok", "refused"} : Passes(req[r].op, req[r].pc, step)
    BY <1>17 DEF Increment, Passes
  <2>2. CASE UNCHANGED req
    <3>1. req[r].pc = "increment"
      BY <1>17 DEF Increment
    <3> QED BY <2>1, <2>2, <3>1 DEF Goal
  <2>3. CASE End(r, IF req[r].op = "logoutAll" THEN "ok" ELSE "refused")
    <3>1. ProceedWith(r, "ok", <<>>, <<>>) \/ ProceedWith(r, "refused", <<>>, <<>>)
      BY <2>3 DEF End
    <3> QED BY <1>2, <2>1, <3>1
  <2> QED BY <1>17, <2>2, <2>3 DEF Increment
<1> QED BY <1>3, <1>4, <1>5, <1>6, <1>7, <1>8, <1>9, <1>10, <1>11, <1>12, <1>13, <1>14,
           <1>15, <1>16, <1>17 DEF Handle

LEMMA Kinds ==
  ASSUME [Next]_vars
  PROVE  \/ \E r \in Request : NewRequest(r) \/ Handle(r) \/ Crash(r)
         \/ UNCHANGED <<req, refreshKeys, sessions, tokenVersion, writer, handed>>
<1>1. CASE LockExpires
  BY <1>1 DEF LockExpires, access
<1>2. CASE Block
  BY <1>2 DEF Block, TV!Deactivate, redis, handed
<1>3. CASE Authenticate
  <2>1. UNCHANGED <<req, refreshKeys, sessions, delivered>>
    BY <1>3 DEF Authenticate, redis
  <2>2. UNCHANGED <<tokenVersion, writer, issued>>
    BY <1>3 DEF Authenticate, TV!CheckStep, TV!CacheExpires, TV!Present, TV!LookupCache,
                TV!ReadDatabase, TV!FillCache
  <2> QED BY <2>1, <2>2 DEF handed
<1>4. CASE UNCHANGED vars
  BY <1>4 DEF vars, redis, access, handed
<1> QED BY <1>1, <1>2, <1>3, <1>4 DEF Next

LEMMA SerialKept ==
  ASSUME SessionTypes, workload \in Workloads, workload.inFlight <= 1, Serial, [Next]_vars
  PROVE  Serial'
<1>1. ASSUME NEW r \in Request, NewRequest(r) PROVE Serial'
  <2>1. IsFiniteSet(InFlight)
    <3>1. IsFiniteSet(Request)
      BY FS_Interval DEF Request
    <3> QED BY <3>1, FS_Subset DEF InFlight
  <2>2. InFlight = {}
    <3>1. Cardinality(InFlight) < 1 /\ Cardinality(InFlight) \in Nat
      BY <1>1, <2>1, Arriving, FS_CardinalityType
    <3>2. Cardinality(InFlight) = 0
      BY <3>1
    <3> QED BY <2>1, <3>2, FS_EmptySet
  <2>3. InFlight' \subseteq {r}
    BY <1>1, <2>2, Arriving DEF InFlight
  <2> QED BY <2>3 DEF Serial
<1>2. ASSUME NEW r \in Request, Handle(r) \/ Crash(r) PROVE Serial'
  <2>1. r \in InFlight /\ \A q \in Request \ {r} : req'[q] = req[q]
    BY <1>2, Handling, Crashing DEF InFlight, Passes, Steps
  <2>2. InFlight' \subseteq InFlight
    BY <2>1 DEF InFlight
  <2> QED BY <2>2 DEF Serial
<1>3. CASE UNCHANGED req
  BY <1>3 DEF Serial, InFlight
<1> QED BY <1>1, <1>2, <1>3, Kinds

\* Nothing but logins happens in a workload w.
OnlyLogins(w) == w.happens \cap {"refresh", "logout", "logoutAll"} = {}

\* Every request so far is a login.
AllLogins == \A r \in Request : At(r, "idle") \/ req[r].op = "login"

LEMMA LoginsKept ==
  ASSUME SessionTypes, LoginsOnly, OnlyLogins(workload) \/ AllLogins', [Next]_vars
  PROVE  LoginsOnly'
<1> USE DEF At, Active, Creating
<1>1. ASSUME NEW r \in Request, NewRequest(r) PROVE LoginsOnly'
  <2>1. /\ req'[r].pc = "lock" /\ req'[r].op = "login"
        /\ \A q \in Request \ {r} : req'[q] = req[q]
    BY <1>1, Arriving DEF OnlyLogins, AllLogins
  <2> QED BY <2>1 DEF LoginsOnly
<1>2. ASSUME NEW r \in Request, Handle(r) PROVE LoginsOnly'
  <2>1. /\ \A q \in Request \ {r} : req'[q] = req[q]
        /\ req'[r].op = req[r].op
        /\ Passes(req[r].op, req[r].pc, req'[r].pc)
    BY <1>2, Handling
  <2>2. /\ req[r].op = "login"
        /\ req[r].pc \in {"lock", "store", "addRead", "addWrite", "maxRead", "evict", "unlock"}
    BY <2>1 DEF LoginsOnly, Passes, Steps
  <2>3. req'[r].pc \in {"store", "addRead", "addWrite", "maxRead", "evict", "unlock"} \cup Final
    BY <2>1, <2>2 DEF Passes, Final
  <2>4. /\ req'[r].pc # "lock"
        /\ req'[r].pc \in Steps
           => req'[r].pc \in {"store", "addRead", "addWrite", "maxRead", "evict", "unlock"}
    BY <2>3 DEF Steps, Final
  <2> QED BY <2>1, <2>2, <2>4 DEF LoginsOnly
<1>3. ASSUME NEW r \in Request, Crash(r) PROVE LoginsOnly'
  <2>1. req'[r].pc = "crashed" /\ \A q \in Request \ {r} : req'[q] = req[q]
    BY <1>3, Crashing
  <2> QED BY <2>1 DEF LoginsOnly, Steps
<1>4. CASE UNCHANGED req
  BY <1>4 DEF LoginsOnly
<1> QED BY <1>1, <1>2, <1>3, <1>4, Kinds

\* Requests come one after the other, or they log in and the lock holds.
OneByOne ==
  /\ \A w \in Workloads : w.inFlight <= 1 \/ OnlyLogins(w)
  /\ \A w \in Workloads : "slow" \notin w.happens

LEMMA SoleHolds ==
  ASSUME OneByOne
  PROVE  Spec => []Sole
<1> DEFINE Orderly == \/ workload.inFlight <= 1 /\ Serial
                      \/ OnlyLogins(workload) /\ LoginsOnly
<1>1. Init => Orderly
  <2> SUFFICES ASSUME Init PROVE Serial /\ LoginsOnly
    BY DEF Init, OneByOne
  <2> QED BY DEF Init, Serial, LoginsOnly, InFlight, At, Active, Steps
<1>2. SessionTypes /\ workload \in Workloads /\ Orderly /\ [Next]_vars => Orderly'
  <2> SUFFICES ASSUME SessionTypes, workload \in Workloads, Orderly, [Next]_vars
               PROVE  Orderly'
    OBVIOUS
  <2>1. UNCHANGED workload
    BY DEF Next, vars
  <2>2. CASE workload.inFlight <= 1 /\ Serial
    BY <2>1, <2>2, SerialKept
  <2>3. CASE OnlyLogins(workload) /\ LoginsOnly
    BY <2>1, <2>3, LoginsKept DEF OnlyLogins
  <2> QED BY <2>2, <2>3
<1>3. Orderly /\ LockOwned => Sole
  BY DEF Serial, LoginsOnly, LockOwned, Sole, Active, InFlight
<1>4. Spec => []LockOwned
  BY LockIsOwned DEF OneByOne
<1> QED BY <1>1, <1>2, <1>3, <1>4, TypesHold, WorkloadStays, PTL DEF Spec

LEMMA SessKept ==
  ASSUME SessionTypes, SessInv, Sole, ~RedisMayFail, [Next]_vars
  PROVE  SessInv'
<1>1. ASSUME NEW r \in Request, NewRequest(r) PROVE SessInv'
  <2>1. /\ \A q \in Request \ {r} : req'[q] = req[q]
        /\ req[r].pc = "idle" /\ UNCHANGED <<refreshKeys, sessions, delivered>>
        /\ \/ req'[r].pc = "lock" /\ req'[r].op = "login"
           \/ req'[r].pc = "lookup" /\ req'[r].op = "refresh" /\ req'[r].token \in delivered
           \/ req'[r].pc \in {"forget", "revRead"}
    BY <1>1, Arriving DEF redis, handed
  <2>2. Course(req'[r], r, refreshKeys, sessions, delivered)
    BY <2>1 DEF Course
  <2> QED BY <2>1, <2>2, SessQuiet DEF Before
<1>2. ASSUME NEW r \in Request, Handle(r) PROVE SessInv'
  <2>1. /\ \A q \in Request \ {r} : req'[q] = req[q]
        /\ req'[r].op = req[r].op
        /\ Passes(req[r].op, req[r].pc, req'[r].pc)
    BY <1>2, Handling
  <2>2. CASE AcquireLock(r)
    <3>1. UNCHANGED <<refreshKeys, sessions, delivered>> /\ req[r].pc = "lock"
      BY <2>2 DEF AcquireLock, handed, At
    <3>2. req'[r].pc \in {"store", "refused"}
      BY <2>1, <3>1 DEF Passes
    <3>3. req[r].op = "login"
      BY <3>1 DEF SessInv, Course
    <3>4. Course(req'[r], r, refreshKeys, sessions, delivered)
      BY <2>1, <3>2, <3>3 DEF Course
    <3> QED BY <2>1, <3>1, <3>2, <3>4, SessQuiet DEF Before
  <2>3. CASE ~AcquireLock(r)
    <3>1. req[r].pc # "lock"
      BY <1>2, <2>3 DEF Handle, At, StoreKey, AddSessionRead, AddSessionWrite, EnforceRead,
         Evict, EvictEnd, Unlock, LookupKey, FindUser, RotateOut, ForgetKey, DropSessionRead,
         DropSessionWrite, RevokeRead, RevokeKey, RevokeList, Increment
    <3>2. Active(r)
      BY <2>1, <3>1 DEF Active, Passes, Steps
    <3>3. \A q \in Request \ {r} : ~Active(q)
      BY <3>2 DEF Sole
    <3> QED BY <1>2, <2>3, <3>3, LoginKeepsSess, RefreshKeepsSess, LogoutKeepsSess,
               RevokeKeepsSess DEF Handle
  <2> QED BY <2>2, <2>3
<1>3. ASSUME NEW r \in Request, Crash(r) PROVE SessInv'
  <2>1. /\ \A q \in Request \ {r} : req'[q] = req[q]
        /\ req[r].pc # "ok" /\ req'[r].pc = "crashed"
        /\ UNCHANGED <<refreshKeys, sessions, delivered>>
    BY <1>3, Crashing DEF redis, handed, Steps
  <2>2. Course(req'[r], r, refreshKeys, sessions, delivered) /\ req'[r].pc \notin Before
    BY <2>1, OverCourse DEF Final
  <2> QED BY <2>1, <2>2, SessQuiet
<1>4. CASE UNCHANGED <<req, refreshKeys, sessions, handed>>
  BY <1>4 DEF SessInv, NoOrphans, LiveTokens, handed
<1> QED BY <1>1, <1>2, <1>3, <1>4, Kinds

LEMMA SessStarts == Init => SessInv
<1> SUFFICES ASSUME Init PROVE SessInv
  OBVIOUS
<1>1. sessions = InitialList /\ InitialList \in SessionList
  BY InitTypes DEF Init, SessionTypes
<1>2. ToSet(sessions) = InitialJtis
  <2>1. ASSUME NEW j \in InitialJtis PROVE j \in ToSet(sessions)
    <3>1. /\ j + InitialDevices + 1 \in 1 .. InitialDevices
          /\ InitialList[j + InitialDevices + 1] = j /\ Len(InitialList) = InitialDevices
      BY <2>1 DEF InitialJtis, InitialList
    <3> QED BY <1>1, <3>1, Entries
  <2>2. ASSUME NEW j \in ToSet(sessions) PROVE j \in InitialJtis
    <3>1. PICK i \in 1 .. InitialDevices : InitialList[i] = j
      <4>1. Len(InitialList) = InitialDevices
        BY DEF InitialList
      <4> QED BY <1>1, <2>2, <4>1, Entries
    <3> QED BY <3>1 DEF InitialList, InitialJtis
  <2> QED BY <2>1, <2>2
<1>3. NoOrphans
  BY <1>2 DEF Init, NoOrphans, LiveTokens
<1>4. \A r \in Request : r \notin InitialJtis
  BY DEF Request, InitialJtis
<1>5. \A r \in Request : Course(req[r], r, refreshKeys, sessions, delivered)
  BY DEF Init, Course
<1> QED BY <1>2, <1>3, <1>4, <1>5 DEF Init, SessInv

LEMMA SessionsSound ==
  ASSUME OneByOne, ~RedisMayFail
  PROVE  Spec => []SessInv
<1>1. SessionTypes /\ SessInv /\ Sole /\ [Next]_vars => SessInv'
  BY SessKept
<1>2. Spec => []Sole
  BY SoleHolds
<1> QED BY <1>1, <1>2, SessStarts, TypesHold, PTL DEF Spec

\* As long as one request at a time is at work on them, the list leads to every
\* token that would be accepted, whatever crashes (addUserSession, line 260 to 278).
THEOREM ListHoldsAll ==
  ASSUME OneByOne, ~RedisMayFail
  PROVE  Spec => []NoOrphans
<1>1. SessInv => NoOrphans
  BY DEF SessInv
<1> QED BY <1>1, SessionsSound, PTL

\* Then revokeAllUserTokens, on request or at the reuse of a token, leaves none
\* (lines 236 to 251).
THEOREM RevocationEndsAll ==
  ASSUME OneByOne, ~RedisMayFail
  PROVE  Spec => []RevokedAll
<1>1. SessInv => RevokedAll
  BY DEF SessInv, Course, RevokedAll, At, LiveTokens
<1> QED BY <1>1, SessionsSound, PTL

-----------------------------------------------------------------------------
(* Versions.                                                               *)

\* A step that leaves the row of the user and the writers alone.
LEMMA VersionFrame ==
  ASSUME VersionInv, NEW r \in Request, \A q \in Request \ {r} : req'[q] = req[q],
         UNCHANGED <<tokenVersion, writer>>,
         req'[r].version <= tokenVersion,
         issued' \subseteq issued \cup {req[r].version},
         issued' = issued \/ \A q \in Request \ {r} : ~At(q, "increment"),
         ~At(r, "increment") /\ req[r].pc \notin Final,
         req'[r].pc # "increment" \/ At(r, "revoke")
  PROVE  VersionInv'
<1> USE DEF At
<1>1. \A v \in issued' : v <= tokenVersion'
  BY DEF VersionInv
<1>2. \A q \in Request : req'[q].version <= tokenVersion'
  BY DEF VersionInv
<1>3. writer[r].pc = "idle"
  BY DEF VersionInv
<1>4. \A q \in Request :
        req'[q].pc # "increment" /\ req'[q].pc \notin Final => writer'[q].pc = "idle"
  BY <1>3 DEF VersionInv
<1>5. \A q \in Request : req'[q].pc = "increment" /\ writer'[q].pc = "write"
                         => writer'[q].seen = tokenVersion'
  BY <1>3 DEF VersionInv
<1>6. \A q \in Request : req'[q].pc = "increment" /\ writer'[q].pc = "clear"
                         => \A v \in issued' : v < tokenVersion'
  BY <1>3 DEF VersionInv
<1> QED BY <1>1, <1>2, <1>4, <1>5, <1>6 DEF VersionInv

LEMMA IncrementKeepsVersions ==
  ASSUME SessionTypes, VersionInv, NEW r \in Request, Increment(r),
         \A q \in Request \ {r} : ~At(q, "increment")
  PROVE  VersionInv'
<1> USE DEF At
<1>0. /\ req[r].pc = "increment"
      /\ tokenVersion \in Nat /\ issued \subseteq Nat
      /\ writer \in [Request -> [pc : {"idle", "write", "clear", "done", "aborted", "uncleared"},
                                 seen : Nat]]
      /\ \A q \in Request : req[q].version \in Nat
  BY DEF Increment, SessionTypes, TV!VersionTypeOK, RequestState
<1>1. CASE TV!ReadVersion(r) /\ UNCHANGED req
  <2>1. /\ UNCHANGED <<tokenVersion, issued>>
        /\ writer'[r].pc = "write" /\ writer'[r].seen = tokenVersion
        /\ \A q \in Request \ {r} : writer'[q] = writer[q]
    BY <1>0, <1>1 DEF TV!ReadVersion
  <2> QED BY <1>0, <1>1, <2>1 DEF VersionInv
<1>2. CASE TV!WriteVersion(r) /\ UNCHANGED req
  <2>1. /\ writer[r].pc = "write" /\ tokenVersion' = writer[r].seen + 1 /\ UNCHANGED issued
        /\ writer'[r].pc = "clear"
        /\ \A q \in Request \ {r} : writer'[q] = writer[q]
    BY <1>0, <1>2 DEF TV!WriteVersion, TV!NextVersion
  <2>2. tokenVersion' = tokenVersion + 1
    BY <1>0, <2>1 DEF VersionInv
  <2>3. /\ \A v \in issued : v < tokenVersion'
        /\ \A q \in Request : req[q].version <= tokenVersion'
    <3>1. ASSUME NEW v \in Nat, v <= tokenVersion
          PROVE  v < tokenVersion' /\ v <= tokenVersion'
      <4>1. tokenVersion \in Nat
        BY <1>0
      <4> QED BY <2>2, <3>1, <4>1
    <3>2. /\ \A v \in issued : v <= tokenVersion /\ v \in Nat
          /\ \A q \in Request : req[q].version <= tokenVersion /\ req[q].version \in Nat
      BY <1>0 DEF VersionInv
    <3> QED BY <3>1, <3>2
  <2>4. \A v \in issued' : v <= tokenVersion'
    BY <1>0, <2>1, <2>2, <2>3
  <2> QED BY <1>0, <1>2, <2>1, <2>3, <2>4 DEF VersionInv
<1>3. CASE TV!ClearCache(r) /\ End(r, IF req[r].op = "logoutAll" THEN "ok" ELSE "refused")
  <2>1. /\ UNCHANGED <<tokenVersion, issued>>
        /\ \A q \in Request \ {r} : writer'[q] = writer[q]
    BY <1>0, <1>3 DEF TV!ClearCache
  <2>2. /\ req'[r].pc \in {"ok", "refused"} /\ req'[r].version = req[r].version
        /\ \A q \in Request \ {r} : req'[q] = req[q]
    BY <1>3, Goes DEF End
  <2>3. req'[r].pc \in Final /\ req'[r].pc # "increment"
    BY <2>2 DEF Final
  <2> QED BY <1>0, <2>1, <2>2, <2>3 DEF VersionInv
<1> QED BY <1>1, <1>2, <1>3 DEF Increment

\* Only an increment is at work on the row of the user; a delivery adds the
\* version that the request had read.
LEMMA Delivering ==
  ASSUME NEW r \in Request, Handle(r), ~Increment(r)
  PROVE  /\ UNCHANGED <<tokenVersion, writer>>
         /\ req[r].pc # "increment"
         /\ issued' \subseteq issued \cup {req[r].version}
         /\ issued' = issued \/ At(r, "unlock") \/ At(r, "rotate")
BY DEF Handle, At, AcquireLock, StoreKey, AddSessionRead, AddSessionWrite, EnforceRead,
   Evict, EvictEnd, Unlock, LookupKey, FindUser, RotateOut, ForgetKey, DropSessionRead,
   DropSessionWrite, RevokeRead, RevokeKey, RevokeList, Deliver, access, handed

LEMMA VersionKept ==
  ASSUME SessionTypes, VersionInv, Sole, [Next]_vars
  PROVE  VersionInv'
<1>0. /\ tokenVersion \in Nat
      /\ \A q \in Request : req[q].version <= tokenVersion
  BY DEF SessionTypes, TV!VersionTypeOK, VersionInv
<1>1. ASSUME NEW r \in Request, NewRequest(r) PROVE VersionInv'
  <2>1. /\ \A q \in Request \ {r} : req'[q] = req[q]
        /\ req[r].pc = "idle" /\ req'[r].version = tokenVersion /\ req'[r].pc # "increment"
        /\ UNCHANGED <<tokenVersion, writer, issued>>
    BY <1>1, Arriving DEF access, handed
  <2> QED BY <1>0, <2>1, VersionFrame DEF At, Final
<1>2. ASSUME NEW r \in Request, Handle(r) PROVE VersionInv'
  <2>1. /\ \A q \in Request \ {r} : req'[q] = req[q]
        /\ req'[r].version \in {req[r].version, tokenVersion}
        /\ Passes(req[r].op, req[r].pc, req'[r].pc)
    BY <1>2, Handling
  <2>2. CASE Increment(r)
    <3>1. Active(r)
      BY <2>2 DEF Increment, At, Active, Steps
    <3>2. \A q \in Request \ {r} : ~At(q, "increment")
      BY <3>1 DEF Sole, Active, At, Steps
    <3> QED BY <2>2, <3>2, IncrementKeepsVersions
  <2>3. CASE ~Increment(r)
    <3>1. /\ UNCHANGED <<tokenVersion, writer>>
          /\ req[r].pc # "increment"
          /\ issued' \subseteq issued \cup {req[r].version}
          /\ issued' = issued \/ At(r, "unlock") \/ At(r, "rotate")
      BY <1>2, <2>3, Delivering
    <3>2. issued' = issued \/ \A q \in Request \ {r} : ~At(q, "increment")
      BY <3>1 DEF Sole, Active, At, Steps
    <3>3. req[r].pc \notin Final /\ (req'[r].pc # "increment" \/ At(r, "revoke"))
      BY <2>1, <3>1 DEF Passes, Final, At
    <3>4. req'[r].version <= tokenVersion
      BY <1>0, <2>1
    <3> QED BY <2>1, <3>1, <3>2, <3>3, <3>4, VersionFrame DEF At
  <2> QED BY <2>2, <2>3
<1>3. ASSUME NEW r \in Request, Crash(r) PROVE VersionInv'
  <2>1. /\ \A q \in Request \ {r} : req'[q] = req[q]
        /\ req'[r].pc = "crashed" /\ req'[r].version = req[r].version
        /\ UNCHANGED <<tokenVersion, writer, issued>>
    BY <1>3, Crashing DEF access, handed
  <2>2. req'[r].pc \in Final /\ req'[r].pc # "increment"
    BY <2>1 DEF Final
  <2> QED BY <2>1, <2>2 DEF VersionInv, At
<1>4. CASE UNCHANGED <<req, tokenVersion, writer, handed>>
  BY <1>4 DEF VersionInv, At, handed
<1> QED BY <1>1, <1>2, <1>3, <1>4, Kinds

\* And every access token that was sent is out of date when the revocation ends
\* (incrementTokenVersion, line 251): nobody else has written the version
\* between its read and its write, nor signed a token after it.
THEOREM AccessIsOutdated ==
  ASSUME OneByOne
  PROVE  Spec => RevocationOutdatesAccess
<1> DEFINE Step1(r) == At(r, "increment") /\ req'[r].pc \in {"ok", "refused"}
                       => \A v \in issued : v < tokenVersion
<1>1. Init => VersionInv
  <2> SUFFICES ASSUME Init PROVE VersionInv
    OBVIOUS
  <2>1. TV!VersionInit
    BY DEF Init
  <2> QED BY <2>1 DEF Init, TV!VersionInit, TV!InitialVersion, VersionInv, At
<1>2. SessionTypes /\ VersionInv /\ Sole /\ [Next]_vars => VersionInv'
  BY VersionKept
<1>3. SessionTypes /\ VersionInv /\ [Next]_vars => \A r \in Request : Step1(r)
  <2> SUFFICES ASSUME SessionTypes, VersionInv, [Next]_vars, NEW r \in Request,
                      At(r, "increment"), req'[r].pc \in {"ok", "refused"}
               PROVE  \A v \in issued : v < tokenVersion
    OBVIOUS
  <2>1. ASSUME NEW q \in Request, NewRequest(q) PROVE FALSE
    <3>1. req[q].pc = "idle" /\ \A p \in Request \ {q} : req'[p] = req[p]
      BY <2>1, Arriving
    <3> QED BY <3>1 DEF At
  <2>2. ASSUME NEW q \in Request, Crash(q) PROVE FALSE
    <3>1. req'[q].pc = "crashed" /\ \A p \in Request \ {q} : req'[p] = req[p]
      BY <2>2, Crashing
    <3> QED BY <3>1 DEF At
  <2>3. ASSUME NEW q \in Request, Handle(q) PROVE \A v \in issued : v < tokenVersion
    <3>1. q = r
      BY <2>3, Handling DEF At
    <3>2. Increment(r)
      BY <2>3, <3>1, Delivering DEF At
    <3>3. req' # req
      BY DEF At
    <3>4. writer[r].pc = "clear"
      BY <3>2, <3>3 DEF Increment, TV!ClearCache
    <3> QED BY <3>4 DEF VersionInv
  <2>4. ~UNCHANGED req
    BY DEF At
  <2> QED BY <2>1, <2>2, <2>3, <2>4, Kinds
<1>4. Spec => []Sole
  BY SoleHolds
<1> QED BY <1>1, <1>2, <1>3, <1>4, TypesHold, PTL DEF Spec, RevocationOutdatesAccess

-----------------------------------------------------------------------------
(* The refinement.                                                         *)

Past == delivered \ refreshKeys

LEMMA StandardCardinality == \A S : Promised!Cardinality(S) = Cardinality(S)
BY Zenon DEF Promised!Cardinality, Cardinality

LEMMA ForgettingEnds ==
  ASSUME SessionTypes, NEW j, refreshKeys' = refreshKeys \ {j}, UNCHANGED delivered
  PROVE  [Promised!Next]_<<LiveTokens, Past>>
<1>1. CASE j \in LiveTokens
  <2>1. j \in Jti
    BY <1>1 DEF LiveTokens, SessionTypes
  <2>2. LiveTokens' = LiveTokens \ {j} /\ Past' = Past \cup {j}
    BY <1>1 DEF LiveTokens, Past
  <2>3. Promised!End(j)
    BY <1>1, <2>2 DEF Promised!End, Past
  <2> QED BY <2>1, <2>3 DEF Promised!Next
<1>2. CASE j \notin LiveTokens
  BY <1>2 DEF LiveTokens, Past
<1> QED BY <1>1, <1>2

LEMMA UnlockIssues ==
  ASSUME SessionTypes, SessInv, NEW r \in Request, Unlock(r)
  PROVE  Promised!Next
<1>1. /\ UNCHANGED refreshKeys /\ delivered' = delivered \cup {r} /\ req[r].pc = "unlock"
  BY DEF Unlock, Deliver, At
<1>2. /\ r \in refreshKeys /\ r \in ToSet(sessions) /\ Len(sessions) <= MaxDevices
      /\ LiveTokens \subseteq ToSet(sessions) /\ r \notin delivered
      /\ sessions \in SessionList /\ r \in Jti
  BY <1>1 DEF SessInv, Course, NoOrphans, SessionTypes, Jti
<1>3. Cardinality(LiveTokens) < MaxDevices
  <2>1. IsFiniteSet(ToSet(sessions)) /\ Cardinality(ToSet(sessions)) <= Len(sessions)
    BY <1>2, EntriesBound
  <2>2. LiveTokens \subseteq ToSet(sessions) \ {r}
    BY <1>2 DEF LiveTokens
  <2>3. /\ IsFiniteSet(ToSet(sessions) \ {r})
        /\ Cardinality(ToSet(sessions) \ {r}) = Cardinality(ToSet(sessions)) - 1
    BY <1>2, <2>1, FS_RemoveElement
  <2>4. /\ Cardinality(LiveTokens) <= Cardinality(ToSet(sessions) \ {r})
        /\ IsFiniteSet(LiveTokens)
    BY <2>2, <2>3, FS_Subset
  <2>5. Cardinality(LiveTokens) \in Nat /\ Cardinality(ToSet(sessions)) \in Nat
    BY <2>1, <2>4, FS_CardinalityType
  <2> QED BY <1>2, <2>1, <2>3, <2>4, <2>5, Entries
<1>4. LiveTokens' = LiveTokens \cup {r} /\ Past' = Past /\ r \notin LiveTokens \cup Past
  BY <1>1, <1>2 DEF LiveTokens, Past
<1>5. Promised!Issue(r)
  BY <1>2, <1>3, <1>4, StandardCardinality DEF Promised!Issue, Promised!Fresh, Past
<1> QED BY <1>2, <1>5 DEF Promised!Next

LEMMA RotationExchanges ==
  ASSUME SessionTypes, SessInv, ~RedisMayFail, NEW r \in Request, RotateOut(r)
  PROVE  Promised!Next
<1> DEFINE j == req[r].token
<1>1. /\ refreshKeys' = refreshKeys \ {j} /\ delivered' = delivered \cup {r}
      /\ req[r].pc = "rotate"
  BY DEF RotateOut, Deliver, Stored, WithoutOld, At
<1>2. /\ r \in refreshKeys /\ r \notin delivered /\ j \in LiveTokens /\ r \in Jti
  BY <1>1 DEF SessInv, Course, LiveTokens, Jti
<1>3. j \in Jti
  BY <1>2 DEF LiveTokens, SessionTypes
<1> HIDE DEF j
<1>4. /\ LiveTokens' = (LiveTokens \ {j}) \cup {r} /\ Past' = Past \cup {j}
      /\ r \notin LiveTokens \cup Past
  BY <1>1, <1>2 DEF LiveTokens, Past
<1>5. Promised!Exchange(j, r)
  BY <1>2, <1>4 DEF Promised!Exchange, Promised!Fresh, Past
<1> QED BY <1>2, <1>3, <1>5 DEF Promised!Next

LEMMA SessionsStep ==
  ASSUME SessionTypes, SessInv, ~RedisMayFail, [Next]_vars
  PROVE  [Promised!Next]_<<LiveTokens, Past>>
<1>1. CASE UNCHANGED <<refreshKeys, delivered>>
  BY <1>1 DEF LiveTokens, Past
<1>2. ASSUME NEW r \in Request, NewRequest(r) \/ Crash(r)
      PROVE  UNCHANGED <<refreshKeys, delivered>>
  BY <1>2, Arriving, Crashing DEF redis, handed
<1>3. ASSUME NEW r \in Request, Handle(r) PROVE [Promised!Next]_<<LiveTokens, Past>>
  <2>1. CASE Unlock(r)
    BY <2>1, UnlockIssues
  <2>2. CASE RotateOut(r)
    BY <2>2, RotationExchanges
  <2>3. CASE StoreKey(r)
    <3>1. /\ refreshKeys' = refreshKeys \cup {r} /\ UNCHANGED delivered /\ r \notin delivered
      BY <2>3 DEF StoreKey, Stored, GenerateSecureId, handed, At, SessInv
    <3> QED BY <3>1 DEF LiveTokens, Past
  <2>4. CASE Evict(r) \/ ForgetKey(r) \/ RevokeKey(r)
    <3>1. /\ \E j : refreshKeys' = refreshKeys \ {j}
          /\ UNCHANGED delivered
      BY <2>4 DEF Evict, ForgetKey, RevokeKey, Stored, handed
    <3> QED BY <3>1, ForgettingEnds
  <2>5. CASE \/ AcquireLock(r) \/ AddSessionRead(r) \/ AddSessionWrite(r) \/ EnforceRead(r)
             \/ EvictEnd(r) \/ LookupKey(r) \/ FindUser(r) \/ DropSessionRead(r)
             \/ DropSessionWrite(r) \/ RevokeRead(r) \/ RevokeList(r) \/ Increment(r)
    <3>1. UNCHANGED <<refreshKeys, delivered>>
      BY <2>5 DEF AcquireLock, AddSessionRead, AddSessionWrite, EnforceRead, EvictEnd, LookupKey,
         FindUser, DropSessionRead, DropSessionWrite, RevokeRead, RevokeList, Increment,
         redis, handed
    <3> QED BY <1>1, <3>1
  <2> QED BY <1>3, <2>1, <2>2, <2>3, <2>4, <2>5 DEF Handle
<1> QED BY <1>1, <1>2, <1>3, Kinds DEF handed

\* Seen through the tokens clients hold, the sessions implement RefreshSessions:
\* one token is issued, exchanged or ended at a time, and a new one is issued
\* only while fewer than MaxDevices are accepted.
THEOREM SessionsAreKept ==
  ASSUME OneByOne, ~RedisMayFail
  PROVE  Spec => KeepsSessions
<1>1. Init => LiveTokens = InitialJtis /\ Past = {}
  BY DEF Init, LiveTokens, Past
<1>2. Init => Promised!Init
  BY <1>1 DEF Promised!Init, Past
<1>3. SessionTypes /\ SessInv /\ [Next]_vars => [Promised!Next]_<<LiveTokens, Past>>
  BY SessionsStep
<1>4. SessionTypes /\ SessInv /\ [Next]_vars => [Promised!Next]_(Promised!vars)
  BY <1>3 DEF Promised!vars, Past
<1>5. Spec => []SessInv
  BY SessionsSound
<1> QED BY <1>2, <1>4, <1>5, TypesHold, PTL DEF Spec, KeepsSessions, Promised!Spec

-----------------------------------------------------------------------------
(* Who is evicted, when everybody logs in.                                 *)

\* The entries of s are different, and those that are dead come first.
Aging(s, keys) ==
  \A i, j \in 1 .. Len(s) : i < j => s[i] # s[j] /\ (s[i] \in keys => s[j] \in keys)

\* s is cut: p entries are deleted, todo are to be, list is what stays.
Cutting(list, todo, s, keys) ==
  LET p == Len(s) - MaxDevices - Len(todo) IN
  /\ p \in Nat
  /\ \A i \in 1 .. p : s[i] \notin keys
  /\ \A i \in 1 .. Len(todo) : todo[i] = s[p + i]
  /\ list = SubSeq(s, Len(s) - MaxDevices + 1, Len(s))

AgeInv ==
  /\ Aging(sessions, refreshKeys)
  /\ \A r \in Request : At(r, "addWrite") => Aging(req[r].list, refreshKeys)
  /\ \A r \in Request : At(r, "evict") => Cutting(req[r].list, req[r].todo, sessions, refreshKeys)

LEMMA AgeFrame ==
  ASSUME AgeInv, NEW r \in Request, \A q \in Request \ {r} : req'[q] = req[q],
         (\A q \in Request \ {r} : ~Active(q)) \/ UNCHANGED <<refreshKeys, sessions>>,
         Aging(sessions', refreshKeys'),
         req'[r].pc = "addWrite" => Aging(req'[r].list, refreshKeys'),
         req'[r].pc = "evict" => Cutting(req'[r].list, req'[r].todo, sessions', refreshKeys')
  PROVE  AgeInv'
<1> USE DEF At
<1>1. ASSUME NEW q \in Request, req'[q].pc = "addWrite" PROVE Aging(req'[q].list, refreshKeys')
  <2>1. CASE q # r
    <3>1. req'[q] = req[q] /\ UNCHANGED refreshKeys
      BY <1>1, <2>1 DEF Active, Steps
    <3> QED BY <1>1, <3>1 DEF AgeInv
  <2> QED BY <1>1, <2>1
<1>2. ASSUME NEW q \in Request, req'[q].pc = "evict"
      PROVE  Cutting(req'[q].list, req'[q].todo, sessions', refreshKeys')
  <2>1. CASE q # r
    <3>1. req'[q] = req[q] /\ UNCHANGED <<refreshKeys, sessions>>
      BY <1>2, <2>1 DEF Active, Steps
    <3> QED BY <1>2, <3>1 DEF AgeInv
  <2> QED BY <1>2, <2>1
<1> QED BY <1>1, <1>2 DEF AgeInv

\* A live session that is about to go is followed by MaxDevices live ones.
LEMMA SurplusIsAlive ==
  ASSUME SessionTypes, NEW list \in SessionList, NEW todo \in SessionList,
         Aging(sessions, refreshKeys), Cutting(list, todo, sessions, refreshKeys),
         todo # <<>>, Head(todo) \in refreshKeys
  PROVE  Cardinality(refreshKeys) > MaxDevices
<1> DEFINE p == Len(sessions) - MaxDevices - Len(todo)
           f == [i \in p + 1 .. Len(sessions) |-> sessions[i]]
<1>1. /\ sessions \in SessionList /\ Len(sessions) \in Nat
      /\ Len(todo) \in Nat \ {0} /\ Head(todo) = todo[1]
  BY DEF SessionTypes, SessionList
<1>2. p \in Nat /\ todo[1] = sessions[p + 1]
  <2>1. 1 \in 1 .. Len(todo)
    BY <1>1
  <2> QED BY <2>1 DEF Cutting
<1>3. p + 1 \in 1 .. Len(sessions) /\ Len(sessions) - p = MaxDevices + Len(todo)
  BY <1>1, <1>2
<1>4. /\ p \in Nat /\ sessions[p + 1] \in refreshKeys
  BY <1>1, <1>2
<1> HIDE DEF p
<1>5. \A i \in p + 1 .. Len(sessions) : i \in 1 .. Len(sessions) /\ sessions[i] \in refreshKeys
  <2> SUFFICES ASSUME NEW i \in p + 1 .. Len(sessions)
               PROVE  i \in 1 .. Len(sessions) /\ sessions[i] \in refreshKeys
    OBVIOUS
  <2>1. i \in 1 .. Len(sessions) /\ (i = p + 1 \/ p + 1 < i)
    BY <1>1, <1>4
  <2> QED BY <1>3, <1>4, <2>1 DEF Aging
<1>6. f \in Injection(p + 1 .. Len(sessions), refreshKeys)
  <2>1. f \in [p + 1 .. Len(sessions) -> refreshKeys]
    BY <1>5
  <2>2. ASSUME NEW i \in p + 1 .. Len(sessions), NEW j \in p + 1 .. Len(sessions), f[i] = f[j]
        PROVE  i = j
    <3>1. i \in 1 .. Len(sessions) /\ j \in 1 .. Len(sessions) /\ sessions[i] = sessions[j]
      BY <1>5, <2>2
    <3>2. ~(i < j) /\ ~(j < i)
      BY <3>1 DEF Aging
    <3> QED BY <3>1, <3>2
  <2> QED BY <2>1, <2>2 DEF Injection, IsInjective
<1>7. IsFiniteSet(refreshKeys) /\ Cardinality(refreshKeys) \in Nat
  <2>1. IsFiniteSet(Jti)
    <3>1. IsFiniteSet(-InitialDevices .. -1) /\ IsFiniteSet(1 .. Requests)
      BY FS_Interval
    <3> QED BY <3>1, FS_Union DEF Jti, InitialJtis, Request
  <2> QED BY <2>1, FS_Subset, FS_CardinalityType DEF SessionTypes
<1>8. Cardinality(p + 1 .. Len(sessions)) = Len(sessions) - p
  BY <1>1, <1>3, <1>4, FS_Interval
<1>9. Cardinality(p + 1 .. Len(sessions)) <= Cardinality(refreshKeys)
  BY <1>6, <1>7, FS_Injection
<1> QED BY <1>1, <1>3, <1>7, <1>8, <1>9

LEMMA LoginKeepsAge ==
  ASSUME SessionTypes, SessInv, AgeInv, ~RedisMayFail, NEW r \in Request,
         \A q \in Request \ {r} : ~Active(q),
         \/ StoreKey(r) \/ AddSessionRead(r) \/ AddSessionWrite(r)
         \/ EnforceRead(r) \/ Evict(r) \/ EvictEnd(r) \/ Unlock(r)
  PROVE  AgeInv'
<1> USE DEF At
<1>0. /\ r \in Jti /\ sessions \in SessionList /\ Len(sessions) \in Nat
      /\ req[r].list \in SessionList /\ req[r].todo \in SessionList
      /\ Course(req[r], r, refreshKeys, sessions, delivered)
      /\ req[r].pc \in Before => r \notin ToSet(sessions)
      /\ Aging(sessions, refreshKeys)
      /\ req[r].pc = "addWrite" => Aging(req[r].list, refreshKeys)
      /\ req[r].pc = "evict" => Cutting(req[r].list, req[r].todo, sessions, refreshKeys)
  BY DEF SessionTypes, RequestState, Jti, SessInv, AgeInv, SessionList
<1>1. CASE StoreKey(r)
  <2>1. /\ refreshKeys' = refreshKeys \cup {r} /\ UNCHANGED sessions /\ req[r].pc = "store"
    BY <1>1 DEF StoreKey, Stored, GenerateSecureId
  <2>2. req'[r].pc = "addRead" /\ \A q \in Request \ {r} : req'[q] = req[q]
    BY <1>1, GoesOn DEF StoreKey
  <2>3. \A i \in 1 .. Len(sessions) : sessions[i] # r
    BY <1>0, <2>1, Entries DEF Before
  <2>4. Aging(sessions', refreshKeys')
    BY <1>0, <2>1, <2>3 DEF Aging
  <2> QED BY <2>2, <2>4, AgeFrame
<1>2. CASE AddSessionRead(r)
  <2> DEFINE list == WithSession(sessions, r)
  <2>1. /\ ProceedWith(r, "addWrite", list, <<>>)
        /\ UNCHANGED <<refreshKeys, sessions>> /\ req[r].pc = "addRead"
    BY <1>2 DEF AddSessionRead, Got, GenerateSecureId, redis
  <2>2. r \notin ToSet(sessions) /\ r \in refreshKeys
    BY <1>0, <2>1 DEF Before, Course
  <2>3. list = Append(sessions, r)
    BY <1>0, <2>2, AppendEntries
  <2> HIDE DEF list
  <2>4. /\ req'[r].pc = "addWrite" /\ req'[r].list = list
        /\ \A q \in Request \ {r} : req'[q] = req[q]
    BY <2>1, Goes
  <2>5. Aging(list, refreshKeys)
    <3>1. /\ Len(list) = Len(sessions) + 1 /\ list[Len(sessions) + 1] = r
          /\ \A i \in 1 .. Len(sessions) : list[i] = sessions[i]
      BY <1>0, <2>3 DEF SessionList
    <3>2. \A i \in 1 .. Len(sessions) : list[i] # r
      BY <1>0, <2>2, <3>1, Entries
    <3> SUFFICES ASSUME NEW i \in 1 .. Len(list), NEW j \in 1 .. Len(list), i < j
                 PROVE  list[i] # list[j] /\ (list[i] \in refreshKeys => list[j] \in refreshKeys)
      BY DEF Aging
    <3>3. i \in 1 .. Len(sessions) /\ (j \in 1 .. Len(sessions) \/ j = Len(sessions) + 1)
      BY <1>0, <3>1
    <3>4. CASE j = Len(sessions) + 1
      BY <2>2, <3>1, <3>2, <3>3, <3>4
    <3>5. CASE j \in 1 .. Len(sessions)
      BY <1>0, <3>1, <3>3, <3>5 DEF Aging
    <3> QED BY <3>3, <3>4, <3>5
  <2> QED BY <1>0, <2>1, <2>4, <2>5, AgeFrame
<1>3. CASE AddSessionWrite(r)
  <2>1. /\ sessions' = req[r].list /\ UNCHANGED refreshKeys /\ req[r].pc = "addWrite"
    BY <1>3 DEF AddSessionWrite, Stored
  <2>2. /\ req'[r].pc \in {"maxRead", "rotate"}
        /\ \A q \in Request \ {r} : req'[q] = req[q]
    BY <1>3, GoesOn DEF AddSessionWrite
  <2> QED BY <1>0, <2>1, <2>2, AgeFrame
<1>4. CASE EnforceRead(r)
  <2>1. /\ UNCHANGED <<refreshKeys, sessions>>
        /\ IF Surplus(sessions) > 0
           THEN ProceedWith(r, "evict", SubSeq(sessions, Surplus(sessions) + 1, Len(sessions)),
                                        SubSeq(sessions, 1, Surplus(sessions)))
           ELSE ProceedWith(r, "unlock", <<>>, <<>>)
    BY <1>4 DEF EnforceRead, Got, redis
  <2>2. CASE Surplus(sessions) > 0
    <3> DEFINE n == Surplus(sessions)
               keep == SubSeq(sessions, n + 1, Len(sessions))
               drop == SubSeq(sessions, 1, n)
    <3>1. n \in Nat /\ n <= Len(sessions) /\ n = Len(sessions) - MaxDevices
      BY <1>0, <2>2 DEF Surplus
    <3>2. Len(drop) = n /\ \A i \in 1 .. n : drop[i] = sessions[i]
      BY <1>0, <3>1, SubSeqProperties DEF SessionList
    <3>3. ProceedWith(r, "evict", keep, drop)
      BY <2>1, <2>2
    <3>4. keep = SubSeq(sessions, Len(sessions) - MaxDevices + 1, Len(sessions))
      BY <3>1
    <3> HIDE DEF keep, drop, n
    <3>5. /\ req'[r].pc = "evict" /\ req'[r].list = keep /\ req'[r].todo = drop
          /\ \A q \in Request \ {r} : req'[q] = req[q]
      BY <3>3, Goes
    <3>6. Len(sessions) - MaxDevices - Len(drop) = 0
      BY <1>0, <3>1, <3>2
    <3>7. Cutting(keep, drop, sessions, refreshKeys)
      BY <3>1, <3>2, <3>4, <3>6 DEF Cutting
    <3> QED BY <1>0, <2>1, <3>5, <3>7, AgeFrame
  <2>3. CASE ~(Surplus(sessions) > 0)
    <3>1. /\ req'[r].pc = "unlock"
          /\ \A q \in Request \ {r} : req'[q] = req[q]
      BY <2>1, <2>3, Goes
    <3> QED BY <1>0, <2>1, <3>1, AgeFrame
  <2> QED BY <2>2, <2>3
<1>5. CASE Evict(r)
  <2> DEFINE todo == req[r].todo
             rest == Tail(todo)
             p == Len(sessions) - MaxDevices - Len(todo)
             gone == refreshKeys \ {Head(todo)}
  <2>1. /\ refreshKeys' = gone /\ UNCHANGED sessions
        /\ req[r].pc = "evict" /\ todo # <<>>
    BY <1>5 DEF Evict, Stored
  <2>2. /\ req'[r].pc = "evict" /\ req'[r].list = req[r].list /\ req'[r].todo = rest
        /\ \A q \in Request \ {r} : req'[q] = req[q]
    <3>1. req \in [Request -> RequestState]
      BY DEF SessionTypes
    <3>2. /\ req'[r] = [req[r] EXCEPT !.todo = rest]
          /\ \A q \in Request \ {r} : req'[q] = req[q]
      BY <1>5, <3>1 DEF Evict
    <3> QED BY <2>1, <3>1, <3>2 DEF RequestState
  <2>3. /\ Len(todo) \in Nat \ {0} /\ Head(todo) = todo[1] /\ Len(rest) = Len(todo) - 1
        /\ \A i \in 1 .. Len(todo) - 1 : rest[i] = todo[i + 1]
    BY <1>0, <2>1 DEF SessionList
  <2>4. /\ p \in Nat /\ \A i \in 1 .. p : sessions[i] \notin refreshKeys
        /\ \A i \in 1 .. Len(todo) : todo[i] = sessions[p + i]
        /\ req[r].list = SubSeq(sessions, Len(sessions) - MaxDevices + 1, Len(sessions))
    BY <1>0, <2>1 DEF Cutting
  <2>5. /\ Len(sessions) - MaxDevices - Len(rest) = p + 1
        /\ p + 1 \in 1 .. Len(sessions) /\ Head(todo) = sessions[p + 1]
    <3>1. 1 \in 1 .. Len(todo)
      BY <2>3
    <3>2. Head(todo) = sessions[p + 1]
      BY <2>3, <2>4, <3>1
    <3>3. Len(sessions) - MaxDevices - (Len(todo) - 1) = p + 1
      BY <1>0, <2>3
    <3>4. p + 1 <= Len(sessions)
      BY <1>0, <2>3
    <3>5. p + 1 \in 1 .. Len(sessions)
      <4> HIDE DEF p
      <4> QED BY <1>0, <2>4, <3>4
    <3> QED BY <2>3, <3>2, <3>3, <3>5
  <2> HIDE DEF p, rest, todo
  <2>6. \A i \in 1 .. Len(rest) : rest[i] = sessions[(p + 1) + i]
    <3> SUFFICES ASSUME NEW i \in 1 .. Len(rest) PROVE rest[i] = sessions[(p + 1) + i]
      OBVIOUS
    <3>1. i \in 1 .. Len(todo) - 1 /\ i + 1 \in 1 .. Len(todo) /\ p + (i + 1) = (p + 1) + i
      BY <2>3, <2>4
    <3> QED BY <2>3, <2>4, <3>1
  <2>7. \A i \in 1 .. p + 1 : sessions[i] \notin gone
    <3> SUFFICES ASSUME NEW i \in 1 .. p + 1 PROVE sessions[i] \notin gone
      OBVIOUS
    <3>1. i \in 1 .. p \/ i = p + 1
      BY <2>4
    <3> QED BY <2>4, <2>5, <3>1
  <2>8. Cutting(req[r].list, rest, sessions, gone)
    <3>1. p + 1 \in Nat
      BY <2>4
    <3> HIDE DEF gone
    <3> QED BY <2>4, <2>5, <2>6, <2>7, <3>1 DEF Cutting
  <2>9. Aging(sessions, gone)
    <3> SUFFICES ASSUME NEW i \in 1 .. Len(sessions), NEW j \in 1 .. Len(sessions), i < j
                 PROVE  sessions[i] # sessions[j] /\ (sessions[i] \in gone => sessions[j] \in gone)
      BY DEF Aging
    <3>1. sessions[i] # sessions[j] /\ (sessions[i] \in refreshKeys => sessions[j] \in refreshKeys)
      BY <1>0 DEF Aging
    <3>2. CASE j = p + 1
      <4>1. i \in 1 .. p + 1
        BY <2>4, <3>2
      <4> QED BY <2>7, <3>1, <4>1
    <3>3. CASE j # p + 1
      <4>1. sessions[j] # sessions[p + 1]
        <5>1. j < p + 1 \/ p + 1 < j
          BY <2>4, <3>3
        <5> QED BY <1>0, <2>5, <5>1 DEF Aging
      <4> QED BY <2>5, <3>1, <4>1
    <3> QED BY <3>2, <3>3
  <2> QED BY <2>1, <2>2, <2>8, <2>9, AgeFrame
<1>6. CASE EvictEnd(r)
  <2>1. /\ sessions' = req[r].list /\ UNCHANGED refreshKeys
        /\ req[r].pc = "evict" /\ req[r].todo = <<>>
    BY <1>6 DEF EvictEnd, Stored
  <2>2. req'[r].pc = "unlock" /\ \A q \in Request \ {r} : req'[q] = req[q]
    BY <1>6, GoesOn DEF EvictEnd
  <2>3. Len(sessions) - MaxDevices \in Nat
        /\ req[r].list = SubSeq(sessions, Len(sessions) - MaxDevices + 1, Len(sessions))
    <3>1. Len(req[r].todo) = 0
      BY <2>1
    <3> QED BY <1>0, <2>1, <3>1 DEF Cutting
  <2>4. Aging(req[r].list, refreshKeys)
    <3> DEFINE n == Len(sessions) - MaxDevices
               list == req[r].list
    <3>1. /\ Len(list) = Len(sessions) - n
          /\ \A i \in 1 .. Len(sessions) - n : list[i] = sessions[n + i]
      BY <1>0, <2>3, SubSeqProperties DEF SessionList
    <3>2. n \in Nat
      BY <2>3
    <3> HIDE DEF n, list
    <3>3. ASSUME NEW i \in 1 .. Len(list), NEW j \in 1 .. Len(list), i < j
          PROVE  list[i] # list[j] /\ (list[i] \in refreshKeys => list[j] \in refreshKeys)
      <4>1. /\ n + i \in 1 .. Len(sessions) /\ n + j \in 1 .. Len(sessions) /\ n + i < n + j
            /\ list[i] = sessions[n + i] /\ list[j] = sessions[n + j]
        BY <1>0, <3>1, <3>2, <3>3
      <4> QED BY <1>0, <4>1 DEF Aging
    <3>4. Aging(list, refreshKeys)
      BY <3>3 DEF Aging
    <3> QED BY <3>4 DEF list
  <2> QED BY <2>1, <2>2, <2>4, AgeFrame
<1>7. CASE Unlock(r)
  <2>1. UNCHANGED <<refreshKeys, sessions>> /\ End(r, "ok")
    BY <1>7 DEF Unlock, Deliver
  <2>2. req'[r].pc = "ok" /\ \A q \in Request \ {r} : req'[q] = req[q]
    BY <2>1, Goes DEF End
  <2> QED BY <1>0, <2>1, <2>2, AgeFrame
<1> QED BY <1>1, <1>2, <1>3, <1>4, <1>5, <1>6, <1>7

LEMMA AgeKept ==
  ASSUME SessionTypes, SessInv, AgeInv, Sole, LoginsOnly, ~RedisMayFail, [Next]_vars
  PROVE  AgeInv'
<1>0. Aging(sessions, refreshKeys)
  BY DEF AgeInv
<1>1. ASSUME NEW r \in Request, NewRequest(r) \/ Crash(r) PROVE AgeInv'
  <2>1. /\ \A q \in Request \ {r} : req'[q] = req[q]
        /\ UNCHANGED <<refreshKeys, sessions>>
        /\ req'[r].pc # "addWrite" /\ req'[r].pc # "evict"
    BY <1>1, Arriving, Crashing DEF redis
  <2> QED BY <1>0, <2>1, AgeFrame
<1>2. ASSUME NEW r \in Request, Handle(r) PROVE AgeInv'
  <2>1. /\ \A q \in Request \ {r} : req'[q] = req[q]
        /\ Passes(req[r].op, req[r].pc, req'[r].pc)
    BY <1>2, Handling
  <2>2. CASE AcquireLock(r)
    <3>1. UNCHANGED <<refreshKeys, sessions>> /\ req[r].pc = "lock"
      BY <2>2 DEF AcquireLock, At
    <3>2. req'[r].pc \in {"store", "refused"}
      BY <2>1, <3>1 DEF Passes
    <3> QED BY <1>0, <2>1, <3>1, <3>2, AgeFrame
  <2>3. CASE ~AcquireLock(r)
    <3>1. req[r].pc # "lock" /\ req[r].pc \in Steps
      BY <1>2, <2>1, <2>3 DEF Handle, At, StoreKey, AddSessionRead, AddSessionWrite, EnforceRead,
         Evict, EvictEnd, Unlock, LookupKey, FindUser, RotateOut, ForgetKey, DropSessionRead,
         DropSessionWrite, RevokeRead, RevokeKey, RevokeList, Increment, Passes, Steps
    <3>2. Active(r) /\ Creating(r)
      BY <3>1 DEF Active, LoginsOnly
    <3>3. \A q \in Request \ {r} : ~Active(q)
      BY <3>2 DEF Sole
    <3>4. \/ StoreKey(r) \/ AddSessionRead(r) \/ AddSessionWrite(r)
          \/ EnforceRead(r) \/ Evict(r) \/ EvictEnd(r) \/ Unlock(r)
      BY <1>2, <2>3, <3>2 DEF Handle, Creating, At, LookupKey, FindUser, RotateOut, ForgetKey,
         DropSessionRead, DropSessionWrite, RevokeRead, RevokeKey, RevokeList, Increment
    <3> QED BY <3>3, <3>4, LoginKeepsAge
  <2> QED BY <2>2, <2>3
<1>3. CASE UNCHANGED <<req, refreshKeys, sessions>>
  BY <1>3 DEF AgeInv, At
<1> QED BY <1>1, <1>2, <1>3, Kinds

\* What is known as long as everybody has only logged in.
LoginInv == AllLogins => LoginsOnly /\ SessInv /\ AgeInv

LEMMA LoginInvStarts == Init => LoginInv
<1> SUFFICES ASSUME Init PROVE LoginsOnly /\ SessInv /\ AgeInv
  BY DEF LoginInv
<1>1. Len(InitialList) = InitialDevices
  BY DEF InitialList
<1>2. Aging(sessions, refreshKeys)
  BY <1>1 DEF Init, Aging, InitialList, InitialJtis
<1> QED BY <1>2, SessStarts DEF Init, AgeInv, LoginsOnly, At, Active, Steps

\* A request that has come for something else never becomes a login.
LEMMA LoginInvKept ==
  ASSUME SessionTypes, LockOwned, LoginInv, ~RedisMayFail, [Next]_vars
  PROVE  LoginInv'
<1> SUFFICES ASSUME AllLogins' PROVE (LoginsOnly /\ SessInv /\ AgeInv)'
  BY DEF LoginInv
<1>1. AllLogins
  <2>1. ASSUME NEW r \in Request, NewRequest(r) PROVE AllLogins
    BY <2>1, Arriving DEF AllLogins, At
  <2>2. ASSUME NEW r \in Request, Handle(r) \/ Crash(r) PROVE AllLogins
    <3>1. req'[r].pc # "idle" /\ req'[r].op = req[r].op
          /\ \A q \in Request \ {r} : req'[q] = req[q]
      BY <2>2, Handling, Crashing DEF Passes
    <3> QED BY <3>1 DEF AllLogins, At
  <2>3. CASE UNCHANGED req
    BY <2>3 DEF AllLogins, At
  <2> QED BY <2>1, <2>2, <2>3, Kinds
<1>2. LoginsOnly /\ SessInv /\ AgeInv
  BY <1>1 DEF LoginInv
<1>3. Sole
  BY <1>2 DEF LoginsOnly, LockOwned, Sole
<1>4. LoginsOnly'
  BY <1>2, LoginsKept
<1>5. SessInv'
  BY <1>2, <1>3, SessKept
<1>6. AgeInv'
  BY <1>2, <1>3, AgeKept
<1> QED BY <1>4, <1>5, <1>6

\* As long as everybody logs in, a session is taken from a device only when there
\* is one too many, whatever crashes on the way (enforceMaxDevices, line 288): a
\* crash leaves dead entries at the front of the list, and those go first.
THEOREM OnlySurplusGoes ==
  ASSUME \A w \in Workloads : "slow" \notin w.happens, ~RedisMayFail
  PROVE  Spec => []LoginsEvictOnlySurplus
<1>1. SessionTypes /\ LockOwned /\ LoginInv /\ [Next]_vars => LoginInv'
  BY LoginInvKept
<1>2. SessionTypes /\ LoginInv => LoginsEvictOnlySurplus
  <2> SUFFICES ASSUME SessionTypes, LoginInv, AllLogins, NEW r \in Request, At(r, "evict"),
                      req[r].todo # <<>>, Head(req[r].todo) \in LiveTokens
               PROVE  Cardinality(refreshKeys) > MaxDevices
    BY DEF LoginsEvictOnlySurplus, EvictOnlySurplus, AllLogins
  <2>1. req[r].list \in SessionList /\ req[r].todo \in SessionList
    BY DEF SessionTypes, RequestState
  <2>2. Cutting(req[r].list, req[r].todo, sessions, refreshKeys) /\ Aging(sessions, refreshKeys)
    BY DEF LoginInv, AgeInv
  <2> QED BY <2>1, <2>2, SurplusIsAlive DEF LiveTokens
<1>3. Spec => []LockOwned
  BY LockIsOwned
<1> QED BY <1>1, <1>2, <1>3, LoginInvStarts, TypesHold, PTL DEF Spec
=============================================================================
