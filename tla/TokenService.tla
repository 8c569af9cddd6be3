---------------------------- MODULE TokenService ----------------------------
(***************************************************************************)
(* The sessions of one user: createSession, refreshToken, logout and       *)
(* revokeAllUserTokens over three kinds of Redis keys (one key per refresh *)
(* token, the list of session ids, the login lock) and the token version   *)
(* in the database, whose increment is TokenVersion's.                     *)
(*                                                                         *)
(* An action is what a request does up to the answer of its next awaited   *)
(* command, so the requests interleave as the event loops of several       *)
(* server processes let them.  Requests are numbered as they arrive.  A    *)
(* request makes one jti at most (256 random bits), so its number names    *)
(* the jti; the sessions that exist at the start have negative numbers.    *)
(*                                                                         *)
(* A refresh token carries a signature and its jti is unique, so a token   *)
(* that verifies and whose key exists has the stored hash: the branch of   *)
(* lines 147-152 is dead as long as the secret is kept, and it does what   *)
(* the branch before it does.  Tokens live for 7 days, a request for       *)
(* seconds: the expiry of tokens and of the list is left out.              *)
(*                                                                         *)
(* The definitions named Mut_... are mistakes that the properties are      *)
(* there to catch, each before the definition it spoils.                   *)
(***************************************************************************)
EXTENDS Integers, FiniteSets, Sequences, SequencesExt, Redis

CONSTANTS Requests,      \* bound: how many requests arrive at most
          InitialDevices,\* sessions that exist at the start
          MaxDevices,    \* AUTH_POLICY.SESSION.MAX_DEVICES_PER_USER
          Workloads,     \* bound: what an instance lets happen
          Checker,       \* requests that present an access token
          NoVersion

ASSUME TokenServiceAssumption ==
  /\ Requests \in Nat
  /\ MaxDevices \in Nat \ {0}
  /\ InitialDevices \in 0 .. MaxDevices
  /\ Workloads \subseteq
       [happens : SUBSET {"login", "refresh", "logout", "logoutAll", "check",
                          "block", "crash", "slow"},
        requests : Nat, inFlight : Nat]

Request == 1 .. Requests
InitialJtis == -InitialDevices .. -1
Jti == InitialJtis \cup Request
Free == 0       \* no request: nobody holds the lock
NoToken == 0

VARIABLES
  refreshKeys,   \* jtis whose key refresh:user:<userId>:<jti> exists
  sessions,      \* the list sessions:user:<userId>; a missing key reads as <<>>
  loginLock,     \* lock:login:<userId>: Free or, not stored, who set it
  tokenVersion, active, writer,              \* see TokenVersion
  versionCache, issued, check, staleFill,    \* see TokenVersion
  req,           \* the requests: where they stand and their local variables
  delivered,     \* history: jtis of the refresh tokens sent to clients
  workload       \* what happens: how many requests, and how many at a time

redis == <<refreshKeys, sessions, loginLock>>
access == <<tokenVersion, active, versionCache, writer, check, staleFill>>
handed == <<issued, delivered>>
vars == <<redis, access, req, handed, workload>>

TV == INSTANCE TokenVersion WITH Writer <- Request

Final == {"ok", "refused", "crashed"}
Steps == {"lock", "store", "addRead", "addWrite", "maxRead", "evict", "unlock",
          "lookup", "findUser", "rotate", "forget", "dropRead", "dropWrite",
          "revRead", "revoke", "increment"}
Ops == {"none", "login", "refresh", "logout", "logoutAll"}
SessionList == Seq(Jti)
RequestState ==
  [pc : {"idle"} \cup Steps \cup Final, op : Ops, token : Jti \cup {NoToken},
   version : Nat, list : SessionList, todo : SessionList]

SessionTypes ==
  /\ refreshKeys \subseteq Jti
  /\ sessions \in SessionList
  /\ loginLock \in Request \cup {Free}
  /\ TV!VersionTypeOK
  /\ req \in [Request -> RequestState]
  /\ delivered \subseteq Jti

TypeOK == SessionTypes /\ workload \in Workloads

InitialList == [i \in 1 .. InitialDevices |-> i - InitialDevices - 1]

Init ==
  /\ refreshKeys = InitialJtis
  /\ sessions = InitialList
  /\ loginLock = Free
  /\ TV!VersionInit
  /\ req = [r \in Request |->
              [pc |-> "idle", op |-> "none", token |-> NoToken, version |-> 0,
               list |-> <<>>, todo |-> <<>>]]
  /\ delivered = InitialJtis
  /\ workload \in Workloads

-----------------------------------------------------------------------------
(* The course of a request.                                                *)

At(r, step) == req[r].pc = step
InFlight == {r \in Request : req[r].pc \in Steps}

\* r's next step, with its local list and its jtis still to delete.
Proceed(r, step) == req' = [req EXCEPT ![r].pc = step]
ProceedWith(r, step, list, todo) ==
  req' = [req EXCEPT ![r].pc = step, ![r].list = list, ![r].todo = todo]

\* The response is sent; the local lists of the request are gone.
End(r, outcome) == ProceedWith(r, outcome, <<>>, <<>>)

\* The response carries the new refresh token, and an access token signed for
\* the version of the user row the request had read.
Deliver(r) ==
  /\ End(r, "ok")
  /\ delivered' = delivered \cup {r}
  /\ issued' = issued \cup {req[r].version}

Arrive(r, op, token, step) ==
  /\ op \in workload.happens
  /\ At(r, "idle") /\ \A q \in 1 .. r - 1 : ~At(q, "idle")
  /\ r <= workload.requests /\ Cardinality(InFlight) < workload.inFlight
  /\ req' = [req EXCEPT ![r].pc = step, ![r].op = op, ![r].token = token,
                        ![r].version = tokenVersion]
  /\ UNCHANGED <<redis, access, handed>>

-----------------------------------------------------------------------------
(* createSession, which login, verifyEmail, changePassword and the OAuth   *)
(* callback end with; they have read the user's row shortly before.        *)

CreateSession(r) == Arrive(r, "login", NoToken, "lock")

Mut_LockFree == TRUE
LockFree == loginLock = Free

\* setNX; an error reads as "not acquired" even if the server set the key.
AcquireLock(r) ==
  /\ At(r, "lock")
  /\ \/ /\ LockFree
        /\ loginLock' = r
        /\ Proceed(r, "store")
     \/ /\ ~LockFree \/ RedisMayFail
        /\ loginLock' \in IF loginLock = Free THEN {Free, r} ELSE {loginLock}
        /\ End(r, "refused")
  /\ UNCHANGED <<refreshKeys, sessions, access, handed>>

GenerateSecureId(r) == r

StoreKey(r) ==
  /\ At(r, "store")
  /\ refreshKeys' \in Stored(refreshKeys \cup {GenerateSecureId(r)}, refreshKeys)
  /\ Proceed(r, "addRead")
  /\ UNCHANGED <<sessions, loginLock, access, handed>>

Mut_WithSession(s, j) == s
WithSession(s, j) == IF Contains(s, j) THEN s ELSE Append(s, j)

\* addUserSession, for createSession and refreshToken alike.
AddSessionRead(r) ==
  /\ At(r, "addRead")
  /\ \E s \in Got(sessions, <<>>) :
       ProceedWith(r, "addWrite", WithSession(s, GenerateSecureId(r)), <<>>)
  /\ UNCHANGED <<redis, access, handed>>

AddSessionWrite(r) ==
  /\ At(r, "addWrite")
  /\ sessions' \in Stored(req[r].list, sessions)
  /\ Proceed(r, IF req[r].op = "login" THEN "maxRead" ELSE "rotate")
  /\ UNCHANGED <<refreshKeys, loginLock, access, handed>>

\* enforceMaxDevices: the oldest entries of the list go, dead or alive.
Mut_SurplusFull(s) == IF Len(s) >= MaxDevices THEN Len(s) - MaxDevices + 1 ELSE 0
Surplus(s) == IF Len(s) > MaxDevices THEN Len(s) - MaxDevices ELSE 0

EnforceRead(r) ==
  /\ At(r, "maxRead")
  /\ \E s \in Got(sessions, <<>>) :
       IF Surplus(s) > 0
       THEN ProceedWith(r, "evict", SubSeq(s, Surplus(s) + 1, Len(s)),
                                    SubSeq(s, 1, Surplus(s)))
       ELSE ProceedWith(r, "unlock", <<>>, <<>>)
  /\ UNCHANGED <<redis, access, handed>>

Evict(r) ==
  /\ At(r, "evict") /\ req[r].todo # <<>>
  /\ refreshKeys' \in Stored(refreshKeys \ {Head(req[r].todo)}, refreshKeys)
  /\ req' = [req EXCEPT ![r].todo = Tail(@)]
  /\ UNCHANGED <<sessions, loginLock, access, handed>>

EvictEnd(r) ==
  /\ At(r, "evict") /\ req[r].todo = <<>>
  /\ sessions' \in Stored(req[r].list, sessions)
  /\ Proceed(r, "unlock")
  /\ UNCHANGED <<refreshKeys, loginLock, access, handed>>

\* The del of the finally clause, whoever set the lock by now; then the return.
Unlock(r) ==
  /\ At(r, "unlock")
  /\ loginLock' \in Stored(Free, loginLock)
  /\ Deliver(r)
  /\ UNCHANGED <<refreshKeys, sessions, access>>

\* The lock has a time to live of 5 s.  A holder that crashed, or whose del
\* failed, cannot stop it; a live one outlasts it only when the work is slow.
Mut_LockHasTtl == FALSE
LockHasTtl == TRUE

LockExpires ==
  /\ LockHasTtl
  /\ loginLock # Free
  /\ req[loginLock].pc \in Final \/ "slow" \in workload.happens
  /\ loginLock' = Free
  /\ UNCHANGED <<refreshKeys, sessions, access, req, handed>>

-----------------------------------------------------------------------------
(* refreshToken.                                                           *)

RefreshToken(r) == \E j \in delivered : Arrive(r, "refresh", j, "lookup")

\* A missing key means a token that was exchanged or given back before, and a
\* failed get means the same.
LookupKey(r) ==
  /\ At(r, "lookup")
  /\ \E found \in Got(req[r].token \in refreshKeys, FALSE) :
       Proceed(r, IF found THEN "findUser" ELSE "revRead")
  /\ UNCHANGED <<redis, access, handed>>

FindUser(r) ==
  /\ At(r, "findUser")
  /\ req' = [req EXCEPT ![r].pc = IF active THEN "store" ELSE "revRead",
                        ![r].version = tokenVersion]
  /\ UNCHANGED <<redis, access, handed>>

Mut_WithoutOld(j) == refreshKeys
WithoutOld(j) == refreshKeys \ {j}

\* The old key is deleted last; the new token is in the response.
RotateOut(r) ==
  /\ At(r, "rotate")
  /\ refreshKeys' \in Stored(WithoutOld(req[r].token), refreshKeys)
  /\ Deliver(r)
  /\ UNCHANGED <<sessions, loginLock, access>>

-----------------------------------------------------------------------------
(* logout.                                                                 *)

Logout(r) == \E j \in delivered : Arrive(r, "logout", j, "forget")

\* The list has no duplicates (line 274): filter drops one entry, if any.
Without(s, j) ==
  IF Contains(s, j) THEN RemoveAt(s, CHOOSE i \in 1 .. Len(s) : s[i] = j) ELSE s

ForgetKey(r) ==
  /\ At(r, "forget")
  /\ refreshKeys' \in Stored(refreshKeys \ {req[r].token}, refreshKeys)
  /\ Proceed(r, "dropRead")
  /\ UNCHANGED <<sessions, loginLock, access, handed>>

DropSessionRead(r) ==
  /\ At(r, "dropRead")
  /\ \E s \in Got(sessions, <<>>) :
       ProceedWith(r, "dropWrite", Without(s, req[r].token), <<>>)
  /\ UNCHANGED <<redis, access, handed>>

DropSessionWrite(r) ==
  /\ At(r, "dropWrite")
  /\ sessions' \in Stored(req[r].list, sessions)
  /\ End(r, "ok")
  /\ UNCHANGED <<refreshKeys, loginLock, access, handed>>

-----------------------------------------------------------------------------
(* revokeAllUserTokens, on request or because refreshToken refuses.        *)

LogoutAllDevices(r) == Arrive(r, "logoutAll", NoToken, "revRead")

Mut_ToRevoke(s) == SubSeq(s, 1, Len(s) - 1)
ToRevoke(s) == s

RevokeRead(r) ==
  /\ At(r, "revRead")
  /\ \E s \in Got(sessions, <<>>) : ProceedWith(r, "revoke", <<>>, ToRevoke(s))
  /\ UNCHANGED <<redis, access, handed>>

RevokeKey(r) ==
  /\ At(r, "revoke") /\ req[r].todo # <<>>
  /\ refreshKeys' \in Stored(refreshKeys \ {Head(req[r].todo)}, refreshKeys)
  /\ req' = [req EXCEPT ![r].todo = Tail(@)]
  /\ UNCHANGED <<sessions, loginLock, access, handed>>

RevokeList(r) ==
  /\ At(r, "revoke") /\ req[r].todo = <<>>
  /\ sessions' \in Stored(<<>>, sessions)
  /\ Proceed(r, "increment")
  /\ UNCHANGED <<refreshKeys, loginLock, access, handed>>

Increment(r) ==
  /\ At(r, "increment")
  /\ \/ /\ TV!ReadVersion(r) \/ TV!WriteVersion(r)
        /\ UNCHANGED req
     \/ /\ TV!ClearCache(r)
        /\ End(r, IF req[r].op = "logoutAll" THEN "ok" ELSE "refused")
  /\ UNCHANGED <<redis, delivered>>

-----------------------------------------------------------------------------

\* The server process dies, or a database query throws out of the handler.
Crash(r) ==
  /\ "crash" \in workload.happens
  /\ r \in InFlight
  /\ End(r, "crashed")
  /\ UNCHANGED <<redis, access, handed>>

Block ==
  /\ "block" \in workload.happens
  /\ TV!Deactivate
  /\ UNCHANGED <<redis, req, delivered>>

Handle(r) ==
  \/ AcquireLock(r) \/ StoreKey(r) \/ AddSessionRead(r) \/ AddSessionWrite(r)
  \/ EnforceRead(r) \/ Evict(r) \/ EvictEnd(r) \/ Unlock(r)
  \/ LookupKey(r) \/ FindUser(r) \/ RotateOut(r)
  \/ ForgetKey(r) \/ DropSessionRead(r) \/ DropSessionWrite(r)
  \/ RevokeRead(r) \/ RevokeKey(r) \/ RevokeList(r) \/ Increment(r)

NewRequest(r) ==
  CreateSession(r) \/ RefreshToken(r) \/ Logout(r) \/ LogoutAllDevices(r)

\* A request behind AuthGuard, and the expiry of what it caches.
Authenticate ==
  /\ "check" \in workload.happens
  /\ (\E c \in Checker : TV!CheckStep(c)) \/ TV!CacheExpires
  /\ UNCHANGED <<redis, req, delivered>>

Next ==
  /\ \/ \E r \in Request : NewRequest(r) \/ Handle(r) \/ Crash(r)
     \/ LockExpires
     \/ Block
     \/ Authenticate
  /\ UNCHANGED workload

Spec == Init /\ [][Next]_vars

\* An awaited command is answered, an expired key goes.
FairSpec ==
  /\ Spec
  /\ \A r \in Request : WF_vars(Handle(r) /\ UNCHANGED workload)
  /\ WF_vars(LockExpires /\ UNCHANGED workload)

-----------------------------------------------------------------------------

LiveTokens == delivered \cap refreshKeys

Creating(r) ==
  /\ req[r].op = "login"
  /\ req[r].pc \in {"store", "addRead", "addWrite", "maxRead", "evict", "unlock"}

\* The login lock does its work (line 38): a request inside createSession is
\* alone there and the lock is its own.  Holds with crashes and Redis errors,
\* as long as no live holder outlasts the 5 s of the lock.
LockOwned == \A r \in Request : Creating(r) => loginLock = r

\* Every token that would be accepted is in the list which logoutAllDevices
\* and reuse detection walk (lines 87, 200 and 243): none is out of reach.
NoOrphans == LiveTokens \subseteq ToSet(sessions)

\* A session is taken from a device only when there is one too many (288).
EvictOnlySurplus ==
  \A r \in Request : At(r, "evict") /\ req[r].todo # <<>> /\ Head(req[r].todo) \in LiveTokens
                     => Cardinality(refreshKeys) > MaxDevices

\* So it is as long as everybody has only logged in, whatever crashes on the way:
\* dead entries stay at the front of the list and go first.
LoginsEvictOnlySurplus ==
  (\A r \in Request : At(r, "idle") \/ req[r].op = "login") => EvictOnlySurplus

\* When revokeAllUserTokens has deleted its keys, nothing is accepted any more
\* (line 143: the presentation of a used token ends every session).
RevokedAll == \A r \in Request : At(r, "increment") => LiveTokens = {}

\* A revocation that ends makes every access token sent so far out of date:
\* their version is below the row's (line 251, README.md:1145).
RevocationOutdatesAccess ==
  [][\A r \in Request : At(r, "increment") /\ req'[r].pc \in {"ok", "refused"}
                        => \A v \in issued : v < tokenVersion]_vars

\* A refresh token is exchanged for one new token at most: rotation replaces it.
OneSuccessor ==
  \A q, r \in Request : /\ At(q, "ok") /\ At(r, "ok")
                        /\ req[q].op = "refresh" /\ req[r].op = "refresh"
                        /\ req[q].token = req[r].token
                        => q = r

\* What is stored, seen through the tokens clients hold, keeps the promises of
\* RefreshSessions: each step issues, exchanges or ends one token, or none, and
\* no more tokens are accepted than AUTH_POLICY.SESSION allows (lines 90-93).
Promised == INSTANCE RefreshSessions
              WITH Token <- Jti, FirstTokens <- InitialJtis,
                   live <- LiveTokens, past <- delivered \ refreshKeys
KeepsSessions == Promised!Spec

\* The login lock never stays: its time to live frees a user whose request
\* died inside createSession (line 40).
LockFreed == []<>(loginLock = Free)
=============================================================================
