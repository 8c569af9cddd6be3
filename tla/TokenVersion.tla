---------------------------- MODULE TokenVersion ----------------------------
(***************************************************************************)
(* Revocation of access tokens.  AuthUser.tokenVersion in MySQL is the     *)
(* version every valid access token must carry; incrementTokenVersion      *)
(* raises it, authenticate compares a token with it through a Redis copy.  *)
(* One user: every key and row involved is per user.                       *)
(*                                                                         *)
(* An action is what a request does between two awaits.  A request of      *)
(* Writer increments once; a member of Checker is a client whose requests  *)
(* authenticate one after the other.  The sizes of the two sets are the    *)
(* only bounds.                                                            *)
(*                                                                         *)
(* The definitions named Mut_... are the mistakes that the properties are  *)
(* there to catch, each before the definition it spoils.  No specification *)
(* uses them.                                                              *)
(***************************************************************************)
EXTENDS Naturals, Redis

CONSTANTS Writer,     \* requests that call incrementTokenVersion
          Checker,    \* clients whose requests pass AccessTokenAuthenticator
          NoVersion   \* the cache key is missing

ASSUME NoVersionAssumption == NoVersion \notin Nat

VARIABLES
  tokenVersion,   \* AuthUser.tokenVersion
  active,         \* AuthUser.status = 'ACTIVE'
  versionCache,   \* Redis token_version:<userId>, a version or NoVersion
  issued,         \* versions that signed access tokens carry
  writer,         \* progress of each writer and the version it read
  check,          \* progress of each check, its token, the version it read
  staleFill       \* history: the cached copy was out of date when it was set

versionVars == <<tokenVersion, active, versionCache, issued, writer, check, staleFill>>

InitialVersion == 1

VersionTypeOK ==
  /\ tokenVersion \in Nat
  /\ active \in BOOLEAN
  /\ versionCache \in Nat \cup {NoVersion}
  /\ issued \subseteq Nat
  /\ writer \in [Writer -> [pc : {"idle", "write", "clear", "done", "aborted", "uncleared"},
                            seen : Nat]]
  /\ check \in [Checker -> [pc : {"idle", "lookup", "read", "fill", "accepted", "rejected"},
                            token : Nat, seen : Nat]]
  /\ staleFill \in BOOLEAN

VersionInit ==
  /\ tokenVersion = InitialVersion
  /\ active = TRUE
  /\ versionCache = NoVersion
  /\ issued = {}
  /\ writer = [w \in Writer |-> [pc |-> "idle", seen |-> 0]]
  /\ check = [c \in Checker |-> [pc |-> "idle", token |-> 0, seen |-> 0]]
  /\ staleFill = FALSE

-----------------------------------------------------------------------------
(* incrementTokenVersion: read, write, drop the cached copy.               *)

Mut_NextVersionUnselected(v) == 1      \* (undefined || 0) + 1
Mut_NextVersionSame(v) == v
NextVersion(v) == v + 1

ReadVersion(w) ==
  /\ writer[w].pc = "idle"
  /\ writer' = [writer EXCEPT ![w] = [pc |-> "write", seen |-> tokenVersion]]
  /\ UNCHANGED <<tokenVersion, active, versionCache, issued, check, staleFill>>

WriteVersion(w) ==
  /\ writer[w].pc = "write"
  /\ tokenVersion' = NextVersion(writer[w].seen)
  /\ writer' = [writer EXCEPT ![w].pc = "clear"]
  /\ UNCHANGED <<active, versionCache, issued, check, staleFill>>

\* A del that fails is not noticed: the request ends as if it had worked.
ClearCache(w) ==
  /\ writer[w].pc = "clear"
  /\ versionCache' \in Stored(NoVersion, versionCache)
  /\ staleFill' = (staleFill /\ versionCache' # NoVersion)
  /\ writer' = [writer EXCEPT ![w].pc = IF versionCache' = NoVersion
                                        THEN "done" ELSE "uncleared"]
  /\ UNCHANGED <<tokenVersion, active, issued, check>>

\* The server process dies, or the database refuses the query: the rest of
\* the increment is never run.
AbandonIncrement(w) ==
  /\ \/ writer[w].pc = "write" /\ writer' = [writer EXCEPT ![w].pc = "aborted"]
     \/ writer[w].pc = "clear" /\ writer' = [writer EXCEPT ![w].pc = "uncleared"]
  /\ UNCHANGED <<tokenVersion, active, versionCache, issued, check, staleFill>>

-----------------------------------------------------------------------------
(* authenticate and getTokenVersion.                                       *)

\* createSession and refreshToken sign the version of the row they were
\* given; the token exists from then on.
SignAccessToken ==
  /\ issued' = issued \cup {tokenVersion}
  /\ UNCHANGED <<tokenVersion, active, versionCache, writer, check, staleFill>>

\* The signature and the expiry are in order: payload.tokenVersion is known.
Present(c) ==
  /\ check[c].pc \in {"idle", "accepted", "rejected"}
  /\ \E v \in issued :
       check' = [check EXCEPT ![c].pc = "lookup", ![c].token = v]
  /\ UNCHANGED <<tokenVersion, active, versionCache, issued, writer, staleFill>>

\* The comparison that ends authenticate; its local variables are gone then.
Verdict(token, current) ==
  [pc |-> IF token = current THEN "accepted" ELSE "rejected", token |-> 0, seen |-> 0]

\* A cached version decides at once, whatever the status of the user.
LookupCache(c) ==
  /\ check[c].pc = "lookup"
  /\ \E v \in Got(versionCache, NoVersion) :
       check' = IF v = NoVersion THEN [check EXCEPT ![c].pc = "read"]
                ELSE [check EXCEPT ![c] = Verdict(check[c].token, v)]
  /\ UNCHANGED <<tokenVersion, active, versionCache, issued, writer, staleFill>>

Mut_MayFill == TRUE
MayFill == active

ReadDatabase(c) ==
  /\ check[c].pc = "read"
  /\ check' = IF MayFill
              THEN [check EXCEPT ![c].pc = "fill", ![c].seen = tokenVersion]
              ELSE [check EXCEPT ![c] = [pc |-> "rejected", token |-> 0, seen |-> 0]]
  /\ UNCHANGED <<tokenVersion, active, versionCache, issued, writer, staleFill>>

Mut_Filling(c) == check[c].token
Filling(c) == check[c].seen

FillCache(c) ==
  /\ check[c].pc = "fill"
  /\ \/ /\ versionCache' = Filling(c)
        /\ staleFill' = (check[c].seen # tokenVersion)
     \/ /\ RedisMayFail
        /\ UNCHANGED <<versionCache, staleFill>>
  /\ check' = [check EXCEPT ![c] = Verdict(check[c].token, check[c].seen)]
  /\ UNCHANGED <<tokenVersion, active, issued, writer>>

\* The cached copy is set with a time to live of 3600 s.
Mut_HasTtl == FALSE
HasTtl == TRUE

CacheExpires ==
  /\ HasTtl
  /\ versionCache # NoVersion
  /\ versionCache' = NoVersion
  /\ staleFill' = FALSE
  /\ UNCHANGED <<tokenVersion, active, issued, writer, check>>

\* An operator blocks the account in the database; no code under src does.
Deactivate ==
  /\ active
  /\ active' = FALSE
  /\ UNCHANGED <<tokenVersion, versionCache, issued, writer, check, staleFill>>

-----------------------------------------------------------------------------

IncrementStep(w) == ReadVersion(w) \/ WriteVersion(w) \/ ClearCache(w)

CheckStep(c) == Present(c) \/ LookupCache(c) \/ ReadDatabase(c) \/ FillCache(c)

VersionNext ==
  \/ \E w \in Writer : IncrementStep(w) \/ AbandonIncrement(w)
  \/ \E c \in Checker : CheckStep(c)
  \/ SignAccessToken
  \/ CacheExpires
  \/ Deactivate

VersionSpec == VersionInit /\ [][VersionNext]_versionVars

\* Node's event loop resumes an awaited call once it is answered, and Redis
\* expires keys.  Nobody is obliged to sign, to present a token, to crash or
\* to block the account.
VersionFairness ==
  /\ \A w \in Writer : WF_versionVars(WriteVersion(w)) /\ WF_versionVars(ClearCache(w))
  /\ \A c \in Checker : WF_versionVars(LookupCache(c)) /\ WF_versionVars(ReadDatabase(c))
                        /\ WF_versionVars(FillCache(c))
  /\ WF_versionVars(CacheExpires)

VersionFairSpec == VersionSpec /\ VersionFairness

-----------------------------------------------------------------------------

Written(w) == writer[w].pc \in {"clear", "done", "uncleared"}

\* A writer has changed the row and not (or never) dropped the cached copy.
Owed == \E w \in Writer : writer[w].pc \in {"clear", "uncleared"}

\* The copy that authenticate trusts differs from the row only while a writer
\* still owes the del of line 264, or when a check stored a version it had
\* read before a write (lines 73-86 straddling 258-264).
CacheCoherent == versionCache \in {NoVersion, tokenVersion} \/ Owed \/ staleFill

\* Who gets in: a token that passes on a cached version carries the version
\* of the row, with the same two exceptions (README.md:1145 knows of none).
CacheHitIsCurrent ==
  [][\A c \in Checker :
       check[c].pc = "lookup" /\ check'[c].pc = "accepted"
       => check[c].token = tokenVersion \/ Owed \/ staleFill]_versionVars

\* Once any increment has been written, the version every session starts with
\* never comes back, however many increments overlap.
FirstRevocationIsForever ==
  (\E w \in Writer : Written(w)) => tokenVersion > InitialVersion

\* An increment retires the version it read: once written, the row stays
\* above it.  What "incremented on security events" promises of each event.
RevocationRetires == \A w \in Writer : Written(w) => tokenVersion > writer[w].seen

\* Whatever raced, crashed or failed, the cached copy agrees with the row in
\* the end: the time to live of line 86 bounds every stale acceptance.
EventuallyCoherent == <>[](versionCache \in {NoVersion, tokenVersion})

\* A user who is no longer ACTIVE keeps passing on cache hits, but the copy
\* disappears and is never filled again (lines 67-71 and 82-86).
InactiveLosesCache == ~active ~> [](versionCache = NoVersion)
=============================================================================
