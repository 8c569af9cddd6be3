------------------------- MODULE TokenVersionProofs -------------------------
(***************************************************************************)
(* Theorems about TokenVersion, for every set of writers and checks and    *)
(* whether or not Redis fails.                                             *)
(***************************************************************************)
EXTENDS TokenVersion, TLAPS

USE NoVersionAssumption

\* The value a failing or working Redis command leaves behind is one of two.
LEMMA StoredIsOneOfTwo ==
  ASSUME NEW new, NEW old, NEW v \in Stored(new, old)
  PROVE  v = new \/ v = old
BY DEF Stored

\* Every variable keeps its type (the shape of the rows, keys and requests).
THEOREM TypeCorrect == VersionSpec => []VersionTypeOK
<1>1. VersionInit => VersionTypeOK
  <2> SUFFICES ASSUME VersionInit PROVE VersionTypeOK
    OBVIOUS
  <2>1. writer \in [Writer -> [pc : {"idle", "write", "clear", "done", "aborted", "uncleared"},
                               seen : Nat]]
    BY DEF VersionInit
  <2>2. check \in [Checker -> [pc : {"idle", "lookup", "read", "fill", "accepted", "rejected"},
                               token : Nat, seen : Nat]]
    BY DEF VersionInit
  <2> QED BY <2>1, <2>2 DEF VersionInit, VersionTypeOK, InitialVersion
<1>2. VersionTypeOK /\ [VersionNext]_versionVars => VersionTypeOK'
  <2> SUFFICES ASSUME VersionTypeOK, [VersionNext]_versionVars PROVE VersionTypeOK'
    OBVIOUS
  <2>1. ASSUME NEW w \in Writer, ReadVersion(w) PROVE VersionTypeOK'
    BY <2>1 DEF VersionTypeOK, ReadVersion
  <2>2. ASSUME NEW w \in Writer, WriteVersion(w) PROVE VersionTypeOK'
    BY <2>2 DEF VersionTypeOK, WriteVersion, NextVersion
  <2>3. ASSUME NEW w \in Writer, ClearCache(w) PROVE VersionTypeOK'
    <3>1. versionCache' \in Nat \cup {NoVersion}
      BY <2>3, StoredIsOneOfTwo DEF VersionTypeOK, ClearCache
    <3>2. staleFill' \in BOOLEAN
      BY <2>3 DEF VersionTypeOK, ClearCache
    <3> QED BY <2>3, <3>1, <3>2 DEF VersionTypeOK, ClearCache
  <2>4. ASSUME NEW w \in Writer, AbandonIncrement(w) PROVE VersionTypeOK'
    BY <2>4 DEF VersionTypeOK, AbandonIncrement
  <2>5. ASSUME NEW c \in Checker, Present(c) PROVE VersionTypeOK'
    <3>1. PICK v \in Nat : check' = [check EXCEPT ![c].pc = "lookup", ![c].token = v]
      BY <2>5 DEF VersionTypeOK, Present
    <3>2. check' \in [Checker -> [pc : {"idle", "lookup", "read", "fill", "accepted",
                                        "rejected"}, token : Nat, seen : Nat]]
      BY <3>1 DEF VersionTypeOK
    <3> QED BY <2>5, <3>2 DEF VersionTypeOK, Present
  <2>6. ASSUME NEW c \in Checker, LookupCache(c) PROVE VersionTypeOK'
    BY <2>6 DEF VersionTypeOK, LookupCache, Verdict
  <2>7. ASSUME NEW c \in Checker, ReadDatabase(c) PROVE VersionTypeOK'
    BY <2>7 DEF VersionTypeOK, ReadDatabase
  <2>8. ASSUME NEW c \in Checker, FillCache(c) PROVE VersionTypeOK'
    BY <2>8 DEF VersionTypeOK, FillCache, Filling, Verdict
  <2>9. CASE SignAccessToken
    BY <2>9 DEF VersionTypeOK, SignAccessToken
  <2>10. CASE CacheExpires
    BY <2>10 DEF VersionTypeOK, CacheExpires
  <2>11. CASE Deactivate
    BY <2>11 DEF VersionTypeOK, Deactivate
  <2>12. CASE UNCHANGED versionVars
    BY <2>12 DEF VersionTypeOK, versionVars
  <2> QED
    BY <2>1, <2>2, <2>3, <2>4, <2>5, <2>6, <2>7, <2>8, <2>9, <2>10, <2>11, <2>12
    DEF VersionNext, IncrementStep, CheckStep
<1> QED BY <1>1, <1>2, PTL DEF VersionSpec

-----------------------------------------------------------------------------

\* The cached version differs from the row only while a writer owes the del
\* or after a fill that was out of date (getTokenVersion, incrementTokenVersion).
THEOREM CacheStaysCoherent == VersionSpec => []CacheCoherent
<1>1. VersionInit => CacheCoherent
  BY DEF VersionInit, CacheCoherent
<1>2. VersionTypeOK /\ CacheCoherent /\ [VersionNext]_versionVars => CacheCoherent'
  <2> SUFFICES ASSUME VersionTypeOK, CacheCoherent, [VersionNext]_versionVars PROVE CacheCoherent'
    OBVIOUS
  <2> USE DEF CacheCoherent, Owed
  <2>1. ASSUME NEW w \in Writer, ReadVersion(w) PROVE CacheCoherent'
    BY <2>1 DEF VersionTypeOK, ReadVersion
  <2>2. ASSUME NEW w \in Writer, WriteVersion(w) PROVE CacheCoherent'
    BY <2>2 DEF VersionTypeOK, WriteVersion
  <2>3. ASSUME NEW w \in Writer, ClearCache(w) PROVE CacheCoherent'
    BY <2>3 DEF VersionTypeOK, ClearCache
  <2>4. ASSUME NEW w \in Writer, AbandonIncrement(w) PROVE CacheCoherent'
    BY <2>4 DEF VersionTypeOK, AbandonIncrement
  <2>5. ASSUME NEW c \in Checker, Present(c) PROVE CacheCoherent'
    BY <2>5 DEF Present
  <2>6. ASSUME NEW c \in Checker, LookupCache(c) PROVE CacheCoherent'
    BY <2>6 DEF LookupCache
  <2>7. ASSUME NEW c \in Checker, ReadDatabase(c) PROVE CacheCoherent'
    BY <2>7 DEF ReadDatabase
  <2>8. ASSUME NEW c \in Checker, FillCache(c) PROVE CacheCoherent'
    BY <2>8 DEF FillCache, Filling
  <2>9. CASE SignAccessToken
    BY <2>9 DEF SignAccessToken
  <2>10. CASE CacheExpires
    BY <2>10 DEF CacheExpires
  <2>11. CASE Deactivate
    BY <2>11 DEF Deactivate
  <2>12. CASE UNCHANGED versionVars
    BY <2>12 DEF versionVars
  <2> QED
    BY <2>1, <2>2, <2>3, <2>4, <2>5, <2>6, <2>7, <2>8, <2>9, <2>10, <2>11, <2>12
    DEF VersionNext, IncrementStep, CheckStep
<1> QED BY <1>1, <1>2, TypeCorrect, PTL DEF VersionSpec

\* A token that passes on a cached version carries the row's version, but for
\* an owed del or an out-of-date fill (authenticate, lines 50-56).
THEOREM CacheHitsAreCurrent == VersionSpec => CacheHitIsCurrent
<1> DEFINE Hit(c) == check[c].pc = "lookup" /\ check'[c].pc = "accepted"
           Current(c) == check[c].token = tokenVersion \/ Owed \/ staleFill
<1>1. VersionTypeOK /\ CacheCoherent /\ [VersionNext]_versionVars
      => \A c \in Checker : Hit(c) => Current(c)
  <2> SUFFICES ASSUME VersionTypeOK, CacheCoherent, [VersionNext]_versionVars,
                      NEW c \in Checker, Hit(c)
               PROVE  Current(c)
    OBVIOUS
  <2>1. CASE LookupCache(c)
    <3>1. PICK v \in Got(versionCache, NoVersion) :
            check' = IF v = NoVersion THEN [check EXCEPT ![c].pc = "read"]
                     ELSE [check EXCEPT ![c] = Verdict(check[c].token, v)]
      BY <2>1 DEF LookupCache
    <3>2. v # NoVersion /\ check[c].token = v
      BY <3>1 DEF VersionTypeOK, Verdict
    <3>3. v = versionCache
      BY <3>2 DEF Got
    <3> QED BY <3>2, <3>3 DEF CacheCoherent
  <2>2. CASE ~LookupCache(c)
    <3>1. check'[c].pc = check[c].pc \/ check[c].pc # "lookup"
      <4>1. ASSUME NEW d \in Checker, CheckStep(d), d # c PROVE check'[c] = check[c]
        BY <4>1 DEF CheckStep, Present, LookupCache, ReadDatabase, FillCache, VersionTypeOK
      <4>2. CASE CheckStep(c)
        BY <4>2, <2>2 DEF CheckStep, Present, ReadDatabase, FillCache
      <4>3. CASE ~ \E d \in Checker : CheckStep(d)
        BY <4>3 DEF VersionNext, IncrementStep, ReadVersion, WriteVersion, ClearCache,
             AbandonIncrement, SignAccessToken, CacheExpires, Deactivate, versionVars
      <4> QED BY <4>1, <4>2, <4>3
    <3> QED BY <3>1
  <2> QED BY <2>1, <2>2
<1>2. VersionSpec => [][\A c \in Checker : Hit(c) => Current(c)]_versionVars
  BY <1>1, TypeCorrect, CacheStaysCoherent, PTL DEF VersionSpec
<1> QED BY <1>2 DEF CacheHitIsCurrent

-----------------------------------------------------------------------------
(* What increments do to the row.                                          *)

\* Every step but the two that touch the row leaves the writers' reads and
\* the row alone; this is all the theorems below need of it.
LEMMA OtherStepsKeepTheRow ==
  ASSUME VersionTypeOK, [VersionNext]_versionVars,
         ~ \E w \in Writer : ReadVersion(w) \/ WriteVersion(w)
  PROVE  /\ tokenVersion' = tokenVersion
         /\ \A w \in Writer : /\ writer'[w].seen = writer[w].seen
                              /\ writer'[w].pc = "write" => writer[w].pc = "write"
                              /\ Written(w)' <=> Written(w)
                              /\ writer'[w].pc = "idle" <=> writer[w].pc = "idle"
<1>1. ASSUME NEW w \in Writer, ClearCache(w) PROVE
        /\ tokenVersion' = tokenVersion
        /\ \A x \in Writer : /\ writer'[x].seen = writer[x].seen
                             /\ writer'[x].pc = "write" => writer[x].pc = "write"
                             /\ Written(x)' <=> Written(x)
                             /\ writer'[x].pc = "idle" <=> writer[x].pc = "idle"
  BY <1>1 DEF ClearCache, VersionTypeOK, Written
<1>2. ASSUME NEW w \in Writer, AbandonIncrement(w) PROVE
        /\ tokenVersion' = tokenVersion
        /\ \A x \in Writer : /\ writer'[x].seen = writer[x].seen
                             /\ writer'[x].pc = "write" => writer[x].pc = "write"
                             /\ Written(x)' <=> Written(x)
                             /\ writer'[x].pc = "idle" <=> writer[x].pc = "idle"
  BY <1>2 DEF AbandonIncrement, VersionTypeOK, Written
<1>3. CASE \/ \E c \in Checker : CheckStep(c)
           \/ SignAccessToken \/ CacheExpires \/ Deactivate \/ UNCHANGED versionVars
  <2>1. UNCHANGED <<tokenVersion, writer>>
    BY <1>3 DEF CheckStep, Present, LookupCache, ReadDatabase, FillCache,
         SignAccessToken, CacheExpires, Deactivate, versionVars
  <2> QED BY <2>1 DEF Written
<1> QED BY <1>1, <1>2, <1>3 DEF VersionNext, IncrementStep

\* A pending writer has read a real version; a written row is above the first.
RowInv ==
  /\ tokenVersion >= InitialVersion
  /\ \A w \in Writer : writer[w].pc = "write" => writer[w].seen >= InitialVersion
  /\ FirstRevocationIsForever

\* However many increments overlap, the version of the first sessions never
\* returns once one of them is written (incrementTokenVersion).
THEOREM FirstRevocationHolds == VersionSpec => []FirstRevocationIsForever
<1> USE DEF InitialVersion
<1>1. VersionInit => RowInv
  BY DEF VersionInit, RowInv, FirstRevocationIsForever, Written
<1>2. VersionTypeOK /\ RowInv /\ [VersionNext]_versionVars => RowInv'
  <2> SUFFICES ASSUME VersionTypeOK, RowInv, [VersionNext]_versionVars PROVE RowInv'
    OBVIOUS
  <2>1. ASSUME NEW w \in Writer, ReadVersion(w) PROVE RowInv'
    BY <2>1 DEF VersionTypeOK, RowInv, FirstRevocationIsForever, Written, ReadVersion
  <2>2. ASSUME NEW w \in Writer, WriteVersion(w) PROVE RowInv'
    BY <2>2 DEF VersionTypeOK, RowInv, FirstRevocationIsForever, Written, WriteVersion,
         NextVersion
  <2>3. CASE ~ \E w \in Writer : ReadVersion(w) \/ WriteVersion(w)
    BY <2>3, OtherStepsKeepTheRow DEF RowInv, FirstRevocationIsForever
  <2> QED BY <2>1, <2>2, <2>3
<1>3. RowInv => FirstRevocationIsForever
  BY DEF RowInv
<1> QED BY <1>1, <1>2, <1>3, TypeCorrect, PTL DEF VersionSpec

-----------------------------------------------------------------------------
(* With two increments at most, each retires the version it read.  Three   *)
(* are enough to break it: a slow one writes back what it read.            *)

AtMostTwoWriters == \A a, b, c \in Writer : a = b \/ b = c \/ a = c

Pending(w) == writer[w].pc = "write"

\* The one other writer of a pending one has either not written yet, and then
\* the pending one's read is still the row, or has read no more than it did.
TwoInv ==
  /\ RevocationRetires
  /\ \A u \in Writer : Pending(u) => writer[u].seen <= tokenVersion
  /\ \A u \in Writer : Pending(u) =>
       writer[u].seen = tokenVersion \/ \E w \in Writer : w # u /\ Written(w)
  /\ \A u, w \in Writer : Pending(u) /\ Written(w) => writer[u].seen >= writer[w].seen

\* Two overlapping increments never take each other's revocation back
\* (incrementTokenVersion, lines 255-261).
THEOREM TwoIncrementsAreSafe == AtMostTwoWriters => (VersionSpec => []RevocationRetires)
<1> SUFFICES ASSUME AtMostTwoWriters PROVE VersionSpec => []RevocationRetires
  OBVIOUS
<1>1. VersionInit => TwoInv
  BY DEF VersionInit, TwoInv, RevocationRetires, Written, Pending
<1>2. VersionTypeOK /\ TwoInv /\ [VersionNext]_versionVars => TwoInv'
  <2> SUFFICES ASSUME VersionTypeOK, TwoInv, [VersionNext]_versionVars PROVE TwoInv'
    OBVIOUS
  <2> USE DEF TwoInv, RevocationRetires, Pending
  <2>1. ASSUME NEW w \in Writer, ReadVersion(w) PROVE TwoInv'
    <3>1. /\ tokenVersion' = tokenVersion
          /\ writer'[w] = [pc |-> "write", seen |-> tokenVersion]
          /\ \A x \in Writer \ {w} : writer'[x] = writer[x]
          /\ ~Written(w) /\ ~Written(w)'
          /\ \A x \in Writer \ {w} : Written(x)' <=> Written(x)
      BY <2>1 DEF VersionTypeOK, ReadVersion, Written
    <3> QED BY <3>1 DEF VersionTypeOK
  <2>2. ASSUME NEW w \in Writer, WriteVersion(w) PROVE TwoInv'
    <3>1. /\ tokenVersion' = writer[w].seen + 1
          /\ Pending(w) /\ ~Pending(w)' /\ Written(w)'
          /\ writer'[w].seen = writer[w].seen
          /\ \A x \in Writer \ {w} : writer'[x] = writer[x]
          /\ \A x \in Writer \ {w} : Written(x)' <=> Written(x)
      BY <2>2 DEF VersionTypeOK, WriteVersion, NextVersion, Written
    <3>2. \A x \in Writer : writer[x].seen \in Nat
      BY DEF VersionTypeOK
    <3>3. \A x \in Writer \ {w} : Pending(x) => ~ \E y \in Writer : Written(y)
      BY <3>1, <3>2 DEF AtMostTwoWriters, Written
    <3>4. \A x \in Writer \ {w} : Pending(x) => writer[x].seen = writer[w].seen
      BY <3>1, <3>3 DEF AtMostTwoWriters
    <3>5. RevocationRetires'
      BY <3>1, <3>2
    <3> QED BY <3>1, <3>2, <3>3, <3>4, <3>5
  <2>3. CASE ~ \E w \in Writer : ReadVersion(w) \/ WriteVersion(w)
    BY <2>3, OtherStepsKeepTheRow
  <2> QED BY <2>1, <2>2, <2>3
<1>3. TwoInv => RevocationRetires
  BY DEF TwoInv
<1> QED BY <1>1, <1>2, <1>3, TypeCorrect, PTL DEF VersionSpec
=============================================================================
