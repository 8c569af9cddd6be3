---------------------------- MODULE BackendProofs ----------------------------
(***************************************************************************)
(* Theorems about Backend: the edits of a product, the rate limit and the  *)
(* calls of LinnworksClient, the walk through the pages of products, the   *)
(* reports, the catalogue, the units of work, and the types of all.  The   *)
(* synchronisation has a module of its own, whose theorems are carried     *)
(* over at the end.  A theorem about a part is one about Backend, whose    *)
(* steps are steps of one part and leave the others alone.                 *)
(***************************************************************************)
EXTENDS Backend, LinnworksSyncProofs, FoldTheorems

USE PartsAssumption

-----------------------------------------------------------------------------
(* Every step of Backend is one of a part and leaves the others alone.     *)

LEMMA DetailsStep ==
  [Next]_vars => Details!DetailNext \/ UNCHANGED detailVars
BY DEF Next, vars, StartCall, ClientStep, Tick, TablesNext, tableVars, BrowseNext,
       ReportsNext, DetailNext, CatalogueNext

LEMMA ClientsStep ==
  [Next]_vars => Client!Next \/ UNCHANGED clientVars
BY DEF Next, vars, StartCall, ClientStep, Tick, TablesNext, BrowseNext,
       ReportsNext, DetailNext, CatalogueNext, Client!Next

LEMMA BrowseStep ==
  [Next]_vars => Browse!BrowseNext \/ UNCHANGED browseVars
BY DEF Next, vars, StartCall, ClientStep, Tick, TablesNext, tableVars, BrowseNext,
       ReportsNext, DetailNext, CatalogueNext

LEMMA ReportsStep ==
  [Next]_vars => Reports!ReportsNext \/ UNCHANGED reportVars
BY DEF Next, vars, StartCall, ClientStep, Tick, TablesNext, tableVars, BrowseNext,
       ReportsNext, DetailNext, CatalogueNext

LEMMA GoodsStep ==
  [Next]_vars => Goods!CatalogueNext \/ UNCHANGED goodsVars
BY DEF Next, vars, StartCall, ClientStep, Tick, TablesNext, tableVars, BrowseNext,
       ReportsNext, DetailNext, CatalogueNext

LEMMA SyncStep == [Next]_vars => [SyncNext]_syncVars
BY DEF Next, vars, StartCall, ClientStep, Tick, TablesNext

LEMMA UnitsStep == [Next]_vars => [UnitsNext]_unitVars
BY DEF Next, vars, StartCall, ClientStep, Tick, TablesNext

-----------------------------------------------------------------------------
(* Edits.  Those that were over when an edit arrived are over now, so one  *)
(* that is written later is not among them.                                *)

DetailsInv ==
  /\ edit \in [Details!Edit -> Details!EditState]
  /\ \A e \in Details!Edit : edit[e].before \subseteq Details!Answered
  /\ EditsSurvive

LEMMA DetailsInit == Init => DetailsInv
<1> SUFFICES ASSUME Init PROVE DetailsInv
  OBVIOUS
<1>1. edit = [e \in Details!Edit |-> [pc |-> "idle", given |-> {}, before |-> {},
                                      overrun |-> FALSE]]
  BY DEF Init, Details!DetailInit
<1>2. edit \in [Details!Edit -> Details!EditState] /\ Details!Answered = {}
  BY <1>1 DEF Details!EditState, Details!Answered
<1> QED BY <1>1, <1>2 DEF DetailsInv, EditsSurvive, Details!EditsSurvive

\* An edit moves without being answered, and nothing is written.
LEMMA EditMoves ==
  ASSUME DetailsInv, NEW e \in Details!Edit, edit[e].pc # "ok",
         NEW next \in Details!EditState, next.pc # "ok",
         next.before \subseteq Details!Answered,
         edit' = [edit EXCEPT ![e] = next], UNCHANGED product
  PROVE  DetailsInv'
<1>1. edit' \in [Details!Edit -> Details!EditState]
  BY DEF DetailsInv
<1>2. \A d \in Details!Edit : edit'[d] = IF d = e THEN next ELSE edit[d]
  BY DEF DetailsInv
<1>3. Details!Answered' = Details!Answered
  BY <1>2 DEF Details!Answered
<1>4. \A d \in Details!Answered : edit'[d] = edit[d]
  BY <1>2 DEF Details!Answered
<1>5. \A d \in Details!Edit : edit'[d].before \subseteq Details!Answered'
  BY <1>2, <1>3 DEF DetailsInv
<1> HIDE DEF DetailsInv
<1>6. EditsSurvive'
  BY <1>3, <1>4 DEF DetailsInv, EditsSurvive, Details!EditsSurvive
<1> QED BY <1>1, <1>5, <1>6 DEF DetailsInv

LEMMA UpdateSurvives ==
  ASSUME DetailsInv, NEW e \in Details!Edit, Details!UpdateProduct(e)
  PROVE  DetailsInv'
<1> DEFINE next == [edit[e] EXCEPT !.pc = "ok"]
<1>1. /\ edit[e] \in Details!EditState /\ edit[e].pc = "update"
      /\ edit' = [edit EXCEPT ![e] = next]
      /\ product' = [f \in Fields |-> IF f \in edit[e].given THEN e ELSE product[f]]
  BY DEF DetailsInv, Details!UpdateProduct, Details!UpdateData
<1>2. /\ next \in Details!EditState /\ next.pc = "ok" /\ next.given = edit[e].given
      /\ next.before = edit[e].before /\ next.overrun = edit[e].overrun
  BY <1>1 DEF Details!EditState
<1>3. \A d \in Details!Edit : edit'[d] = IF d = e THEN next ELSE edit[d]
  BY <1>1 DEF DetailsInv
<1> HIDE DEF next
<1>4. Details!Answered' = Details!Answered \cup {e} /\ e \notin Details!Answered
  BY <1>1, <1>2, <1>3 DEF Details!Answered
<1>5. \A d \in Details!Edit : /\ edit'[d].given = edit[d].given
                              /\ edit'[d].before = edit[d].before
                              /\ edit'[d].overrun = edit[d].overrun
                              /\ edit[d].given \subseteq Fields
  BY <1>2, <1>3 DEF DetailsInv, Details!EditState
<1>6. edit' \in [Details!Edit -> Details!EditState]
  BY <1>1, <1>2 DEF DetailsInv
<1>7. \A d \in Details!Edit : edit'[d].before \subseteq Details!Answered'
  BY <1>4, <1>5 DEF DetailsInv
<1>8. ASSUME NEW d \in Details!Answered', NEW f \in edit'[d].given
      PROVE  \/ product'[f] = d
             \/ \E c \in Details!Answered' \ edit'[d].before :
                  f \in edit'[c].given /\ product'[f] = c
             \/ edit'[d].overrun /\ product'[f] = Details!FromLinnworks
  <2>1. d \in Details!Edit /\ f \in Fields /\ f \in edit[d].given
    BY <1>5, <1>8 DEF Details!Answered
  <2>2. CASE f \in edit[e].given
    <3>1. product'[f] = e
      BY <1>1, <2>1, <2>2
    <3>2. e \in Details!Answered' \ edit'[d].before /\ f \in edit'[e].given
      BY <1>4, <1>5, <2>1, <2>2 DEF DetailsInv
    <3> QED BY <3>1, <3>2
  <2>3. CASE f \notin edit[e].given
    <3>1. product'[f] = product[f] /\ d # e /\ d \in Details!Answered
      BY <1>1, <1>4, <1>8, <2>1, <2>3
    <3>2. \/ product[f] = d
          \/ \E c \in Details!Answered \ edit[d].before : f \in edit[c].given /\ product[f] = c
          \/ edit[d].overrun /\ product[f] = Details!FromLinnworks
      BY <2>1, <3>1 DEF DetailsInv, EditsSurvive, Details!EditsSurvive
    <3>3. ASSUME NEW c \in Details!Answered \ edit[d].before
          PROVE  c \in Details!Answered' \ edit'[d].before /\ edit'[c].given = edit[c].given
      BY <1>4, <1>5, <2>1 DEF Details!Answered
    <3> QED BY <1>5, <2>1, <3>1, <3>2, <3>3
  <2> QED BY <2>2, <2>3
<1> QED BY <1>6, <1>7, <1>8 DEF DetailsInv, EditsSurvive, Details!EditsSurvive

LEMMA SyncOverruns ==
  ASSUME DetailsInv, NEW s \in Details!SyncRun, Details!WriteProduct(s)
  PROVE  DetailsInv'
<1>1. CASE UNCHANGED <<product, edit>>
  BY <1>1 DEF DetailsInv, EditsSurvive, Details!EditsSurvive, Details!Answered
<1>2. CASE /\ product' = Details!ToProduct
           /\ edit' = [e \in Details!Edit |->
                         [edit[e] EXCEPT !.overrun = @ \/ edit[e].pc = "ok"]]
  <2>1. \A e \in Details!Edit : /\ edit[e] \in Details!EditState
                                /\ edit'[e] = [edit[e] EXCEPT !.overrun = @ \/ edit[e].pc = "ok"]
    BY <1>2 DEF DetailsInv
  <2>2. \A e \in Details!Edit :
          /\ edit'[e] \in Details!EditState /\ edit'[e].pc = edit[e].pc
          /\ edit'[e].given = edit[e].given /\ edit'[e].before = edit[e].before
          /\ edit[e].pc = "ok" => edit'[e].overrun
    <3> TAKE e \in Details!Edit
    <3> DEFINE old == edit[e]
    <3>1. /\ old \in Details!EditState
          /\ edit'[e] = [old EXCEPT !.overrun = @ \/ old.pc = "ok"]
      BY <2>1
    <3> HIDE DEF old
    <3>2. /\ edit'[e].pc = old.pc /\ edit'[e].given = old.given
          /\ edit'[e].before = old.before /\ edit'[e].overrun = (old.overrun \/ old.pc = "ok")
      BY <3>1 DEF Details!EditState
    <3>3. edit'[e] \in Details!EditState
      BY <3>1 DEF Details!EditState
    <3> QED BY <3>2, <3>3 DEF old
  <2>3. edit' \in [Details!Edit -> Details!EditState] /\ Details!Answered' = Details!Answered
    BY <1>2, <2>2 DEF Details!Answered
  <2>4. \A f \in Fields : product'[f] = Details!FromLinnworks
    BY <1>2 DEF Details!ToProduct
  <2>5. \A e \in Details!Edit : edit[e].given \subseteq Fields
    BY <2>1 DEF Details!EditState
  <2>6. EditsSurvive'
    BY <2>2, <2>3, <2>4, <2>5 DEF EditsSurvive, Details!EditsSurvive, Details!Answered
  <2> QED BY <2>2, <2>3, <2>6 DEF DetailsInv
<1> QED BY <1>1, <1>2 DEF Details!WriteProduct

LEMMA DetailsKept == DetailsInv /\ [Next]_vars => DetailsInv'
<1> SUFFICES ASSUME DetailsInv, [Next]_vars PROVE DetailsInv'
  OBVIOUS
<1>1. CASE UNCHANGED detailVars
  BY <1>1 DEF detailVars, DetailsInv, EditsSurvive, Details!EditsSurvive, Details!Answered
<1>2. ASSUME NEW e \in Details!Edit, NEW given \in SUBSET Fields, Details!ArriveEdit(e, given)
      PROVE  DetailsInv'
  <2> DEFINE next == [pc |-> "find", given |-> given, before |-> Details!Answered,
                      overrun |-> FALSE]
  <2>1. next \in Details!EditState /\ next.pc # "ok" /\ next.before \subseteq Details!Answered
    BY DEF Details!EditState, Details!Answered
  <2>2. edit[e].pc # "ok" /\ edit' = [edit EXCEPT ![e] = next] /\ UNCHANGED product
    BY <1>2 DEF Details!ArriveEdit
  <2> HIDE DEF next
  <2> QED BY <2>1, <2>2, EditMoves
<1>3. ASSUME NEW e \in Details!Edit, Details!FindMetricsBySku(e)
      PROVE  DetailsInv'
  <2> DEFINE next == [edit[e] EXCEPT !.pc = IF Details!Exists THEN "update" ELSE "NOT_FOUND"]
  <2>1. edit[e] \in Details!EditState /\ edit[e].before \subseteq Details!Answered
    BY DEF DetailsInv
  <2>2. next \in Details!EditState /\ next.pc # "ok" /\ next.before \subseteq Details!Answered
    BY <2>1 DEF Details!EditState
  <2>3. edit[e].pc # "ok" /\ edit' = [edit EXCEPT ![e] = next] /\ UNCHANGED product
    BY <1>3 DEF Details!FindMetricsBySku
  <2> HIDE DEF next
  <2> QED BY <2>2, <2>3, EditMoves
<1>4. ASSUME NEW s \in Details!SyncRun, Details!FindProduct(s)
      PROVE  DetailsInv'
  BY <1>4 DEF Details!FindProduct, DetailsInv, EditsSurvive, Details!EditsSurvive,
              Details!Answered
<1> QED BY DetailsStep, <1>1, <1>2, <1>3, <1>4, UpdateSurvives, SyncOverruns
        DEF Details!DetailNext

\* What is typed in for a product gives way to a sync or to a later edit of the
\* same field only, for any number of edits, syncs and fields
\* (prisma-sku-dashboard.repository.ts:252-265, 445-459).
THEOREM EditsDoSurvive == Spec => []EditsSurvive
<1>1. DetailsInv => EditsSurvive
  BY DEF DetailsInv
<1> QED BY DetailsInit, DetailsKept, <1>1, PTL DEF Spec

-----------------------------------------------------------------------------
(* The rate limit.  The requests of the last minute are the last entries   *)
(* of requestTimestamps, which has no more than the limit.                 *)

\* What the loop with shift leaves: all but the first n, which are too old.
LEMMA ShiftDrops ==
  ASSUME NEW ages \in Seq(Nat), NEW oldest \in Int
  PROVE  \E n \in 0 .. Len(ages) :
           /\ Client!Shift(ages, oldest) = SubSeq(ages, n + 1, Len(ages))
           /\ \A i \in 1 .. n : ages[i] > oldest
           /\ n < Len(ages) => ages[n + 1] <= oldest
<1> DEFINE young == {i \in DOMAIN ages : ages[i] <= oldest}
<1>1. Len(ages) \in Nat /\ DOMAIN ages = 1 .. Len(ages)
      /\ \A i \in 1 .. Len(ages) : ages[i] \in Nat
  OBVIOUS
<1>2. CASE young = {}
  <2>1. Client!Shift(ages, oldest) = <<>>
    BY <1>2 DEF Client!Shift
  <2>2. SubSeq(ages, Len(ages) + 1, Len(ages)) = <<>>
    BY <1>1
  <2>3. \A i \in 1 .. Len(ages) : ages[i] > oldest
    BY <1>1, <1>2
  <2> QED BY <1>1, <2>1, <2>2, <2>3
<1>3. CASE young # {}
  <2>1. young \in SUBSET Nat
    BY <1>1
  <2>2. PICK m \in young : \A k \in young : m <= k
    BY <1>3, <2>1, Smallest
  <2>3. Client!Min(young) \in young /\ \A k \in young : Client!Min(young) <= k
    BY <2>2 DEF Client!Min
  <2>4. Client!Shift(ages, oldest) = SubSeq(ages, Client!Min(young), Len(ages))
    BY <1>3 DEF Client!Shift
  <2> DEFINE n == Client!Min(young) - 1
  <2>5. Client!Min(young) \in 1 .. Len(ages) /\ ages[Client!Min(young)] <= oldest
    BY <1>1, <2>3
  <2>6. n \in 0 .. Len(ages) /\ n + 1 = Client!Min(young)
    BY <1>1, <2>5
  <2>7. ASSUME NEW i \in 1 .. n
        PROVE  ages[i] > oldest
    <3>1. i \in 1 .. Len(ages) /\ ~ (Client!Min(young) <= i)
      BY <1>1, <2>5, <2>6
    <3>2. i \notin young
      BY <2>3, <3>1
    <3> QED BY <1>1, <3>1, <3>2
  <2> QED BY <2>4, <2>5, <2>6, <2>7
<1> QED BY <1>2, <1>3

LEMMA MaxOfPair ==
  ASSUME NEW a \in Int, NEW b \in Int
  PROVE  (a >= b /\ Client!Max({a, b}) = a) \/ (b > a /\ Client!Max({a, b}) = b)
<1>1. ASSUME NEW m \in {a, b}, \A y \in {a, b} : m >= y
      PROVE  Client!Max({a, b}) = m
  <2>1. \A x \in {a, b} : (\A y \in {a, b} : x >= y) => x = m
    BY <1>1
  <2> QED BY <1>1, <2>1 DEF Client!Max
<1> QED BY <1>1

LEMMA MinOfPair ==
  ASSUME NEW a \in Int, NEW b \in Int
  PROVE  (a <= b /\ Client!Min({a, b}) = a) \/ (b < a /\ Client!Min({a, b}) = b)
<1>1. ASSUME NEW m \in {a, b}, \A y \in {a, b} : m <= y
      PROVE  Client!Min({a, b}) = m
  <2>1. \A x \in {a, b} : (\A y \in {a, b} : x <= y) => x = m
    BY <1>1
  <2> QED BY <1>1, <2>1 DEF Client!Min
<1> QED BY <1>1

IsEndOf(short, long) ==
  /\ Len(short) <= Len(long)
  /\ \A i \in 1 .. Len(short) : short[i] = long[Len(long) - Len(short) + i]

RateInv ==
  /\ stamps \in Seq(Nat) /\ Len(stamps) <= Limit
  /\ sent \in Seq(0 .. Window - 1)
  /\ \A i, j \in 1 .. Len(sent) : i < j => sent[i] >= sent[j]
  /\ IsEndOf(sent, stamps)

LEMMA RateInit == Init => RateInv
BY DEF Init, Client!Init, RateInv, IsEndOf, Client!ClientConstants

\* The entries that go are none of the last minute.
LEMMA RememberedKeeps ==
  ASSUME RateInv
  PROVE  /\ Client!Remembered \in Seq(Nat) /\ Len(Client!Remembered) <= Limit
         /\ IsEndOf(sent, Client!Remembered)
<1>1. /\ Limit \in Nat /\ Window \in Nat /\ Client!WindowStart = Window
      /\ stamps \in Seq(Nat) /\ Len(stamps) \in Nat /\ Len(sent) \in Nat
      /\ Len(stamps) <= Limit /\ Len(sent) <= Len(stamps)
  BY DEF Client!ClientConstants, Client!WindowStart, RateInv, IsEndOf
<1>2. PICK n \in 0 .. Len(stamps) :
        /\ Client!Remembered = SubSeq(stamps, n + 1, Len(stamps))
        /\ \A i \in 1 .. n : stamps[i] > Window
  <2>1. Window \in Int /\ Client!Remembered = Client!Shift(stamps, Window)
    BY <1>1 DEF Client!Remembered
  <2> QED BY <1>1, <2>1, ShiftDrops
<1>3. /\ Client!Remembered \in Seq(Nat) /\ Len(Client!Remembered) = Len(stamps) - n
      /\ \A i \in 1 .. Len(stamps) - n : Client!Remembered[i] = stamps[n + i]
  BY <1>1, <1>2
<1>4. n <= Len(stamps) - Len(sent)
  <2>1. CASE Len(sent) = 0
    BY <1>1, <1>2, <2>1
  <2>2. CASE Len(sent) # 0
    <3>1. sent[1] \in 0 .. Window - 1 /\ sent[1] = stamps[Len(stamps) - Len(sent) + 1]
      BY <1>1, <2>2 DEF RateInv, IsEndOf
    <3>2. ~ (Len(stamps) - Len(sent) + 1 \in 1 .. n)
      BY <1>1, <1>2, <3>1
    <3> QED BY <1>1, <1>2, <3>2
  <2> QED BY <2>1, <2>2
<1>5. ASSUME NEW i \in 1 .. Len(sent)
      PROVE  sent[i] = Client!Remembered[Len(Client!Remembered) - Len(sent) + i]
  <2>1. sent[i] = stamps[Len(stamps) - Len(sent) + i]
    BY DEF RateInv, IsEndOf
  <2>2. Len(stamps) - n - Len(sent) + i \in 1 .. Len(stamps) - n
    BY <1>1, <1>2, <1>4
  <2>3. Client!Remembered[Len(stamps) - n - Len(sent) + i]
        = stamps[n + (Len(stamps) - n - Len(sent) + i)]
    BY <1>3, <2>2
  <2>4. n + (Len(stamps) - n - Len(sent) + i) = Len(stamps) - Len(sent) + i
    BY <1>1, <1>2
  <2> QED BY <1>3, <2>1, <2>3, <2>4
<1>6. Len(sent) <= Len(Client!Remembered) /\ Len(Client!Remembered) <= Limit
  BY <1>1, <1>3, <1>4
<1> QED BY <1>3, <1>5, <1>6 DEF IsEndOf

LEMMA SlotKeepsRate ==
  ASSUME RateInv, NEW c, NEW next, NEW nap, Client!TakeSlot(c, next, nap)
  PROVE  RateInv'
<1> DEFINE kept == Client!Remembered
<1>1. /\ kept \in Seq(Nat) /\ Len(kept) \in Nat /\ Len(kept) <= Limit /\ IsEndOf(sent, kept)
      /\ Limit \in Nat /\ Window \in Nat \ {0}
  BY RememberedKeeps DEF Client!ClientConstants
<1>2. CASE stamps' = kept /\ UNCHANGED sent
  BY <1>1, <1>2 DEF RateInv, IsEndOf
<1>3. CASE Len(kept) < Limit /\ stamps' = Append(kept, 0) /\ sent' = Append(sent, 0)
  <2>1. sent \in Seq(0 .. Window - 1) /\ Len(sent) \in Nat
    BY DEF RateInv
  <2>2. /\ stamps' \in Seq(Nat) /\ Len(stamps') = Len(kept) + 1
        /\ \A i \in 1 .. Len(kept) : stamps'[i] = kept[i]
        /\ stamps'[Len(kept) + 1] = 0
    BY <1>1, <1>3
  <2>3. /\ sent' \in Seq(0 .. Window - 1) /\ Len(sent') = Len(sent) + 1
        /\ \A i \in 1 .. Len(sent) : sent'[i] = sent[i] /\ sent[i] \in 0 .. Window - 1
        /\ sent'[Len(sent) + 1] = 0
    BY <1>1, <1>3, <2>1
  <2>4. ASSUME NEW i \in 1 .. Len(sent'), NEW j \in 1 .. Len(sent'), i < j
        PROVE  sent'[i] >= sent'[j]
    <3>1. i \in 1 .. Len(sent) /\ (j \in 1 .. Len(sent) \/ j = Len(sent) + 1)
      BY <2>1, <2>3, <2>4
    <3>2. j \in 1 .. Len(sent) => sent[i] >= sent[j]
      BY <2>4, <3>1 DEF RateInv
    <3> QED BY <2>3, <3>1, <3>2
  <2>5. ASSUME NEW i \in 1 .. Len(sent')
        PROVE  sent'[i] = stamps'[Len(stamps') - Len(sent') + i]
    <3>1. CASE i = Len(sent) + 1
      BY <1>1, <2>1, <2>2, <2>3, <3>1
    <3>2. CASE i \in 1 .. Len(sent)
      <4>1. sent[i] = kept[Len(kept) - Len(sent) + i] /\ Len(sent) <= Len(kept)
        BY <1>1, <3>2 DEF IsEndOf
      <4>2. Len(kept) - Len(sent) + i \in 1 .. Len(kept)
            /\ Len(stamps') - Len(sent') + i = Len(kept) - Len(sent) + i
        BY <1>1, <2>1, <2>2, <2>3, <3>2, <4>1
      <4> QED BY <2>2, <2>3, <3>2, <4>1, <4>2
    <3> QED BY <2>1, <2>3, <3>1, <3>2
  <2>6. Len(sent') <= Len(stamps') /\ Len(stamps') <= Limit
    BY <1>1, <1>3, <2>1, <2>2, <2>3 DEF IsEndOf
  <2> QED BY <2>2, <2>3, <2>4, <2>5, <2>6 DEF RateInv, IsEndOf
<1> QED BY <1>2, <1>3 DEF Client!TakeSlot

LEMMA TickKeepsRate ==
  ASSUME RateInv, Client!Tick
  PROVE  RateInv'
<1> DEFINE aged == [i \in DOMAIN sent |-> sent[i] + 1]
           older == [i \in DOMAIN stamps |-> Client!Min({stamps[i] + 1, Window + 1})]
<1>1. /\ Limit \in Nat /\ Window \in Nat \ {0}
      /\ stamps \in Seq(Nat) /\ Len(stamps) \in Nat /\ DOMAIN stamps = 1 .. Len(stamps)
      /\ sent \in Seq(0 .. Window - 1) /\ Len(sent) \in Nat /\ DOMAIN sent = 1 .. Len(sent)
      /\ Len(sent) <= Len(stamps) /\ Len(stamps) <= Limit
  BY DEF RateInv, IsEndOf, Client!ClientConstants
<1>2. ASSUME NEW a \in Nat
      PROVE  Client!Min({a + 1, Window + 1}) = IF a + 1 <= Window + 1 THEN a + 1 ELSE Window + 1
  <2>1. a + 1 \in Int /\ Window + 1 \in Int
    BY <1>1
  <2> QED BY <2>1, MinOfPair
<1>3. /\ older \in Seq(Nat) /\ Len(older) = Len(stamps)
      /\ \A i \in 1 .. Len(stamps) : older[i] = IF stamps[i] + 1 <= Window + 1
                                                 THEN stamps[i] + 1 ELSE Window + 1
  <2>1. \A i \in 1 .. Len(stamps) : stamps[i] \in Nat
    BY <1>1
  <2>2. \A i \in 1 .. Len(stamps) :
          older[i] = IF stamps[i] + 1 <= Window + 1 THEN stamps[i] + 1 ELSE Window + 1
    BY <1>1, <1>2, <2>1
  <2>3. older = [i \in 1 .. Len(stamps) |-> older[i]]
    BY <1>1
  <2> HIDE DEF older
  <2>4. older \in [1 .. Len(stamps) -> Nat]
    <3>1. Window \in Nat
      BY <1>1
    <3>2. ASSUME NEW i \in 1 .. Len(stamps)
          PROVE  older[i] \in Nat
      BY <2>1, <2>2, <3>1
    <3> QED BY <2>3, <3>2
  <2>5. Len(stamps) \in Nat /\ \A S : \A n \in Nat : [1 .. n -> S] \subseteq Seq(S)
    BY <1>1
  <2>6. older \in Seq(Nat)
    BY <2>4, <2>5
  <2>7. Len(older) = Len(stamps)
    BY <2>4, <2>5, <2>6
  <2> QED BY <2>2, <2>6, <2>7
<1>4. /\ aged \in Seq(Nat) /\ Len(aged) = Len(sent)
      /\ \A i \in 1 .. Len(sent) : aged[i] = sent[i] + 1 /\ sent[i] \in 0 .. Window - 1
  BY <1>1
<1>5. sent' = Client!Shift(aged, Window - 1) /\ stamps' = older
  BY DEF Client!Tick
<1> HIDE DEF aged, older
<1>6. PICK n \in 0 .. Len(sent) :
        /\ sent' = SubSeq(aged, n + 1, Len(aged))
        /\ n < Len(sent) => aged[n + 1] <= Window - 1
  <2>1. Window - 1 \in Int
    BY <1>1
  <2> QED BY <1>4, <1>5, <2>1, ShiftDrops
<1>7. /\ Len(sent) \in Nat /\ Len(stamps) \in Nat /\ Window \in Nat \ {0}
      /\ Len(sent) <= Len(stamps) /\ Len(stamps) <= Limit
      /\ Len(stamps') = Len(stamps) /\ n \in 0 .. Len(sent)
  BY <1>1, <1>3, <1>5
<1>8. sent' \in Seq(Nat) /\ Len(sent') = Len(sent) - n
      /\ \A i \in 1 .. Len(sent) - n : sent'[i] = aged[n + i]
  <2>1. aged \in Seq(Nat) /\ Len(aged) = Len(sent)
    BY <1>4
  <2> QED BY <1>6, <1>7, <2>1
<1>9. ASSUME NEW i \in 1 .. Len(sent')
      PROVE  /\ n + i \in 1 .. Len(sent) /\ sent'[i] = sent[n + i] + 1
             /\ sent[n + i] \in 0 .. Window - 1
  <2>1. n + i \in 1 .. Len(sent) /\ i \in 1 .. Len(sent) - n
    BY <1>7, <1>8
  <2> QED BY <1>4, <1>8, <2>1
<1>10. ASSUME NEW i \in 1 .. Len(sent'), NEW j \in 1 .. Len(sent'), i < j
       PROVE  sent'[i] >= sent'[j]
  <2>1. /\ n + i \in 1 .. Len(sent) /\ n + j \in 1 .. Len(sent)
        /\ sent'[i] = sent[n + i] + 1 /\ sent[n + i] \in 0 .. Window - 1
        /\ sent'[j] = sent[n + j] + 1 /\ sent[n + j] \in 0 .. Window - 1
    BY <1>9
  <2>2. n + i < n + j
    BY <1>7, <1>8, <1>10
  <2>3. sent[n + i] >= sent[n + j]
    BY <2>1, <2>2 DEF RateInv
  <2> QED BY <1>7, <2>1, <2>3
<1>11. ASSUME NEW i \in 1 .. Len(sent')
       PROVE  sent'[i] \in 0 .. Window - 1
  <2>1. n < Len(sent) /\ 1 \in 1 .. Len(sent') /\ 1 \in 1 .. Len(sent) - n
    BY <1>7, <1>8
  <2>2. sent'[1] <= Window - 1
    BY <1>6, <1>8, <2>1
  <2>3. i = 1 \/ sent'[1] >= sent'[i]
    BY <1>7, <1>8, <1>10, <2>1
  <2>4. sent'[i] \in Nat /\ sent'[1] \in Nat
    BY <1>8, <2>1
  <2> QED BY <1>7, <2>2, <2>3, <2>4
<1>12. sent' \in Seq(0 .. Window - 1)
  <2>1. sent' \in [1 .. Len(sent') -> Nat] /\ Len(sent') \in Nat
    BY <1>8
  <2>2. sent' \in [1 .. Len(sent') -> 0 .. Window - 1]
    BY <1>11, <2>1
  <2>3. \A S : \A len \in Nat : [1 .. len -> S] \subseteq Seq(S)
    OBVIOUS
  <2> QED BY <2>1, <2>2, <2>3
<1>13. ASSUME NEW i \in 1 .. Len(sent')
       PROVE  sent'[i] = stamps'[Len(stamps') - Len(sent') + i]
  <2> DEFINE k == Len(stamps) - Len(sent) + (n + i)
  <2>1. /\ n + i \in 1 .. Len(sent) /\ sent'[i] = sent[n + i] + 1
        /\ sent[n + i] \in 0 .. Window - 1
    BY <1>9
  <2>2. sent[n + i] = stamps[k]
    BY <2>1 DEF RateInv, IsEndOf
  <2>3. k \in 1 .. Len(stamps) /\ Len(stamps') - Len(sent') + i = k
    BY <1>7, <1>8, <2>1
  <2> HIDE DEF k
  <2>4. older[k] = sent[n + i] + 1
    <3>1. older[k] = IF stamps[k] + 1 <= Window + 1 THEN stamps[k] + 1 ELSE Window + 1
      BY <1>3, <2>3
    <3> QED BY <1>7, <2>1, <2>2, <3>1
  <2> QED BY <1>5, <2>1, <2>3, <2>4
<1>14. Len(sent') <= Len(stamps') /\ Len(stamps') <= Limit /\ stamps' \in Seq(Nat)
  <2>1. stamps' \in Seq(Nat)
    BY <1>3, <1>5
  <2> QED BY <1>7, <1>8, <2>1
<1> QED BY <1>10, <1>12, <1>13, <1>14 DEF RateInv, IsEndOf

LEMMA RateIsKept == RateInv /\ [Next]_vars => RateInv'
<1> SUFFICES ASSUME RateInv, [Next]_vars PROVE RateInv'
  OBVIOUS
<1>1. CASE UNCHANGED <<stamps, sent>>
  BY <1>1 DEF RateInv, IsEndOf
<1>2. ASSUME NEW c \in Call, Client!Step(c)
      PROVE  RateInv'
  BY <1>1, <1>2, SlotKeepsRate
     DEF Client!Step, Client!Authorize, Client!AuthAnswered, Client!AuthFailed,
         Client!WaitForSlot, Client!WakeUp, Client!Answered, Client!Unauthorized,
         Client!RequestFailed, Client!Retry
<1>3. ASSUME NEW c \in Call, Client!Start(c)
      PROVE  RateInv'
  BY <1>1, <1>3 DEF Client!Start
<1> QED BY ClientsStep, <1>1, <1>2, <1>3, TickKeepsRate DEF Client!Next, clientVars

\* No minute has more requests than the limit, for any number of calls, whatever
\* Linnworks answers and however the calls meet at the slots
\* (linnworks-client.ts:283-304).
THEOREM RateIsNotExceeded == Spec => []RateKept
<1>1. RateInv => RateKept
  BY DEF RateInv, IsEndOf, RateKept, Client!RateKept, Client!ClientConstants
<1> QED BY RateInit, RateIsKept, <1>1, PTL DEF Spec

-----------------------------------------------------------------------------
(* The walk.  First what a page is: the lowest skus of the rest, all of it *)
(* if it is no longer than a page.                                         *)

\* Cardinality, as SkuBrowse has it, is that of FiniteSets.
LEMMA Cardinal == \A S : Browse!Cardinality(S) = Cardinality(S)
BY Zenon DEF Browse!Cardinality, Cardinality

LEMMA SkusAreFinite ==
  ASSUME NEW S \in SUBSET Browse!Sku
  PROVE  IsFiniteSet(S) /\ Cardinality(S) \in Nat
<1>1. Skus \in Nat
  BY DEF Browse!BrowseConstants
<1>2. IsFiniteSet(1 .. Skus)
  BY <1>1, FS_Interval
<1> QED BY <1>2, FS_Subset, FS_CardinalityType DEF Browse!Sku

LEMMA FirstOfAll ==
  ASSUME NEW S \in SUBSET Browse!Sku, NEW n \in Nat, Cardinality(S) <= n
  PROVE  Browse!FirstOf(S, n) = S
<1>1. IsFiniteSet(S)
  BY SkusAreFinite
<1>2. ASSUME NEW s \in S
      PROVE  Cardinality({q \in S : q < s}) < n
  <2> DEFINE below == {q \in S : q < s}
  <2>1. below \in SUBSET S /\ s \notin below
    BY DEF Browse!Sku
  <2>2. /\ IsFiniteSet(below) /\ Cardinality(below) <= Cardinality(S)
        /\ Cardinality(below) # Cardinality(S)
    BY <1>1, <2>1, FS_Subset
  <2>3. Cardinality(below) \in Nat /\ Cardinality(S) \in Nat
    BY <1>1, <2>2, FS_CardinalityType
  <2> HIDE DEF below
  <2>4. Cardinality(below) < n
    BY <2>2, <2>3
  <2> QED BY <2>4 DEF below
<1> QED BY <1>2, Cardinal DEF Browse!FirstOf

LEMMA FirstOfIsLow ==
  ASSUME NEW S \in SUBSET Browse!Sku, NEW n \in Nat,
         NEW s \in Browse!FirstOf(S, n), NEW q \in S, q < s
  PROVE  q \in Browse!FirstOf(S, n)
<1>1. IsFiniteSet(S)
  BY SkusAreFinite
<1> DEFINE belowQ == {x \in S : x < q}
           belowS == {x \in S : x < s}
<1>2. s \in S /\ Cardinality(belowS) < n
  BY Cardinal DEF Browse!FirstOf
<1>3. belowQ \in SUBSET belowS /\ belowS \in SUBSET S
  <2>1. \A x \in S \cup {s, q} : x \in Int
    BY <1>2 DEF Browse!Sku
  <2> QED BY <2>1
<1>4. IsFiniteSet(belowS) /\ Cardinality(belowQ) <= Cardinality(belowS) /\ IsFiniteSet(belowQ)
  BY <1>1, <1>3, FS_Subset
<1>5. Cardinality(belowQ) \in Nat /\ Cardinality(belowS) \in Nat
  BY <1>4, FS_CardinalityType
<1> HIDE DEF belowQ, belowS
<1>6. Cardinality(belowQ) < n
  BY <1>2, <1>4, <1>5
<1>7. Browse!Cardinality({x \in S : x < q}) < n
  BY <1>6, Cardinal DEF belowQ
<1> QED BY <1>7 DEF Browse!FirstOf

LEMMA FirstOfSome ==
  ASSUME NEW S \in SUBSET Browse!Sku, S # {}
  PROVE  Browse!FirstOf(S, PageLimit) # {}
<1>1. S \in SUBSET Nat
  BY DEF Browse!Sku
<1>2. PICK m \in S : \A k \in S : m <= k
  BY <1>1, Smallest
<1>3. {x \in S : x < m} = {}
  <2>1. \A x \in S : x \in Nat /\ m \in Nat /\ m <= x
    BY <1>1, <1>2
  <2>2. \A x \in S : ~ (x < m)
    BY <2>1
  <2> QED BY <2>2
<1> DEFINE below == {x \in S : x < m}
<1>4. Browse!Cardinality(below) = 0
  <2>1. Browse!Cardinality({}) = 0
    BY FS_EmptySet, Cardinal
  <2> QED BY <1>3, <2>1
<1>5. PageLimit \in Nat \ {0}
  BY DEF Browse!BrowseConstants
<1> HIDE DEF below
<1>6. Browse!Cardinality(below) < PageLimit
  BY <1>4, <1>5
<1>7. m \in Browse!FirstOf(S, PageLimit)
  BY <1>6 DEF Browse!FirstOf, below
<1> QED BY <1>7

\* The conditions of WalkShowsAll.
Few(query) == Browse!Cardinality(Browse!Where(query.inChannel)) <= Take
Steady(query) == query.stockStatus = "ALL" \/ ~query.moved

Matching(query) ==
  {s \in Browse!Where(query.inChannel) : Browse!HasStatus(s, query.stockStatus)}

Query == [pc : {"idle", "open", "over"}, inChannel : BOOLEAN, stockStatus : Browse!StockStatus,
          cursor : Browse!Sku \cup {0}, shown : [Browse!Sku -> 0 .. 2],
          due : SUBSET Browse!Sku, moved : BOOLEAN]

\* What is up to the cursor was shown, and nothing after it.
ShownUpTo(query) ==
  /\ query.cursor \in Matching(query) \cup {0}
  /\ query.due \subseteq Matching(query)
  /\ \A s \in Browse!Sku : query.shown[s] <= 1 /\ (query.shown[s] = 1 => s <= query.cursor)
  /\ \A s \in query.due : s <= query.cursor => query.shown[s] = 1

ShownAll(query) ==
  /\ \A s \in Browse!Sku : query.shown[s] <= 1
  /\ \A s \in query.due : query.shown[s] = 1

LEMMA FilteredIsMatching ==
  ASSUME NEW query, Few(query)
  PROVE  Browse!Filtered(query) = Matching(query) /\ Matching(query) \in SUBSET Browse!Sku
<1>1. Browse!Where(query.inChannel) \in SUBSET Browse!Sku
  BY DEF Browse!Where
<1>2. Browse!FirstOf(Browse!Where(query.inChannel), Take) = Browse!Where(query.inChannel)
  BY <1>1, FirstOfAll, Cardinal DEF Few, Browse!BrowseConstants
<1> QED BY <1>1, <1>2 DEF Browse!Filtered, Matching

\* A page shows what comes next.
LEMMA PageShows ==
  ASSUME NEW query \in Query, Few(query), ShownUpTo(query), Browse!browseSkus(query)
  PROVE  /\ walk' \in Query /\ walk'.pc \in {"open", "over"}
         /\ walk'.inChannel = query.inChannel /\ walk'.stockStatus = query.stockStatus
         /\ walk'.moved = query.moved /\ walk'.due = query.due
         /\ walk'.pc = "open" => /\ walk'.cursor \in Matching(query)
                                 /\ \A s \in Browse!Sku :
                                      /\ walk'.shown[s] <= 1
                                      /\ walk'.shown[s] = 1 => s <= walk'.cursor
                                 /\ \A s \in query.due :
                                      s <= walk'.cursor => walk'.shown[s] = 1
         /\ walk'.pc = "over" => ShownAll(walk)'
<1> DEFINE match == Matching(query)
           rest == Browse!Rest(query)
           page == Browse!Page(query)
<1>1. /\ Browse!Filtered(query) = match /\ match \in SUBSET Browse!Sku
      /\ Skus \in Nat /\ PageLimit \in Nat \ {0} /\ Browse!Sku = 1 .. Skus
      /\ query.cursor \in match \cup {0}
  BY FilteredIsMatching DEF Browse!BrowseConstants, Browse!Sku, ShownUpTo
<1>2. rest = {s \in match : s > query.cursor}
  <2>1. CASE query.cursor \in match
    BY <1>1, <2>1 DEF Browse!Rest
  <2>2. CASE query.cursor \notin match
    <3>1. rest = match /\ query.cursor = 0
      BY <1>1, <2>2 DEF Browse!Rest
    <3> QED BY <1>1, <3>1
  <2> QED BY <2>1, <2>2
<1>3. page = Browse!FirstOf(rest, PageLimit) /\ rest \in SUBSET Browse!Sku /\ page \in SUBSET rest
  BY <1>1, <1>2 DEF Browse!Page, Browse!FirstOf
<1>4. /\ query.cursor \in 0 .. Skus /\ query.due \in SUBSET match
      /\ query.shown \in [Browse!Sku -> 0 .. 2]
      /\ \A s \in Browse!Sku : query.shown[s] <= 1 /\ (query.shown[s] = 1 => s <= query.cursor)
      /\ \A s \in query.due : s <= query.cursor => query.shown[s] = 1
  BY <1>1 DEF ShownUpTo, Query
<1>5. /\ walk' = [query EXCEPT
                !.pc = IF Browse!NextCursor(query) = 0 THEN "over" ELSE "open",
                !.cursor = Browse!NextCursor(query),
                !.shown = [s \in Browse!Sku |-> IF s \in page /\ @[s] < 2 THEN @[s] + 1
                                                ELSE @[s]]]
  BY DEF Browse!browseSkus, Browse!NoCursor
<1>6. /\ walk'.pc = IF Browse!NextCursor(query) = 0 THEN "over" ELSE "open"
      /\ walk'.cursor = Browse!NextCursor(query)
      /\ walk'.inChannel = query.inChannel /\ walk'.stockStatus = query.stockStatus
      /\ walk'.moved = query.moved /\ walk'.due = query.due
      /\ walk'.shown = [s \in Browse!Sku |-> IF s \in page /\ query.shown[s] < 2
                                              THEN query.shown[s] + 1 ELSE query.shown[s]]
  BY <1>5 DEF Query
<1> HIDE DEF match, rest, page
<1>7. \A s \in Browse!Sku : /\ query.shown[s] \in 0 .. 1
                            /\ s \in page => query.shown[s] = 0 /\ walk'.shown[s] = 1
                            /\ s \notin page => walk'.shown[s] = query.shown[s]
  <2> TAKE s \in Browse!Sku
  <2>1. query.shown[s] \in 0 .. 1 /\ s \in Nat /\ (query.shown[s] = 1 => s <= query.cursor)
    BY <1>1, <1>4
  <2>2. s \in page => s > query.cursor
    BY <1>2, <1>3
  <2>3. s \in page => query.shown[s] = 0
    BY <1>4, <2>1, <2>2
  <2> QED BY <1>6, <2>1, <2>3
<1>8. walk'.shown \in [Browse!Sku -> 0 .. 2] /\ \A s \in Browse!Sku : walk'.shown[s] <= 1
  <2>1. \A s \in Browse!Sku : walk'.shown[s] \in 0 .. 1
    BY <1>7
  <2> QED BY <1>6, <2>1
<1>9. CASE Cardinality(rest) > PageLimit
  <2>1. rest # {}
    <3>1. rest = {} => Cardinality(rest) = 0
      BY FS_EmptySet
    <3> QED BY <1>1, <1>9, <3>1
  <2>2. page # {}
    BY <1>3, <2>1, FirstOfSome
  <2>3. page \in SUBSET (1 .. Skus)
    BY <1>1, <1>3
  <2>4. PICK m \in page : \A k \in page : k <= m
    BY <1>1, <2>2, <2>3, LargestOf
  <2>5. Browse!NextCursor(query) = CHOOSE s \in page : \A q \in page : q <= s
    BY <1>9, Cardinal DEF Browse!NextCursor, rest, page
  <2>6. walk'.cursor \in page /\ \A q \in page : q <= walk'.cursor
    BY <1>6, <2>4, <2>5
  <2>7. walk'.cursor \in 1 .. Skus /\ walk'.cursor > query.cursor /\ walk'.cursor \in match
    BY <1>2, <1>3, <2>3, <2>6
  <2>8. walk'.pc = "open"
    BY <1>6, <2>7
  <2>9. \A q \in rest : q <= walk'.cursor => q \in page
    <3> SUFFICES ASSUME NEW q \in rest, q <= walk'.cursor PROVE q \in page
      OBVIOUS
    <3>1. q = walk'.cursor \/ q < walk'.cursor
      BY <1>1, <1>3, <2>7
    <3> QED BY <1>1, <1>3, <2>6, <3>1, FirstOfIsLow
  <2>10. ASSUME NEW s \in Browse!Sku, walk'.shown[s] = 1
         PROVE  s <= walk'.cursor
    <3>1. s \in page \/ s <= query.cursor
      BY <1>4, <1>7, <2>10
    <3> QED BY <1>1, <1>4, <2>6, <2>7, <3>1
  <2>11. ASSUME NEW s \in query.due, s <= walk'.cursor
         PROVE  walk'.shown[s] = 1
    <3>1. s \in match /\ s \in Browse!Sku
      BY <1>1, <1>4
    <3>4. s \in Nat /\ query.cursor \in Nat
      BY <1>1, <1>4, <3>1
    <3>2. CASE s <= query.cursor
      BY <1>4, <1>7, <3>1, <3>2
    <3>3. CASE s > query.cursor
      BY <1>2, <1>7, <2>9, <2>11, <3>1, <3>3
    <3> QED BY <3>2, <3>3, <3>4
  <2>12. walk' \in Query
    BY <1>1, <1>5, <1>8, <1>6, <2>7, <2>8 DEF Query
  <2> QED BY <1>6, <1>8, <2>7, <2>8, <2>10, <2>11, <2>12 DEF match
<1>10. CASE ~ (Cardinality(rest) > PageLimit)
  <2>1. Cardinality(rest) \in Nat
    BY <1>3, SkusAreFinite
  <2>2. Cardinality(rest) <= PageLimit
    BY <1>1, <1>10, <2>1
  <2>3. page = rest
    BY <1>1, <1>3, <2>2, FirstOfAll
  <2>4. Browse!NextCursor(query) = 0
    BY <1>10, Cardinal DEF Browse!NextCursor, Browse!NoCursor, rest
  <2>5. walk'.pc = "over" /\ walk'.cursor = 0
    BY <1>6, <2>4
  <2>6. ASSUME NEW s \in query.due
        PROVE  walk'.shown[s] = 1
    <3>1. s \in match /\ s \in Browse!Sku
      BY <1>1, <1>4
    <3>4. s \in Nat /\ query.cursor \in Nat
      BY <1>1, <1>4, <3>1
    <3>2. CASE s <= query.cursor
      BY <1>4, <1>7, <3>1, <3>2
    <3>3. CASE s > query.cursor
      BY <1>2, <1>7, <2>3, <3>1, <3>3
    <3> QED BY <3>2, <3>3, <3>4
  <2>7. walk' \in Query
    BY <1>1, <1>5, <1>8, <1>6, <2>5 DEF Query
  <2> QED BY <1>6, <1>8, <2>5, <2>6, <2>7 DEF ShownAll
<1> QED BY <1>9, <1>10

-----------------------------------------------------------------------------
(* What syncs write meanwhile adds products to those that match.           *)

WalkInv ==
  /\ available \in [Browse!Sku -> Nat \cup {-1}]
  /\ walk \in Query
  /\ walk.pc = "idle" => /\ walk.cursor = 0 /\ walk.due = {} /\ ~walk.moved
                         /\ walk.shown = [s \in Browse!Sku |-> 0]
  /\ Few(walk) /\ Steady(walk) => /\ walk.pc = "open" => ShownUpTo(walk)
                                  /\ walk.pc = "over" => ShownAll(walk)

LEMMA WalkInit == Init => WalkInv
<1> SUFFICES ASSUME Init PROVE WalkInv
  OBVIOUS
<1>1. available \in FirstStock /\ FirstStock \subseteq [Browse!Sku -> Levels \cup {-1}]
      /\ Levels \subseteq Nat
  BY DEF Init, Browse!BrowseInit, Browse!BrowseConstants, Browse!NoProduct
<1>2. available \in [Browse!Sku -> Nat \cup {-1}]
  BY <1>1
<1>3. walk = [pc |-> "idle", inChannel |-> FALSE, stockStatus |-> "ALL", cursor |-> 0,
              shown |-> [s \in Browse!Sku |-> 0], due |-> {}, moved |-> FALSE]
  BY DEF Init, Browse!BrowseInit, Browse!NoCursor
<1>4. walk \in Query
  BY <1>3 DEF Query, Browse!StockStatus
<1> QED BY <1>2, <1>3, <1>4 DEF WalkInv

\* Products come, and nothing that the walk asks for changes.
LEMMA MoreMatch ==
  ASSUME WalkInv, available' \in [Browse!Sku -> Nat \cup {-1}],
         \A inChannel \in BOOLEAN : Browse!Where(inChannel) \subseteq Browse!Where(inChannel)',
         walk' \in Query,
         walk'.pc = walk.pc, walk'.inChannel = walk.inChannel,
         walk'.stockStatus = walk.stockStatus, walk'.cursor = walk.cursor,
         walk'.shown = walk.shown, walk'.due = walk.due,
         walk'.moved \in {walk.moved, walk.pc = "open"}, walk.moved => walk'.moved,
         walk.pc = "open" /\ Steady(walk)'
         => Matching(walk) \subseteq Matching(walk)'
  PROVE  WalkInv'
<1>1. Few(walk)' => Few(walk)
  <2> DEFINE old == Browse!Where(walk.inChannel)
             new == Browse!Where(walk.inChannel)'
  <2>1. old \subseteq new /\ old \in SUBSET Browse!Sku /\ new \in SUBSET Browse!Sku
    BY DEF WalkInv, Query, Browse!Where
  <2> HIDE DEF old, new
  <2>2. IsFiniteSet(new) /\ Cardinality(new) \in Nat /\ Cardinality(old) \in Nat
    BY <2>1, SkusAreFinite
  <2>3. Cardinality(old) <= Cardinality(new)
    BY <2>1, <2>2, FS_Subset
  <2>4. Cardinality(new) <= Take => Cardinality(old) <= Take
    BY <2>2, <2>3 DEF Browse!BrowseConstants
  <2> QED BY <2>4, Cardinal DEF Few, old, new
<1>2. Steady(walk)' => Steady(walk)
  BY DEF Steady
<1>3. ShownUpTo(walk) /\ Matching(walk) \subseteq Matching(walk)' => ShownUpTo(walk)'
  BY DEF ShownUpTo
<1>4. ShownAll(walk) => ShownAll(walk)'
  BY DEF ShownAll
<1>5. walk'.pc = "idle" => walk'.cursor = 0 /\ walk'.due = {} /\ ~walk'.moved
                          /\ walk'.shown = [s \in Browse!Sku |-> 0]
  BY DEF WalkInv
<1> QED BY <1>1, <1>2, <1>3, <1>4, <1>5 DEF WalkInv

LEMMA WritesKeepWalk ==
  ASSUME WalkInv, NEW s \in Browse!Sku,
         \/ Browse!UpsertProduct(s) \/ Browse!UpsertChannel(s)
         \/ \E n \in Levels : Browse!UpsertStock(s, n)
  PROVE  WalkInv'
<1>1. available \in [Browse!Sku -> Nat \cup {-1}] /\ walk \in Query /\ Levels \subseteq Nat
  BY DEF WalkInv, Browse!BrowseConstants
<1>2. CASE Browse!UpsertProduct(s)
  <2>1. /\ available[s] = -1 /\ available' = [available EXCEPT ![s] = 0]
        /\ UNCHANGED <<listed, walk>>
    BY <1>2 DEF Browse!UpsertProduct, Browse!Exists, Browse!NoProduct
  <2>2. /\ available' \in [Browse!Sku -> Nat \cup {-1}]
        /\ \A q \in Browse!Sku : Browse!Exists(q) => available'[q] = available[q]
                                                  /\ Browse!Exists(q)'
    BY <1>1, <2>1 DEF Browse!Exists, Browse!NoProduct
  <2>3. /\ \A inChannel \in BOOLEAN :
             Browse!Where(inChannel) \subseteq Browse!Where(inChannel)'
        /\ Matching(walk) \subseteq Matching(walk)'
    BY <2>1, <2>2 DEF Browse!Where, Matching, Browse!HasStatus
  <2> QED BY <1>1, <2>1, <2>2, <2>3, MoreMatch
<1>3. CASE Browse!UpsertChannel(s)
  <2>1. listed' = listed \cup {s} /\ UNCHANGED <<available, walk>>
    BY <1>3 DEF Browse!UpsertChannel
  <2>2. /\ \A inChannel \in BOOLEAN :
             Browse!Where(inChannel) \subseteq Browse!Where(inChannel)'
        /\ Matching(walk) \subseteq Matching(walk)'
    BY <2>1 DEF Browse!Where, Matching, Browse!HasStatus, Browse!Exists
  <2> QED BY <1>1, <2>1, <2>2, MoreMatch
<1>4. ASSUME NEW n \in Levels, Browse!UpsertStock(s, n)
      PROVE  WalkInv'
  <2>1. /\ Browse!Exists(s) /\ available' = [available EXCEPT ![s] = n] /\ n \in Nat
        /\ walk' = [walk EXCEPT !.moved = @ \/ walk.pc = "open"] /\ UNCHANGED listed
    BY <1>1, <1>4 DEF Browse!UpsertStock
  <2>2. /\ walk' \in Query /\ walk'.pc = walk.pc /\ walk'.inChannel = walk.inChannel
        /\ walk'.stockStatus = walk.stockStatus /\ walk'.cursor = walk.cursor
        /\ walk'.shown = walk.shown /\ walk'.due = walk.due
        /\ walk'.moved <=> (walk.moved \/ walk.pc = "open")
        /\ walk'.moved \in BOOLEAN /\ walk.moved \in BOOLEAN
    BY <1>1, <2>1 DEF Query
  <2>3. /\ available' \in [Browse!Sku -> Nat \cup {-1}]
        /\ \A q \in Browse!Sku : Browse!Exists(q) => Browse!Exists(q)'
    BY <1>1, <2>1 DEF Browse!Exists, Browse!NoProduct
  <2>4. \A inChannel \in BOOLEAN : Browse!Where(inChannel) \subseteq Browse!Where(inChannel)'
    BY <2>1, <2>3 DEF Browse!Where
  <2>5. walk.pc = "open" /\ Steady(walk)' => Matching(walk) \subseteq Matching(walk)'
    BY <1>1, <2>2, <2>4 DEF Steady, Matching, Browse!HasStatus, Query
  <2> QED BY <2>2, <2>3, <2>4, <2>5, MoreMatch
<1> QED BY <1>2, <1>3, <1>4

\* A page changes nothing that a query looks at.
LEMMA PageKeepsMatches ==
  ASSUME NEW query \in Query, Browse!browseSkus(query)
  PROVE  /\ available' = available
         /\ walk'.inChannel = query.inChannel /\ walk'.stockStatus = query.stockStatus
         /\ walk'.moved = query.moved /\ walk'.due = query.due
         /\ Few(walk)' <=> Few(query)
         /\ Steady(walk)' <=> Steady(query)
         /\ Matching(walk)' = Matching(query)
<1>1. UNCHANGED <<available, listed>>
  BY DEF Browse!browseSkus
<1>2. /\ walk'.inChannel = query.inChannel /\ walk'.stockStatus = query.stockStatus
      /\ walk'.moved = query.moved /\ walk'.due = query.due
  BY DEF Browse!browseSkus, Query
<1>3. Browse!Where(walk.inChannel)' = Browse!Where(query.inChannel)
  BY <1>1, <1>2 DEF Browse!Where, Browse!Exists
<1>4. Matching(walk)' = Matching(query)
  BY <1>1, <1>2, <1>3 DEF Matching, Browse!HasStatus
<1>5. Few(walk)' <=> Few(query)
  BY <1>3 DEF Few
<1>6. Steady(walk)' <=> Steady(query)
  BY <1>2 DEF Steady
<1> QED BY <1>1, <1>2, <1>4, <1>5, <1>6

\* A page is typed whatever was asked.
LEMMA PageIsTyped ==
  ASSUME NEW query \in Query, Browse!browseSkus(query)
  PROVE  walk' \in Query /\ walk'.pc # "idle"
<1> DEFINE page == Browse!Page(query)
           next == Browse!NextCursor(query)
<1>1. walk' = [query EXCEPT !.pc = IF next = 0 THEN "over" ELSE "open", !.cursor = next,
                 !.shown = [s \in Browse!Sku |-> IF s \in page /\ @[s] < 2 THEN @[s] + 1
                                                 ELSE @[s]]]
  BY DEF Browse!browseSkus, Browse!NoCursor
<1>2. page \in SUBSET Browse!Rest(query) /\ Browse!Rest(query) \in SUBSET Browse!Sku
  BY DEF Browse!Page, Browse!FirstOf, Browse!Rest, Browse!Filtered, Browse!Where
<1>3. next \in Browse!Sku \cup {0}
  <2>1. CASE Browse!Cardinality(Browse!Rest(query)) > PageLimit
    <3>1. Cardinality(Browse!Rest(query)) > PageLimit /\ PageLimit \in Nat
      BY <2>1, Cardinal DEF Browse!BrowseConstants
    <3>2. Browse!Rest(query) # {}
      <4>1. Browse!Rest(query) = {} => Cardinality(Browse!Rest(query)) = 0
        BY FS_EmptySet
      <4> QED BY <3>1, <4>1
    <3>3. page # {} /\ page \in SUBSET (1 .. Skus) /\ Skus \in Nat
      BY <1>2, <3>2, FirstOfSome DEF Browse!Page, Browse!BrowseConstants, Browse!Sku
    <3> HIDE DEF page
    <3>4. PICK m \in page : \A k \in page : k <= m
      BY <3>3, LargestOf
    <3>5. next = CHOOSE s \in page : \A q \in page : q <= s
      BY <2>1 DEF Browse!NextCursor, page
    <3>6. next \in page
      BY <3>4, <3>5
    <3> QED BY <3>3, <3>6 DEF Browse!Sku
  <2>2. CASE ~ (Browse!Cardinality(Browse!Rest(query)) > PageLimit)
    BY <2>2 DEF Browse!NextCursor, Browse!NoCursor
  <2> QED BY <2>1, <2>2
<1> HIDE DEF page, next
<1>4. /\ walk'.shown = [s \in Browse!Sku |-> IF s \in page /\ query.shown[s] < 2
                                              THEN query.shown[s] + 1 ELSE query.shown[s]]
      /\ walk'.pc \in {"open", "over"}
  BY <1>1 DEF Query
<1>5. \A s \in Browse!Sku : query.shown[s] \in 0 .. 2
  BY DEF Query
<1>6. walk'.shown \in [Browse!Sku -> 0 .. 2]
  BY <1>4, <1>5
<1> QED BY <1>1, <1>3, <1>4, <1>6 DEF Query

LEMMA PagesKeepWalk ==
  ASSUME WalkInv, Browse!FirstPage \/ Browse!NextPage
  PROVE  WalkInv'
<1>1. ASSUME NEW query \in Query, Browse!browseSkus(query),
             Few(query) /\ Steady(query) => ShownUpTo(query)
      PROVE  WalkInv'
  <2>1. available' \in [Browse!Sku -> Nat \cup {-1}] /\ walk' \in Query /\ walk'.pc # "idle"
    BY <1>1, PageKeepsMatches, PageIsTyped DEF WalkInv
  <2>2. ASSUME Few(walk)', Steady(walk)'
        PROVE  /\ walk'.pc = "open" => ShownUpTo(walk)'
               /\ walk'.pc = "over" => ShownAll(walk)'
    <3>1. Few(query) /\ ShownUpTo(query)
      BY <1>1, <2>2, PageKeepsMatches
    <3>2. walk'.pc = "over" => ShownAll(walk)'
      BY <1>1, <3>1, PageShows
    <3>3. ASSUME walk'.pc = "open" PROVE ShownUpTo(walk)'
      <4>1. /\ walk'.cursor \in Matching(query) /\ walk'.due = query.due
            /\ \A s \in Browse!Sku : /\ walk'.shown[s] <= 1
                                     /\ walk'.shown[s] = 1 => s <= walk'.cursor
            /\ \A s \in query.due : s <= walk'.cursor => walk'.shown[s] = 1
        BY <1>1, <3>1, <3>3, PageShows
      <4>2. Matching(walk)' = Matching(query) /\ query.due \subseteq Matching(query)
        BY <1>1, <3>1, PageKeepsMatches DEF ShownUpTo
      <4> QED BY <4>1, <4>2 DEF ShownUpTo
    <3> QED BY <3>2, <3>3
  <2> QED BY <2>1, <2>2 DEF WalkInv
<1>2. CASE Browse!NextPage
  <2>1. walk.pc = "open" /\ Browse!browseSkus(walk)
    BY <1>2 DEF Browse!NextPage
  <2>2. walk \in Query /\ (Few(walk) /\ Steady(walk) => ShownUpTo(walk))
    BY <2>1 DEF WalkInv
  <2> QED BY <1>1, <2>1, <2>2
<1>3. CASE Browse!FirstPage
  <2>1. PICK inChannel \in BOOLEAN, status \in Browse!StockStatus :
          LET asked == [walk EXCEPT !.inChannel = inChannel, !.stockStatus = status]
          IN Browse!browseSkus([asked EXCEPT !.due = Browse!Filtered(asked)])
    BY <1>3 DEF Browse!FirstPage
  <2> DEFINE asked == [walk EXCEPT !.inChannel = inChannel, !.stockStatus = status]
             query == [asked EXCEPT !.due = Browse!Filtered(asked)]
  <2>2. /\ walk \in Query /\ walk.cursor = 0 /\ walk.shown = [s \in Browse!Sku |-> 0]
    BY <1>3 DEF WalkInv, Browse!FirstPage
  <2>3. asked \in Query /\ asked.cursor = 0 /\ asked.shown = [s \in Browse!Sku |-> 0]
    BY <2>2 DEF Query
  <2>4. Browse!Filtered(asked) \in SUBSET Browse!Sku
    BY DEF Browse!Filtered, Browse!FirstOf, Browse!Where
  <2> HIDE DEF asked
  <2>5. /\ query \in Query /\ query.cursor = 0 /\ query.shown = [s \in Browse!Sku |-> 0]
        /\ query.due = Browse!Filtered(asked)
        /\ query.inChannel = asked.inChannel /\ query.stockStatus = asked.stockStatus
    BY <2>3, <2>4 DEF Query
  <2>6. Browse!browseSkus(query)
    BY <2>1 DEF asked
  <2> HIDE DEF query
  <2>7. Few(query) => query.due = Matching(query)
    <3>1. Few(query) => Few(asked)
      BY <2>5 DEF Few
    <3>2. Matching(query) = Matching(asked)
      BY <2>5 DEF Matching
    <3> QED BY <2>5, <3>1, <3>2, FilteredIsMatching
  <2>8. Few(query) => ShownUpTo(query)
    <3>1. \A s \in Browse!Sku : query.shown[s] = 0 /\ s \in Nat \ {0}
      BY <2>5 DEF Browse!Sku, Browse!BrowseConstants
    <3>2. \A s \in query.due : s \in Browse!Sku
      BY <2>4, <2>5
    <3>3. \A s \in query.due : ~ (s <= query.cursor)
      BY <2>5, <3>1, <3>2
    <3> QED BY <2>5, <2>7, <3>1, <3>3 DEF ShownUpTo
  <2> QED BY <1>1, <2>5, <2>6, <2>8
<1> QED BY <1>2, <1>3

LEMMA WalkKept == WalkInv /\ [Next]_vars => WalkInv'
<1> SUFFICES ASSUME WalkInv, [Next]_vars PROVE WalkInv'
  OBVIOUS
<1>1. CASE UNCHANGED browseVars
  <2>1. UNCHANGED <<available, listed, walk>>
    BY <1>1 DEF browseVars
  <2>2. Few(walk)' = Few(walk) /\ Steady(walk)' = Steady(walk)
        /\ ShownUpTo(walk)' = ShownUpTo(walk) /\ ShownAll(walk)' = ShownAll(walk)
    BY <2>1 DEF Few, Steady, ShownUpTo, ShownAll, Matching, Browse!Where, Browse!Exists,
                Browse!HasStatus
  <2> QED BY <2>1, <2>2 DEF WalkInv
<1>2. CASE Browse!BrowseNext
  BY <1>2, WritesKeepWalk, PagesKeepWalk DEF Browse!BrowseNext
<1> QED BY <1>1, <1>2, BrowseStep

\* Whoever follows the cursor to the end has seen every product that matched at
\* the beginning, and none twice, for any number of products, of pages and of
\* writes meanwhile: if no more than Take match, and no stock has moved or the
\* query does not ask for it (prisma-sku-dashboard.repository.ts:42-98).
THEOREM WalkDoesShowAll == Spec => []WalkShowsAll
<1>1. WalkInv => WalkShowsAll
  <2> SUFFICES ASSUME WalkInv, Few(walk), Steady(walk)
               PROVE  /\ \A s \in Browse!Sku : walk.shown[s] <= 1
                      /\ walk.pc = "over" => \A s \in walk.due : walk.shown[s] = 1
    BY DEF WalkShowsAll, Browse!WalkShowsAll, Few, Steady
  <2>1. CASE walk.pc = "idle"
    BY <2>1 DEF WalkInv
  <2>2. CASE walk.pc = "open"
    BY <2>2 DEF WalkInv, ShownUpTo
  <2>3. CASE walk.pc = "over"
    BY <2>3 DEF WalkInv, ShownAll
  <2> QED BY <2>1, <2>2, <2>3 DEF WalkInv, Query
<1> QED BY WalkInit, WalkKept, <1>1, PTL DEF Spec

-----------------------------------------------------------------------------
(* Reports.  A row is what one sync has counted in one of its windows, and  *)
(* what falls into that window never changes afterwards.                   *)

Row(e, d) == [periodStart |-> e - d, periodEnd |-> e,
              unitsSold |-> Reports!Cardinality(Reports!Found(e - d, e))]

ReportsInv ==
  /\ Reports!ReportsTypeOK /\ IsFiniteSet(salesMetrics)
  /\ sales \subseteq 0 .. today
  /\ \A e \in syncs : e < today
  /\ \A o \in synced : \E e \in syncs : \E d \in WINDOWS : e - d <= o /\ o <= e
  /\ \A e \in syncs, d \in WINDOWS : \A o \in sales : e - d <= o /\ o <= e => o \in synced
  /\ \A m \in salesMetrics :
       \E e \in syncs : \E d \in WINDOWS : m = Row(e, d) /\ Reports!Found(e - d, e) # {}
  /\ \A e \in syncs, d \in WINDOWS : Reports!Found(e - d, e) # {} => Row(e, d) \in salesMetrics

\* Units adds up what the rows have sold, which is a sum as in FoldTheorems.
UnitsSum(h, rws) ==
  h = [s \in SUBSET rws |-> IF s = {} THEN 0 ELSE Some(s).unitsSold + h[s \ {Some(s)}]]

LEMMA UnitsAreSum == \A rws : Reports!Units(rws) = (CHOOSE h : UnitsSum(h, rws))[rws]
BY DEF Reports!Units, Reports!MapThenSumSet, Reports!MapThenFoldSet, UnitsSum, Some

LEMMA UnitsAddUp ==
  ASSUME NEW rws, IsFiniteSet(rws), \A m \in rws : m.unitsSold \in Nat
  PROVE  \E h \in [SUBSET rws -> Nat] :
           /\ Reports!Units(rws) = h[rws] /\ h[{}] = 0
           /\ \A s \in SUBSET rws :
                s # {} => Some(s) \in s /\ h[s] = Some(s).unitsSold + h[s \ {Some(s)}]
<1> DEFINE f == [m \in rws |-> m.unitsSold]
           h == CHOOSE g : UnitsSum(g, rws)
<1>1. \A m \in rws : f[m] \in Nat /\ f[m] = m.unitsSold
  OBVIOUS
<1> HIDE DEF f
<1>2. \A s \in SUBSET rws : s # {} => Some(s) \in s
  BY DEF Some
<1>3. ASSUME NEW g
      PROVE  UnitsSum(g, rws) <=> IsSum(g, f, rws)
  <2> DEFINE one == [s \in SUBSET rws |->
                       IF s = {} THEN 0 ELSE Some(s).unitsSold + g[s \ {Some(s)}]]
             two == [s \in SUBSET rws |-> IF s = {} THEN 0 ELSE f[Some(s)] + g[s \ {Some(s)}]]
  <2>1. ASSUME NEW s \in SUBSET rws
        PROVE  one[s] = two[s]
    BY <1>1, <1>2
  <2>2. one = two
    BY <2>1
  <2> QED BY <2>2, Zenon DEF UnitsSum, IsSum
<1>4. UnitsSum(h, rws) /\ h \in [SUBSET rws -> Nat]
  <2>1. IsSum(CHOOSE g : IsSum(g, f, rws), f, rws)
        /\ \A g : IsSum(g, f, rws) => g \in [SUBSET rws -> Nat]
    BY <1>1, SumExists
  <2>2. \E g : UnitsSum(g, rws)
    BY <1>3, <2>1
  <2>3. UnitsSum(h, rws)
    BY <2>2, Zenon
  <2> HIDE DEF h
  <2> QED BY <1>3, <2>1, <2>3
<1>5. Reports!Units(rws) = h[rws]
  BY UnitsAreSum, Zenon
<1> HIDE DEF h
<1>6. \A s \in SUBSET rws : h[s] = IF s = {} THEN 0 ELSE Some(s).unitsSold + h[s \ {Some(s)}]
  BY <1>4 DEF UnitsSum
<1> QED BY <1>2, <1>4, <1>5, <1>6

\* There are units where there are rows.
LEMMA NoUnitsNoRows ==
  ASSUME NEW rws, IsFiniteSet(rws), \A m \in rws : m.unitsSold \in Nat \ {0}
  PROVE  Reports!Units(rws) \in Nat /\ (Reports!Units(rws) = 0 <=> rws = {})
<1>1. PICK h \in [SUBSET rws -> Nat] :
        /\ Reports!Units(rws) = h[rws] /\ h[{}] = 0
        /\ \A s \in SUBSET rws :
             s # {} => Some(s) \in s /\ h[s] = Some(s).unitsSold + h[s \ {Some(s)}]
  BY UnitsAddUp
<1>2. ASSUME rws # {}
      PROVE  h[rws] \in Nat \ {0}
  <2>1. Some(rws).unitsSold \in Nat \ {0} /\ h[rws \ {Some(rws)}] \in Nat
    BY <1>1, <1>2
  <2> QED BY <1>1, <1>2, <2>1
<1> QED BY <1>1, <1>2

\* They are no fewer than those of one row, and no more than the most that a row
\* has for each.
LEMMA UnitsBetween ==
  ASSUME NEW rws, IsFiniteSet(rws), NEW k \in Nat,
         \A m \in rws : m.unitsSold \in Nat /\ m.unitsSold <= k
  PROVE  /\ \A m \in rws : m.unitsSold <= Reports!Units(rws)
         /\ Reports!Units(rws) <= Cardinality(rws) * k
<1>0. ASSUME NEW E, \A s \in SUBSET rws : (\A x \in s : s \ {x} \in E) => s \in E
      PROVE  SUBSET rws \subseteq E
  BY <1>0, InductionOnSubsets, Zenon
<1>1. PICK h \in [SUBSET rws -> Nat] :
        /\ Reports!Units(rws) = h[rws] /\ h[{}] = 0
        /\ \A s \in SUBSET rws :
             s # {} => Some(s) \in s /\ h[s] = Some(s).unitsSold + h[s \ {Some(s)}]
  BY UnitsAddUp
<1> DEFINE G == {s \in SUBSET rws : /\ \A m \in s : m.unitsSold <= h[s]
                                    /\ h[s] <= Cardinality(s) * k}
<1>2. ASSUME NEW s \in SUBSET rws, \A x \in s : s \ {x} \in G
      PROVE  s \in G
  <2>1. CASE s = {}
    BY <1>1, <2>1, FS_EmptySet
  <2>2. CASE s # {}
    <3> DEFINE x == Some(s)
               rest == s \ {x}
    <3>1. x \in s /\ x.unitsSold \in Nat /\ x.unitsSold <= k /\ h[s] = x.unitsSold + h[rest]
      BY <1>1, <2>2
    <3>2. /\ h[rest] \in Nat /\ \A m \in rest : m.unitsSold <= h[rest]
          /\ h[rest] <= Cardinality(rest) * k
      BY <1>1, <1>2, <3>1
    <3>3. /\ IsFiniteSet(s) /\ Cardinality(rest) = Cardinality(s) - 1
          /\ Cardinality(s) \in Nat
      BY <3>1, FS_Subset, FS_RemoveElement, FS_CardinalityType
    <3>4. \A m \in s : m = x \/ m \in rest
      OBVIOUS
    <3> HIDE DEF x, rest
    <3>5. \A m \in s : m.unitsSold <= h[s]
      BY <3>1, <3>2, <3>4
    <3>6. h[s] <= Cardinality(s) * k
      <4> DEFINE n == Cardinality(s)
      <4>1. n \in Nat /\ h[s] <= k + (n - 1) * k
        BY <3>1, <3>2, <3>3
      <4> HIDE DEF n
      <4>2. k + (n - 1) * k = n * k
        BY <4>1
      <4> QED BY <4>1, <4>2 DEF n
    <3> QED BY <3>5, <3>6
  <2> QED BY <2>1, <2>2
<1>3. SUBSET rws \subseteq G
  <2> HIDE DEF G
  <2>1. \A s \in SUBSET rws : (\A x \in s : s \ {x} \in G) => s \in G
    BY <1>2
  <2> QED BY <1>0, <2>1, Zenon
<1>4. rws \in G
  BY <1>3
<1> QED BY <1>1, <1>4

LEMMA ReportsInit == Init => ReportsInv
<1> SUFFICES ASSUME Init PROVE ReportsInv
  OBVIOUS
<1>1. today = 0 /\ sales = {} /\ synced = {} /\ syncs = {} /\ salesMetrics = {}
  BY DEF Init, Reports!ReportsInit
<1>2. LastDay \in Nat
  BY DEF Reports!ReportConstants
<1> QED BY <1>1, <1>2, FS_EmptySet DEF ReportsInv, Reports!ReportsTypeOK, Reports!Day

\* Cardinality and IsFiniteSet, as SalesReports has them, are those of FiniteSets.
LEMMA ReportsSets ==
  /\ \A S : Reports!Cardinality(S) = Cardinality(S)
  /\ \A S : Reports!IsFiniteSet(S) <=> IsFiniteSet(S)
<1>1. \A S : Reports!Cardinality(S) = Cardinality(S)
  BY Zenon DEF Reports!Cardinality, Cardinality, Reports!IsFiniteSet, IsFiniteSet
<1>2. \A S : Reports!IsFiniteSet(S) <=> IsFiniteSet(S)
  BY DEF Reports!IsFiniteSet, IsFiniteSet
<1> QED BY <1>1, <1>2

\* What the invariant says of the numbers in it.
LEMMA ReportNumbers ==
  ASSUME ReportsInv
  PROVE  /\ LastDay \in Nat /\ WINDOWS \subseteq Nat \ {0} /\ IsFiniteSet(WINDOWS)
         /\ today \in 0 .. LastDay /\ sales \subseteq 0 .. LastDay /\ sales \subseteq 0 .. today
         /\ synced \subseteq sales /\ syncs \subseteq 0 .. LastDay /\ IsFiniteSet(synced)
         /\ AlertDays \in WINDOWS /\ PeriodDays \subseteq Nat \ {0}
<1>1. /\ LastDay \in Nat /\ WINDOWS \subseteq Nat \ {0} /\ IsFiniteSet(WINDOWS)
      /\ AlertDays \in WINDOWS /\ PeriodDays \subseteq Nat \ {0}
  BY ReportsSets DEF Reports!ReportConstants
<1>2. /\ today \in 0 .. LastDay /\ sales \subseteq 0 .. LastDay /\ sales \subseteq 0 .. today
      /\ synced \subseteq sales /\ syncs \subseteq 0 .. LastDay
  BY DEF ReportsInv, Reports!ReportsTypeOK, Reports!Day
<1>3. IsFiniteSet(synced)
  <2>1. synced \subseteq 0 .. LastDay
    BY <1>2
  <2>2. IsFiniteSet(0 .. LastDay)
    BY <1>1, FS_Interval
  <2> QED BY <2>1, <2>2, FS_Subset, Zenon
<1> QED BY <1>1, <1>2, <1>3

\* The size of what is found: no more than the sales, and none is none.
LEMMA FoundIsFinite ==
  ASSUME ReportsInv, NEW a, NEW b
  PROVE  /\ IsFiniteSet(Reports!Found(a, b)) /\ Reports!Found(a, b) \subseteq synced
         /\ Reports!Cardinality(Reports!Found(a, b)) \in Nat
         /\ Reports!Cardinality(Reports!Found(a, b)) <= LastDay + 1
         /\ Reports!Cardinality(Reports!Found(a, b)) = 0 <=> Reports!Found(a, b) = {}
<1>1. Reports!Found(a, b) \subseteq synced
  BY DEF Reports!Found
<1>2. IsFiniteSet(0 .. LastDay) /\ Cardinality(0 .. LastDay) = LastDay + 1
  BY ReportNumbers, FS_Interval
<1>3. Reports!Found(a, b) \subseteq 0 .. LastDay
  BY <1>1, ReportNumbers
<1>4. /\ IsFiniteSet(Reports!Found(a, b))
      /\ Cardinality(Reports!Found(a, b)) <= Cardinality(0 .. LastDay)
  BY <1>2, <1>3, FS_Subset
<1> QED BY <1>1, <1>2, <1>4, FS_CardinalityType, FS_EmptySet, ReportsSets

\* A sync changes nothing in the windows of those before it, and finds in its own
\* all that there is.
LEMMA WindowsAreClosed ==
  ASSUME ReportsInv, Reports!Sync
  PROVE  /\ \A e \in syncs, d \in WINDOWS : Reports!Found(e - d, e)' = Reports!Found(e - d, e)
         /\ \A t \in {today}, d \in WINDOWS : Reports!Found(t - d, t)' = Reports!Since(t - d)
         /\ synced \subseteq synced' /\ synced' \subseteq sales
         /\ \A o \in synced' \ synced : \E d \in WINDOWS : today - d <= o /\ o <= today
<1>0. UNCHANGED sales /\ synced' = synced \cup UNION {Reports!Since(today - d) : d \in WINDOWS}
  BY DEF Reports!Sync
<1>1. \A o \in synced' \ synced : \E d \in WINDOWS : o \in Reports!Since(today - d)
  BY <1>0
<1>2. \A d \in WINDOWS : Reports!Since(today - d) \subseteq synced'
  BY <1>0
<1>3. synced \subseteq synced' /\ synced' \subseteq sales
  BY <1>0, <1>1, ReportNumbers DEF Reports!Since
<1>4. ASSUME NEW e \in syncs, NEW d \in WINDOWS
      PROVE  Reports!Found(e - d, e)' = Reports!Found(e - d, e)
  <2>1. \A o \in sales : e - d <= o /\ o <= e => o \in synced
    BY DEF ReportsInv
  <2> QED BY <1>3, <2>1 DEF Reports!Found
<1>5. ASSUME NEW t \in {today}, NEW d \in WINDOWS
      PROVE  Reports!Found(t - d, t)' = Reports!Since(t - d)
  <2>1. \A o \in sales : o <= t
    BY ReportNumbers
  <2> QED BY <1>2, <1>3, <2>1 DEF Reports!Found, Reports!Since
<1>6. \A o \in synced' \ synced : \E d \in WINDOWS : today - d <= o /\ o <= today
  BY <1>1, ReportNumbers DEF Reports!Since
<1> QED BY <1>3, <1>4, <1>5, <1>6

\* The rows of a sync, as rows of what is found after it.
LEMMA AggregatedRows ==
  ASSUME ReportsInv, Reports!Sync
  PROVE  /\ IsFiniteSet(Reports!Aggregated)
         /\ \A m \in Reports!Aggregated :
              \E d \in WINDOWS : \A t \in {today} : m = Row(t, d)' /\ Reports!Found(t - d, t)' # {}
         /\ \A t \in {today}, d \in WINDOWS :
              Reports!Found(t - d, t)' # {} => Row(t, d)' \in Reports!Aggregated
<1> DEFINE selling == {d \in WINDOWS : Reports!Since(today - d) # {}}
           row == [d \in selling |-> [periodStart |-> today - d, periodEnd |-> today,
                                   unitsSold |-> Reports!Cardinality(Reports!Since(today - d))]]
<1>1. Reports!Aggregated = {row[d] : d \in selling}
  BY DEF Reports!Aggregated
<1>2. IsFiniteSet(Reports!Aggregated)
  <2>1. IsFiniteSet(selling)
    BY ReportNumbers, FS_Subset
  <2>2. row \in Surjection(selling, Reports!Aggregated)
    BY <1>1 DEF Surjection
  <2> QED BY <2>1, <2>2, FS_Surjection
<1>3. \A t \in {today}, d \in WINDOWS :
        /\ Reports!Found(t - d, t)' = Reports!Since(t - d)
        /\ Row(t, d)' = [periodStart |-> t - d, periodEnd |-> t,
                         unitsSold |-> Reports!Cardinality(Reports!Since(t - d))]
  BY WindowsAreClosed DEF Row
<1>4. \A d \in selling : \A t \in {today} : row[d] = Row(t, d)' /\ Reports!Found(t - d, t)' # {}
  BY <1>3
<1>5. ASSUME NEW t \in {today}, NEW d \in WINDOWS, Reports!Found(t - d, t)' # {}
      PROVE  Row(t, d)' \in Reports!Aggregated
  <2>1. d \in selling
    BY <1>3, <1>5
  <2> QED BY <1>1, <1>4, <2>1
<1> HIDE DEF row
<1>6. \A m \in Reports!Aggregated :
        \E d \in WINDOWS : \A t \in {today} : m = Row(t, d)' /\ Reports!Found(t - d, t)' # {}
  BY <1>1, <1>4
<1> QED BY <1>2, <1>5, <1>6

LEMMA SyncKeepsReports ==
  ASSUME ReportsInv, Reports!Sync
  PROVE  ReportsInv'
<1>0. /\ LastDay \in Nat /\ WINDOWS \subseteq Nat \ {0} /\ today \in 0 .. LastDay
      /\ sales \subseteq 0 .. today /\ synced \subseteq sales /\ syncs \subseteq 0 .. LastDay
      /\ sales \subseteq 0 .. LastDay /\ IsFiniteSet(salesMetrics)
      /\ \A e \in syncs : e < today
  BY ReportNumbers DEF ReportsInv
<1>1. /\ today' = today + 1 /\ today < LastDay /\ UNCHANGED sales
      /\ salesMetrics' = salesMetrics \cup Reports!Aggregated
      /\ syncs' = syncs \cup {today}
  BY DEF Reports!Sync, Reports!Pass
<1>2. /\ synced \subseteq synced' /\ synced' \subseteq sales
      /\ \A e \in syncs, d \in WINDOWS : Reports!Found(e - d, e)' = Reports!Found(e - d, e)
      /\ \A o \in synced' \ synced : \E d \in WINDOWS : today - d <= o /\ o <= today
  BY WindowsAreClosed
<1>3. \A e \in syncs, d \in WINDOWS : Row(e, d)' = Row(e, d)
  BY <1>2 DEF Row
<1>4. IsFiniteSet(salesMetrics')
  BY <1>0, <1>1, AggregatedRows, FS_Union
<1>5. /\ sales' \subseteq 0 .. today' /\ sales' \subseteq 0 .. LastDay /\ today' \in 0 .. LastDay
      /\ syncs' \subseteq 0 .. LastDay /\ \A e \in syncs' : e < today'
  BY <1>0, <1>1
<1>6. \A o \in synced' : \E e \in syncs' : \E d \in WINDOWS : e - d <= o /\ o <= e
  <2>1. \A o \in synced : \E e \in syncs : \E d \in WINDOWS : e - d <= o /\ o <= e
    BY DEF ReportsInv
  <2> QED BY <1>1, <1>2, <2>1
<1>7. ASSUME NEW e \in syncs', NEW d \in WINDOWS, NEW o \in sales', e - d <= o, o <= e
      PROVE  o \in synced'
  <2>1. CASE e \in syncs
    BY <1>1, <1>2, <1>7, <2>1 DEF ReportsInv
  <2>2. CASE e = today
    <3>1. Reports!Found(e - d, e)' = Reports!Since(e - d)
      BY <2>2, WindowsAreClosed
    <3>2. o \in Reports!Since(e - d)
      BY <1>1, <1>7 DEF Reports!Since
    <3> QED BY <3>1, <3>2 DEF Reports!Found
  <2> QED BY <1>1, <2>1, <2>2
<1>8. ASSUME NEW m \in salesMetrics'
      PROVE  \E e \in syncs' : \E d \in WINDOWS :
               m = Row(e, d)' /\ Reports!Found(e - d, e)' # {}
  <2>1. CASE m \in salesMetrics
    <3>1. PICK e \in syncs : \E d \in WINDOWS : m = Row(e, d) /\ Reports!Found(e - d, e) # {}
      BY <2>1 DEF ReportsInv
    <3> QED BY <1>1, <1>2, <1>3, <3>1
  <2>2. CASE m \in Reports!Aggregated
    <3>1. PICK e \in {today} : TRUE
      OBVIOUS
    <3>2. \E d \in WINDOWS : m = Row(e, d)' /\ Reports!Found(e - d, e)' # {}
      BY <2>2, AggregatedRows
    <3> QED BY <1>1, <3>2
  <2> QED BY <1>1, <2>1, <2>2
<1>9. ASSUME NEW e \in syncs', NEW d \in WINDOWS, Reports!Found(e - d, e)' # {}
      PROVE  Row(e, d)' \in salesMetrics'
  <2>1. CASE e \in syncs
    <3>1. Reports!Found(e - d, e) # {}
      BY <1>2, <1>9, <2>1
    <3>2. Row(e, d) \in salesMetrics
      BY <2>1, <3>1 DEF ReportsInv
    <3> QED BY <1>1, <1>3, <2>1, <3>2
  <2>2. CASE e \in {today}
    BY <1>1, <1>9, <2>2, AggregatedRows
  <2> QED BY <1>1, <2>1, <2>2
<1>10. Reports!ReportsTypeOK'
  <2>1. \A m \in salesMetrics : /\ m.periodEnd \in 0 .. LastDay
                                /\ m.periodEnd - m.periodStart \in WINDOWS
                                /\ m.unitsSold \in 1 .. LastDay + 1
    BY DEF ReportsInv, Reports!ReportsTypeOK, Reports!Day
  <2>2. ASSUME NEW m \in Reports!Aggregated
        PROVE  /\ m.periodEnd \in 0 .. LastDay
               /\ m.periodEnd - m.periodStart \in WINDOWS
               /\ m.unitsSold \in 1 .. LastDay + 1
    <3>1. PICK d \in WINDOWS : m = [periodStart |-> today - d, periodEnd |-> today,
                      unitsSold |-> Reports!Cardinality(Reports!Since(today - d))]
                      /\ Reports!Since(today - d) # {}
      BY DEF Reports!Aggregated
    <3>3. IsFiniteSet(0 .. LastDay) /\ Cardinality(0 .. LastDay) = LastDay + 1
      BY <1>0, FS_Interval
    <3>4. Reports!Since(today - d) \subseteq 0 .. LastDay
      BY <1>0 DEF Reports!Since
    <3>5. /\ IsFiniteSet(Reports!Since(today - d))
          /\ Cardinality(Reports!Since(today - d)) <= LastDay + 1
      BY <3>3, <3>4, FS_Subset
    <3>6. Cardinality(Reports!Since(today - d)) \in Nat
          /\ Cardinality(Reports!Since(today - d)) # 0
      BY <3>1, <3>5, FS_CardinalityType, FS_EmptySet
    <3>7. m.unitsSold = Cardinality(Reports!Since(today - d))
      BY <3>1, ReportsSets
    <3>8. today - (today - d) = d
      BY <1>0
    <3>9. m.periodEnd = today /\ m.periodStart = today - d
      BY <3>1
    <3> QED BY <1>0, <3>5, <3>6, <3>7, <3>8, <3>9
  <2>3. \A m \in salesMetrics' : /\ m.periodEnd \in 0 .. LastDay
                                 /\ m.periodEnd - m.periodStart \in WINDOWS
                                 /\ m.unitsSold \in 1 .. LastDay + 1
    BY <1>1, <2>1, <2>2
  <2> QED BY <1>0, <1>1, <1>2, <1>5, <2>3 DEF Reports!ReportsTypeOK, Reports!Day
<1> QED BY <1>4, <1>5, <1>6, <1>7, <1>8, <1>9, <1>10 DEF ReportsInv

LEMMA ReportsKept == ReportsInv /\ [Next]_vars => ReportsInv'
<1> SUFFICES ASSUME ReportsInv, [Next]_vars PROVE ReportsInv'
  OBVIOUS
<1>0. /\ LastDay \in Nat /\ today \in 0 .. LastDay /\ WINDOWS \subseteq Nat \ {0}
      /\ sales \subseteq 0 .. today /\ synced \subseteq sales /\ syncs \subseteq 0 .. LastDay
      /\ \A e \in syncs : e < today
  BY ReportNumbers DEF ReportsInv
<1>1. CASE Reports!Sell
  <2>1. UNCHANGED <<today, synced, syncs, salesMetrics>> /\ sales' = sales \cup {today}
    BY <1>1 DEF Reports!Sell
  <2>2. sales' \subseteq 0 .. today' /\ sales' \subseteq 0 .. LastDay /\ synced' \subseteq sales'
    BY <1>0, <2>1
  <2>3. \A e \in syncs, d \in WINDOWS : \A o \in sales' : e - d <= o /\ o <= e => o \in synced
    <3>1. \A e \in syncs : ~ (today <= e)
      BY <1>0
    <3>2. \A e \in syncs, d \in WINDOWS : \A o \in sales : e - d <= o /\ o <= e => o \in synced
      BY DEF ReportsInv
    <3> QED BY <2>1, <3>1, <3>2
  <2>4. \A e, d : Row(e, d)' = Row(e, d)
                  /\ Reports!Found(e - d, e)' = Reports!Found(e - d, e)
    BY <2>1 DEF Row, Reports!Found
  <2> QED BY <2>1, <2>2, <2>3, <2>4 DEF ReportsInv, Reports!ReportsTypeOK, Reports!Day
<1>2. CASE Reports!DayPasses
  <2>1. UNCHANGED <<sales, synced, syncs, salesMetrics>> /\ today' = today + 1 /\ today < LastDay
    BY <1>2 DEF Reports!DayPasses, Reports!Pass
  <2>2. /\ sales' \subseteq 0 .. today' /\ today' \in 0 .. LastDay
        /\ \A e \in syncs' : e < today'
    BY <1>0, <2>1
  <2>3. \A e, d : Row(e, d)' = Row(e, d)
                  /\ Reports!Found(e - d, e)' = Reports!Found(e - d, e)
    BY <2>1 DEF Row, Reports!Found
  <2> QED BY <2>1, <2>2, <2>3 DEF ReportsInv, Reports!ReportsTypeOK, Reports!Day
<1>3. CASE UNCHANGED reportVars
  <2>1. UNCHANGED <<today, sales, synced, syncs, salesMetrics>>
    BY <1>3 DEF reportVars
  <2>2. \A e, d : Row(e, d)' = Row(e, d)
                  /\ Reports!Found(e - d, e)' = Reports!Found(e - d, e)
    BY <2>1 DEF Row, Reports!Found
  <2> QED BY <2>1, <2>2 DEF ReportsInv, Reports!ReportsTypeOK
<1> QED BY ReportsStep, <1>1, <1>2, <1>3, SyncKeepsReports DEF Reports!ReportsNext

LEMMA AlertsTell ==
  ASSUME ReportsInv
  PROVE  /\ Reports!InventoryAlert(11) = "DEAD_STOCK"
            => Reports!Found(today - AlertDays, today) = {}
         /\ Reports!InventoryAlert(11) # "DEAD_STOCK"
            => \E d \in WINDOWS : Reports!Found(today - AlertDays - d, today) # {}
<1>0. /\ today \in Nat /\ AlertDays \in Nat /\ WINDOWS \subseteq Nat /\ syncs \subseteq Nat
      /\ synced \subseteq Nat
  BY ReportNumbers
<1>1. \A m \in salesMetrics : m.unitsSold \in Nat \ {0}
  BY ReportNumbers DEF ReportsInv, Reports!ReportsTypeOK
<1>2. IsFiniteSet(Reports!AlertRows) /\ Reports!AlertRows \subseteq salesMetrics
  BY FS_Subset DEF ReportsInv, Reports!AlertRows
<1>3. Reports!InventoryAlert(11) = "DEAD_STOCK" <=> Reports!AlertRows = {}
  <2>1. Reports!Units(Reports!AlertRows) = 0 <=> Reports!AlertRows = {}
    BY <1>1, <1>2, NoUnitsNoRows
  <2> QED BY <2>1 DEF Reports!InventoryAlert
<1>4. ASSUME Reports!AlertRows = {}, NEW o \in Reports!Found(today - AlertDays, today)
      PROVE  FALSE
  <2>1. o \in synced /\ today - AlertDays <= o
    BY DEF Reports!Found
  <2>2. PICK e \in syncs : \E d \in WINDOWS : e - d <= o /\ o <= e
    BY <2>1 DEF ReportsInv
  <2>3. PICK d \in WINDOWS : e - d <= o /\ o <= e
    BY <2>2
  <2>4. o \in Reports!Found(e - d, e)
    BY <2>1, <2>3 DEF Reports!Found
  <2>5. Row(e, d) \in salesMetrics
    BY <2>4 DEF ReportsInv
  <2>6. Row(e, d).periodEnd >= today - AlertDays
    <3>1. Row(e, d).periodEnd = e
      BY DEF Row
    <3> QED BY <1>0, <2>1, <2>3, <3>1
  <2> QED BY <1>4, <2>5, <2>6 DEF Reports!AlertRows
<1>5. ASSUME NEW m \in Reports!AlertRows
      PROVE  \E d \in WINDOWS : Reports!Found(today - AlertDays - d, today) # {}
  <2>1. m \in salesMetrics /\ m.periodEnd >= today - AlertDays
    BY DEF Reports!AlertRows
  <2>2. PICK e \in syncs : \E d \in WINDOWS : m = Row(e, d) /\ Reports!Found(e - d, e) # {}
    BY <2>1 DEF ReportsInv
  <2>3. PICK d \in WINDOWS : m = Row(e, d) /\ Reports!Found(e - d, e) # {}
    BY <2>2
  <2>4. PICK o \in synced : e - d <= o /\ o <= e
    BY <2>3 DEF Reports!Found
  <2>5. e >= today - AlertDays /\ e < today
    BY <2>1, <2>3 DEF Row, ReportsInv
  <2>6. today - AlertDays - d <= o /\ o <= today
    <3>1. e \in Nat /\ d \in Nat /\ o \in Nat
      BY <1>0
    <3> QED BY <1>0, <2>4, <2>5, <3>1
  <2>7. o \in Reports!Found(today - AlertDays - d, today)
    BY <2>6 DEF Reports!Found
  <2> QED BY <2>7
<1> QED BY <1>3, <1>4, <1>5

LEMMA DashboardsTell ==
  ASSUME ReportsInv, NEW days \in PeriodDays
  PROVE  /\ \A e \in syncs, d \in WINDOWS :
              Reports!FitsInto(e, d, days)
              => Reports!Cardinality(Reports!Found(e - d, e)) <= Reports!salesVelocity(days)
         /\ Reports!salesVelocity(days)
              <= Reports!Cardinality(Reports!InPeriod(days))
                   * Reports!Cardinality(Reports!Found(today - days, today))
<1> DEFINE rws == Reports!InPeriod(days)
           k == Reports!Cardinality(Reports!Found(today - days, today))
<1>0. /\ today \in Nat /\ days \in Nat /\ WINDOWS \subseteq Nat /\ syncs \subseteq Nat
      /\ synced \subseteq Nat /\ \A e \in syncs : e < today
  <2>1. \A e \in syncs : e < today
    BY DEF ReportsInv
  <2> QED BY <2>1, ReportNumbers
<1>1. IsFiniteSet(rws) /\ rws \subseteq salesMetrics
  BY FS_Subset DEF ReportsInv, Reports!InPeriod
<1>2. \A m \in rws : m.unitsSold \in Nat \ {0}
  BY <1>1, ReportNumbers DEF ReportsInv, Reports!ReportsTypeOK
<1>3. Reports!salesVelocity(days) = Reports!Units(rws)
  BY DEF Reports!salesVelocity
<1>4. k \in Nat
  BY FoundIsFinite
<1>5. ASSUME NEW m \in rws
      PROVE  m.unitsSold <= k
  <2>1. PICK e \in syncs : \E d \in WINDOWS : m = Row(e, d) /\ Reports!Found(e - d, e) # {}
    BY <1>1 DEF ReportsInv
  <2>2. PICK d \in WINDOWS : m = Row(e, d)
    BY <2>1
  <2>3. m.periodStart = e - d /\ m.unitsSold = Reports!Cardinality(Reports!Found(e - d, e))
    BY <2>2 DEF Row
  <2>4. e - d >= today - days /\ e <= today
    BY <1>0, <2>3 DEF Reports!InPeriod
  <2>5. Reports!Found(e - d, e) \subseteq Reports!Found(today - days, today)
    <3>1. ASSUME NEW o \in synced, e - d <= o, o <= e
          PROVE  today - days <= o /\ o <= today
      <4>1. e \in Nat /\ d \in Nat /\ o \in Nat
        BY <1>0
      <4> QED BY <1>0, <2>4, <3>1, <4>1
    <3> QED BY <3>1 DEF Reports!Found
  <2>6. IsFiniteSet(Reports!Found(today - days, today))
    BY FoundIsFinite
  <2>7. Cardinality(Reports!Found(e - d, e)) <= Cardinality(Reports!Found(today - days, today))
    BY <2>5, <2>6, FS_Subset
  <2> QED BY <2>3, <2>7, ReportsSets
<1>6. /\ \A m \in rws : m.unitsSold <= Reports!Units(rws)
      /\ Reports!Units(rws) <= Cardinality(rws) * k
  <2> HIDE DEF k, rws
  <2> QED BY <1>1, <1>2, <1>4, <1>5, UnitsBetween
<1>7. ASSUME NEW e \in syncs, NEW d \in WINDOWS, Reports!FitsInto(e, d, days)
      PROVE  Reports!Cardinality(Reports!Found(e - d, e)) <= Reports!Units(rws)
  <2>1. CASE Reports!Found(e - d, e) = {}
    <3>1. Reports!Cardinality(Reports!Found(e - d, e)) = 0
      BY <2>1, FoundIsFinite
    <3>2. Reports!Units(rws) \in Nat
      BY <1>1, <1>2, NoUnitsNoRows
    <3> QED BY <3>1, <3>2
  <2>2. CASE Reports!Found(e - d, e) # {}
    <3>1. Row(e, d) \in salesMetrics
      BY <2>2 DEF ReportsInv
    <3>2. /\ Row(e, d).periodStart = e - d /\ Row(e, d).periodEnd = e
          /\ Row(e, d).unitsSold = Reports!Cardinality(Reports!Found(e - d, e))
      BY DEF Row
    <3>3. e <= today /\ e - d >= today - days
      BY <1>0, <1>7 DEF Reports!FitsInto
    <3>4. Row(e, d) \in rws
      BY <3>1, <3>2, <3>3 DEF Reports!InPeriod
    <3> QED BY <1>6, <3>2, <3>4
  <2> QED BY <2>1, <2>2
<1> QED BY <1>3, <1>6, <1>7, ReportsSets

\* Alerts and dashboards are as near to the sales that syncs have found as the
\* rows allow, from above and from below, for any windows of the syncs and
\* whenever they run: an alert looks back over one window more than its 30 days,
\* and a dashboard counts an order once for each window and sync it is in
\* (prisma-sku-dashboard.repository.ts:100-119, 165-231).
THEOREM ReportsDoCount == Spec => []ReportsCountSales
<1>1. ReportsInv => ReportsCountSales
  BY AlertsTell, DashboardsTell DEF ReportsCountSales, Reports!ReportsCountSales
<1> QED BY ReportsInit, ReportsKept, <1>1, PTL DEF Spec

-----------------------------------------------------------------------------
(* The catalogue.  What a sync leaves under the key of a row is one of the *)
(* rows of the item with that key.                                         *)

IsTable(t) == t \in [DOMAIN t -> Int]

LEMMA PutPuts ==
  ASSUME NEW t, IsTable(t), NEW row, row.value \in Int
  PROVE  /\ IsTable(Goods!Put(t, row)) /\ DOMAIN Goods!Put(t, row) = DOMAIN t \cup {row.key}
         /\ Goods!Put(t, row)[row.key] = row.value
         /\ \A key \in DOMAIN t \ {row.key} : Goods!Put(t, row)[key] = t[key]
BY DEF Goods!Put, IsTable

\* Upsert goes through the rows from the first to the last.
UpsertFold(h, table0, rws) ==
  h = [s \in SUBSET DOMAIN rws |->
         IF s = {} THEN table0
         ELSE Goods!Put(h[s \ {Goods!Max(s)}], rws[Goods!Max(s)])]

LEMMA UpsertIsFold ==
  \A table0, rws :
    Goods!Upsert(table0, rws) = (CHOOSE h : UpsertFold(h, table0, rws))[DOMAIN rws]
BY DEF Goods!Upsert, Goods!FoldLeft, Goods!MapThenFoldSet, UpsertFold

LEMMA LastOf ==
  ASSUME NEW n \in Nat, NEW s \in SUBSET (1 .. n), s # {}
  PROVE  Goods!Max(s) \in s /\ \A k \in s : k <= Goods!Max(s)
<1>1. PICK m \in s : \A k \in s : k <= m
  BY LargestOf
<1>2. m \in s /\ \A y \in s : m >= y
  BY <1>1
<1> QED BY <1>2 DEF Goods!Max

LEMMA UpsertFolds ==
  ASSUME NEW table0, IsTable(table0), NEW n \in Nat, NEW rws, DOMAIN rws = 1 .. n,
         \A i \in 1 .. n : rws[i].value \in Int
  PROVE  \E h : UpsertFold(h, table0, rws)
<1> DEFINE K == DOMAIN table0 \cup {rws[i].key : i \in 1 .. n}
           T == UNION {[D -> Int] : D \in SUBSET K}
           pick == [s \in SUBSET (1 .. n) |-> Goods!Max(s)]
           put == [p \in (1 .. n) \X T |-> Goods!Put(p[2], rws[p[1]])]
<1>1. table0 \in T
  BY DEF IsTable
<1>2. ASSUME NEW i \in 1 .. n, NEW t \in T
      PROVE  Goods!Put(t, rws[i]) \in T
  <2>1. IsTable(t) /\ DOMAIN t \subseteq K
    BY DEF IsTable
  <2>2. /\ IsTable(Goods!Put(t, rws[i]))
        /\ DOMAIN Goods!Put(t, rws[i]) = DOMAIN t \cup {rws[i].key}
    BY <2>1, PutPuts
  <2>3. DOMAIN Goods!Put(t, rws[i]) \in SUBSET K
    BY <2>1, <2>2
  <2> QED BY <2>2, <2>3 DEF IsTable
<1> HIDE DEF T
<1>3. put \in [(1 .. n) \X T -> T]
  BY <1>2
<1>4. \A i \in 1 .. n, t \in T : put[<<i, t>>] = Goods!Put(t, rws[i])
  OBVIOUS
<1>5. \A s \in SUBSET (1 .. n) : pick[s] = Goods!Max(s) /\ (s # {} => pick[s] \in s)
  BY LastOf
<1> HIDE DEF pick, put
<1>6. IsFiniteSet(1 .. n)
  BY FS_Interval
<1>7. PICK h \in [SUBSET (1 .. n) -> T] : IsFold(h, 1 .. n, table0, pick, put)
  BY <1>1, <1>3, <1>5, <1>6, FoldExists
<1>8. ASSUME NEW s \in SUBSET (1 .. n)
      PROVE  h[s] = IF s = {} THEN table0
                    ELSE Goods!Put(h[s \ {Goods!Max(s)}], rws[Goods!Max(s)])
  <2>1. h[s] = IF s = {} THEN table0 ELSE put[<<pick[s], h[s \ {pick[s]}]>>]
    BY <1>7, Zenon DEF IsFold
  <2>2. CASE s # {}
    <3>1. Goods!Max(s) \in 1 .. n /\ h[s \ {Goods!Max(s)}] \in T
      BY <1>5, <1>7, <2>2
    <3> QED BY <1>4, <1>5, <2>1, <2>2, <3>1
  <2> QED BY <2>1, <2>2
<1>9. h = [s \in SUBSET (1 .. n) |-> h[s]]
  BY <1>7
<1>10. UpsertFold(h, table0, rws)
  BY <1>8, <1>9, Zenon DEF UpsertFold
<1> QED BY <1>10

LEMMA FirstAndNext ==
  ASSUME NEW i \in Nat, NEW n \in Nat, i + 1 <= n
  PROVE  /\ i + 1 \in 1 .. i + 1 /\ 1 .. i + 1 # {} /\ 1 .. i + 1 \in SUBSET (1 .. n)
         /\ (1 .. i + 1) \ {i + 1} = 1 .. i
<1>1. \A k \in 1 .. i + 1 : k \in 1 .. n
  OBVIOUS
<1>2. \A k : k \in (1 .. i + 1) \ {i + 1} <=> k \in 1 .. i
  OBVIOUS
<1>3. i + 1 \in 1 .. i + 1
  OBVIOUS
<1> QED BY <1>1, <1>2, <1>3, Zenon

\* Under the key of every row, a table has the value of a row with that key.
ShowsRows(t, rws, n) ==
  /\ IsTable(t)
  /\ \A j \in 1 .. n : \E k \in 1 .. n :
       rws[k].key = rws[j].key /\ t[rws[j].key] = rws[k].value

LEMMA UpsertShows ==
  ASSUME NEW table0, IsTable(table0), NEW n \in Nat, NEW rws, DOMAIN rws = 1 .. n,
         \A i \in 1 .. n : rws[i].value \in Int
  PROVE  ShowsRows(Goods!Upsert(table0, rws), rws, n)
<1> DEFINE h == CHOOSE g : UpsertFold(g, table0, rws)
<1>1. UpsertFold(h, table0, rws)
  BY UpsertFolds
<1>2. Goods!Upsert(table0, rws) = h[1 .. n]
  BY UpsertIsFold
<1> HIDE DEF h
<1> DEFINE Shown(i) == \A j \in 1 .. i :
                         /\ rws[j].key \in DOMAIN h[1 .. i]
                         /\ \E k \in 1 .. n : /\ rws[k].key = rws[j].key
                                              /\ h[1 .. i][rws[j].key] = rws[k].value
           G == {i \in Nat : i <= n => IsTable(h[1 .. i]) /\ Shown(i)}
<1>3. 0 \in G
  <2>1. h[{}] = table0
    BY <1>1 DEF UpsertFold
  <2>2. 1 .. 0 = {}
    OBVIOUS
  <2> QED BY <2>1, <2>2
<1>4. ASSUME NEW i \in Nat, i \in G
      PROVE  i + 1 \in G
  <2> SUFFICES ASSUME i + 1 <= n
               PROVE  IsTable(h[1 .. i + 1]) /\ Shown(i + 1)
    OBVIOUS
  <2> DEFINE t == h[1 .. i]
             u == h[1 .. i + 1]
  <2>1. IsTable(t) /\ Shown(i)
    BY <1>4
  <2> HIDE DEF G, Shown
  <2> HIDE DEF t, u
  <2>2. Goods!Max(1 .. i + 1) = i + 1
    <3>1. 1 .. i + 1 \in SUBSET (1 .. n) /\ 1 .. i + 1 # {} /\ i + 1 \in 1 .. i + 1
      BY FirstAndNext
    <3>2. Goods!Max(1 .. i + 1) \in 1 .. i + 1 /\ i + 1 <= Goods!Max(1 .. i + 1)
      BY <3>1, LastOf
    <3> QED BY <3>2
  <2>3. u = Goods!Put(t, rws[i + 1])
    <3>1. (1 .. i + 1) \ {i + 1} = 1 .. i /\ 1 .. i + 1 # {} /\ 1 .. i + 1 \in SUBSET (1 .. n)
      BY FirstAndNext
    <3> QED BY <1>1, <2>2, <3>1 DEF UpsertFold, t, u
  <2>4. rws[i + 1].value \in Int /\ i + 1 \in 1 .. n
    OBVIOUS
  <2>0. \A j \in 1 .. i :
          /\ rws[j].key \in DOMAIN t
          /\ \E k \in 1 .. n : rws[k].key = rws[j].key /\ t[rws[j].key] = rws[k].value
    BY <2>1 DEF Shown, t
  <2>5. /\ IsTable(u) /\ DOMAIN u = DOMAIN t \cup {rws[i + 1].key}
        /\ u[rws[i + 1].key] = rws[i + 1].value
        /\ \A key \in DOMAIN t \ {rws[i + 1].key} : u[key] = t[key]
    BY <2>1, <2>3, <2>4, PutPuts
  <2>6. ASSUME NEW j \in 1 .. i + 1
        PROVE  /\ rws[j].key \in DOMAIN u
               /\ \E k \in 1 .. n : rws[k].key = rws[j].key /\ u[rws[j].key] = rws[k].value
    <3>1. CASE rws[j].key = rws[i + 1].key
      BY <2>4, <2>5, <3>1
    <3>2. CASE rws[j].key # rws[i + 1].key
      <4>1. j \in 1 .. i
        BY <3>2
      <4>2. /\ rws[j].key \in DOMAIN t
            /\ \E k \in 1 .. n : rws[k].key = rws[j].key /\ t[rws[j].key] = rws[k].value
        BY <2>0, <4>1
      <4> QED BY <2>5, <3>2, <4>2
    <3> QED BY <3>1, <3>2
  <2> QED BY <2>5, <2>6 DEF u, Shown
<1> HIDE DEF G
<1>5. n \in G
  BY <1>3, <1>4, InductionOnNat
<1>6. IsTable(h[1 .. n]) /\ Shown(n)
  BY <1>5 DEF G
<1> QED BY <1>2, <1>6 DEF ShowsRows

GoodsInv ==
  /\ item \in Items /\ shown \in Items \cup {Goods!NoItem} /\ changes \in 0 .. Changes
  /\ sku \in {i.spelling : i \in Items} \cup {0}
  /\ IsTable(stockRows) /\ IsTable(channelRows)
  /\ CatalogueShown

\* The rows that an item is made into.
LEMMA RowsOfItem ==
  ASSUME NEW i \in Items
  PROVE  /\ Len(i.levels) \in Nat /\ Len(i.prices) \in Nat /\ Len(i.listings) \in Nat
         /\ DOMAIN i.levels = 1 .. Len(i.levels) /\ DOMAIN i.prices = 1 .. Len(i.prices)
         /\ DOMAIN i.listings = 1 .. Len(i.listings)
         /\ DOMAIN Goods!StockRows(i) = 1 .. Len(i.levels)
         /\ \A k \in 1 .. Len(i.levels) :
              /\ Goods!StockRows(i)[k].value \in Int
              /\ Goods!StockRows(i)[k].key = Goods!StockKey(i.levels[k])
              /\ Goods!StockRows(i)[k].value = Goods!Available(i.levels[k])
         /\ DOMAIN Goods!ChannelRows(i) = 1 .. Len(i.prices) + Len(i.listings)
         /\ \A k \in 1 .. Len(i.prices) :
              /\ Goods!ChannelRows(i)[k].value \in Int
              /\ Goods!ChannelRows(i)[k].key = Goods!PriceKey(i.prices[k])
              /\ Goods!ChannelRows(i)[k].value = Goods!PriceOf(i, i.prices[k])
         /\ \A k \in 1 .. Len(i.listings) :
              /\ Goods!ChannelRows(i)[Len(i.prices) + k].value \in Int
              /\ Goods!ChannelRows(i)[Len(i.prices) + k].key = Goods!ListingKey(i.listings[k])
<1>1. i \in Goods!Item
  BY DEF Goods!CatalogueConstants
<1> DEFINE levels == i.levels
           prices == i.prices
           listings == i.listings
<1>2. /\ levels \in Seq(Goods!Level) /\ prices \in Seq(Goods!Price)
      /\ listings \in Seq(Goods!Listing) /\ i.retail \in Int
  BY <1>1 DEF Goods!Item
<1> HIDE DEF levels, prices, listings
<1>3. /\ Len(levels) \in Nat /\ Len(prices) \in Nat /\ Len(listings) \in Nat
      /\ DOMAIN levels = 1 .. Len(levels) /\ DOMAIN prices = 1 .. Len(prices)
      /\ DOMAIN listings = 1 .. Len(listings)
      /\ \A k \in 1 .. Len(levels) : levels[k] \in Goods!Level
      /\ \A k \in 1 .. Len(prices) : prices[k] \in Goods!Price
  BY <1>2
<1>4. \A k \in 1 .. Len(levels) : Goods!Available(levels[k]) \in Int
  <2>1. \A l \in Goods!Level : l.quantity \in Int /\ l.inOrders \in Int /\ l.available \in Int
    BY DEF Goods!Level
  <2>2. \A a, b \in Int : Goods!OrElse(a, b) \in Int
    BY DEF Goods!OrElse
  <2>3. \A a, b \in Int : Goods!NonNegative(a - b) \in Int
    BY DEF Goods!NonNegative
  <2>4. ASSUME NEW l \in Goods!Level
        PROVE  Goods!Available(l) \in Int
    <3>0. 0 \in Int /\ l.quantity \in Int /\ l.inOrders \in Int
      BY <2>1
    <3>1. Goods!OrElse(l.quantity, 0) \in Int /\ Goods!OrElse(l.inOrders, 0) \in Int
      BY <2>2, <3>0, Zenon
    <3> DEFINE m == Goods!NonNegative(Goods!OrElse(l.quantity, 0)
                                        - Goods!OrElse(l.inOrders, 0))
    <3>2. m \in Int /\ Goods!Available(l) = Goods!OrElse(l.available, m)
      BY <2>3, <3>1 DEF Goods!Available
    <3> HIDE DEF m
    <3> QED BY <2>1, <2>2, <3>2
  <2> QED BY <1>3, <2>4
<1>5. \A k \in 1 .. Len(prices) : Goods!PriceOf(i, prices[k]) \in Int
  BY <1>2, <1>3 DEF Goods!PriceOf, Goods!OrElse, Goods!Price
<1> DEFINE one == [k \in 1 .. Len(prices) |->
                     [key |-> Goods!PriceKey(prices[k]), value |-> Goods!PriceOf(i, prices[k])]]
           two == [k \in 1 .. Len(listings) |->
                     [key |-> Goods!ListingKey(listings[k]), value |-> Goods!Null]]
           All == {one[k] : k \in 1 .. Len(prices)} \cup {two[k] : k \in 1 .. Len(listings)}
<1>6. Goods!ChannelRows(i) = one \o two
  BY <1>3 DEF Goods!ChannelRows, prices, listings
<1>7. /\ one \in Seq(All) /\ Len(one) = Len(prices)
      /\ two \in Seq(All) /\ Len(two) = Len(listings)
  <2>1. one \in [1 .. Len(prices) -> All] /\ two \in [1 .. Len(listings) -> All]
    OBVIOUS
  <2> HIDE DEF All, one, two
  <2> QED BY <1>3, <2>1
<1>8. /\ \A k \in 1 .. Len(prices) : /\ one[k].key = Goods!PriceKey(prices[k])
                                     /\ one[k].value = Goods!PriceOf(i, prices[k])
      /\ \A k \in 1 .. Len(listings) : /\ two[k].key = Goods!ListingKey(listings[k])
                                       /\ two[k].value = -1
  BY DEF Goods!Null
<1> HIDE DEF All, one, two
<1>9. /\ DOMAIN (one \o two) = 1 .. Len(prices) + Len(listings)
      /\ \A k \in 1 .. Len(prices) : (one \o two)[k] = one[k]
      /\ \A k \in 1 .. Len(listings) : (one \o two)[Len(prices) + k] = two[k]
  BY <1>3, <1>7
<1>10. /\ DOMAIN Goods!StockRows(i) = 1 .. Len(levels)
       /\ \A k \in 1 .. Len(levels) :
            /\ Goods!StockRows(i)[k].key = Goods!StockKey(levels[k])
            /\ Goods!StockRows(i)[k].value = Goods!Available(levels[k])
  BY <1>3 DEF Goods!StockRows, levels
<1>11. /\ DOMAIN Goods!ChannelRows(i) = 1 .. Len(prices) + Len(listings)
       /\ \A k \in 1 .. Len(prices) :
            /\ Goods!ChannelRows(i)[k].value \in Int
            /\ Goods!ChannelRows(i)[k].key = Goods!PriceKey(prices[k])
            /\ Goods!ChannelRows(i)[k].value = Goods!PriceOf(i, prices[k])
       /\ \A k \in 1 .. Len(listings) :
            /\ Goods!ChannelRows(i)[Len(prices) + k].value \in Int
            /\ Goods!ChannelRows(i)[Len(prices) + k].key = Goods!ListingKey(listings[k])
  <2> DEFINE both == one \o two
  <2>1. /\ DOMAIN both = 1 .. Len(prices) + Len(listings)
        /\ \A k \in 1 .. Len(prices) : both[k] = one[k]
        /\ \A k \in 1 .. Len(listings) : both[Len(prices) + k] = two[k]
    BY <1>9
  <2>2. Goods!ChannelRows(i) = both /\ -1 \in Int
    BY <1>6
  <2> HIDE DEF both
  <2> QED BY <1>5, <1>8, <2>1, <2>2
<1> QED BY <1>3, <1>4, <1>10, <1>11 DEF levels, prices, listings

LEMMA GoodsInit == Init => GoodsInv
<1> SUFFICES ASSUME Init PROVE GoodsInv
  OBVIOUS
<1>1. /\ item \in Items /\ changes = 0 /\ sku = 0 /\ shown = Goods!NoItem
      /\ stockRows = Goods!NoRows /\ channelRows = Goods!NoRows
  BY DEF Init, Goods!CatalogueInit
<1>2. IsTable(Goods!NoRows)
  BY DEF IsTable, Goods!NoRows
<1>3. changes \in 0 .. Changes
  BY <1>1, PartsAssumption DEF Goods!CatalogueConstants
<1>4. CatalogueShown
  BY <1>1 DEF CatalogueShown, Goods!CatalogueShown
<1> QED BY <1>1, <1>2, <1>3, <1>4 DEF GoodsInv

\* After the rows of the item are written, each level shows, or one of the same
\* place does, and each price, or what has its key.
LEMMA StockShown ==
  ASSUME NEW i \in Items, NEW t, IsTable(t), NEW u, u = Goods!Upsert(t, Goods!StockRows(i))
  PROVE  /\ IsTable(u)
         /\ \A j \in DOMAIN i.levels :
              \/ u[Goods!StockKey(i.levels[j])] = Goods!Available(i.levels[j])
              \/ \E k \in DOMAIN i.levels \ {j} : Goods!SameName(i.levels[k], i.levels[j])
<1> DEFINE rws == Goods!StockRows(i)
           n == Len(i.levels)
           L(k) == i.levels[k]
<1>1. /\ n \in Nat /\ DOMAIN rws = 1 .. n /\ DOMAIN i.levels = 1 .. n
      /\ \A k \in 1 .. n : /\ rws[k].value \in Int /\ rws[k].key = Goods!StockKey(L(k))
                           /\ rws[k].value = Goods!Available(L(k))
  BY RowsOfItem
<1>2. u = Goods!Upsert(t, rws)
  OBVIOUS
<1> HIDE DEF rws, n
<1>3. /\ IsTable(u)
      /\ \A j \in 1 .. n : \E k \in 1 .. n : rws[k].key = rws[j].key /\ u[rws[j].key] = rws[k].value
  <2>1. n \in Nat /\ DOMAIN rws = 1 .. n /\ \A k \in 1 .. n : rws[k].value \in Int
    BY <1>1
  <2>2. ShowsRows(Goods!Upsert(t, rws), rws, n)
    BY <2>1, UpsertShows
  <2> QED BY <1>2, <2>2 DEF ShowsRows
<1>4. ASSUME NEW j \in 1 .. n
      PROVE  \/ u[Goods!StockKey(L(j))] = Goods!Available(L(j))
             \/ \E k \in (1 .. n) \ {j} : Goods!SameName(L(k), L(j))
  <2>1. PICK k \in 1 .. n : rws[k].key = rws[j].key /\ u[rws[j].key] = rws[k].value
    BY <1>3
  <2>2. CASE k = j
    BY <1>1, <2>1, <2>2
  <2>3. CASE k # j
    <3>1. Goods!StockKey(L(k)) = Goods!StockKey(L(j))
      BY <1>1, <2>1
    <3>2. \A l : Goods!StockKey(l).warehouse = Goods!LocationName(l.location)
      BY DEF Goods!StockKey, Goods!KeyOf
    <3>3. Goods!SameName(L(k), L(j))
      BY <3>1, <3>2, Zenon DEF Goods!SameName
    <3> QED BY <2>3, <3>3
  <2> QED BY <2>2, <2>3
<1> QED BY <1>1, <1>3, <1>4

LEMMA PricesShown ==
  ASSUME NEW i \in Items, NEW t, IsTable(t), NEW u, u = Goods!Upsert(t, Goods!ChannelRows(i))
  PROVE  /\ IsTable(u)
         /\ \A j \in DOMAIN i.prices :
              \/ u[Goods!PriceKey(i.prices[j])] = Goods!PriceOf(i, i.prices[j])
              \/ \E k \in DOMAIN i.prices \ {j} : i.prices[k].sub = i.prices[j].sub
              \/ \E k \in DOMAIN i.listings : Goods!TakesPrice(i.listings[k], i.prices[j])
<1> DEFINE rws == Goods!ChannelRows(i)
           n == Len(i.prices)
           m == Len(i.listings)
           P(k) == i.prices[k]
           L(k) == i.listings[k]
<1>1. /\ n \in Nat /\ m \in Nat /\ DOMAIN rws = 1 .. n + m
      /\ DOMAIN i.prices = 1 .. n /\ DOMAIN i.listings = 1 .. m
      /\ \A k \in 1 .. n : /\ rws[k].value \in Int /\ rws[k].key = Goods!PriceKey(P(k))
                           /\ rws[k].value = Goods!PriceOf(i, P(k))
      /\ \A k \in 1 .. m : /\ rws[n + k].value \in Int
                           /\ rws[n + k].key = Goods!ListingKey(L(k))
  BY RowsOfItem
<1>2. u = Goods!Upsert(t, rws)
  OBVIOUS
<1> HIDE DEF rws, n, m
<1>3. ASSUME NEW k \in 1 .. n + m, k \notin 1 .. n
      PROVE  \E l \in 1 .. m : k = n + l
  <2>1. n \in Nat /\ m \in Nat
    BY <1>1
  <2>2. k - n \in 1 .. m /\ k = n + (k - n)
    BY <1>3, <2>1
  <2> QED BY <2>2
<1>4. \A k \in 1 .. n + m : rws[k].value \in Int
  BY <1>1, <1>3
<1>5. n + m \in Nat /\ \A j \in 1 .. n : j \in 1 .. n + m
  BY <1>1
<1>6. /\ IsTable(u)
      /\ \A j \in 1 .. n + m :
           \E k \in 1 .. n + m : rws[k].key = rws[j].key /\ u[rws[j].key] = rws[k].value
  <2>1. n + m \in Nat /\ DOMAIN rws = 1 .. n + m
    BY <1>1, <1>5
  <2>2. ShowsRows(Goods!Upsert(t, rws), rws, n + m)
    BY <1>4, <2>1, UpsertShows
  <2> QED BY <1>2, <2>2 DEF ShowsRows
<1>7. \A p : Goods!PriceKey(p).listingId = p.sub /\ Goods!PriceKey(p).asin = ""
  BY DEF Goods!PriceKey
<1>8. ASSUME NEW j \in 1 .. n
      PROVE  \/ u[Goods!PriceKey(P(j))] = Goods!PriceOf(i, P(j))
             \/ \E k \in (1 .. n) \ {j} : P(k).sub = P(j).sub
             \/ \E k \in 1 .. m : Goods!TakesPrice(L(k), P(j))
  <2>1. PICK k \in 1 .. n + m : rws[k].key = rws[j].key /\ u[rws[j].key] = rws[k].value
    BY <1>5, <1>6
  <2>2. CASE k = j
    BY <1>1, <2>1, <2>2
  <2>3. CASE k \in 1 .. n /\ k # j
    <3>1. Goods!PriceKey(P(k)) = Goods!PriceKey(P(j))
      BY <1>1, <2>1, <2>3
    <3>2. P(k).sub = P(j).sub
      BY <1>7, <3>1, Zenon
    <3> QED BY <2>3, <3>2
  <2>4. CASE k \notin 1 .. n
    <3>1. PICK l \in 1 .. m : k = n + l
      BY <1>3, <2>4
    <3>2. Goods!ListingKey(L(l)) = Goods!PriceKey(P(j))
      BY <1>1, <2>1, <3>1
    <3>3. Goods!TakesPrice(L(l), P(j))
      BY <1>7, <3>2, Zenon DEF Goods!TakesPrice
    <3> QED BY <3>3
  <2> QED BY <2>2, <2>3, <2>4
<1> QED BY <1>1, <1>6, <1>8

LEMMA SyncShows ==
  ASSUME GoodsInv, Goods!SyncCatalogue
  PROVE  GoodsInv'
<1>1. item \in Items /\ IsTable(stockRows) /\ IsTable(channelRows) /\ UNCHANGED <<item, changes>>
  BY DEF GoodsInv, Goods!SyncCatalogue
<1>2. shown' = item /\ sku' = (IF sku = 0 THEN item.spelling ELSE sku)
  BY DEF Goods!SyncCatalogue
<1>3. CASE sku' = item.spelling
  <2>1. /\ stockRows' = Goods!Upsert(stockRows, Goods!StockRows(item))
        /\ channelRows' = Goods!Upsert(channelRows, Goods!ChannelRows(item))
    BY <1>3 DEF Goods!SyncCatalogue, Goods!ProductId
  <2>2. /\ IsTable(stockRows')
        /\ \A j \in DOMAIN item.levels :
             \/ stockRows'[Goods!StockKey(item.levels[j])] = Goods!Available(item.levels[j])
             \/ \E k \in DOMAIN item.levels \ {j} :
                  Goods!SameName(item.levels[k], item.levels[j])
    BY <1>1, <2>1, StockShown
  <2>3. /\ IsTable(channelRows')
        /\ \A j \in DOMAIN item.prices :
             \/ channelRows'[Goods!PriceKey(item.prices[j])] = Goods!PriceOf(item, item.prices[j])
             \/ \E k \in DOMAIN item.prices \ {j} : item.prices[k].sub = item.prices[j].sub
             \/ \E k \in DOMAIN item.listings :
                  Goods!TakesPrice(item.listings[k], item.prices[j])
    BY <1>1, <2>1, PricesShown
  <2>4. CatalogueShown'
    BY <1>2, <2>2, <2>3, Zenon DEF CatalogueShown, Goods!CatalogueShown
  <2>5. IsTable(stockRows)' /\ IsTable(channelRows)'
    BY <2>2, <2>3 DEF IsTable
  <2> QED BY <1>1, <1>2, <1>3, <2>4, <2>5 DEF GoodsInv
<1>4. CASE sku' # item.spelling
  <2>1. UNCHANGED <<sku, stockRows, channelRows>>
    BY <1>2, <1>4 DEF Goods!SyncCatalogue, Goods!ProductId
  <2>2. CatalogueShown'
    BY <1>2, <1>4 DEF CatalogueShown, Goods!CatalogueShown
  <2> QED BY <1>1, <1>2, <2>1, <2>2 DEF GoodsInv, IsTable
<1> QED BY <1>3, <1>4

LEMMA GoodsKept == GoodsInv /\ [Next]_vars => GoodsInv'
<1> SUFFICES ASSUME GoodsInv, [Goods!CatalogueNext]_goodsVars PROVE GoodsInv'
  BY GoodsStep
<1>1. ASSUME UNCHANGED <<sku, stockRows, channelRows, shown>>,
             item' \in Items, changes' \in 0 .. Changes
      PROVE  GoodsInv'
  <2>1. CatalogueShown'
    BY <1>1 DEF GoodsInv, CatalogueShown, Goods!CatalogueShown
  <2> QED BY <1>1, <2>1 DEF GoodsInv, IsTable
<1>2. CASE Goods!ItemChanges
  <2>1. changes + 1 \in 0 .. Changes
    BY <1>2, PartsAssumption DEF GoodsInv, Goods!ItemChanges, Goods!CatalogueConstants
  <2> QED BY <1>1, <1>2, <2>1 DEF Goods!ItemChanges
<1>3. CASE Goods!SyncCatalogue
  BY <1>3, SyncShows
<1>4. CASE UNCHANGED goodsVars
  BY <1>1, <1>4 DEF goodsVars, GoodsInv
<1> QED BY <1>2, <1>3, <1>4 DEF Goods!CatalogueNext

\* Whatever the forms an item takes and however often it is synchronised, a sync
\* leaves in the row of each stock level what is available there, or the place
\* shares its name with another; and in the row of each price that price, or
\* another price has its SubSource, or a listing goes by it
\* (sync-linnworks-catalog.service.ts:120-187,
\* prisma-sku-dashboard.repository.ts:272-359).
THEOREM SyncsAreShown == Spec => []CatalogueShown
<1>1. GoodsInv => CatalogueShown
  BY DEF GoodsInv
<1> QED BY GoodsInit, GoodsKept, <1>1, PTL DEF Spec

-----------------------------------------------------------------------------
(* Units of work.  A unit is about an account that exists, unless it       *)
(* creates it, and of the units that create one only one is past its first *)
(* statement.                                                              *)

\* What matters of the statements.
LEMMA Shapes ==
  ASSUME NEW o \in Op
  PROVE  /\ Len(Statements[o]) \in 1 .. 4
         /\ DOMAIN Statements[o] = 1 .. Len(Statements[o])
         /\ o \notin Transactional => Len(Statements[o]) = 1
         /\ o \in Creates => Statements[o][1] = SaveUser
         /\ \A i \in 1 .. Len(Statements[o]) :
              /\ "authUser" \in Statements[o][i].fields => o \in Creates
              /\ Statements[o][i].fields = AuthUser => i = 1
<1> USE DEF Creates, Transactional, SaveUser, CreateSecurity, CreateHistory, CreateProfile,
            LogActivity, Write, AuthUser, AuthSecurity
<1>1. CASE o = "create"
  <2>1. Statements[o] = <<SaveUser, CreateSecurity, CreateHistory, LogActivity>>
    BY <1>1 DEF Statements, RegisterWrites
  <2> QED BY <1>1, <2>1
<1>2. CASE o = "google"
  <2>1. Statements[o] = <<SaveUser, CreateSecurity, CreateProfile, LogActivity>>
    BY <1>2 DEF Statements, GoogleWrites
  <2> QED BY <1>2, <2>1
<1>3. CASE o = "verifyEmail"
  <2>1. Statements[o] = <<Write("authUser", {"verified"}), LogActivity>>
    BY <1>3 DEF Statements, VerifyWrites
  <2> QED BY <1>3, <2>1
<1>4. CASE o = "changePassword"
  <2>1. Statements[o] = <<Write("authUser", {"password"}),
                          Write("authSecurity", {"lastPasswordChange"}), LogActivity>>
    BY <1>4 DEF Statements, PasswordWrites
  <2> QED BY <1>4, <2>1
<1>5. CASE o = "failedLogin"
  <2>1. Statements[o] = <<Write("authSecurity", {"failedAttempts"})>>
    BY <1>5 DEF Statements, FailedLoginWrites
  <2> QED BY <1>5, <2>1
<1>6. CASE o = "revoke"
  <2>1. Statements[o] = <<Write("authUser", {"tokenVersion"})>>
    BY <1>6 DEF Statements, RevokeWrites
  <2> QED BY <1>6, <2>1
<1>7. CASE o = "updateProfile"
  <2>1. Statements[o] = <<CreateProfile>>
    BY <1>7 DEF Statements, ProfileWrites
  <2> QED BY <1>7, <2>1
<1> QED BY <1>1, <1>2, <1>3, <1>4, <1>5, <1>6, <1>7 DEF Op

Creating(u) == AtWork(u) /\ op[u] \in Creates /\ step[u] > 0

UnitsInv ==
  /\ UnitsTypeOK
  /\ \A u \in Unit : AtWork(u) =>
       /\ step[u] \in 0 .. Len(Statements[op[u]])
       /\ op[u] \notin Creates => Exists
       /\ op[u] \notin Transactional => step[u] = 0
  /\ \A u \in Unit : op[u] = "none" => step[u] = 0 /\ answer[u] = "none"
  /\ \A u \in Unit : Creating(u) => ~Exists
  /\ \A u, v \in Unit : Creating(u) /\ Creating(v) => u = v

\* A unit that creates the account keeps others from creating it.
LEMMA CreatorLocks ==
  ASSUME UnitsInv, NEW u \in Unit, Creating(u)
  PROVE  "authUser" \in Locked(u)
<1>1. op[u] \in Creates /\ op[u] \in Op /\ step[u] \in 1 .. 4
  BY DEF Creating, UnitsInv, UnitsTypeOK, AtWork
<1>2. Statements[op[u]][1] = SaveUser
  BY <1>1, Shapes
<1>3. WithContext(op[u], Statements[op[u]][1].table)
  BY <1>1 DEF WithContext, Transactional
<1>4. SaveUser \in Pending(u)
  BY <1>1, <1>2, <1>3 DEF Pending
<1>5. SaveUser.table = "authUser"
  BY DEF SaveUser, Write
<1> QED BY <1>4, <1>5 DEF Locked, OneRowTables

LEMMA WrittenTyped ==
  ASSUME UnitsTypeOK, NEW u \in Unit, NEW ws
  PROVE  Written(u, ws) \in [Field -> Unit \cup {None}]
BY DEF Written, UnitsTypeOK

LEMMA ExistenceWritten ==
  ASSUME UnitsTypeOK, NEW u \in Unit, NEW ws,
         \A w \in ws : "authUser" \notin w.fields
  PROVE  Written(u, ws)["authUser"] = rows["authUser"]
BY DEF Written, UnitsTypeOK, Field, AuthUser

\* The statement that a unit sends next.
LEMMA NextIsStatement ==
  ASSUME UnitsInv, NEW u \in Unit, AtWork(u), ~AllDone(u)
  PROVE  /\ op[u] \in Op
         /\ step[u] + 1 \in 1 .. Len(Statements[op[u]])
<1>1. op[u] \in Op
  BY DEF UnitsInv, UnitsTypeOK, AtWork
<1>2. Len(Statements[op[u]]) \in 1 .. 4 /\ step[u] \in 0 .. Len(Statements[op[u]])
  BY <1>1, Shapes DEF UnitsInv
<1> QED BY <1>1, <1>2 DEF AllDone

LEMMA MishapTyped ==
  ASSUME UnitConstants, UnitsTypeOK, UnitMishap
  PROVE  unitMishaps' \in 0 .. MaxUnitMishaps
BY DEF UnitConstants, UnitsTypeOK, UnitMishap

\* A unit ends and leaves the existence of the account as it is, or it was the
\* one that creates it.
LEMMA EndKeeps ==
  ASSUME UnitsInv, NEW u \in Unit, AtWork(u), NEW a \in {"ok", "failed"}, AnswerUnit(u, a),
         step' \in [Unit -> 0 .. 4], \A v \in Unit \ {u} : step'[v] = step[v],
         UNCHANGED op, unitMishaps' \in 0 .. MaxUnitMishaps,
         rows' \in [Field -> Unit \cup {None}],
         rows'["authUser"] = rows["authUser"] \/ (Creating(u) /\ Exists')
  PROVE  UnitsInv'
<1>1. answer' \in [Unit -> {"none", "ok", "failed"}] /\ UnitsTypeOK'
  BY DEF UnitsInv, UnitsTypeOK, AnswerUnit
<1>2. ~AtWork(u)'
  BY DEF AtWork, AnswerUnit, UnitsInv, UnitsTypeOK
<1>3. \A v \in Unit \ {u} : (AtWork(v)' <=> AtWork(v)) /\ (Creating(v)' <=> Creating(v))
  BY DEF AtWork, AnswerUnit, UnitsInv, UnitsTypeOK, Creating
<1>4. Exists => Exists'
  BY DEF Exists, UnitsInv
<1>5. \A v \in Unit \ {u} : Creating(v) => ~Exists'
  BY DEF Exists, UnitsInv
<1>6. \A v \in Unit : AtWork(v)' => /\ (step[v] \in 0 .. Len(Statements[op[v]]))'
                                     /\ (op[v] \notin Creates => Exists)'
                                     /\ (op[v] \notin Transactional => step[v] = 0)'
  BY <1>2, <1>3, <1>4 DEF UnitsInv
<1>7. \A v \in Unit : Creating(v)' => v # u /\ Creating(v)
  BY <1>2, <1>3 DEF Creating
<1>8. \A v \in Unit : op'[v] = "none" => v # u /\ step'[v] = 0 /\ answer'[v] = "none"
  BY DEF UnitsInv, UnitsTypeOK, AtWork, AnswerUnit
<1> QED BY <1>1, <1>5, <1>6, <1>7, <1>8 DEF UnitsInv

\* A transaction has sent one more statement.
LEMMA SendKeeps ==
  ASSUME UnitsInv, NEW u \in Unit, Execute(u), op[u] \in Transactional
  PROVE  UnitsInv' /\ UNCHANGED <<op, rows, answer>>
<1>1. AtWork(u) /\ op[u] \in Op /\ step[u] + 1 \in 1 .. Len(Statements[op[u]])
  BY NextIsStatement DEF Execute, MayExecute
<1>2. Len(Statements[op[u]]) \in 1 .. 4
  BY <1>1, Shapes
<1>3. UNCHANGED <<op, rows, answer, unitMishaps>>
  BY DEF Execute, WithContext
<1>4. step' = [step EXCEPT ![u] = step[u] + 1] /\ step[u] \in 0 .. 4
  BY DEF Execute, UnitsInv, UnitsTypeOK
<1>5. step' \in [Unit -> 0 .. 4] /\ UnitsTypeOK'
  <2>1. step[u] + 1 \in 0 .. 4
    <3>1. PICK n \in 1 .. 4 : n = Len(Statements[op[u]])
      BY <1>2
    <3>2. step[u] + 1 \in 1 .. n
      BY <1>1, <3>1
    <3> QED BY <3>2
  <2>2. step' \in [Unit -> 0 .. 4]
    BY <1>4, <2>1 DEF UnitsInv, UnitsTypeOK
  <2> QED BY <1>3, <2>2 DEF UnitsInv, UnitsTypeOK
<1>6. \A v \in Unit : /\ AtWork(v)' <=> AtWork(v)
                      /\ v # u => step'[v] = step[v]
  BY <1>3, <1>4 DEF AtWork, UnitsInv, UnitsTypeOK
<1>7. \A v \in Unit : AtWork(v)' => /\ (step[v] \in 0 .. Len(Statements[op[v]]))'
                                     /\ (op[v] \notin Creates => Exists)'
                                     /\ (op[v] \notin Transactional => step[v] = 0)'
  <2>1. step'[u] \in 0 .. Len(Statements[op[u]])
    BY <1>1, <1>2, <1>4 DEF UnitsInv, UnitsTypeOK
  <2> QED BY <1>3, <1>6, <2>1 DEF UnitsInv, Exists
<1>8. \A v \in Unit : Creating(v)' => Creating(v) \/ v = u
  BY <1>3, <1>6 DEF Creating
<1>9. \A v \in Unit : op'[v] = "none" => step'[v] = 0 /\ answer'[v] = "none"
  BY <1>1, <1>3, <1>6 DEF UnitsInv, AtWork
<1>10. CASE op[u] \notin Creates \/ step[u] > 0
  <2>1. \A v \in Unit : Creating(v)' => Creating(v)
    BY <1>1, <1>3, <1>8, <1>10 DEF Creating
  <2> QED BY <1>3, <1>5, <1>7, <1>9, <2>1 DEF UnitsInv, Exists
<1>11. CASE op[u] \in Creates /\ ~(step[u] > 0)
  <2>1. NextStatement(u) = SaveUser
    BY <1>4, <1>11, Shapes, <1>1 DEF NextStatement
  <2>2. SaveUser.table = "authUser" /\ SaveUser.fields = AuthUser
    BY DEF SaveUser, Write
  <2>3. ~Exists
    BY <2>1, <2>2 DEF Execute, Refused
  <2>4. \A v \in Unit \ {u} : ~Creating(v)
    <3>1. ASSUME NEW v \in Unit \ {u}, Creating(v)
          PROVE  FALSE
      <4>1. AtWork(v) /\ "authUser" \in Locked(v)
        BY <3>1, CreatorLocks DEF Creating
      <4> QED BY <2>1, <2>2, <4>1 DEF Execute, MayExecute
    <3> QED BY <3>1
  <2>5. \A v \in Unit : Creating(v)' => v = u
    BY <1>8, <2>4
  <2> QED BY <1>3, <1>5, <1>7, <1>9, <2>3, <2>5 DEF UnitsInv, Exists
<1> QED BY <1>3, <1>10, <1>11

\* The steps of AtomicWrites.

WritesOf(o) == UNION {Statements[o][i].fields : i \in DOMAIN Statements[o]}

\* The whole of a unit takes effect.
LEMMA TakesEffect ==
  ASSUME UnitsInv, NEW u \in Unit, AtWork(u), NEW ws, rows' = Written(u, ws),
         ws = {Statements[op[u]][i] : i \in 1 .. Len(Statements[op[u]])},
         op[u] \in Creates <=> ~Exists, NEW a \in {"ok", "failed"}, AnswerUnit(u, a),
         UNCHANGED op
  PROVE  Atomic!Apply(u)
<1>1. op[u] \in Op
  BY DEF UnitsInv, UnitsTypeOK, AtWork
<1>2. \A f \in Field : (\E w \in ws : f \in w.fields) <=> f \in WritesOf(op[u])
  BY <1>1, Shapes DEF WritesOf
<1>3. rows' = [f \in Field |-> IF f \in WritesOf(op[u]) THEN u ELSE rows[f]]
  BY <1>2 DEF Written
<1> QED BY <1>1, <1>3 DEF Atomic!Apply, Atomic!AtWork, AtWork, Atomic!Exists, Exists,
                          Atomic!None, None, AnswerUnit, WritesOf

LEMMA Fails ==
  ASSUME UnitsInv, NEW u \in Unit, AtWork(u), AnswerUnit(u, "failed"), UNCHANGED <<op, step, rows>>,
         unitMishaps' \in 0 .. MaxUnitMishaps
  PROVE  UnitsInv' /\ Atomic!Fail(u)
<1>1. UnitsInv'
  BY EndKeeps DEF UnitsInv, UnitsTypeOK
<1> QED BY <1>1 DEF Atomic!Fail, Atomic!AtWork, AtWork, AnswerUnit

LEMMA BeginKeeps ==
  ASSUME UnitsInv, NEW u \in Unit, NEW o \in Op, Begin(u, o)
  PROVE  UnitsInv' /\ Atomic!Begin(u, o)
<1>1. op[u] = "none" /\ step[u] = 0 /\ UNCHANGED <<step, rows, answer, unitMishaps>>
  BY DEF Begin, UnitsInv
<1>2. UnitsTypeOK' /\ op'[u] = o /\ \A v \in Unit \ {u} : op'[v] = op[v]
  BY DEF Begin, UnitsInv, UnitsTypeOK
<1>3. o # "none" /\ Len(Statements[o]) \in 1 .. 4
  BY Shapes DEF Op, Transactional, Creates
<1>4. \A v \in Unit : Creating(v)' => Creating(v) /\ v # u
  BY <1>1, <1>2 DEF Creating, AtWork
<1>5. Exists' <=> Exists
  BY <1>1 DEF Exists
<1>6. \A v \in Unit : AtWork(v)' => /\ (step[v] \in 0 .. Len(Statements[op[v]]))'
                                     /\ (op[v] \notin Creates => Exists)'
                                     /\ (op[v] \notin Transactional => step[v] = 0)'
  <2>1. ASSUME NEW v \in Unit \ {u}, AtWork(v)'
        PROVE  AtWork(v)
    BY <1>1, <1>2, <2>1 DEF AtWork
  <2>2. o \notin Creates => Exists
    BY DEF Begin
  <2> QED BY <1>1, <1>2, <1>3, <1>5, <2>1, <2>2 DEF UnitsInv
<1>7. \A v \in Unit : op'[v] = "none" => step'[v] = 0 /\ answer'[v] = "none"
  BY <1>1, <1>2, <1>3 DEF UnitsInv
<1>8. UnitsInv'
  BY <1>1, <1>2, <1>4, <1>5, <1>6, <1>7 DEF UnitsInv
<1> QED BY <1>8 DEF Begin, Atomic!Begin, Atomic!Exists, Exists, Atomic!None, None

LEMMA ExecuteKeeps ==
  ASSUME UnitConstants, UnitsInv, NEW u \in Unit, Execute(u)
  PROVE  UnitsInv' /\ (Atomic!Apply(u) \/ UNCHANGED <<op, rows, answer>>)
<1>1. AtWork(u) /\ op[u] \in Op /\ step[u] + 1 \in 1 .. Len(Statements[op[u]])
  BY NextIsStatement DEF Execute, MayExecute
<1>2. CASE op[u] \in Transactional
  BY <1>2, SendKeeps
<1>3. CASE op[u] \notin Transactional
  <2>1. step[u] = 0 /\ Len(Statements[op[u]]) = 1 /\ op[u] \notin Creates /\ Exists
    BY <1>1, <1>3, Shapes DEF UnitsInv, Transactional
  <2>2. PICK a \in {"ok", "failed"} : AnswerUnit(u, a) /\ unitMishaps' \in 0 .. MaxUnitMishaps
    BY <1>3, MishapTyped DEF Execute, UnitsInv, UnitsTypeOK
  <2>3. rows' = Written(u, {NextStatement(u)}) /\ UNCHANGED op
    BY <1>3 DEF Execute, WithContext
  <2>4. NextStatement(u) = Statements[op[u]][1]
    BY <2>1 DEF NextStatement
  <2>5. rows'["authUser"] = rows["authUser"]
    BY <1>1, <2>1, <2>3, <2>4, Shapes, ExistenceWritten DEF UnitsInv
  <2>6. step' = [step EXCEPT ![u] = 1]
    BY <2>1 DEF Execute
  <2>7. UnitsInv'
    <3>1. step' \in [Unit -> 0 .. 4] /\ \A v \in Unit \ {u} : step'[v] = step[v]
      BY <2>6 DEF UnitsInv, UnitsTypeOK
    <3>2. rows' \in [Field -> Unit \cup {None}]
      BY <2>3, WrittenTyped DEF UnitsInv
    <3> QED BY <1>1, <2>2, <2>3, <2>5, <3>1, <3>2, EndKeeps
  <2>8. {NextStatement(u)} = {Statements[op[u]][i] : i \in 1 .. Len(Statements[op[u]])}
    BY <2>1, <2>4
  <2>9. Atomic!Apply(u)
    <3>1. op[u] \in Creates <=> ~Exists
      BY <2>1
    <3> DEFINE ws == {NextStatement(u)}
    <3>2. /\ rows' = Written(u, ws)
          /\ ws = {Statements[op[u]][i] : i \in 1 .. Len(Statements[op[u]])}
      BY <2>3, <2>8
    <3> HIDE DEF ws
    <3> QED BY <1>1, <2>2, <2>3, <3>1, <3>2, TakesEffect
  <2> QED BY <2>7, <2>9
<1> QED BY <1>2, <1>3

LEMMA CommitKeeps ==
  ASSUME UnitConstants, UnitsInv, NEW u \in Unit, Commit(u)
  PROVE  UnitsInv' /\ Atomic!Apply(u)
<1>1. AtWork(u) /\ op[u] \in Op /\ step[u] = Len(Statements[op[u]]) /\ UNCHANGED <<op, step>>
  BY DEF Commit, AllDone, UnitsInv, UnitsTypeOK, AtWork
<1>2. PICK a \in {"ok", "failed"} : AnswerUnit(u, a) /\ unitMishaps' \in 0 .. MaxUnitMishaps
  BY MishapTyped DEF Commit, UnitsInv, UnitsTypeOK
<1>3. Pending(u) = {Statements[op[u]][i] : i \in 1 .. Len(Statements[op[u]])}
  BY <1>1 DEF Commit, Pending, WithContext
<1>4. op[u] \in Creates <=> ~Exists
  BY <1>1, Shapes DEF UnitsInv, Creating
<1>5. Atomic!Apply(u)
  BY <1>1, <1>2, <1>3, <1>4, TakesEffect DEF Commit
<1>6. rows'["authUser"] = rows["authUser"] \/ (Creating(u) /\ Exists')
  <2>1. CASE op[u] \in Creates
    <3>1. Creating(u)
      BY <1>1, <2>1, Shapes DEF Creating
    <3>2. SaveUser \in Pending(u)
      BY <1>1, <1>3, <2>1, Shapes
    <3>3. rows'["authUser"] = u
      BY <3>2 DEF Commit, Written, SaveUser, Write, AuthUser, Field
    <3> QED BY <3>1, <3>3 DEF Exists, Unit, None
  <2>2. CASE op[u] \notin Creates
    <3>1. \A w \in Pending(u) : "authUser" \notin w.fields
      BY <1>1, <1>3, <2>2, Shapes
    <3> QED BY <3>1, ExistenceWritten DEF Commit, UnitsInv
  <2> QED BY <2>1, <2>2
<1>7. UnitsInv'
  BY <1>1, <1>2, <1>6, WrittenTyped, EndKeeps DEF UnitsInv, UnitsTypeOK, Commit
<1> QED BY <1>5, <1>7

LEMMA UnitsInductive ==
  ASSUME UnitConstants
  PROVE  /\ UnitsInit => UnitsInv /\ Atomic!Init
         /\ UnitsInv /\ [UnitsNext]_unitVars => UnitsInv' /\ [Atomic!Next]_<<op, rows, answer>>
<1>1. ASSUME UnitsInit
      PROVE  UnitsInv /\ Atomic!Init
  <2>1. UnitsTypeOK
    BY <1>1 DEF UnitsInit, UnitsTypeOK, UnitConstants
  <2>2. \A u \in Unit : op[u] = "none" /\ ~AtWork(u) /\ step[u] = 0 /\ answer[u] = "none"
    BY <1>1 DEF UnitsInit, AtWork
  <2>3. UnitsInv
    BY <2>1, <2>2 DEF UnitsInv, Creating
  <2> QED BY <1>1, <2>3 DEF UnitsInit, Atomic!Init, Atomic!None, None
<1>2. ASSUME UnitsInv, [UnitsNext]_unitVars
      PROVE  UnitsInv' /\ [Atomic!Next]_<<op, rows, answer>>
  <2>1. CASE UNCHANGED unitVars
    BY <1>2, <2>1 DEF unitVars, UnitsInv, UnitsTypeOK, AtWork, Creating, Exists
  <2>2. ASSUME NEW u \in Unit, NEW o \in Op, Begin(u, o)
        PROVE  UnitsInv' /\ Atomic!Begin(u, o)
    BY <1>2, <2>2, BeginKeeps
  <2>3. ASSUME NEW u \in Unit, Execute(u)
        PROVE  UnitsInv' /\ (Atomic!Apply(u) \/ UNCHANGED <<op, rows, answer>>)
    BY <1>2, <2>3, ExecuteKeeps
  <2>4. ASSUME NEW u \in Unit, BeRefused(u)
        PROVE  UnitsInv' /\ Atomic!Fail(u)
    BY <1>2, <2>4, Fails DEF BeRefused, MayExecute, UnitsInv, UnitsTypeOK
  <2>5. ASSUME NEW u \in Unit, Commit(u)
        PROVE  UnitsInv' /\ Atomic!Apply(u)
    BY <1>2, <2>5, CommitKeeps
  <2>6. ASSUME NEW u \in Unit, Rollback(u)
        PROVE  UnitsInv' /\ Atomic!Fail(u)
    BY <1>2, <2>6, Fails, MishapTyped DEF Rollback, UnitsInv
  <2> QED
    BY <1>2, <2>1, <2>2, <2>3, <2>4, <2>5, <2>6 DEF UnitsNext, Atomic!Next
<1> QED BY <1>1, <1>2

\* Every behaviour of the transactions and statements is one in which units of
\* work take effect in one step or not at all, and the account is created once
\* (prisma-unit-of-work.ts:48-71).
THEOREM UnitsAreWhole == Spec => WritesAreWhole
<1>1. Init => UnitsInv /\ Atomic!Init
  BY UnitsInductive DEF Init
<1>2. UnitsInv /\ [Next]_vars => UnitsInv' /\ [Atomic!Next]_<<op, rows, answer>>
  BY UnitsInductive, UnitsStep
<1> QED BY <1>1, <1>2, PTL DEF Spec, WritesAreWhole, Atomic!Spec
-----------------------------------------------------------------------------
(* The calls of LinnworksClient.  One that backs off has an attempt left.  *)

CallsInv ==
  /\ session \in 0 .. Ttl
  /\ stamps \in Seq(0 .. Window + 1)
  /\ call \in [Call -> Client!CallState]
  /\ \A c \in Call : call[c].pc = "backoff" => call[c].attempt < Retries

LEMMA CallsInit == Init => CallsInv
BY DEF Init, Client!Init, Client!Idle, Client!CallState, Client!ClientConstants, CallsInv

\* One call moves on.
LEMMA CallMoves ==
  ASSUME CallsInv, NEW c \in Call, NEW next \in Client!CallState,
         next.pc = "backoff" => next.attempt < Retries, call' = [call EXCEPT ![c] = next],
         session' \in 0 .. Ttl, stamps' \in Seq(0 .. Window + 1)
  PROVE  CallsInv'
<1>1. \A d \in Call : call'[d] = IF d = c THEN next ELSE call[d]
  BY DEF CallsInv
<1>2. call' \in [Call -> Client!CallState]
  BY DEF CallsInv
<1> QED BY <1>1, <1>2 DEF CallsInv

LEMMA RestTyped ==
  ASSUME NEW S, NEW s \in Seq(S), NEW n \in 0 .. Len(s)
  PROVE  SubSeq(s, n + 1, Len(s)) \in Seq(S)
<1>1. Len(s) \in Nat /\ \A i \in 1 .. Len(s) : s[i] \in S
  OBVIOUS
<1>2. \A i \in n + 1 .. Len(s) : s[i] \in S
  BY <1>1
<1> QED BY <1>1, <1>2

LEMMA RememberedTyped ==
  ASSUME RateInv, CallsInv
  PROVE  /\ Client!Remembered \in Seq(0 .. Window + 1)
         /\ Client!Remembered # <<>> => Head(Client!Remembered) \in 0 .. Window
<1>1. Window \in Nat /\ stamps \in Seq(Nat) /\ Len(stamps) \in Nat
  BY DEF Client!ClientConstants, RateInv
<1>2. Client!Remembered = Client!Shift(stamps, Window)
  BY DEF Client!Remembered, Client!WindowStart
<1>3. PICK n \in 0 .. Len(stamps) :
        /\ Client!Remembered = SubSeq(stamps, n + 1, Len(stamps))
        /\ n < Len(stamps) => stamps[n + 1] <= Window
  <2>1. Window \in Int
    BY <1>1
  <2> QED BY <1>1, <1>2, <2>1, ShiftDrops
<1>4. stamps \in Seq(0 .. Window + 1)
  BY DEF CallsInv
<1>5. Client!Remembered \in Seq(0 .. Window + 1)
  BY <1>3, <1>4, RestTyped
<1>6. ASSUME Client!Remembered # <<>>
      PROVE  Head(Client!Remembered) \in 0 .. Window
  <2>1. n < Len(stamps)
    BY <1>1, <1>3, <1>6
  <2>2. Client!Remembered[1] = stamps[n + 1] /\ Head(Client!Remembered) = Client!Remembered[1]
    BY <1>1, <1>3, <2>1
  <2>3. stamps[n + 1] \in Nat
    BY <1>1, <2>1
  <2> QED BY <1>1, <1>3, <2>1, <2>2, <2>3
<1> QED BY <1>5, <1>6

LEMMA SlotTyped ==
  ASSUME RateInv, CallsInv, NEW c \in Call, UNCHANGED session,
         NEW next \in {"authFetch", "fetch"}, NEW nap \in {"authNap", "nap"},
         Client!TakeSlot(c, next, nap)
  PROVE  CallsInv'
<1> DEFINE kept == Client!Remembered
<1>1. /\ kept \in Seq(0 .. Window + 1) /\ (kept # <<>> => Head(kept) \in 0 .. Window)
      /\ call[c] \in Client!CallState /\ session' \in 0 .. Ttl
      /\ Limit \in Nat \ {0} /\ Window \in Nat \ {0}
  BY RememberedTyped DEF CallsInv, Client!ClientConstants
<1>2. CASE Len(kept) < Limit
  <2> DEFINE to == [call[c] EXCEPT !.pc = next]
  <2>1. stamps' = Append(kept, 0) /\ call' = [call EXCEPT ![c] = to]
    BY <1>2 DEF Client!TakeSlot, Client!Proceed
  <2>2. to \in Client!CallState /\ to.pc # "backoff"
    BY <1>1 DEF Client!CallState, Client!Steps, Client!Waiting
  <2>3. stamps' \in Seq(0 .. Window + 1)
    BY <1>1, <2>1
  <2> HIDE DEF to
  <2> QED BY <1>1, <2>1, <2>2, <2>3, CallMoves
<1>3. CASE ~ (Len(kept) < Limit)
  <2> DEFINE long == Client!Max({Window - Head(kept), 1})
             to == [call[c] EXCEPT !.pc = nap, !.wait = long]
  <2>1. stamps' = kept /\ call' = [call EXCEPT ![c] = to]
    BY <1>3 DEF Client!TakeSlot
  <2>2. kept # <<>>
    BY <1>1, <1>3
  <2>3. long \in 0 .. Window
    <3>1. Window - Head(kept) \in Int /\ Window - Head(kept) <= Window
      BY <1>1, <2>2
    <3>2. long = IF Window - Head(kept) >= 1 THEN Window - Head(kept) ELSE 1
      BY <3>1, MaxOfPair
    <3> HIDE DEF long
    <3> QED BY <1>1, <3>1, <3>2
  <2> HIDE DEF long
  <2>4. to \in Client!CallState /\ to.pc # "backoff"
    BY <1>1, <2>3 DEF Client!CallState, Client!Steps, Client!Waiting
  <2> HIDE DEF to
  <2> QED BY <1>1, <2>1, <2>4, CallMoves
<1> QED BY <1>2, <1>3

LEMMA TickTyped ==
  ASSUME CallsInv, Client!Tick
  PROVE  CallsInv'
<1>1. Window \in Nat \ {0} /\ Ttl \in Nat /\ session \in 0 .. Ttl
  BY DEF Client!ClientConstants, CallsInv
<1>2. session' \in 0 .. Ttl
  <2>1. session' = IF session - 1 >= 0 THEN session - 1 ELSE 0
    <3>1. session - 1 \in Int /\ 0 \in Int
      BY <1>1
    <3>2. session' = Client!Max({session - 1, 0})
      BY DEF Client!Tick
    <3> QED BY <3>1, <3>2, MaxOfPair
  <2> QED BY <1>1, <2>1
<1>3. stamps' \in Seq(0 .. Window + 1)
  <2> DEFINE older == [i \in DOMAIN stamps |-> Client!Min({stamps[i] + 1, Window + 1})]
  <2>1. /\ Len(stamps) \in Nat /\ DOMAIN stamps = 1 .. Len(stamps)
        /\ \A i \in 1 .. Len(stamps) : stamps[i] \in 0 .. Window + 1
    <3>1. stamps \in Seq(0 .. Window + 1)
      BY DEF CallsInv
    <3>2. \A S : \A s \in Seq(S) : /\ Len(s) \in Nat /\ DOMAIN s = 1 .. Len(s)
                                   /\ \A i \in 1 .. Len(s) : s[i] \in S
      OBVIOUS
    <3> QED BY <3>1, <3>2, Zenon
  <2>2. ASSUME NEW i \in 1 .. Len(stamps)
        PROVE  Client!Min({stamps[i] + 1, Window + 1}) \in 0 .. Window + 1
    <3>1. stamps[i] \in 0 .. Window + 1
      BY <2>1
    <3>2. Client!Min({stamps[i] + 1, Window + 1})
            = IF stamps[i] + 1 <= Window + 1 THEN stamps[i] + 1 ELSE Window + 1
      <4>1. stamps[i] + 1 \in Int /\ Window + 1 \in Int
        BY <1>1, <3>1
      <4> QED BY <4>1, MinOfPair
    <3> QED BY <1>1, <3>1, <3>2
  <2>3. older \in [1 .. Len(stamps) -> 0 .. Window + 1]
    BY <2>1, <2>2
  <2>4. stamps' = older
    BY DEF Client!Tick
  <2> HIDE DEF older
  <2>5. \A S : \A n \in Nat : [1 .. n -> S] \subseteq Seq(S)
    OBVIOUS
  <2> QED BY <2>1, <2>3, <2>4, <2>5
<1>4. ASSUME NEW c \in Call
      PROVE  /\ call'[c] \in Client!CallState /\ call'[c].pc = call[c].pc
             /\ call'[c].attempt = call[c].attempt
  <2> DEFINE wait == Client!Max({call[c].wait - 1, 0})
             since == IF call[c].pc \in {"authNap", "authFetch"}
                      THEN Client!Min({call[c].since + 1, Ttl}) ELSE call[c].since
  <2>1. /\ call[c] \in Client!CallState
        /\ call'[c] = [call[c] EXCEPT !.wait = wait, !.since = since]
    BY DEF Client!Tick, CallsInv
  <2>2. call[c].wait \in 0 .. Window /\ call[c].since \in 0 .. Ttl
    BY <2>1 DEF Client!CallState
  <2>3. wait \in 0 .. Window
    <3>1. wait = IF call[c].wait - 1 >= 0 THEN call[c].wait - 1 ELSE 0
      BY <2>2, MaxOfPair
    <3> HIDE DEF wait
    <3> QED BY <1>1, <2>2, <3>1
  <2>4. since \in 0 .. Ttl
    <3>1. Client!Min({call[c].since + 1, Ttl})
            = IF call[c].since + 1 <= Ttl THEN call[c].since + 1 ELSE Ttl
      <4>1. call[c].since + 1 \in Int /\ Ttl \in Int
        BY <1>1, <2>2
      <4> QED BY <4>1, MinOfPair
    <3> QED BY <1>1, <2>2, <3>1
  <2> HIDE DEF wait, since
  <2> QED BY <2>1, <2>3, <2>4 DEF Client!CallState
<1>5. call' = [c \in Call |-> call'[c]]
  BY DEF Client!Tick
<1>6. call' \in [Call -> Client!CallState]
  BY <1>4, <1>5
<1> QED BY <1>2, <1>3, <1>4, <1>6 DEF CallsInv

\* The other steps of a call move it on, and none takes a slot.
LEMMA OthersTyped ==
  ASSUME CallsInv, NEW c \in Call,
         \/ Client!Start(c) \/ Client!AuthAnswered(c) \/ Client!AuthFailed(c)
         \/ Client!Answered(c) \/ Client!Unauthorized(c) \/ Client!RequestFailed(c)
         \/ Client!Retry(c) \/ (Client!Authorized(c) /\ UNCHANGED <<session, stamps>>)
  PROVE  CallsInv'
<1> DEFINE p == call[c]
<1>1. /\ p \in Client!CallState /\ session \in 0 .. Ttl /\ stamps \in Seq(0 .. Window + 1)
      /\ Ttl \in Nat /\ Retries \in Nat /\ 0 \in 0 .. Ttl
      /\ p.attempt \in 0 .. Retries /\ p.since \in 0 .. Ttl
      /\ p.pc = "backoff" => p.attempt < Retries
  BY DEF CallsInv, Client!ClientConstants, Client!CallState
<1>2. ASSUME NEW pc \in {"authorize", "ok", "failed"}, call' = [call EXCEPT ![c].pc = pc],
             UNCHANGED <<session, stamps>>
      PROVE  CallsInv'
  <2> DEFINE to == [p EXCEPT !.pc = pc]
  <2>1. to \in Client!CallState /\ to.pc # "backoff" /\ call' = [call EXCEPT ![c] = to]
    BY <1>1, <1>2 DEF Client!CallState, Client!Steps
  <2> HIDE DEF to
  <2> QED BY <1>1, <1>2, <2>1, CallMoves
<1>3. ASSUME Client!Authorized(c), session' \in 0 .. Ttl, UNCHANGED stamps
      PROVE  CallsInv'
  <2> DEFINE to == [p EXCEPT !.pc = "slot", !.since = 0, !.again = FALSE,
                             !.refreshed = @ \/ p.again]
  <2>1. to \in Client!CallState /\ to.pc # "backoff"
    BY <1>1 DEF Client!CallState, Client!Steps
  <2>2. call' = [call EXCEPT ![c] = to]
    BY <1>3 DEF Client!Authorized
  <2> HIDE DEF to
  <2> QED BY <1>1, <1>3, <2>1, <2>2, CallMoves
<1>4. ASSUME Client!FailAttempt(c), UNCHANGED <<session, stamps>>
      PROVE  CallsInv'
  <2> DEFINE to == [p EXCEPT !.pc = IF p.attempt = Retries THEN "failed" ELSE "backoff",
                             !.since = 0, !.again = FALSE]
  <2>1. to \in Client!CallState /\ to.attempt = p.attempt
    BY <1>1 DEF Client!CallState, Client!Steps
  <2>2. to.pc = "backoff" => p.attempt < Retries
    BY <1>1
  <2>3. call' = [call EXCEPT ![c] = to]
    BY <1>4 DEF Client!FailAttempt
  <2> HIDE DEF to
  <2> QED BY <1>1, <1>4, <2>1, <2>2, <2>3, CallMoves
<1>5. CASE Client!AuthAnswered(c)
  <2>1. session' = IF Ttl - p.since >= 0 THEN Ttl - p.since ELSE 0
    BY <1>1, <1>5, MaxOfPair DEF Client!AuthAnswered
  <2>2. session' \in 0 .. Ttl
    BY <1>1, <2>1
  <2> QED BY <1>3, <1>5, <2>2 DEF Client!AuthAnswered
<1>6. CASE Client!Unauthorized(c)
  <2> DEFINE to == [p EXCEPT !.pc = "authorize", !.again = TRUE]
  <2>1. to \in Client!CallState /\ to.pc # "backoff"
    BY <1>1 DEF Client!CallState, Client!Steps
  <2>2. call' = [call EXCEPT ![c] = to] /\ session' = 0 /\ stamps' = stamps
    BY <1>6 DEF Client!Unauthorized
  <2> HIDE DEF to
  <2> QED BY <1>1, <2>1, <2>2, CallMoves
<1>7. CASE Client!Retry(c)
  <2> DEFINE to == [p EXCEPT !.pc = "slot", !.attempt = @ + 1]
  <2>1. p.attempt < Retries
    BY <1>1, <1>7 DEF Client!Retry, Client!At
  <2>2. p.attempt + 1 \in 0 .. Retries
    BY <1>1, <2>1
  <2>3. to \in Client!CallState /\ to.pc # "backoff"
    BY <1>1, <2>2 DEF Client!CallState, Client!Steps
  <2>4. call' = [call EXCEPT ![c] = to] /\ UNCHANGED <<session, stamps>>
    BY <1>7 DEF Client!Retry
  <2> HIDE DEF to
  <2> QED BY <1>1, <2>3, <2>4, CallMoves
<1>8. CASE Client!Authorized(c) /\ UNCHANGED <<session, stamps>>
  BY <1>1, <1>3, <1>8
<1>9. CASE Client!Start(c) \/ Client!Answered(c)
  BY <1>2, <1>9 DEF Client!Start, Client!Answered, Client!Proceed
<1>10. CASE Client!AuthFailed(c) \/ Client!RequestFailed(c)
  BY <1>2, <1>4, <1>10 DEF Client!AuthFailed, Client!RequestFailed, Client!Proceed
<1> QED BY <1>5, <1>6, <1>7, <1>8, <1>9, <1>10

LEMMA CallsKept == RateInv /\ CallsInv /\ [Next]_vars => CallsInv'
<1> SUFFICES ASSUME RateInv, CallsInv, [Next]_vars PROVE CallsInv'
  OBVIOUS
<1>1. CASE UNCHANGED clientVars
  BY <1>1 DEF clientVars, CallsInv
<1>2. ASSUME NEW c \in Call,
             Client!Authorize(c) \/ Client!WaitForSlot(c) \/ Client!WakeUp(c)
      PROVE  CallsInv'
  BY <1>2, SlotTyped, OthersTyped
     DEF Client!Authorize, Client!WaitForSlot, Client!WakeUp
<1>3. ASSUME NEW c \in Call, Client!Start(c) \/ Client!Step(c)
      PROVE  CallsInv'
  BY <1>2, <1>3, OthersTyped DEF Client!Step
<1> QED BY ClientsStep, <1>1, <1>3, TickTyped DEF Client!Next

-----------------------------------------------------------------------------
(* That calls end needs fairness; that they do not go round in circles     *)
(* does not.  How far a call is from its end: an attempt is refreshed once *)
(* at most, and only the attempts that are left are made.                  *)

Authorizing == {"authorize", "authNap", "authFetch"}

WithinAttempt(p) ==
  CASE p.pc = "backoff" -> 0
    [] p.pc = "fetch" -> IF p.refreshed THEN 1 ELSE 7
    [] p.pc = "nap" -> IF p.refreshed THEN 2 ELSE 8
    [] p.pc = "slot" -> IF p.refreshed THEN 3 ELSE 9
    [] p.pc = "authFetch" -> IF p.again THEN 4 ELSE 10
    [] p.pc = "authNap" -> IF p.again THEN 5 ELSE 11
    [] OTHER -> IF p.again THEN 6 ELSE 12

FromEnd(p) ==
  IF p.pc \in {"ok", "failed"} THEN -1 ELSE 13 * (Retries - p.attempt) + WithinAttempt(p)

RefreshInv == \A c \in Call : call[c].pc \in Authorizing \cup {"idle"} => ~call[c].refreshed

\* It wakes up, and has no slot, because the limit is reached.
SleepsOn(c) ==
  /\ call[c].pc \in Client!Waiting /\ call'[c].wait > 0
  /\ Len(Client!Remembered) = Limit

LEMMA RankTyped ==
  ASSUME NEW p \in Client!CallState
  PROVE  WithinAttempt(p) \in 0 .. 12 /\ FromEnd(p) \in -1 .. 13 * Retries + 12
<1>1. WithinAttempt(p) \in 0 .. 12
  BY DEF WithinAttempt
<1>2. p.attempt \in 0 .. Retries /\ Retries \in Nat
  BY DEF Client!CallState, Client!ClientConstants
<1>3. 13 * (Retries - p.attempt) \in 0 .. 13 * Retries
  BY <1>2
<1> QED BY <1>1, <1>2, <1>3 DEF FromEnd

\* What a step of a call makes of it.
Nearer(p, to) ==
  /\ to \in Client!CallState
  /\ to.pc \in Authorizing \cup {"idle"} => ~to.refreshed
  /\ FromEnd(to) < FromEnd(p)

\* It ends, or stays with its attempt and is further in it.
LEMMA FurtherIsNearer ==
  ASSUME NEW p \in Client!CallState, p.pc \notin {"ok", "failed"},
         NEW to \in Client!CallState, to.pc \in Authorizing \cup {"idle"} => ~to.refreshed,
         \/ to.pc \in {"ok", "failed"}
         \/ to.attempt = p.attempt /\ WithinAttempt(to) < WithinAttempt(p)
  PROVE  Nearer(p, to)
<1>1. /\ WithinAttempt(p) \in 0 .. 12 /\ WithinAttempt(to) \in 0 .. 12
      /\ FromEnd(to) \in Int /\ FromEnd(p) \in Int
  BY RankTyped
<1>2. p.attempt \in 0 .. Retries /\ Retries \in Nat /\ to.attempt \in 0 .. Retries
  BY DEF Client!CallState, Client!ClientConstants
<1>3. 13 * (Retries - p.attempt) \in Nat
  BY <1>2
<1> DEFINE left == 13 * (Retries - p.attempt)
<1>4. FromEnd(p) = left + WithinAttempt(p)
  BY DEF FromEnd
<1>5. left \in Nat
  BY <1>3
<1>6. to.pc \notin {"ok", "failed"} => FromEnd(to) = 13 * (Retries - to.attempt) + WithinAttempt(to)
  BY DEF FromEnd
<1>7. to.pc \in {"ok", "failed"} => FromEnd(to) = -1
  BY DEF FromEnd
<1> HIDE DEF left
<1>8. CASE to.pc \in {"ok", "failed"}
  BY <1>1, <1>4, <1>5, <1>7, <1>8 DEF Nearer
<1>9. CASE to.pc \notin {"ok", "failed"}
  <2>1. FromEnd(to) = left + WithinAttempt(to)
    BY <1>6, <1>9 DEF left
  <2> QED BY <1>1, <1>4, <1>5, <1>9, <2>1 DEF Nearer
<1> QED BY <1>8, <1>9

LEMMA SlotNearer ==
  ASSUME RateInv, CallsInv, RefreshInv, NEW c \in Call,
         \/ /\ call[c].pc \in {"authorize", "authNap"}
            /\ Client!TakeSlot(c, "authFetch", "authNap")
         \/ call[c].pc \in {"slot", "nap"} /\ Client!TakeSlot(c, "fetch", "nap")
  PROVE  \E to \in Client!CallState :
           /\ call' = [call EXCEPT ![c] = to]
           /\ Nearer(call[c], to) \/ (/\ SleepsOn(c) /\ FromEnd(to) = FromEnd(call[c])
                                      /\ to.pc = call[c].pc /\ to.refreshed = call[c].refreshed)
<1> DEFINE p == call[c]
           kept == Client!Remembered
<1>1. /\ p \in Client!CallState /\ (p.pc \in Authorizing => ~p.refreshed)
      /\ kept \in Seq(0 .. Window + 1) /\ (kept # <<>> => Head(kept) \in 0 .. Window)
      /\ Len(kept) \in Nat /\ Len(kept) <= Limit
      /\ Limit \in Nat \ {0} /\ Window \in Nat \ {0}
  BY RememberedTyped, RememberedKeeps DEF CallsInv, RefreshInv, Client!ClientConstants
<1>2. CASE Len(kept) < Limit
  <2>1. PICK next \in {"authFetch", "fetch"} :
          /\ call' = [call EXCEPT ![c].pc = next]
          /\ \/ p.pc \in {"authorize", "authNap"} /\ next = "authFetch"
             \/ p.pc \in {"slot", "nap"} /\ next = "fetch"
    BY <1>2 DEF Client!TakeSlot, Client!Proceed
  <2> DEFINE to == [p EXCEPT !.pc = next]
  <2>2. /\ to \in Client!CallState /\ to.pc = next /\ to.refreshed = p.refreshed
        /\ to.again = p.again /\ to.attempt = p.attempt /\ call' = [call EXCEPT ![c] = to]
    BY <1>1, <2>1 DEF Client!CallState, Client!Steps
  <2> HIDE DEF to
  <2>3. WithinAttempt(to) < WithinAttempt(p)
    BY <2>1, <2>2 DEF WithinAttempt
  <2>4. Nearer(p, to)
    BY <1>1, <2>1, <2>2, <2>3, FurtherIsNearer DEF Authorizing
  <2> QED BY <2>2, <2>4
<1>3. CASE ~ (Len(kept) < Limit)
  <2> DEFINE long == Client!Max({Window - Head(kept), 1})
  <2>1. PICK nap \in {"authNap", "nap"} :
          /\ call' = [call EXCEPT ![c].pc = nap, ![c].wait = long]
          /\ \/ p.pc \in {"authorize", "authNap"} /\ nap = "authNap"
             \/ p.pc \in {"slot", "nap"} /\ nap = "nap"
    BY <1>3 DEF Client!TakeSlot
  <2>2. long \in 1 .. Window
    <3>1. kept # <<>>
      BY <1>1, <1>3
    <3>2. Window - Head(kept) \in Int /\ Window - Head(kept) <= Window
      BY <1>1, <3>1
    <3>3. long = IF Window - Head(kept) >= 1 THEN Window - Head(kept) ELSE 1
      BY <3>2, MaxOfPair
    <3> HIDE DEF long
    <3> QED BY <1>1, <3>2, <3>3
  <2> HIDE DEF long
  <2> DEFINE to == [p EXCEPT !.pc = nap, !.wait = long]
  <2>3. /\ to \in Client!CallState /\ to.pc = nap /\ to.refreshed = p.refreshed
        /\ to.again = p.again /\ to.attempt = p.attempt /\ to.wait = long
        /\ call' = [call EXCEPT ![c] = to]
    <3>1. call' = [call EXCEPT ![c] = to]
      BY <2>1
    <3>2. nap \in Client!Steps /\ long \in 0 .. Window
      BY <1>1, <2>2 DEF Client!Waiting, Client!Steps
    <3>3. /\ to \in Client!CallState /\ to.pc = nap /\ to.refreshed = p.refreshed
          /\ to.again = p.again /\ to.attempt = p.attempt /\ to.wait = long
      BY <1>1, <3>2 DEF Client!CallState
    <3> QED BY <3>1, <3>3
  <2> HIDE DEF to
  <2>4. CASE p.pc # nap
    <3>1. WithinAttempt(to) < WithinAttempt(p)
      BY <2>1, <2>3, <2>4 DEF WithinAttempt
    <3>2. Nearer(p, to)
      BY <1>1, <2>1, <2>3, <3>1, FurtherIsNearer DEF Authorizing
    <3> QED BY <2>3, <3>2
  <2>5. CASE p.pc = nap
    <3>1. FromEnd(to) = FromEnd(p)
      BY <2>1, <2>3, <2>5 DEF FromEnd, WithinAttempt
    <3>2. call'[c].wait > 0
      BY <2>2, <2>3 DEF CallsInv
    <3>3. SleepsOn(c)
      BY <1>1, <1>3, <2>1, <2>5, <3>2 DEF SleepsOn, Client!Waiting
    <3> QED BY <2>3, <2>5, <3>1, <3>3
  <2> QED BY <2>4, <2>5
<1> QED BY <1>2, <1>3

LEMMA StepNearer ==
  ASSUME RateInv, CallsInv, RefreshInv, NEW c \in Call, Client!Step(c)
  PROVE  \E to \in Client!CallState :
           /\ call' = [call EXCEPT ![c] = to]
           /\ Nearer(call[c], to) \/ (/\ SleepsOn(c) /\ FromEnd(to) = FromEnd(call[c])
                                      /\ to.pc = call[c].pc /\ to.refreshed = call[c].refreshed)
<1> DEFINE p == call[c]
<1>1. /\ p \in Client!CallState /\ (p.pc \in Authorizing => ~p.refreshed)
      /\ p.again \in BOOLEAN /\ p.refreshed \in BOOLEAN
      /\ Retries \in Nat /\ p.attempt \in 0 .. Retries /\ 0 \in 0 .. Ttl
      /\ p.pc = "backoff" => p.attempt < Retries
  BY DEF CallsInv, RefreshInv, Client!CallState, Client!ClientConstants
<1>2. ASSUME p.pc \in {"authorize", "authFetch"}, Client!Authorized(c)
      PROVE  \E to \in Client!CallState : call' = [call EXCEPT ![c] = to] /\ Nearer(p, to)
  <2> DEFINE to == [p EXCEPT !.pc = "slot", !.since = 0, !.again = FALSE, !.refreshed = p.again]
  <2>1. call' = [call EXCEPT ![c] = to]
    <3>1. (p.refreshed \/ p.again) = p.again
      BY <1>1, <1>2 DEF Authorizing
    <3> QED BY <1>2, <3>1 DEF Client!Authorized
  <2>2. /\ to \in Client!CallState /\ to.pc = "slot" /\ to.refreshed = p.again
        /\ to.attempt = p.attempt
    BY <1>1 DEF Client!CallState, Client!Steps
  <2> HIDE DEF to
  <2>3. WithinAttempt(to) < WithinAttempt(p)
    BY <1>2, <2>2 DEF WithinAttempt
  <2>4. Nearer(p, to)
    BY <1>1, <1>2, <2>2, <2>3, FurtherIsNearer DEF Authorizing
  <2> QED BY <2>1, <2>2, <2>4
<1>3. ASSUME p.pc = "fetch" \/ (p.pc = "authFetch" /\ p.again), Client!FailAttempt(c)
      PROVE  \E to \in Client!CallState : call' = [call EXCEPT ![c] = to] /\ Nearer(p, to)
  <2> DEFINE to == [p EXCEPT !.pc = IF p.attempt = Retries THEN "failed" ELSE "backoff",
                             !.since = 0, !.again = FALSE]
  <2>1. call' = [call EXCEPT ![c] = to]
    BY <1>3 DEF Client!FailAttempt
  <2>2. to \in Client!CallState /\ to.pc \in {"failed", "backoff"} /\ to.attempt = p.attempt
    BY <1>1 DEF Client!CallState, Client!Steps
  <2> HIDE DEF to
  <2>3. to.pc = "backoff" => WithinAttempt(to) < WithinAttempt(p)
    BY <1>3 DEF WithinAttempt
  <2>4. Nearer(p, to)
    BY <1>1, <1>3, <2>2, <2>3, FurtherIsNearer DEF Authorizing
  <2> QED BY <2>1, <2>2, <2>4
<1>4. ASSUME NEW end \in {"ok", "failed"}, p.pc \in {"fetch", "authFetch"},
             call' = [call EXCEPT ![c].pc = end]
      PROVE  \E to \in Client!CallState : call' = [call EXCEPT ![c] = to] /\ Nearer(p, to)
  <2> DEFINE to == [p EXCEPT !.pc = end]
  <2>1. to \in Client!CallState /\ to.pc = end /\ call' = [call EXCEPT ![c] = to]
    BY <1>1, <1>4 DEF Client!CallState
  <2> HIDE DEF to
  <2>2. Nearer(p, to)
    BY <1>1, <1>4, <2>1, FurtherIsNearer DEF Authorizing
  <2> QED BY <2>1, <2>2
<1>5. CASE Client!Unauthorized(c)
  <2> DEFINE to == [p EXCEPT !.pc = "authorize", !.again = TRUE]
  <2>1. p.pc = "fetch" /\ ~p.refreshed /\ call' = [call EXCEPT ![c] = to]
    BY <1>5 DEF Client!Unauthorized, Client!MayRefresh, Client!At
  <2>2. /\ to \in Client!CallState /\ to.pc = "authorize" /\ to.again = TRUE
        /\ to.refreshed = p.refreshed /\ to.attempt = p.attempt
    BY <1>1 DEF Client!CallState, Client!Steps
  <2> HIDE DEF to
  <2>3. WithinAttempt(to) < WithinAttempt(p)
    BY <2>1, <2>2 DEF WithinAttempt
  <2>4. Nearer(p, to)
    BY <1>1, <2>1, <2>2, <2>3, FurtherIsNearer
  <2> QED BY <2>1, <2>2, <2>4
<1>6. CASE Client!Retry(c)
  <2> DEFINE to == [p EXCEPT !.pc = "slot", !.attempt = p.attempt + 1]
  <2>1. p.pc = "backoff" /\ p.attempt < Retries /\ call' = [call EXCEPT ![c] = to]
    BY <1>1, <1>6 DEF Client!Retry, Client!At
  <2>2. p.attempt + 1 \in 0 .. Retries
    BY <1>1, <2>1
  <2>3. to \in Client!CallState /\ to.pc = "slot" /\ to.attempt = p.attempt + 1
    BY <1>1, <2>2 DEF Client!CallState, Client!Steps
  <2> HIDE DEF to
  <2>4. WithinAttempt(to) \in 0 .. 9 /\ WithinAttempt(p) = 0
    BY <2>1, <2>3 DEF WithinAttempt
  <2>5. /\ FromEnd(to) = 13 * (Retries - (p.attempt + 1)) + WithinAttempt(to)
        /\ FromEnd(p) = 13 * (Retries - p.attempt) + WithinAttempt(p)
    BY <2>1, <2>3 DEF FromEnd
  <2>6. FromEnd(to) < FromEnd(p)
    BY <1>1, <2>4, <2>5
  <2> QED BY <2>1, <2>3, <2>6 DEF Nearer, Authorizing
<1>7. CASE Client!Authorize(c) \/ Client!WaitForSlot(c) \/ Client!WakeUp(c)
  BY <1>2, <1>7, SlotNearer
     DEF Client!Authorize, Client!WaitForSlot, Client!WakeUp, Client!At
<1>8. CASE Client!AuthAnswered(c) \/ Client!AuthFailed(c)
  BY <1>2, <1>3, <1>4, <1>8
     DEF Client!AuthAnswered, Client!AuthFailed, Client!At, Client!Proceed
<1>9. CASE Client!Answered(c) \/ Client!RequestFailed(c)
  BY <1>3, <1>4, <1>9 DEF Client!Answered, Client!RequestFailed, Client!At, Client!Proceed
<1> QED BY <1>5, <1>6, <1>7, <1>8, <1>9 DEF Client!Step

LEMMA RefreshInit == Init => RefreshInv
BY DEF Init, Client!Init, Client!Idle, RefreshInv

\* What a step does to every call.
LEMMA CallsNearer ==
  ASSUME RateInv, CallsInv, RefreshInv, [Next]_vars
  PROVE  /\ RefreshInv'
         /\ \A c \in Call : /\ FromEnd(call'[c]) <= FromEnd(call[c])
                            /\ Client!Step(c) => \/ FromEnd(call'[c]) < FromEnd(call[c])
                                                 \/ SleepsOn(c)
<1>1. /\ call \in [Call -> Client!CallState]
      /\ \A d \in Call : FromEnd(call[d]) \in Int
  BY RankTyped DEF CallsInv
<1>2. ASSUME NEW c \in Call, Client!Step(c)
      PROVE  /\ RefreshInv'
             /\ \A d \in Call : FromEnd(call'[d]) <= FromEnd(call[d])
             /\ FromEnd(call'[c]) < FromEnd(call[c]) \/ SleepsOn(c)
  <2>1. PICK to \in Client!CallState :
          /\ call' = [call EXCEPT ![c] = to]
          /\ Nearer(call[c], to) \/ (/\ SleepsOn(c) /\ FromEnd(to) = FromEnd(call[c])
                                     /\ to.pc = call[c].pc /\ to.refreshed = call[c].refreshed)
    BY <1>2, StepNearer
  <2>2. \A d \in Call : call'[d] = IF d = c THEN to ELSE call[d]
    BY <1>1, <2>1
  <2>3. RefreshInv'
    BY <2>1, <2>2 DEF RefreshInv, Nearer
  <2>4. FromEnd(to) <= FromEnd(call[c]) /\ (FromEnd(to) < FromEnd(call[c]) \/ SleepsOn(c))
    BY <1>1, <2>1, RankTyped DEF Nearer
  <2> QED BY <1>1, <2>2, <2>3, <2>4
<1>3. ASSUME \A d \in Call : /\ call'[d].pc = call[d].pc /\ call'[d].again = call[d].again
                             /\ call'[d].refreshed = call[d].refreshed
                             /\ call'[d].attempt = call[d].attempt
      PROVE  /\ RefreshInv' /\ \A d \in Call : FromEnd(call'[d]) <= FromEnd(call[d])
  <2>1. \A d \in Call : FromEnd(call'[d]) = FromEnd(call[d])
    BY <1>3 DEF FromEnd, WithinAttempt
  <2> QED BY <1>1, <1>3, <2>1 DEF RefreshInv
<1>4. ASSUME NEW c \in Call, Client!Start(c)
      PROVE  RefreshInv' /\ \A d \in Call : FromEnd(call'[d]) <= FromEnd(call[d])
  <2> DEFINE to == [call[c] EXCEPT !.pc = "authorize"]
  <2>1. call' = [call EXCEPT ![c] = to] /\ call[c].pc = "idle"
    BY <1>4 DEF Client!Start, Client!Proceed, Client!At
  <2>2. /\ to.pc = "authorize" /\ to.refreshed = call[c].refreshed
        /\ to.again = call[c].again /\ to.attempt = call[c].attempt
    BY <1>1 DEF Client!CallState
  <2> HIDE DEF to
  <2>3. \A d \in Call : call'[d] = IF d = c THEN to ELSE call[d]
    BY <1>1, <2>1
  <2>4. FromEnd(to) = FromEnd(call[c])
    BY <2>1, <2>2 DEF FromEnd, WithinAttempt
  <2> QED BY <1>1, <2>1, <2>2, <2>3, <2>4 DEF RefreshInv
<1>5. CASE UNCHANGED clientVars
  <2>1. UNCHANGED <<session, stamps, call, sent>>
    BY <1>5 DEF clientVars
  <2> QED BY <1>2, <1>3, <2>1
<1>6. CASE Client!Tick
  <2>1. \A d \in Call : /\ call'[d].pc = call[d].pc /\ call'[d].again = call[d].again
                        /\ call'[d].refreshed = call[d].refreshed
                        /\ call'[d].attempt = call[d].attempt
    BY <1>1, <1>6 DEF Client!Tick, Client!CallState
  <2> QED BY <1>2, <1>3, <2>1
<1>7. ASSUME NEW c \in Call, Client!Start(c) \/ Client!Step(c)
      PROVE  RefreshInv' /\ \A d \in Call : FromEnd(call'[d]) <= FromEnd(call[d])
  BY <1>2, <1>4, <1>7
<1>8. \A c \in Call : Client!Step(c) => FromEnd(call'[c]) < FromEnd(call[c]) \/ SleepsOn(c)
  BY <1>2
<1> QED BY ClientsStep, <1>3, <1>5, <1>6, <1>7, <1>8 DEF Client!Next

\* No call goes round in circles, for any number of retries and of calls: it has
\* a bounded way to its end, which nothing makes longer, and each step of its
\* own makes shorter, unless it wakes up and all slots of the minute are taken.
\* So rejected sessions, retries and other calls keep it only as long as they
\* take the slots (linnworks-client.ts:121-180, 283-304).
THEOREM CallsDoNotCircle ==
  Spec => /\ [](\A c \in Call : FromEnd(call[c]) \in -1 .. 13 * Retries + 12)
          /\ [][\A c \in Call : /\ FromEnd(call'[c]) <= FromEnd(call[c])
                                /\ Client!Step(c) => \/ FromEnd(call'[c]) < FromEnd(call[c])
                                                     \/ SleepsOn(c)]_vars
<1> DEFINE Inv == RateInv /\ CallsInv /\ RefreshInv
           Bounded == \A c \in Call : FromEnd(call[c]) \in -1 .. 13 * Retries + 12
           Forward == \A c \in Call : /\ FromEnd(call'[c]) <= FromEnd(call[c])
                                      /\ Client!Step(c) => \/ FromEnd(call'[c]) < FromEnd(call[c])
                                                           \/ SleepsOn(c)
<1>1. Init => Inv
  BY RateInit, CallsInit, RefreshInit
<1>2. Inv /\ [Next]_vars => Inv' /\ Forward
  BY RateIsKept, CallsKept, CallsNearer
<1>3. Inv => Bounded
  BY RankTyped DEF CallsInv
<1> HIDE DEF Inv, Bounded, Forward
<1>4. Spec => []Bounded /\ [][Forward]_vars
  BY <1>1, <1>2, <1>3, PTL DEF Spec
<1> QED BY <1>4 DEF Bounded, Forward

-----------------------------------------------------------------------------
(* The rows of products have their types: an edit that is about to be      *)
(* written has found its product.                                          *)

RowsInv ==
  /\ Details!DetailTypeOK
  /\ \A e \in Details!Edit : edit[e].pc = "update" => product \in Details!Row

LEMMA RowsInit == Init => RowsInv
<1> SUFFICES ASSUME Init PROVE RowsInv
  OBVIOUS
<1>1. /\ edit \in [Details!Edit -> Details!EditState]
      /\ \A e \in Details!Edit : edit[e].pc = "idle"
  BY DEF Init, Details!DetailInit, Details!EditState
<1>2. [f \in Fields |-> Details!FromLinnworks] \in Details!Row
  BY DEF Details!Row, Details!FromLinnworks
<1>3. product \in Details!Row \cup {Details!NoProduct}
  BY <1>2 DEF Init, Details!DetailInit
<1>4. upsert \in [Details!SyncRun -> {"idle", "create", "update", "done", "failed"}]
  BY DEF Init, Details!DetailInit
<1> QED BY <1>1, <1>3, <1>4 DEF RowsInv, Details!DetailTypeOK

LEMMA RowsKept == RowsInv /\ [Next]_vars => RowsInv'
<1> SUFFICES ASSUME RowsInv, [Next]_vars PROVE RowsInv'
  OBVIOUS
<1> DEFINE E == Details!Edit
           St == Details!EditState
           Uploads == [Details!SyncRun -> {"idle", "create", "update", "done", "failed"}]
<1>1. edit \in [E -> St] /\ upsert \in Uploads /\ product \in Details!Row \cup {Details!NoProduct}
  BY DEF RowsInv, Details!DetailTypeOK
<1>2. ASSUME edit' \in [E -> St], upsert' \in Uploads,
             product' \in Details!Row \/ (product' = product /\
               \A e \in E : edit'[e].pc = "update" => edit[e].pc = "update")
      PROVE  RowsInv'
  BY <1>1, <1>2 DEF RowsInv, Details!DetailTypeOK
<1>3. CASE UNCHANGED detailVars
  BY <1>1, <1>2, <1>3 DEF detailVars
<1>4. ASSUME NEW e \in E, NEW given \in SUBSET Fields, Details!ArriveEdit(e, given)
      PROVE  RowsInv'
  <2> DEFINE to == [pc |-> "find", given |-> given, before |-> Details!Answered,
                    overrun |-> FALSE]
  <2>1. to \in St /\ to.pc # "update"
    BY DEF Details!EditState, Details!Answered
  <2>2. edit' = [edit EXCEPT ![e] = to] /\ UNCHANGED <<product, upsert>>
    BY <1>4 DEF Details!ArriveEdit
  <2> HIDE DEF to
  <2>3. \A d \in E : edit'[d] = IF d = e THEN to ELSE edit[d]
    BY <1>1, <2>2
  <2>4. edit' \in [E -> St]
    BY <1>1, <2>1, <2>2
  <2> QED BY <1>1, <1>2, <2>1, <2>2, <2>3, <2>4
<1>5. ASSUME NEW e \in E, Details!FindMetricsBySku(e)
      PROVE  RowsInv'
  <2> DEFINE to == [edit[e] EXCEPT !.pc = IF Details!Exists THEN "update" ELSE "NOT_FOUND"]
  <2>1. edit' = [edit EXCEPT ![e] = to] /\ UNCHANGED <<product, upsert>>
    BY <1>5 DEF Details!FindMetricsBySku
  <2>2. to \in St /\ to.pc = IF Details!Exists THEN "update" ELSE "NOT_FOUND"
    BY <1>1 DEF Details!EditState
  <2> HIDE DEF to
  <2>3. edit' \in [E -> St] /\ \A d \in E : edit'[d] = IF d = e THEN to ELSE edit[d]
    BY <1>1, <2>1, <2>2
  <2>4. CASE Details!Exists
    BY <1>1, <1>2, <2>1, <2>3, <2>4 DEF Details!Exists
  <2>5. CASE ~Details!Exists
    BY <1>1, <1>2, <2>1, <2>2, <2>3, <2>5
  <2> QED BY <2>4, <2>5
<1>6. ASSUME NEW e \in E, Details!UpdateProduct(e)
      PROVE  RowsInv'
  <2>1. product' = [f \in Fields |-> IF f \in edit[e].given THEN e ELSE product[f]]
        /\ edit' = [edit EXCEPT ![e].pc = "ok"] /\ UNCHANGED upsert
    BY <1>6 DEF Details!UpdateProduct, Details!UpdateData
  <2>2. product \in Details!Row
    BY <1>6 DEF Details!UpdateProduct, RowsInv
  <2>3. product' \in Details!Row
    BY <2>1, <2>2 DEF Details!Row
  <2>4. edit' \in [E -> St]
    <3>1. [edit[e] EXCEPT !.pc = "ok"] \in St
      BY <1>1 DEF Details!EditState
    <3> QED BY <1>1, <2>1, <3>1
  <2> QED BY <1>1, <1>2, <2>1, <2>3, <2>4
<1>7. ASSUME NEW s \in Details!SyncRun, Details!FindProduct(s) \/ Details!WriteProduct(s)
      PROVE  RowsInv'
  <2>1. upsert' \in Uploads
    BY <1>1, <1>7 DEF Details!FindProduct, Details!WriteProduct
  <2>2. CASE UNCHANGED <<product, edit>>
    BY <1>1, <1>2, <2>1, <2>2
  <2>3. CASE /\ product' = Details!ToProduct
             /\ edit' = [e \in E |-> [edit[e] EXCEPT !.overrun = @ \/ edit[e].pc = "ok"]]
    <3>1. product' \in Details!Row
      BY <2>3 DEF Details!ToProduct, Details!Row, Details!FromLinnworks
    <3>2. ASSUME NEW e \in E
          PROVE  [edit[e] EXCEPT !.overrun = @ \/ edit[e].pc = "ok"] \in St
      <4> DEFINE over == edit[e].overrun \/ edit[e].pc = "ok"
      <4>1. edit[e] \in St /\ over \in BOOLEAN
        BY <1>1
      <4> HIDE DEF over
      <4>2. [edit[e] EXCEPT !.overrun = over] \in St
        BY <4>1 DEF Details!EditState
      <4> QED BY <4>2 DEF over
    <3>3. edit' \in [E -> St]
      BY <2>3, <3>2
    <3> QED BY <1>2, <2>1, <3>1, <3>3
  <2> QED BY <1>7, <2>2, <2>3 DEF Details!FindProduct, Details!WriteProduct
<1> QED BY DetailsStep, <1>3, <1>4, <1>5, <1>6, <1>7 DEF Details!DetailNext

StockInv ==
  /\ available \in [Browse!Sku -> Levels \cup {0, Browse!NoProduct}]
  /\ listed \subseteq Browse!Sku
  /\ writes \in 0 .. MaxWrites

LEMMA StockInit == Init => StockInv
BY DEF Init, Browse!BrowseInit, Browse!BrowseConstants, StockInv

LEMMA StockKept == StockInv /\ [Next]_vars => StockInv'
<1> SUFFICES ASSUME StockInv, [Next]_vars PROVE StockInv'
  OBVIOUS
<1>1. CASE UNCHANGED <<available, listed, writes>>
  BY <1>1 DEF StockInv
<1>2. ASSUME Browse!Write
      PROVE  writes' \in 0 .. MaxWrites
  BY <1>2 DEF Browse!Write, StockInv, Browse!BrowseConstants
<1>3. ASSUME NEW s \in Browse!Sku,
             \/ Browse!UpsertProduct(s) \/ Browse!UpsertChannel(s)
             \/ \E n \in Levels : Browse!UpsertStock(s, n)
      PROVE  StockInv'
  BY <1>2, <1>3
     DEF StockInv, Browse!UpsertProduct, Browse!UpsertChannel, Browse!UpsertStock
<1>4. CASE Browse!FirstPage \/ Browse!NextPage
  BY <1>1, <1>4 DEF Browse!FirstPage, Browse!NextPage, Browse!browseSkus
<1> QED BY BrowseStep, <1>1, <1>3, <1>4 DEF Browse!BrowseNext, browseVars

\* Every variable of the backend has its type, whatever the bounds: a call has
\* no more attempts than it may, a page's cursor is a product, and an edit
\* writes a row that is there (linnworks-client.ts:121-180,
\* prisma-sku-dashboard.repository.ts:42-98, 445-459).
THEOREM PartsAreTyped == Spec => []TypeOK
<1> DEFINE Inv == /\ TypeInv /\ RateInv /\ CallsInv /\ WalkInv /\ StockInv /\ ReportsInv
                  /\ RowsInv /\ GoodsInv /\ UnitsInv /\ part \in Parts
<1>1. Init => Inv
  BY InitTypes, RateInit, CallsInit, WalkInit, StockInit, ReportsInit, RowsInit, GoodsInit,
     UnitsInductive DEF Init
<1>2. Inv /\ [Next]_vars => Inv'
  <2>1. [Next]_vars => UNCHANGED part
    BY DEF Next, vars, StartCall, ClientStep, Tick, TablesNext
  <2> QED BY <2>1, SyncStep, StepTypes, RateIsKept, CallsKept, WalkKept, StockKept, ReportsKept,
             RowsKept, GoodsKept, UnitsInductive, UnitsStep
<1>3. Inv => TypeOK
  <2> SUFFICES ASSUME Inv PROVE TypeOK
    OBVIOUS
  <2>1. SyncTypeOK /\ Reports!ReportsTypeOK /\ UnitsTypeOK /\ Details!DetailTypeOK
    BY DEF TypeInv, ReportsInv, UnitsInv, RowsInv
  <2>2. Client!TypeOK
    BY DEF RateInv, CallsInv, Client!TypeOK
  <2>3. Browse!BrowseTypeOK
    BY DEF WalkInv, StockInv, Query, Browse!BrowseTypeOK, Browse!NoCursor
  <2>4. Goods!CatalogueTypeOK
    BY DEF GoodsInv, IsTable, Goods!CatalogueTypeOK
  <2> QED BY <2>1, <2>2, <2>3, <2>4 DEF TypeOK
<1> HIDE DEF Inv
<1> QED BY <1>1, <1>2, <1>3, PTL DEF Spec

\* The steps of the backend that concern a sync are those of LinnworksSync.
LEMMA SyncAsAlone == Spec => SyncSpec
<1>1. Init => SyncInit
  BY DEF Init
<1> QED BY <1>1, SyncStep, PTL DEF Spec, SyncSpec

\* So what is shown of the synchronisation alone holds while calls, reports,
\* edits and units of work go on: its log tells how a run ended, a place has one
\* row unless runs have met, a newer quantity gives way to an older one only
\* between runs that have met, and no order is missed
\* (run-linnworks-daily-sync.service.ts:29-73,
\* sync-linnworks-sales.service.ts:67-93, 118-167).
THEOREM SyncsHoldInBackend ==
  Spec => /\ []LogTellsOutcome /\ []OneRowPerPlace /\ StockMovesForward
          /\ NotWholeSearches => []MetricsComplete
<1>1. NotWholeSearches => (SyncSpec => []MetricsComplete)
  BY EveryOrderCounts
<1> QED BY SyncAsAlone, LogTells, OneRowEach, StockGoesForward, <1>1, PTL
=============================================================================
