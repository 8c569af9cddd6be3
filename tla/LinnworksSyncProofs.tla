------------------------ MODULE LinnworksSyncProofs ------------------------
(***************************************************************************)
(* Theorems about LinnworksSync: what the log tells, the rows, the stock   *)
(* and the metrics, for any number of runs, rows, orders and mishaps.      *)
(***************************************************************************)
EXTENDS LinnworksSync, FiniteSetTheorems, SequenceTheorems, TLAPS

USE SyncAssumption

-----------------------------------------------------------------------------
(* Operators.                                                              *)

LEMMA MinOfTwo ==
  ASSUME NEW a \in Int, NEW b \in Int
  PROVE  Min({a, b}) = IF a <= b THEN a ELSE b
<1>1. (IF a <= b THEN a ELSE b) \in {a, b}
      /\ \A y \in {a, b} : (IF a <= b THEN a ELSE b) <= y
  OBVIOUS
<1>2. \A x \in {a, b} : (\A y \in {a, b} : x <= y) => x = (IF a <= b THEN a ELSE b)
  OBVIOUS
<1> QED BY <1>1, <1>2 DEF Min

LEMMA NextSearchForward ==
  ASSUME NEW from \in 0 .. Span
  PROVE  /\ NextSearch(from) \in 0 .. Span
         /\ NextSearch(from) = IF Span <= from + Chunk THEN Span ELSE from + Chunk
         /\ SearchEnd(from) = IF Span <= from + Chunk - 1 THEN Span ELSE from + Chunk - 1
BY MinOfTwo DEF NextSearch, SearchEnd

LEMMA SoldIsNatural ==
  ASSUME NEW orders \in SUBSET Orders, NEW period
  PROVE  Sold(orders, period) \in Nat
<1>1. IsFiniteSet({o \in orders : times[o] >= Span - period})
  BY FS_Subset
<1> QED BY <1>1, FS_CardinalityType DEF Sold

-----------------------------------------------------------------------------
(* Types.                                                                  *)

Early == {"idle", "createLog", "stock", "channels", "products"}

\* What the step of a run tells of where it is.
Placed(s) ==
  /\ s.pc \in Early \cup {"find", "write"} =>
       s.place <= Len(Rows) /\ s.from = 0 /\ s.page = 1 /\ s.found = {}
  /\ s.pc \in Early => s.place = 1
  /\ s.pc = "search" => s.from < Span /\ s.page >= 1
  /\ s.pc \in {"delete", "insert"} => s.left # {}

TypeInv == SyncTypeOK /\ \A r \in Run : Placed(run[r])

RunTypes == run \in [Run -> RunState] /\ mishaps \in 0 .. MaxMishaps

\* A run moves, and no other.
Moved(r, next) ==
  /\ run' = [run EXCEPT ![r] = next]
  /\ \A q \in Run \ {r} : run'[q] = run[q]
  /\ run'[r] = next

\* What becomes of a run after a mishap.
Broken(r) ==
  /\ mishaps' = mishaps + 1
  /\ \E step \in {"died", Catch(run[r].pc)} : Moved(r, [run[r] EXCEPT !.pc = step])

LEMMA CatchType == \A step : Catch(step) \in {"threw", "fail"}
BY DEF Catch

LEMMA MishapCases ==
  ASSUME RunTypes, NEW r \in Run, MishapOf(r)
  PROVE  RunTypes' /\ Broken(r)
<1>1. PICK step \in {"died", Catch(run[r].pc)} : run' = [run EXCEPT ![r].pc = step]
  BY DEF MishapOf, Throw, Proceed
<1>2. step \in {"died", "threw", "fail"}
  BY <1>1, CatchType
<1>3. [run[r] EXCEPT !.pc = step] \in RunState
  <2>1. run[r] \in RunState
    BY DEF RunTypes
  <2>2. step \in {"idle"} \cup Steps \cup {"completed", "threw", "died"}
    BY <1>2 DEF Steps
  <2> QED BY <2>1, <2>2 DEF RunState
<1>4. run' = [run EXCEPT ![r] = [run[r] EXCEPT !.pc = step]]
  BY <1>1 DEF RunTypes
<1>5. RunTypes'
  BY <1>3, <1>4 DEF RunTypes, MishapOf
<1>6. Moved(r, [run[r] EXCEPT !.pc = step])
  BY <1>4 DEF RunTypes, Moved
<1> QED BY <1>1, <1>5, <1>6 DEF MishapOf, Broken

LEMMA AnswerCases ==
  ASSUME RunTypes, NEW r \in Run, NEW next \in RunState, Answer(r, next)
  PROVE  /\ RunTypes'
         /\ \/ Moved(r, next) /\ mishaps' = mishaps
            \/ Broken(r)
<1>1. CASE MishapOf(r)
  BY <1>1, MishapCases
<1>2. CASE run' = [run EXCEPT ![r] = next] /\ UNCHANGED mishaps
  BY <1>2 DEF RunTypes, Moved
<1> QED BY <1>1, <1>2 DEF Answer

LEMMA MoveTypes ==
  ASSUME RunTypes, NEW r \in Run, NEW next \in RunState,
         run' = [run EXCEPT ![r] = next], UNCHANGED mishaps
  PROVE  RunTypes' /\ Moved(r, next)
BY DEF RunTypes, Moved

\* The states a run moves to.
LEMMA NextStates ==
  ASSUME SyncTypeOK, NEW r \in Run
  PROVE  /\ \A step \in Steps \cup {"completed", "threw"} :
              [run[r] EXCEPT !.pc = step] \in RunState
         /\ \A n \in StockNow : [run[r] EXCEPT !.pc = "channels", !.seen = n] \in RunState
         /\ \A k \in Nat : [run[r] EXCEPT !.existing = k, !.pc = "write"] \in RunState
         /\ \A step \in Steps : run[r].place <= Len(Rows) =>
              [run[r] EXCEPT !.place = @ + 1, !.existing = 0, !.pc = step] \in RunState
         /\ \A found \in SUBSET Orders :
              /\ [run[r] EXCEPT !.found = found, !.page = @ + 1] \in RunState
              /\ \A from \in 0 .. Span : \A step \in Steps :
                   [run[r] EXCEPT !.found = found, !.page = 1, !.from = from, !.pc = step] \in RunState
         /\ \A left \in SUBSET Periods : \A step \in Steps :
              [run[r] EXCEPT !.left = left, !.pc = step] \in RunState
<1>1. run[r] \in RunState /\ quantity \in 0 .. MaxChanges /\ Len(Rows) \in Nat
  BY LenProperties DEF SyncTypeOK
<1>2. run[r].place \in 1 .. Len(Rows) + 1 /\ run[r].page \in Nat
  BY <1>1 DEF RunState
<1>3. \A step \in Steps \cup {"completed", "threw"} : [run[r] EXCEPT !.pc = step] \in RunState
  BY <1>1 DEF RunState
<1>4. \A n \in StockNow : [run[r] EXCEPT !.pc = "channels", !.seen = n] \in RunState
  BY <1>1 DEF RunState, Steps, StockNow
<1>5. \A k \in Nat : [run[r] EXCEPT !.existing = k, !.pc = "write"] \in RunState
  BY <1>1 DEF RunState, Steps
<1>6. \A step \in Steps : run[r].place <= Len(Rows) =>
        [run[r] EXCEPT !.place = @ + 1, !.existing = 0, !.pc = step] \in RunState
  <2> SUFFICES ASSUME NEW step \in Steps, run[r].place <= Len(Rows)
               PROVE  [run[r] EXCEPT !.place = @ + 1, !.existing = 0, !.pc = step] \in RunState
    OBVIOUS
  <2>1. run[r].place + 1 \in 1 .. Len(Rows) + 1
    BY <1>1, <1>2
  <2> QED BY <1>1, <2>1 DEF RunState
<1>7. ASSUME NEW found \in SUBSET Orders
      PROVE  [run[r] EXCEPT !.found = found, !.page = @ + 1] \in RunState
  <2>1. run[r].page + 1 \in Nat
    BY <1>2
  <2> QED BY <1>1, <2>1 DEF RunState
<1>8. \A found \in SUBSET Orders : \A from \in 0 .. Span : \A step \in Steps :
        [run[r] EXCEPT !.found = found, !.page = 1, !.from = from, !.pc = step] \in RunState
  BY <1>1 DEF RunState
<1>9. \A left \in SUBSET Periods : \A step \in Steps :
        [run[r] EXCEPT !.left = left, !.pc = step] \in RunState
  BY <1>1 DEF RunState
<1> QED BY <1>3, <1>4, <1>5, <1>6, <1>7, <1>8, <1>9

LEMMA BrokenIsPlaced ==
  ASSUME NEW r \in Run, Broken(r), run \in [Run -> RunState], \A q \in Run : Placed(run[q])
  PROVE  \A q \in Run : Placed(run'[q])
<1>1. PICK step \in {"died", Catch(run[r].pc)} : Moved(r, [run[r] EXCEPT !.pc = step])
  BY DEF Broken
<1>2. step \in {"died", "threw", "fail"}
  BY <1>1, CatchType
<1>3. run'[r].pc = step
  BY <1>1 DEF Moved, RunState
<1>4. Placed(run'[r])
  BY <1>2, <1>3 DEF Placed, Early
<1> QED BY <1>1, <1>4 DEF Moved

\* A run moved as it should, or met a mishap.
LEMMA MovesArePlaced ==
  ASSUME NEW r \in Run, NEW next, Moved(r, next) \/ Broken(r), Placed(next),
         run \in [Run -> RunState], \A q \in Run : Placed(run[q])
  PROVE  \A q \in Run : Placed(run'[q])
BY BrokenIsPlaced DEF Moved

LEMMA RowsLength == Len(Rows) \in Nat \ {0}
BY LenProperties, EmptySeq

\* The rows of the catalogue keep their type.
LEMMA WriteTypes ==
  ASSUME SyncTypeOK, NEW r \in Run,
         \/ table' = [table EXCEPT ![run[r].place][run[r].existing] = run[r].seen]
         \/ table' = [table EXCEPT ![run[r].place] = Append(@, run[r].seen)]
  PROVE  table' \in [Place -> Seq(0 .. MaxChanges)]
<1>1. run[r].seen \in 0 .. MaxChanges
  BY DEF SyncTypeOK, RunState
<1>2. CASE run[r].place \in Place
  <2>1. table[run[r].place] \in Seq(0 .. MaxChanges)
    BY <1>2 DEF SyncTypeOK
  <2>2. Append(table[run[r].place], run[r].seen) \in Seq(0 .. MaxChanges)
    BY <1>1, <2>1, AppendProperties
  <2>3. [table[run[r].place] EXCEPT ![run[r].existing] = run[r].seen] \in Seq(0 .. MaxChanges)
    <3>1. CASE run[r].existing \in DOMAIN table[run[r].place]
      <4>1. run[r].existing \in 1 .. Len(table[run[r].place])
        BY <2>1, <3>1, LenProperties
      <4> QED BY <1>1, <2>1, <4>1, ExceptSeq
    <3>2. CASE run[r].existing \notin DOMAIN table[run[r].place]
      <4> DEFINE rows == table[run[r].place]
      <4>1. rows \in [1 .. Len(rows) -> 0 .. MaxChanges] /\ DOMAIN rows = 1 .. Len(rows)
        BY <2>1, LenProperties
      <4>2. ASSUME NEW f, NEW D, NEW T, f \in [D -> T], NEW k, k \notin D, NEW v
            PROVE  [f EXCEPT ![k] = v] = f
        BY <4>2
      <4> HIDE DEF rows
      <4>3. [rows EXCEPT ![run[r].existing] = run[r].seen] = rows
        BY <3>2, <4>1, <4>2 DEF rows
      <4> QED BY <2>1, <4>3 DEF rows
    <3> QED BY <3>1, <3>2
  <2> QED BY <1>2, <2>2, <2>3 DEF SyncTypeOK
<1>3. CASE run[r].place \notin Place
  BY <1>3 DEF SyncTypeOK
<1> QED BY <1>2, <1>3

LEMMA InitTypes == SyncInit => TypeInv
<1> SUFFICES ASSUME SyncInit PROVE TypeInv
  OBVIOUS
<1>1. Idle \in RunState /\ Placed(Idle)
  BY RowsLength DEF Idle, RunState, Placed, Early
<1>2. table \in [Place -> Seq(0 .. MaxChanges)]
  BY EmptySeq DEF SyncInit
<1>3. \A r \in Run : run[r] = Idle
  BY DEF SyncInit
<1>4. run \in [Run -> RunState]
  BY <1>1 DEF SyncInit
<1>5. \A r \in Run : Placed(run[r])
  BY <1>1, <1>3
<1>6. SyncTypeOK
  <2>1. log \in [Run -> {"none", "running", "success", "failed"}]
    BY DEF SyncInit
  <2>2. metrics = {} /\ quantity \in 0 .. MaxChanges /\ mishaps \in 0 .. MaxMishaps
    BY DEF SyncInit
  <2>3. times \in FirstTimes /\ met \subseteq SUBSET Run
    BY DEF SyncInit
  <2> QED BY <1>2, <1>4, <2>1, <2>2, <2>3 DEF SyncTypeOK
<1> QED BY <1>5, <1>6 DEF TypeInv

\* The steps of one run, by what they may change besides it.
Quiet(r) ==
  \/ StartRun(r) \/ FetchStockItems(r) \/ FetchChannelSkus(r) \/ UpsertProducts(r)
  \/ FindRow(r) \/ SearchPage(r) \/ SearchLastPage(r) \/ FetchOrderItems(r)

LEMMA QuietMoves ==
  ASSUME TypeInv, NEW r \in Run, Quiet(r)
  PROVE  /\ UNCHANGED <<times, quantity, table, metrics, log, mishaps>>
         /\ \E next \in RunState : run' = [run EXCEPT ![r] = next] /\ Placed(next)
<1>1. run[r] \in RunState /\ Placed(run[r])
  BY DEF TypeInv, SyncTypeOK
<1> DEFINE Goal == \E next \in RunState : run' = [run EXCEPT ![r] = next] /\ Placed(next)
<1>2. ASSUME NEW next \in RunState, run' = [run EXCEPT ![r] = next], Placed(next)
      PROVE  Goal
  BY <1>2
<1>3. ASSUME StartRun(r) \/ FetchChannelSkus(r) \/ UpsertProducts(r) PROVE Goal
  <2>1. PICK step \in {"createLog", "products", "find"} : Proceed(r, step)
    BY <1>3 DEF StartRun, FetchChannelSkus, UpsertProducts
  <2>2. run[r].pc \in Early
    BY <1>3 DEF StartRun, FetchChannelSkus, UpsertProducts, At, Early
  <2>3. [run[r] EXCEPT !.pc = step] \in RunState
    BY NextStates DEF TypeInv, Steps
  <2>4. Placed([run[r] EXCEPT !.pc = step])
    BY <1>1, <2>2, <2>3, RowsLength DEF Placed, Early, RunState
  <2> QED BY <2>1, <2>3, <2>4 DEF Proceed
<1>4. ASSUME FetchStockItems(r) PROVE Goal
  <2>1. PICK n \in StockNow : run' = [run EXCEPT ![r].pc = "channels", ![r].seen = n]
    BY <1>4 DEF FetchStockItems
  <2>2. [run[r] EXCEPT !.pc = "channels", !.seen = n] \in RunState
    BY NextStates DEF TypeInv
  <2>3. Placed([run[r] EXCEPT !.pc = "channels", !.seen = n])
    BY <1>1, <1>4 DEF FetchStockItems, At, Placed, Early, RunState
  <2> QED BY <2>1, <2>2, <2>3
<1>5. ASSUME FindRow(r) PROVE Goal
  <2>1. PICK k \in IF RowsAt(r) = <<>> THEN {0} ELSE DOMAIN RowsAt(r) :
          run' = [run EXCEPT ![r].existing = k, ![r].pc = "write"]
    BY <1>5 DEF FindRow
  <2>2. run[r].place \in Place
    BY <1>1, <1>5, RowsLength DEF FindRow, At, Placed, RunState, Place
  <2>3. k \in Nat
    BY <2>1, <2>2, LenProperties DEF TypeInv, SyncTypeOK, RowsAt
  <2>4. [run[r] EXCEPT !.existing = k, !.pc = "write"] \in RunState
    BY <2>3, NextStates DEF TypeInv
  <2>5. Placed([run[r] EXCEPT !.existing = k, !.pc = "write"])
    BY <1>1, <1>5 DEF FindRow, At, Placed, Early, RunState
  <2> QED BY <2>1, <2>4, <2>5
<1>6. WithPage(r) \in SUBSET Orders /\ run[r].from \in 0 .. Span
  BY <1>1 DEF RunState, WithPage, Hits, OnPage, Between
<1>7. ASSUME SearchPage(r) PROVE Goal
  <2>1. [run[r] EXCEPT !.found = WithPage(r), !.page = @ + 1] \in RunState
    BY <1>6, NextStates DEF TypeInv
  <2>2. Placed([run[r] EXCEPT !.found = WithPage(r), !.page = @ + 1])
    <3> DEFINE next == [run[r] EXCEPT !.found = WithPage(r), !.page = @ + 1]
    <3>1. next.pc = "search" /\ next.from = run[r].from /\ next.page = run[r].page + 1
      BY <1>1, <1>7 DEF SearchPage, At, RunState
    <3>2. run[r].from < Span /\ run[r].page \in Nat
      BY <1>1, <1>7 DEF SearchPage, At, Placed, RunState
    <3> HIDE DEF next
    <3>3. Placed(next)
      BY <3>1, <3>2 DEF Placed, Early
    <3> QED BY <3>3 DEF next
  <2> QED BY <1>7, <2>1, <2>2 DEF SearchPage
<1>8. ASSUME SearchLastPage(r) PROVE Goal
  <2> DEFINE from == NextSearch(run[r].from)
             step == IF from < Span THEN "search" ELSE "items"
             next == [run[r] EXCEPT !.found = WithPage(r), !.page = 1, !.from = from, !.pc = step]
  <2>1. from \in 0 .. Span /\ step \in Steps
    BY <1>6, NextSearchForward DEF Steps
  <2>2. next \in RunState
    BY <1>6, <2>1, NextStates DEF TypeInv
  <2>3. next.pc = step /\ next.from = from /\ next.page = 1
    BY <1>1 DEF RunState
  <2>4. Placed(next)
    BY <2>3 DEF Placed, Early
  <2>5. run' = [run EXCEPT ![r] = next]
    BY <1>8 DEF SearchLastPage
  <2> HIDE DEF next
  <2> QED BY <2>2, <2>4, <2>5
<1>9. ASSUME FetchOrderItems(r) PROVE Goal
  <2> DEFINE left == {p \in Periods : Sold(run[r].found, p) > 0}
             step == IF left = {} THEN "succeed" ELSE "delete"
  <2>1. run' = [run EXCEPT ![r] = [run[r] EXCEPT !.left = left, !.pc = step]]
    BY <1>1, <1>9 DEF FetchOrderItems, TypeInv, SyncTypeOK
  <2>2. [run[r] EXCEPT !.left = left, !.pc = step] \in RunState
    BY NextStates DEF TypeInv, Steps
  <2>3. Placed([run[r] EXCEPT !.left = left, !.pc = step])
    BY <1>1 DEF Placed, Early, RunState
  <2> QED BY <2>1, <2>2, <2>3
<1>10. UNCHANGED <<times, quantity, table, metrics, log, mishaps>>
  BY DEF Quiet, StartRun, FetchStockItems, FetchChannelSkus, UpsertProducts, FindRow,
         SearchPage, SearchLastPage, FetchOrderItems, world, database
<1> QED BY <1>3, <1>4, <1>5, <1>9, <1>10, <1>7, <1>8 DEF Quiet

\* What the steps that write make of their run when they are answered.
LEMMA WritersNext ==
  ASSUME TypeInv, NEW r \in Run
  PROVE  /\ CreateSyncLog(r) => \E next \in RunState :
              next = [run[r] EXCEPT !.pc = "stock"] /\ Placed(next) /\ Answer(r, next)
         /\ UpdateSyncLog(r) => \E next \in RunState :
              /\ next = [run[r] EXCEPT !.pc = IF At(r, "fail") THEN "threw" ELSE "completed"]
              /\ Placed(next) /\ Answer(r, next)
         /\ At(r, "write") /\ NextRow(r) => \E next \in RunState :
              /\ next = [run[r] EXCEPT !.place = @ + 1, !.existing = 0,
                           !.pc = IF run[r].place < Len(Rows) THEN "find" ELSE "search"]
              /\ Placed(next) /\ Answer(r, next)
         /\ DeleteMetric(r) => \E next \in RunState :
              next = [run[r] EXCEPT !.pc = "insert"] /\ Placed(next) /\ Answer(r, next)
         /\ InsertMetric(r) => \E next \in RunState :
              /\ next = [run[r] EXCEPT !.left = @ \ {Period(r)},
                           !.pc = IF run[r].left = {Period(r)} THEN "succeed" ELSE "delete"]
              /\ Placed(next) /\ Answer(r, next)
<1>1. run[r] \in RunState /\ Placed(run[r])
  BY DEF TypeInv, SyncTypeOK
<1>2. ASSUME NEW step \in {"stock", "threw", "completed", "insert"},
             step = "stock" => At(r, "createLog"), step = "insert" => At(r, "delete")
      PROVE  [run[r] EXCEPT !.pc = step] \in RunState /\ Placed([run[r] EXCEPT !.pc = step])
  <2>1. [run[r] EXCEPT !.pc = step] \in RunState
    BY NextStates DEF TypeInv, Steps
  <2>2. Placed([run[r] EXCEPT !.pc = step])
    BY <1>1, <1>2 DEF At, Placed, Early, RunState
  <2> QED BY <2>1, <2>2
<1>3. ASSUME CreateSyncLog(r)
      PROVE  Placed([run[r] EXCEPT !.pc = "stock"]) /\ [run[r] EXCEPT !.pc = "stock"] \in RunState
             /\ Answer(r, [run[r] EXCEPT !.pc = "stock"])
  BY <1>2, <1>3 DEF CreateSyncLog
<1>4. ASSUME DeleteMetric(r)
      PROVE  Placed([run[r] EXCEPT !.pc = "insert"]) /\ [run[r] EXCEPT !.pc = "insert"] \in RunState
             /\ Answer(r, [run[r] EXCEPT !.pc = "insert"])
  BY <1>2, <1>4 DEF DeleteMetric
<1>5. ASSUME UpdateSyncLog(r)
      PROVE  \E next \in RunState :
               /\ next = [run[r] EXCEPT !.pc = IF At(r, "fail") THEN "threw" ELSE "completed"]
               /\ Placed(next) /\ Answer(r, next)
  <2>1. CASE At(r, "succeed") /\ Answer(r, [run[r] EXCEPT !.pc = "completed"])
    <3>1. ~At(r, "fail")
      BY <2>1 DEF At
    <3> QED BY <1>2, <2>1, <3>1
  <2>2. CASE At(r, "fail") /\ Answer(r, [run[r] EXCEPT !.pc = "threw"])
    BY <1>2, <2>2
  <2> QED BY <1>5, <2>1, <2>2 DEF UpdateSyncLog
<1>6. ASSUME At(r, "write"), NextRow(r)
      PROVE  \E next \in RunState :
               /\ next = [run[r] EXCEPT !.place = @ + 1, !.existing = 0,
                            !.pc = IF run[r].place < Len(Rows) THEN "find" ELSE "search"]
               /\ Placed(next) /\ Answer(r, next)
  <2> DEFINE step == IF run[r].place < Len(Rows) THEN "find" ELSE "search"
             next == [run[r] EXCEPT !.place = @ + 1, !.existing = 0, !.pc = step]
  <2>1. /\ run[r].place \in 1 .. Len(Rows) /\ run[r].from = 0 /\ run[r].page = 1
        /\ run[r].found = {}
    BY <1>1, <1>6, RowsLength DEF At, Placed, RunState
  <2>2. next \in RunState
    <3>1. step \in Steps
      BY DEF Steps
    <3>2. run[r].place <= Len(Rows)
      BY <2>1
    <3>3. \A q \in Steps :
            [run[r] EXCEPT !.place = @ + 1, !.existing = 0, !.pc = q] \in RunState
      BY <3>2, NextStates DEF TypeInv
    <3> HIDE DEF step
    <3> QED BY <3>1, <3>3
  <2>3. /\ next.pc = step /\ next.place = run[r].place + 1 /\ next.from = 0 /\ next.page = 1
        /\ next.found = {}
    BY <1>1, <2>1 DEF RunState
  <2>4. Answer(r, next)
    BY <1>6 DEF NextRow
  <2> HIDE DEF next
  <2>5. Placed(next)
    BY <2>1, <2>3, RowsLength DEF Placed, Early
  <2> QED BY <2>2, <2>4, <2>5 DEF next
<1>7. ASSUME InsertMetric(r)
      PROVE  \E next \in RunState :
               /\ next = [run[r] EXCEPT !.left = @ \ {Period(r)},
                            !.pc = IF run[r].left = {Period(r)} THEN "succeed" ELSE "delete"]
               /\ Placed(next) /\ Answer(r, next)
  <2> DEFINE step == IF run[r].left = {Period(r)} THEN "succeed" ELSE "delete"
             next == [run[r] EXCEPT !.left = @ \ {Period(r)}, !.pc = step]
  <2>1. step \in Steps /\ run[r].left \ {Period(r)} \in SUBSET Periods
    BY <1>1 DEF RunState, Steps
  <2>2. next \in RunState
    <3> HIDE DEF step
    <3> QED BY <2>1, NextStates DEF TypeInv
  <2>3. next.pc = step /\ next.left = run[r].left \ {Period(r)}
    BY <1>1 DEF RunState
  <2>4. Answer(r, next)
    BY <1>7 DEF InsertMetric
  <2>5. run[r].left # {}
    BY <1>1, <1>7 DEF InsertMetric, At, Placed
  <2> HIDE DEF next
  <2>6. Placed(next)
    BY <2>3, <2>5 DEF Placed, Early
  <2> QED BY <2>2, <2>4, <2>6 DEF next
<1> QED BY <1>3, <1>4, <1>5, <1>6, <1>7

\* Writers, mishaps, and what is not a run.
LEMMA WritersMove ==
  ASSUME TypeInv, NEW r \in Run,
         \/ CreateSyncLog(r) \/ UpdateSyncLog(r) \/ WriteRow(r)
         \/ DeleteMetric(r) \/ InsertMetric(r) \/ Mishap(r)
  PROVE  RunTypes' /\ \A q \in Run : Placed(run'[q])
<1>1. RunTypes /\ run \in [Run -> RunState] /\ \A q \in Run : Placed(run[q])
  BY DEF TypeInv, SyncTypeOK, RunTypes
<1>2. ASSUME NEW next \in RunState, Placed(next), Answer(r, next)
      PROVE  RunTypes' /\ \A q \in Run : Placed(run'[q])
  BY <1>1, <1>2, AnswerCases, MovesArePlaced
<1>3. CASE MishapOf(r)
  BY <1>1, <1>3, MishapCases, BrokenIsPlaced
<1>4. CASE At(r, "write") /\ NextRow(r)
  BY <1>2, <1>4, WritersNext
<1>5. CASE At(r, "write") /\ Throw(r) /\ UNCHANGED mishaps
  <2>1. Catch(run[r].pc) = "fail"
    BY <1>5 DEF At, Catch
  <2> DEFINE next == [run[r] EXCEPT !.pc = "fail"]
  <2>2. next \in RunState
    BY NextStates DEF TypeInv, Steps
  <2>3. next.pc = "fail"
    BY <1>1 DEF RunState
  <2>4. run' = [run EXCEPT ![r] = next]
    BY <1>5, <2>1 DEF Throw, Proceed
  <2> HIDE DEF next
  <2>5. Placed(next)
    BY <2>3 DEF Placed, Early
  <2> QED BY <1>1, <1>5, <2>2, <2>4, <2>5, MoveTypes, MovesArePlaced
<1>6. CASE WriteRow(r)
  BY <1>4, <1>5, <1>6 DEF WriteRow
<1>7. CASE CreateSyncLog(r) \/ UpdateSyncLog(r) \/ DeleteMetric(r) \/ InsertMetric(r)
  BY <1>2, <1>7, WritersNext
<1> QED BY <1>3, <1>6, <1>7 DEF Mishap

LEMMA SharedTypes ==
  ASSUME TypeInv, NEW r \in Run, RunStep(r) \/ StartRun(r) \/ Mishap(r)
  PROVE  /\ times' \in FirstTimes /\ quantity' \in 0 .. MaxChanges /\ met' \subseteq SUBSET Run
         /\ table' \in [Place -> Seq(0 .. MaxChanges)]
         /\ metrics' \subseteq Metric
         /\ log' \in [Run -> {"none", "running", "success", "failed"}]
<1>1. SyncTypeOK /\ run[r] \in RunState /\ Placed(run[r])
  BY DEF TypeInv, SyncTypeOK
<1>2. times' = times /\ quantity' = quantity /\ met' \subseteq SUBSET Run
  <2>1. CASE StartRun(r)
    <3>1. times' = times /\ quantity' = quantity /\ met' = met \cup {{q, r} : q \in InFlight}
      BY <2>1 DEF StartRun
    <3>2. {{q, r} : q \in InFlight} \subseteq SUBSET Run
      BY DEF InFlight
    <3> QED BY <1>1, <3>1, <3>2 DEF SyncTypeOK
  <2>2. CASE ~StartRun(r)
    BY <1>1, <2>2 DEF SyncTypeOK, RunStep, Mishap, CreateSyncLog, UpdateSyncLog, FetchStockItems,
       FetchChannelSkus, UpsertProducts, FindRow, WriteRow, SearchPage, SearchLastPage,
       FetchOrderItems, DeleteMetric, InsertMetric, world
  <2> QED BY <2>1, <2>2
<1>3. CASE WriteRow(r)
  <2>1. table' \in [Place -> Seq(0 .. MaxChanges)]
    BY <1>1, <1>3, WriteTypes DEF WriteRow, SyncTypeOK
  <2> QED BY <1>1, <1>2, <1>3, <2>1 DEF WriteRow, SyncTypeOK
<1>4. CASE InsertMetric(r)
  <2>1. run[r].left # {} /\ run[r].left \subseteq Periods /\ run[r].found \in SUBSET Orders
    BY <1>1, <1>4 DEF InsertMetric, At, Placed, RunState
  <2>2. Period(r) \in Periods
    BY <2>1 DEF Period
  <2>3. Sold(run[r].found, Period(r)) \in Nat
    BY <2>1, SoldIsNatural
  <2>4. [run |-> r, period |-> Period(r), units |-> Sold(run[r].found, Period(r))] \in Metric
    BY <2>2, <2>3 DEF Metric
  <2> QED BY <1>1, <1>2, <1>4, <2>4 DEF InsertMetric, SyncTypeOK
<1>5. CASE CreateSyncLog(r) \/ UpdateSyncLog(r)
  <2>1. log' \in [Run -> {"none", "running", "success", "failed"}]
    BY <1>1, <1>5 DEF CreateSyncLog, UpdateSyncLog, SyncTypeOK
  <2> QED BY <1>1, <1>2, <1>5, <2>1 DEF CreateSyncLog, UpdateSyncLog, SyncTypeOK
<1>6. CASE DeleteMetric(r) \/ Mishap(r)
  BY <1>1, <1>2, <1>6 DEF DeleteMetric, Mishap, database, SyncTypeOK
<1>7. CASE Quiet(r)
  BY <1>1, <1>2, <1>7, QuietMoves DEF SyncTypeOK
<1> QED BY <1>3, <1>4, <1>5, <1>6, <1>7 DEF RunStep, Quiet

LEMMA StepTypes == TypeInv /\ [SyncNext]_syncVars => TypeInv'
<1> SUFFICES ASSUME TypeInv, [SyncNext]_syncVars PROVE TypeInv'
  OBVIOUS
<1>1. ASSUME NEW r \in Run, RunStep(r) \/ StartRun(r) \/ Mishap(r)
      PROVE  RunTypes' /\ \A q \in Run : Placed(run'[q])
  <2>1. CASE Quiet(r)
    <3>1. PICK next \in RunState : run' = [run EXCEPT ![r] = next] /\ Placed(next)
      BY <2>1, QuietMoves
    <3>2. UNCHANGED mishaps
      BY <2>1, QuietMoves
    <3> QED BY <3>1, <3>2, MoveTypes, MovesArePlaced DEF TypeInv, SyncTypeOK, RunTypes
  <2> QED BY <1>1, <2>1, WritersMove DEF RunStep, Quiet
<1>2. ASSUME NEW r \in Run, RunStep(r) \/ StartRun(r) \/ Mishap(r)
      PROVE  TypeInv'
  BY <1>1, <1>2, SharedTypes DEF TypeInv, SyncTypeOK, RunTypes
<1>3. CASE StockChanges
  BY <1>3 DEF StockChanges, database, TypeInv, SyncTypeOK
<1>4. CASE UNCHANGED syncVars
  BY <1>4 DEF syncVars, TypeInv, SyncTypeOK
<1> QED BY <1>2, <1>3, <1>4 DEF SyncNext

\* Log, rows, metrics and runs keep their types, for any number of runs.
THEOREM TypeCorrect == SyncSpec => []SyncTypeOK
<1>1. TypeInv => SyncTypeOK
  BY DEF TypeInv
<1> QED BY InitTypes, StepTypes, <1>1, PTL DEF SyncSpec

-----------------------------------------------------------------------------
(* The course of a run.                                                    *)

\* The steps inside the try.
Working == Steps \ {"createLog", "fail"}
RowsDone == {"search", "items", "delete", "insert", "succeed"}

Step(r) == RunStep(r) \/ StartRun(r) \/ Mishap(r)

\* From step to step, with what it means for the log and for the mishaps.
Goes(r, from, to) == run[r].pc = from /\ run'[r].pc = to

Course(r) ==
  \/ Goes(r, "idle", "createLog") /\ log' = log /\ mishaps' = mishaps
  \/ /\ run[r].pc \in Working /\ run'[r].pc \in Working \cup {"fail"}
     /\ log' = log
  \/ /\ run[r].pc = "createLog" /\ run'[r].pc \in {"stock", "threw", "died"}
     /\ log' = [log EXCEPT ![r] = "running"]
  \/ /\ run[r].pc = "succeed" /\ log' = [log EXCEPT ![r] = "success"]
     /\ \/ run'[r].pc = "completed"
        \/ run'[r].pc \in {"fail", "died"} /\ mishaps' = mishaps + 1
  \/ /\ run[r].pc = "fail" /\ run'[r].pc \in {"threw", "died"}
     /\ log' = [log EXCEPT ![r] = "failed"]
  \/ /\ run[r].pc \in Steps /\ run'[r].pc \in {"died", Catch(run[r].pc)}
     /\ log' = log /\ mishaps' = mishaps + 1

\* The answer to a write leads on, or is a mishap.
LEMMA AnswerGoes ==
  ASSUME TypeInv, NEW r \in Run, NEW next \in RunState, Answer(r, next)
  PROVE  /\ \/ run'[r] = next /\ mishaps' = mishaps
            \/ run'[r].pc \in {"died", Catch(run[r].pc)} /\ mishaps' = mishaps + 1
         /\ \A q \in Run \ {r} : run'[q] = run[q]
<1>1. RunTypes
  BY DEF TypeInv, SyncTypeOK, RunTypes
<1>2. CASE Moved(r, next) /\ mishaps' = mishaps
  BY <1>2 DEF Moved
<1>3. CASE Broken(r)
  <2>1. PICK step \in {"died", Catch(run[r].pc)} : Moved(r, [run[r] EXCEPT !.pc = step])
    BY <1>3 DEF Broken
  <2>2. run'[r].pc = step
    BY <1>1, <2>1 DEF Moved, RunTypes, RunState
  <2> QED BY <1>3, <2>1, <2>2 DEF Broken, Moved
<1> QED BY <1>1, <1>2, <1>3, AnswerCases

LEMMA MishapGoes ==
  ASSUME TypeInv, NEW r \in Run, MishapOf(r)
  PROVE  /\ run'[r].pc \in {"died", Catch(run[r].pc)} /\ mishaps' = mishaps + 1
         /\ \A q \in Run \ {r} : run'[q] = run[q]
<1>1. RunTypes
  BY DEF TypeInv, SyncTypeOK, RunTypes
<1>2. PICK step \in {"died", Catch(run[r].pc)} : Moved(r, [run[r] EXCEPT !.pc = step])
  BY <1>1, MishapCases DEF Broken
<1>3. run'[r].pc = step
  BY <1>1, <1>2 DEF Moved, RunTypes, RunState
<1> QED BY <1>2, <1>3 DEF Moved, MishapOf

LEMMA QuietGoes ==
  ASSUME TypeInv, NEW r \in Run, Quiet(r)
  PROVE  /\ \/ StartRun(r) /\ Goes(r, "idle", "createLog")
            \/ FetchStockItems(r) /\ Goes(r, "stock", "channels")
            \/ FetchChannelSkus(r) /\ Goes(r, "channels", "products")
            \/ UpsertProducts(r) /\ Goes(r, "products", "find")
            \/ FindRow(r) /\ Goes(r, "find", "write")
            \/ SearchPage(r) /\ Goes(r, "search", "search")
            \/ SearchLastPage(r) /\ run[r].pc = "search" /\ run'[r].pc \in {"search", "items"}
            \/ FetchOrderItems(r) /\ run[r].pc = "items" /\ run'[r].pc \in {"succeed", "delete"}
         /\ \A q \in Run \ {r} : run'[q] = run[q]
<1>1. run \in [Run -> RunState]
  BY DEF TypeInv, SyncTypeOK
<1>2. \A q \in Run \ {r} : run'[q] = run[q]
  <2>1. PICK next \in RunState : run' = [run EXCEPT ![r] = next]
    BY QuietMoves
  <2> QED BY <1>1, <2>1
<1>3. StartRun(r) => Goes(r, "idle", "createLog")
  BY <1>1 DEF StartRun, At, Proceed, Goes, RunState
<1>4. FetchStockItems(r) => Goes(r, "stock", "channels")
  BY <1>1 DEF FetchStockItems, At, Goes, RunState
<1>5. FetchChannelSkus(r) => Goes(r, "channels", "products")
  BY <1>1 DEF FetchChannelSkus, At, Proceed, Goes, RunState
<1>6. UpsertProducts(r) => Goes(r, "products", "find")
  BY <1>1 DEF UpsertProducts, At, Proceed, Goes, RunState
<1>7. FindRow(r) => Goes(r, "find", "write")
  BY <1>1 DEF FindRow, At, Goes, RunState
<1>8. SearchPage(r) => Goes(r, "search", "search")
  BY <1>1 DEF SearchPage, At, Goes, RunState
<1>9. SearchLastPage(r) => run[r].pc = "search" /\ run'[r].pc \in {"search", "items"}
  BY <1>1 DEF SearchLastPage, At, RunState
<1>10. FetchOrderItems(r) => run[r].pc = "items" /\ run'[r].pc \in {"succeed", "delete"}
  BY <1>1 DEF FetchOrderItems, At, RunState
<1> QED BY <1>2, <1>3, <1>4, <1>5, <1>6, <1>7, <1>8, <1>9, <1>10 DEF Quiet

\* A row that is written leads to the next or to the search of the orders.
LEMMA WriteGoes ==
  ASSUME TypeInv, NEW r \in Run, WriteRow(r)
  PROVE  /\ run[r].pc = "write"
         /\ \/ /\ NextRow(r) /\ mishaps' = mishaps
               /\ run'[r].pc = IF run[r].place < Len(Rows) THEN "find" ELSE "search"
               /\ run'[r].place = run[r].place + 1
               /\ run'[r].seen = run[r].seen /\ run'[r].from = 0 /\ run'[r].page = 1
               /\ run'[r].found = {}
            \/ NextRow(r) /\ run'[r].pc \in {"died", "fail"} /\ mishaps' = mishaps + 1
            \/ table' = table /\ run'[r].pc = "fail" /\ mishaps' = mishaps
         /\ \A q \in Run \ {r} : run'[q] = run[q]
<1>1. run[r].pc = "write" /\ run \in [Run -> RunState]
  BY DEF WriteRow, At, TypeInv, SyncTypeOK
<1>2. Catch(run[r].pc) = "fail"
  BY <1>1 DEF Catch
<1>3. CASE NextRow(r)
  <2>1. PICK next \in RunState :
          /\ next = [run[r] EXCEPT !.place = @ + 1, !.existing = 0,
                       !.pc = IF run[r].place < Len(Rows) THEN "find" ELSE "search"]
          /\ Answer(r, next)
    BY <1>1, <1>3, WritersNext DEF At
  <2>2. run[r] \in RunState /\ run[r].from = 0 /\ run[r].page = 1 /\ run[r].found = {}
    BY <1>1 DEF TypeInv, SyncTypeOK, Placed
  <2>3. /\ next.pc = IF run[r].place < Len(Rows) THEN "find" ELSE "search"
        /\ next.place = run[r].place + 1 /\ next.seen = run[r].seen
        /\ next.from = 0 /\ next.page = 1 /\ next.found = {}
    BY <2>1, <2>2 DEF RunState
  <2> QED BY <1>1, <1>2, <1>3, <2>1, <2>3, AnswerGoes
<1>4. CASE Throw(r) /\ UNCHANGED <<table, mishaps>>
  BY <1>1, <1>2, <1>4 DEF Throw, Proceed, RunState
<1> QED BY <1>1, <1>3, <1>4 DEF WriteRow

LEMMA MetricsNext ==
  ASSUME TypeInv, NEW r \in Run, DeleteMetric(r) \/ InsertMetric(r)
  PROVE  \E next \in RunState : next.pc \in {"insert", "succeed", "delete"} /\ Answer(r, next)
<1>1. run[r] \in RunState
  BY DEF TypeInv, SyncTypeOK
<1>2. CASE DeleteMetric(r)
  <2>1. PICK next \in RunState : next = [run[r] EXCEPT !.pc = "insert"] /\ Answer(r, next)
    BY <1>2, WritersNext
  <2> QED BY <1>1, <2>1 DEF RunState
<1>3. CASE InsertMetric(r)
  <2>1. PICK next \in RunState :
          /\ next = [run[r] EXCEPT !.left = @ \ {Period(r)},
                       !.pc = IF run[r].left = {Period(r)} THEN "succeed" ELSE "delete"]
          /\ Answer(r, next)
    BY <1>3, WritersNext
  <2>2. next.pc \in {"succeed", "delete"}
    BY <1>1, <2>1 DEF RunState
  <2> QED BY <2>1, <2>2
<1> QED BY <1>2, <1>3

LEMMA RunsCourse ==
  ASSUME TypeInv, NEW r \in Run, Step(r)
  PROVE  Course(r) /\ \A q \in Run \ {r} : run'[q] = run[q]
<1>1. CASE Quiet(r)
  <2>1. log' = log /\ mishaps' = mishaps
    BY <1>1, QuietMoves
  <2> QED BY <1>1, <2>1, QuietGoes DEF Course, Goes, Working, Steps
<1>2. CASE WriteRow(r)
  <2>1. log' = log
    BY <1>2 DEF WriteRow
  <2>2. \/ run'[r].pc \in Working \cup {"fail"}
        \/ run'[r].pc = "died" /\ mishaps' = mishaps + 1
    BY <1>2, WriteGoes DEF Working, Steps
  <2> QED BY <1>2, <2>1, <2>2, WriteGoes DEF Course, Working, Steps
<1>3. CASE Mishap(r)
  <2>1. run[r].pc \in Steps /\ log' = log
    BY <1>3 DEF Mishap, InFlight, database
  <2> QED BY <1>3, <2>1, MishapGoes DEF Course, Mishap
<1>4. CASE CreateSyncLog(r)
  <2>1. run[r].pc = "createLog" /\ log' = [log EXCEPT ![r] = "running"]
    BY <1>4 DEF CreateSyncLog, At
  <2>2. PICK next \in RunState : next = [run[r] EXCEPT !.pc = "stock"] /\ Answer(r, next)
    BY <1>4, WritersNext
  <2>3. next.pc = "stock"
    BY <2>2 DEF TypeInv, SyncTypeOK, RunState
  <2>4. Catch(run[r].pc) = "threw"
    BY <2>1 DEF Catch
  <2> QED BY <2>1, <2>2, <2>3, <2>4, AnswerGoes DEF Course
<1>5. CASE UpdateSyncLog(r)
  <2>1. PICK next \in RunState :
          /\ next = [run[r] EXCEPT !.pc = IF At(r, "fail") THEN "threw" ELSE "completed"]
          /\ Answer(r, next)
    BY <1>5, WritersNext
  <2>2. next.pc = IF At(r, "fail") THEN "threw" ELSE "completed"
    BY <2>1 DEF TypeInv, SyncTypeOK, RunState
  <2>3. \/ run'[r].pc = next.pc
        \/ run'[r].pc \in {"died", Catch(run[r].pc)} /\ mishaps' = mishaps + 1
    BY <2>1, AnswerGoes
  <2>4. CASE At(r, "fail") /\ log' = [log EXCEPT ![r] = "failed"]
    <3>1. Catch(run[r].pc) = "threw"
      BY <2>4 DEF At, Catch
    <3> QED BY <2>1, <2>2, <2>3, <2>4, <3>1, AnswerGoes DEF Course, At
  <2>5. CASE At(r, "succeed") /\ log' = [log EXCEPT ![r] = "success"]
    <3>1. Catch(run[r].pc) = "fail" /\ next.pc = "completed"
      BY <2>2, <2>5 DEF At, Catch
    <3> QED BY <2>1, <2>3, <2>5, <3>1, AnswerGoes DEF Course, At
  <2> QED BY <1>5, <2>4, <2>5 DEF UpdateSyncLog
<1>6. CASE DeleteMetric(r) \/ InsertMetric(r)
  <2>1. run[r].pc \in {"delete", "insert"} /\ log' = log
    BY <1>6 DEF DeleteMetric, InsertMetric, At
  <2>2. Catch(run[r].pc) = "fail"
    BY <2>1 DEF Catch
  <2>3. PICK next \in RunState : next.pc \in {"insert", "succeed", "delete"} /\ Answer(r, next)
    BY <1>6, MetricsNext
  <2> QED BY <2>1, <2>2, <2>3, AnswerGoes DEF Course, Working, Steps
<1> QED BY <1>1, <1>2, <1>3, <1>4, <1>5, <1>6 DEF Step, RunStep, Quiet

-----------------------------------------------------------------------------
(* The log.                                                                *)

\* What the log of a run says, and at which step.
Logged(r) ==
  /\ run[r].pc \in {"idle", "createLog"} => log[r] = "none"
  /\ run[r].pc \in Working => log[r] = "running"
  /\ run[r].pc = "completed" => log[r] = "success"
  /\ log[r] = "success" =>
       \/ run[r].pc \in {"completed", "died"}
       \/ run[r].pc = "fail" /\ mishaps > 0
       \/ run[r].pc = "threw" /\ mishaps > 1
  /\ log[r] = "failed" => run[r].pc \in {"threw", "died"}

LogInv == \A r \in Run : Logged(r)

LEMMA LogOfOneRun ==
  ASSUME TypeInv, LogInv, NEW r \in Run, Course(r)
  PROVE  Logged(r)'
<1>1. /\ log \in [Run -> {"none", "running", "success", "failed"}] /\ mishaps \in Nat
      /\ run[r].pc \in {"idle", "completed", "threw", "died"} \cup Steps
  BY DEF TypeInv, SyncTypeOK, RunState
<1>2. Logged(r)
  BY DEF LogInv
<1>3. CASE Goes(r, "idle", "createLog") /\ log' = log
  BY <1>1, <1>2, <1>3 DEF Goes, Logged, Working, Steps
<1>4. CASE run[r].pc \in Working /\ run'[r].pc \in Working \cup {"fail"} /\ log' = log
  BY <1>1, <1>2, <1>4 DEF Logged, Working, Steps
<1>5. CASE /\ run[r].pc = "createLog" /\ run'[r].pc \in {"stock", "threw", "died"}
           /\ log' = [log EXCEPT ![r] = "running"]
  BY <1>1, <1>5 DEF Logged, Working, Steps
<1>6. CASE /\ run[r].pc = "succeed" /\ log' = [log EXCEPT ![r] = "success"]
           /\ \/ run'[r].pc = "completed"
              \/ run'[r].pc \in {"fail", "died"} /\ mishaps' = mishaps + 1
  BY <1>1, <1>6 DEF Logged, Working, Steps
<1>7. CASE /\ run[r].pc = "fail" /\ run'[r].pc \in {"threw", "died"}
           /\ log' = [log EXCEPT ![r] = "failed"]
  BY <1>1, <1>7 DEF Logged, Working, Steps
<1>8. CASE /\ run[r].pc \in Steps /\ run'[r].pc \in {"died", Catch(run[r].pc)}
           /\ log' = log /\ mishaps' = mishaps + 1
  BY <1>1, <1>2, <1>8 DEF Logged, Working, Steps, Catch
<1> QED BY <1>3, <1>4, <1>5, <1>6, <1>7, <1>8 DEF Course

LEMMA MishapsGrow ==
  ASSUME NEW r \in Run, Step(r)
  PROVE  mishaps' \in {mishaps, mishaps + 1}
<1>1. \A next : Answer(r, next) => mishaps' \in {mishaps, mishaps + 1}
  BY DEF Answer, MishapOf
<1>2. CASE WriteRow(r)
  BY <1>1, <1>2 DEF WriteRow, NextRow
<1>3. CASE CreateSyncLog(r) \/ UpdateSyncLog(r) \/ DeleteMetric(r) \/ InsertMetric(r)
  BY <1>1, <1>3 DEF CreateSyncLog, UpdateSyncLog, DeleteMetric, InsertMetric
<1>4. CASE Mishap(r)
  BY <1>4 DEF Mishap, MishapOf
<1>5. CASE Quiet(r)
  BY <1>5 DEF Quiet, StartRun, FetchStockItems, FetchChannelSkus, UpsertProducts, FindRow,
       SearchPage, SearchLastPage, FetchOrderItems
<1> QED BY <1>2, <1>3, <1>4, <1>5 DEF Step, RunStep, Quiet

LEMMA LogStep == TypeInv /\ LogInv /\ [SyncNext]_syncVars => LogInv'
<1> SUFFICES ASSUME TypeInv, LogInv, [SyncNext]_syncVars PROVE LogInv'
  OBVIOUS
<1>1. ASSUME NEW r \in Run, Step(r) PROVE LogInv'
  <2>1. Course(r) /\ \A q \in Run \ {r} : run'[q] = run[q]
    BY <1>1, RunsCourse
  <2>2. \A q \in Run \ {r} : log'[q] = log[q]
    BY <2>1 DEF Course, TypeInv, SyncTypeOK
  <2>3. mishaps \in Nat /\ mishaps' \in Nat /\ mishaps' >= mishaps
    <3>1. mishaps \in Nat
      BY DEF TypeInv, SyncTypeOK
    <3>2. mishaps' \in {mishaps, mishaps + 1}
      BY <1>1, MishapsGrow
    <3> QED BY <3>1, <3>2
  <2>4. ASSUME NEW q \in Run \ {r} PROVE Logged(q)'
    BY <2>1, <2>2, <2>3, <2>4 DEF LogInv, Logged
  <2> QED BY <2>1, <2>4, LogOfOneRun DEF LogInv
<1>2. CASE StockChanges
  BY <1>2 DEF StockChanges, database, LogInv, Logged
<1>3. CASE UNCHANGED syncVars
  BY <1>3 DEF syncVars, LogInv, Logged
<1> QED BY <1>1, <1>2, <1>3 DEF SyncNext, Step

-----------------------------------------------------------------------------
(* The rows of the catalogue.                                              *)

\* What the step of a run tells of the rows: those before its place are
\* there, and the one it has found stays where it was.
Rowed(r) ==
  /\ run[r].pc = "write" =>
       run[r].existing = 0 \/ run[r].existing \in DOMAIN table[run[r].place]
  /\ run[r].pc \in {"find", "write"} =>
       \A i \in Place : i < run[r].place => table[i] # <<>>
  /\ (run[r].pc \in RowsDone \/ log[r] = "success") => \A i \in Place : table[i] # <<>>

RowInv == \A r \in Run : Rowed(r)

\* A run has written the row at its place.
RowWritten(r) ==
  LET p == run[r].place
  IN  /\ p \in Place
      /\ \A i \in Place \ {p} : table'[i] = table[i]
      /\ \/ /\ run[r].existing \in 1 .. Len(table[p])
            /\ Len(table'[p]) = Len(table[p])
            /\ \A k \in 1 .. Len(table[p]) :
                 table'[p][k] = IF k = run[r].existing THEN run[r].seen ELSE table[p][k]
         \/ /\ run[r].existing = 0 /\ MayCreate(r)
            /\ Len(table'[p]) = Len(table[p]) + 1
            /\ \A k \in 1 .. Len(table[p]) : table'[p][k] = table[p][k]
            /\ table'[p][Len(table[p]) + 1] = run[r].seen

LEMMA WriteWrites ==
  ASSUME TypeInv, RowInv, NEW r \in Run, WriteRow(r)
  PROVE  RowWritten(r) \/ (table' = table /\ run'[r].pc = "fail")
<1> DEFINE p == run[r].place
           old == table[p]
           seen == run[r].seen
<1>1. /\ run[r] \in RunState /\ run[r].pc = "write" /\ p \in Place
      /\ seen \in 0 .. MaxChanges /\ table \in [Place -> Seq(0 .. MaxChanges)]
  <2>1. run[r] \in RunState /\ Placed(run[r]) /\ run[r].pc = "write"
    BY DEF TypeInv, SyncTypeOK, WriteRow, At
  <2> QED BY <2>1, RowsLength DEF TypeInv, SyncTypeOK, RunState, Placed, Place
<1>2. old \in Seq(0 .. MaxChanges) /\ DOMAIN old = 1 .. Len(old)
  BY <1>1, LenProperties
<1>3. run[r].existing = 0 \/ run[r].existing \in 1 .. Len(old)
  BY <1>1, <1>2 DEF RowInv, Rowed
<1>4. CASE run[r].existing # 0 /\ table' = [table EXCEPT ![p][run[r].existing] = seen]
  <2>1. table'[p] = [old EXCEPT ![run[r].existing] = seen]
        /\ \A i \in Place \ {p} : table'[i] = table[i]
    BY <1>1, <1>4
  <2>2. /\ Len([old EXCEPT ![run[r].existing] = seen]) = Len(old)
        /\ \A k \in 1 .. Len(old) :
             [old EXCEPT ![run[r].existing] = seen][k] = IF k = run[r].existing THEN seen ELSE old[k]
    BY <1>1, <1>2, <1>3, <1>4, ExceptSeq
  <2> QED BY <1>1, <1>3, <1>4, <2>1, <2>2 DEF RowWritten
<1>5. CASE /\ run[r].existing = 0 /\ MayCreate(r)
           /\ table' = [table EXCEPT ![p] = Append(@, seen)]
  <2>1. table'[p] = Append(old, seen) /\ \A i \in Place \ {p} : table'[i] = table[i]
    BY <1>1, <1>5
  <2>2. /\ Len(Append(old, seen)) = Len(old) + 1
        /\ \A k \in 1 .. Len(old) : Append(old, seen)[k] = old[k]
        /\ Append(old, seen)[Len(old) + 1] = seen
    BY <1>1, <1>2, AppendProperties
  <2> QED BY <1>1, <1>5, <2>1, <2>2 DEF RowWritten
<1>6. CASE Throw(r) /\ UNCHANGED table
  <2>1. Catch(run[r].pc) = "fail"
    BY <1>1 DEF Catch
  <2>2. run \in [Run -> RunState]
    BY DEF TypeInv, SyncTypeOK
  <2> QED BY <1>6, <2>1, <2>2 DEF Throw, Proceed, RunState
<1> QED BY <1>4, <1>5, <1>6 DEF WriteRow

\* Only WriteRow writes rows, and none goes away.
LEMMA OnlyWriteRow ==
  ASSUME NEW r \in Run, Step(r), ~WriteRow(r)
  PROVE  table' = table
BY DEF Step, RunStep, StartRun, Mishap, CreateSyncLog, UpdateSyncLog, FetchStockItems,
       FetchChannelSkus, UpsertProducts, FindRow, SearchPage, SearchLastPage, FetchOrderItems,
       DeleteMetric, InsertMetric, database

LEMMA SeqOfRows ==
  ASSUME TypeInv, NEW i \in Place
  PROVE  /\ table[i] \in Seq(0 .. MaxChanges) /\ Len(table[i]) \in Nat
         /\ DOMAIN table[i] = 1 .. Len(table[i])
         /\ (table[i] = <<>>) <=> Len(table[i]) = 0
<1>1. table[i] \in Seq(0 .. MaxChanges)
  BY DEF TypeInv, SyncTypeOK
<1> QED BY <1>1, LenProperties, EmptySeq

LEMMA RowsGrow ==
  ASSUME TypeInv, TypeInv', RowInv, NEW r \in Run, Step(r), NEW i \in Place
  PROVE  /\ Len(table[i]) \in Nat /\ Len(table'[i]) \in Nat
         /\ Len(table'[i]) >= Len(table[i])
         /\ DOMAIN table[i] \subseteq DOMAIN table'[i]
         /\ table[i] # <<>> => table'[i] # <<>>
         /\ WriteRow(r) /\ run'[r].pc # "fail" /\ i = run[r].place => table'[i] # <<>>
<1>1. table' \in [Place -> Seq(0 .. MaxChanges)]
  BY DEF TypeInv, SyncTypeOK
<1>2. /\ table'[i] \in Seq(0 .. MaxChanges) /\ Len(table'[i]) \in Nat
      /\ DOMAIN table'[i] = 1 .. Len(table'[i])
      /\ (table'[i] = <<>>) <=> Len(table'[i]) = 0
  BY <1>1, LenProperties, EmptySeq
<1>3. CASE table' = table
  <2>1. ASSUME WriteRow(r), run'[r].pc # "fail", i = run[r].place PROVE table'[i] # <<>>
    BY <1>2, <1>3, <2>1, SeqOfRows, WriteWrites DEF RowWritten
  <2> QED BY <1>2, <1>3, <2>1, SeqOfRows
<1>4. CASE RowWritten(r)
  <2>1. CASE i # run[r].place
    <3>1. table'[i] = table[i]
      BY <1>4, <2>1 DEF RowWritten
    <3> QED BY <1>2, <2>1, <3>1, SeqOfRows
  <2>2. CASE i = run[r].place
    <3>1. /\ Len(table'[i]) \in {Len(table[i]), Len(table[i]) + 1}
          /\ Len(table'[i]) > 0 /\ Len(table'[i]) >= Len(table[i])
      <4>1. \/ run[r].existing \in 1 .. Len(table[i]) /\ Len(table'[i]) = Len(table[i])
            \/ Len(table'[i]) = Len(table[i]) + 1
        BY <1>4, <2>2 DEF RowWritten
      <4>2. Len(table[i]) \in Nat
        BY SeqOfRows
      <4> HIDE DEF RowWritten
      <4> QED BY <4>1, <4>2
    <3>2. DOMAIN table[i] \subseteq DOMAIN table'[i]
      BY <1>2, <3>1, SeqOfRows
    <3> QED BY <1>2, <3>1, <3>2, SeqOfRows
  <2> QED BY <2>1, <2>2
<1> QED BY <1>3, <1>4, OnlyWriteRow, WriteWrites

\* The steps between reading the stock and the last row.
Catalogue == {"channels", "products", "find", "write"}

\* What the log and mishaps lead to.
LEMMA LogGoes ==
  ASSUME TypeInv, NEW r \in Run, CreateSyncLog(r) \/ UpdateSyncLog(r) \/ Mishap(r)
  PROVE  /\ run'[r].pc \in {"stock", "completed", "threw", "died", "fail"}
         /\ run'[r].pc = "stock" => run[r].pc = "createLog"
<1>1. run[r] \in RunState
  BY DEF TypeInv, SyncTypeOK
<1>2. CASE CreateSyncLog(r) \/ UpdateSyncLog(r)
  <2>1. PICK next \in RunState :
          /\ next.pc \in {"stock", "completed", "threw"} /\ Answer(r, next)
          /\ next.pc = "stock" => run[r].pc = "createLog"
    <3>1. CASE CreateSyncLog(r)
      <4>1. PICK next \in RunState : next = [run[r] EXCEPT !.pc = "stock"] /\ Answer(r, next)
        BY <3>1, WritersNext
      <4>2. next.pc = "stock"
        BY <1>1, <4>1 DEF RunState
      <4>3. run[r].pc = "createLog"
        BY <3>1 DEF CreateSyncLog, At
      <4> QED BY <4>1, <4>2, <4>3
    <3>2. CASE UpdateSyncLog(r)
      <4>1. PICK next \in RunState :
              /\ next = [run[r] EXCEPT !.pc = IF At(r, "fail") THEN "threw" ELSE "completed"]
              /\ Answer(r, next)
        BY <3>2, WritersNext
      <4>2. next.pc \in {"threw", "completed"}
        BY <1>1, <4>1 DEF RunState
      <4> QED BY <4>1, <4>2
    <3> QED BY <1>2, <3>1, <3>2
  <2> QED BY <2>1, AnswerGoes, CatchType
<1>3. CASE Mishap(r)
  BY <1>3, MishapGoes, CatchType DEF Mishap
<1> QED BY <1>2, <1>3

\* The steps until it has read the stock.
Reading == {"idle", "createLog", "stock"}

\* The other steps do not lead to the catalogue.
LEMMA OthersGo ==
  ASSUME TypeInv, NEW r \in Run, Step(r), ~Quiet(r), ~WriteRow(r)
  PROVE  /\ run'[r].pc \in RowsDone => run[r].pc \in RowsDone
         /\ run'[r].pc \notin Catalogue
         /\ run'[r].pc \in Reading => run[r].pc \in Reading
         /\ log'[r] = "success" => log[r] = "success" \/ run[r].pc \in RowsDone
<1>1. log \in [Run -> {"none", "running", "success", "failed"}]
  BY DEF TypeInv, SyncTypeOK
<1>2. CASE DeleteMetric(r) \/ InsertMetric(r)
  <2>1. run[r].pc \in {"delete", "insert"} /\ log' = log
    BY <1>2 DEF DeleteMetric, InsertMetric, At
  <2>2. run'[r].pc \notin Catalogue \cup Reading
    <3>1. PICK next \in RunState : next.pc \in {"insert", "succeed", "delete"} /\ Answer(r, next)
      BY <1>2, MetricsNext
    <3>2. Catch(run[r].pc) = "fail"
      BY <2>1 DEF Catch
    <3> QED BY <3>1, <3>2, AnswerGoes DEF Catalogue, Reading
  <2> QED BY <2>1, <2>2 DEF RowsDone
<1>3. CASE CreateSyncLog(r) \/ UpdateSyncLog(r) \/ Mishap(r)
  <2>1. log'[r] = "success" => log[r] = "success" \/ run[r].pc = "succeed"
    BY <1>1, <1>3 DEF CreateSyncLog, UpdateSyncLog, Mishap, database, At
  <2> QED BY <1>3, <2>1, LogGoes DEF RowsDone, Catalogue, Reading
<1> QED BY <1>2, <1>3 DEF Step, RunStep, Quiet

LEMMA RowsOfOneRun ==
  ASSUME TypeInv, TypeInv', LogInv, RowInv, NEW r \in Run, Step(r)
  PROVE  Rowed(r)'
<1>1. /\ run[r] \in RunState /\ Placed(run[r]) /\ Rowed(r) /\ Logged(r)
      /\ run \in [Run -> RunState] /\ log \in [Run -> {"none", "running", "success", "failed"}]
  BY DEF TypeInv, SyncTypeOK, RowInv, LogInv
<1>2. \A i \in Place : table[i] # <<>> => table'[i] # <<>>
  BY RowsGrow
<1>3. CASE Quiet(r) /\ ~FindRow(r) /\ ~UpsertProducts(r)
  <2>1. /\ run'[r].pc \in RowsDone => run[r].pc \in RowsDone
        /\ run'[r].pc \notin {"find", "write"} /\ log' = log
    BY <1>1, <1>3, QuietGoes, QuietMoves DEF Goes, RowsDone
  <2> QED BY <1>1, <1>2, <2>1 DEF Rowed
<1>4. CASE UpsertProducts(r)
  <2>1. /\ run[r].pc = "products" /\ run'[r].pc = "find" /\ log' = log
        /\ run'[r].place = run[r].place
    BY <1>1, <1>4 DEF UpsertProducts, At, Proceed, RunState, database
  <2>2. run'[r].place = 1
    BY <1>1, <2>1 DEF Placed, Early
  <2> QED BY <1>1, <1>2, <2>1, <2>2 DEF Rowed, RowsDone, Place
<1>5. CASE FindRow(r)
  <2>1. PICK k \in IF RowsAt(r) = <<>> THEN {0} ELSE DOMAIN RowsAt(r) :
          run' = [run EXCEPT ![r].existing = k, ![r].pc = "write"]
    BY <1>5 DEF FindRow
  <2>2. run[r].pc = "find" /\ log' = log /\ table' = table
    BY <1>5 DEF FindRow, At, database
  <2>3. run'[r].pc = "write" /\ run'[r].existing = k /\ run'[r].place = run[r].place
    BY <1>1, <2>1 DEF RunState
  <2>4. k = 0 \/ k \in DOMAIN table[run[r].place]
    BY <2>1 DEF RowsAt
  <2> QED BY <1>1, <2>2, <2>3, <2>4 DEF Rowed, RowsDone
<1>6. CASE WriteRow(r)
  <2>1. run[r].pc = "write" /\ log' = log
    BY <1>6 DEF WriteRow, At
  <2>2. CASE run'[r].pc \in {"died", "fail"}
    BY <1>1, <1>2, <2>1, <2>2 DEF Rowed, RowsDone
  <2>3. CASE /\ run'[r].pc = IF run[r].place < Len(Rows) THEN "find" ELSE "search"
             /\ run'[r].place = run[r].place + 1
    <3>1. table'[run[r].place] # <<>> /\ run[r].place \in Place
      <4>1. run[r].place \in Place
        BY <1>1, <2>1, RowsLength DEF Placed, RunState, Place
      <4> QED BY <1>6, <2>3, <4>1, RowsGrow
    <3>2. \A i \in Place : i <= run[r].place => table'[i] # <<>>
      BY <1>1, <1>2, <2>1, <3>1 DEF Rowed, Place
    <3>3. CASE run[r].place < Len(Rows)
      <4>1. run'[r].pc = "find" /\ log'[r] = log[r]
        BY <2>1, <2>3, <3>3
      <4>2. \A i \in Place : i < run'[r].place => table'[i] # <<>>
        <5>1. run[r].place \in Int
          BY <3>1 DEF Place
        <5>2. \A i \in Place : i \in Int /\ (i < run[r].place + 1 <=> i <= run[r].place)
          BY <5>1 DEF Place
        <5> QED BY <2>3, <3>2, <5>2
      <4>3. log[r] = "success" => \A i \in Place : table'[i] # <<>>
        BY <1>1, <1>2 DEF Rowed
      <4> QED BY <4>1, <4>2, <4>3 DEF Rowed, RowsDone
    <3>4. CASE ~(run[r].place < Len(Rows))
      <4>1. run'[r].pc = "search" /\ \A i \in Place : table'[i] # <<>>
        BY <2>3, <3>1, <3>2, <3>4, RowsLength DEF Place
      <4> QED BY <4>1 DEF Rowed
    <3> QED BY <3>3, <3>4
  <2> QED BY <1>6, <2>2, <2>3, WriteGoes
<1>7. CASE ~Quiet(r) /\ ~WriteRow(r)
  BY <1>1, <1>2, <1>7, OthersGo DEF Rowed, Catalogue
<1> QED BY <1>3, <1>4, <1>5, <1>6, <1>7

LEMMA RowStep == TypeInv /\ TypeInv' /\ LogInv /\ RowInv /\ [SyncNext]_syncVars => RowInv'
<1> SUFFICES ASSUME TypeInv, TypeInv', LogInv, RowInv, [SyncNext]_syncVars PROVE RowInv'
  OBVIOUS
<1>1. ASSUME NEW r \in Run, Step(r) PROVE RowInv'
  <2>1. Course(r) /\ \A q \in Run \ {r} : run'[q] = run[q]
    BY <1>1, RunsCourse
  <2>2. \A q \in Run \ {r} : log'[q] = log[q]
    BY <2>1 DEF Course, TypeInv, SyncTypeOK
  <2>3. \A i \in Place : /\ table[i] # <<>> => table'[i] # <<>>
                         /\ DOMAIN table[i] \subseteq DOMAIN table'[i]
    BY <1>1, RowsGrow
  <2>4. ASSUME NEW q \in Run \ {r} PROVE Rowed(q)'
    <3>1. Rowed(q) /\ Placed(run[q]) /\ run[q] \in RunState
      BY DEF RowInv, TypeInv, SyncTypeOK
    <3>2. run[q].pc = "write" => run[q].place \in Place
      BY <3>1, RowsLength DEF Placed, RunState, Place
    <3>3. run'[q] = run[q] /\ log'[q] = log[q]
      BY <2>1, <2>2
    <3> QED BY <2>3, <3>1, <3>2, <3>3 DEF Rowed
  <2> QED BY <1>1, <2>4, RowsOfOneRun DEF RowInv
<1>2. CASE StockChanges
  BY <1>2 DEF StockChanges, database, RowInv, Rowed
<1>3. CASE UNCHANGED syncVars
  BY <1>3 DEF syncVars, RowInv, Rowed
<1> QED BY <1>1, <1>2, <1>3 DEF SyncNext, Step

LEMMA InitLogAndRows == SyncInit => LogInv /\ RowInv
<1> SUFFICES ASSUME SyncInit PROVE LogInv /\ RowInv
  OBVIOUS
<1>1. \A r \in Run : run[r].pc = "idle" /\ log[r] = "none"
  BY DEF SyncInit, Idle
<1> QED BY <1>1 DEF LogInv, Logged, RowInv, Rowed, Working, Steps, RowsDone

\* The log says SUCCESS of every run that was answered COMPLETED and only of
\* runs that have written all rows; it says FAILED only of runs that ended
\* without an answer or with an exception; a caller with an exception and a log
\* with SUCCESS take two mishaps.  For any number of runs and mishaps.
THEOREM LogTells == SyncSpec => []LogTellsOutcome
<1>1. SyncInit => TypeInv /\ LogInv /\ RowInv
  BY InitTypes, InitLogAndRows
<1>2. TypeInv /\ LogInv /\ RowInv /\ [SyncNext]_syncVars => (TypeInv /\ LogInv /\ RowInv)'
  BY StepTypes, LogStep, RowStep
<1>3. LogInv /\ RowInv => LogTellsOutcome
  BY DEF LogInv, Logged, RowInv, Rowed, LogTellsOutcome, At
<1> QED BY <1>1, <1>2, <1>3, PTL DEF SyncSpec

-----------------------------------------------------------------------------
(* Rows, and quantities, of runs that meet and of others.                  *)

\* While no two runs have met there is one at work at most; when it has found
\* no row there is none.
Alone(r) ==
  /\ run[r].pc \in Steps => \A q \in Run \ {r} : run[q].pc \notin Steps
  /\ run[r].pc = "write" /\ run[r].existing = 0 => table[run[r].place] = <<>>

OneInv ==
  /\ \A i \in Place : Rows[i] => Len(table[i]) <= 1
  /\ met = {} => /\ \A r \in Run : Alone(r)
                 /\ \A i \in Place : Len(table[i]) <= 1

QuantityInv ==
  /\ \A i \in Place : \A k \in DOMAIN table[i] : table[i][k] <= quantity
  /\ \A r \in Run : run[r].seen <= quantity

LEMMA SeenAndMet ==
  ASSUME TypeInv, NEW r \in Run, Step(r)
  PROVE  /\ quantity' = quantity
         /\ FetchStockItems(r) => run'[r].seen = quantity
         /\ ~FetchStockItems(r) => run'[r].seen = run[r].seen
         /\ StartRun(r) => met' = met \cup {{q, r} : q \in InFlight}
         /\ ~StartRun(r) => met' = met
<1>1. run \in [Run -> RunState] /\ run[r] \in RunState
  BY DEF TypeInv, SyncTypeOK
<1> DEFINE Kept == run'[r].seen = run[r].seen
<1>2. ASSUME StartRun(r) \/ FetchChannelSkus(r) \/ UpsertProducts(r) PROVE Kept
  <2>1. PICK step : Proceed(r, step)
    BY <1>2 DEF StartRun, FetchChannelSkus, UpsertProducts
  <2> QED BY <1>1, <2>1 DEF Proceed, RunState
<1>3. ASSUME ~StartRun(r) PROVE quantity' = quantity /\ met' = met
  BY <1>3 DEF Step, RunStep, Mishap, CreateSyncLog, UpdateSyncLog, FetchStockItems,
     FetchChannelSkus, UpsertProducts, FindRow, WriteRow, SearchPage, SearchLastPage,
     FetchOrderItems, DeleteMetric, InsertMetric, world
<1>4. ASSUME FetchStockItems(r) PROVE run'[r].seen = quantity
  BY <1>1, <1>4 DEF FetchStockItems, StockNow, RunState
<1>5. ASSUME MishapOf(r) PROVE Kept
  BY <1>1, <1>5 DEF MishapOf, Throw, Proceed, RunState
<1>6. ASSUME NEW next, next.seen = run[r].seen, Answer(r, next) PROVE Kept
  BY <1>1, <1>5, <1>6 DEF Answer
<1>7. ASSUME CreateSyncLog(r) PROVE Kept
  <2>1. PICK next \in RunState : next = [run[r] EXCEPT !.pc = "stock"] /\ Answer(r, next)
    BY <1>7, WritersNext
  <2>2. next.seen = run[r].seen
    BY <1>1, <2>1 DEF RunState
  <2>3. Answer(r, next)
    BY <2>1
  <2> QED BY <1>6, <2>2, <2>3
<1>8. ASSUME UpdateSyncLog(r) PROVE Kept
  <2>1. PICK next \in RunState :
          /\ next = [run[r] EXCEPT !.pc = IF At(r, "fail") THEN "threw" ELSE "completed"]
          /\ Answer(r, next)
    BY <1>8, WritersNext
  <2>2. next.seen = run[r].seen
    BY <1>1, <2>1 DEF RunState
  <2>3. Answer(r, next)
    BY <2>1
  <2> QED BY <1>6, <2>2, <2>3
<1>9. ASSUME WriteRow(r) PROVE Kept
  <2>1. CASE NextRow(r)
    <3>1. PICK next \in RunState :
            /\ next = [run[r] EXCEPT !.place = @ + 1, !.existing = 0,
                         !.pc = IF run[r].place < Len(Rows) THEN "find" ELSE "search"]
            /\ Answer(r, next)
      BY <1>9, <2>1, WritersNext DEF WriteRow
    <3>2. next.seen = run[r].seen
      BY <1>1, <3>1 DEF RunState
    <3>3. Answer(r, next)
      BY <3>1
    <3> QED BY <1>6, <3>2, <3>3
  <2>2. CASE Throw(r)
    BY <1>1, <2>2 DEF Throw, Proceed, RunState
  <2> QED BY <1>9, <2>1, <2>2 DEF WriteRow
<1>10. ASSUME DeleteMetric(r) PROVE Kept
  <2>1. PICK next \in RunState : next = [run[r] EXCEPT !.pc = "insert"] /\ Answer(r, next)
    BY <1>10, WritersNext
  <2>2. next.seen = run[r].seen
    BY <1>1, <2>1 DEF RunState
  <2>3. Answer(r, next)
    BY <2>1
  <2> QED BY <1>6, <2>2, <2>3
<1>11. ASSUME InsertMetric(r) PROVE Kept
  <2>1. PICK next \in RunState :
          /\ next = [run[r] EXCEPT !.left = @ \ {Period(r)},
                       !.pc = IF run[r].left = {Period(r)} THEN "succeed" ELSE "delete"]
          /\ Answer(r, next)
    BY <1>11, WritersNext
  <2>2. next.seen = run[r].seen
    BY <1>1, <2>1 DEF RunState
  <2>3. Answer(r, next)
    BY <2>1
  <2> QED BY <1>6, <2>2, <2>3
<1>12. ASSUME FindRow(r) PROVE Kept
  BY <1>1, <1>12 DEF FindRow, RunState
<1>13. ASSUME SearchPage(r) PROVE Kept
  BY <1>1, <1>13 DEF SearchPage, RunState
<1>14. ASSUME SearchLastPage(r) PROVE Kept
  BY <1>1, <1>14 DEF SearchLastPage, RunState
<1>15. ASSUME FetchOrderItems(r) PROVE Kept
  BY <1>1, <1>15 DEF FetchOrderItems, RunState
<1>16. ~FetchStockItems(r) => Kept
  BY <1>2, <1>5, <1>7, <1>8, <1>9, <1>10, <1>11, <1>12, <1>13, <1>14, <1>15
     DEF Step, RunStep, Mishap
<1>17. StartRun(r) => quantity' = quantity /\ met' = met \cup {{q, r} : q \in InFlight}
  BY DEF StartRun
<1> QED BY <1>3, <1>4, <1>16, <1>17

LEMMA RowLengths ==
  ASSUME TypeInv, TypeInv', RowInv, NEW r \in Run, Step(r), NEW i \in Place
  PROVE  /\ Len(table[i]) \in Nat
         /\ \/ Len(table'[i]) = Len(table[i])
            \/ /\ Len(table'[i]) = Len(table[i]) + 1
               /\ run[r].pc = "write" /\ run[r].existing = 0 /\ run[r].place = i
               /\ Len(table[i]) = 0 \/ ~Rows[i]
<1>1. Len(table[i]) \in Nat /\ (table[i] = <<>> <=> Len(table[i]) = 0)
  BY SeqOfRows
<1>2. CASE table' = table
  BY <1>1, <1>2
<1>3. CASE RowWritten(r) /\ WriteRow(r)
  <2>1. run[r].pc = "write"
    BY <1>3 DEF WriteRow, At
  <2>2. CASE i # run[r].place
    BY <1>1, <1>3, <2>2 DEF RowWritten
  <2>3. CASE i = run[r].place
    <3>1. \/ Len(table'[i]) = Len(table[i])
          \/ Len(table'[i]) = Len(table[i]) + 1 /\ run[r].existing = 0 /\ MayCreate(r)
      BY <1>3, <2>3 DEF RowWritten
    <3>2. MayCreate(r) => table[i] = <<>> \/ ~Rows[i]
      BY <2>3 DEF MayCreate, RowsAt
    <3> QED BY <1>1, <2>1, <2>3, <3>1, <3>2
  <2> QED BY <2>2, <2>3
<1> QED BY <1>2, <1>3, OnlyWriteRow, WriteWrites

\* A quantity stays, or is what a run has read.
LEMMA RowEntries ==
  ASSUME TypeInv, TypeInv', RowInv, NEW r \in Run, Step(r), NEW i \in Place
  PROVE  \A k \in DOMAIN table'[i] :
           /\ table'[i][k] \in Nat
           /\ \/ k \in DOMAIN table[i] /\ table'[i][k] = table[i][k]
              \/ WriteRow(r) /\ table'[i][k] = run[r].seen
<1>1. table'[i] \in Seq(0 .. MaxChanges)
  BY DEF TypeInv, SyncTypeOK
<1>2. \A k \in DOMAIN table'[i] : table'[i][k] \in Nat
  BY <1>1
<1>3. CASE table' = table
  BY <1>2, <1>3
<1>4. CASE RowWritten(r) /\ WriteRow(r)
  <2>1. /\ DOMAIN table'[i] = 1 .. Len(table'[i]) /\ Len(table'[i]) \in Nat
        /\ DOMAIN table[i] = 1 .. Len(table[i]) /\ Len(table[i]) \in Nat
    BY <1>1, LenProperties, SeqOfRows
  <2>2. CASE i # run[r].place
    BY <1>2, <1>4, <2>2 DEF RowWritten
  <2>3. CASE i = run[r].place
    <3>1. CASE /\ Len(table'[i]) = Len(table[i])
               /\ \A k \in 1 .. Len(table[i]) :
                    table'[i][k] = IF k = run[r].existing THEN run[r].seen ELSE table[i][k]
      BY <1>2, <1>4, <2>1, <3>1
    <3>2. CASE /\ Len(table'[i]) = Len(table[i]) + 1
               /\ \A k \in 1 .. Len(table[i]) : table'[i][k] = table[i][k]
               /\ table'[i][Len(table[i]) + 1] = run[r].seen
      BY <1>2, <1>4, <2>1, <3>2
    <3> QED BY <1>4, <2>3, <3>1, <3>2 DEF RowWritten
  <2> QED BY <2>2, <2>3
<1> QED BY <1>3, <1>4, OnlyWriteRow, WriteWrites

LEMMA QuantityStep ==
  TypeInv /\ TypeInv' /\ RowInv /\ QuantityInv /\ [SyncNext]_syncVars => QuantityInv'
<1> SUFFICES ASSUME TypeInv, TypeInv', RowInv, QuantityInv, [SyncNext]_syncVars
             PROVE  QuantityInv'
  OBVIOUS
<1>1. ASSUME NEW r \in Run, Step(r) PROVE QuantityInv'
  <2>1. quantity' = quantity /\ quantity \in Nat /\ run'[r].seen \in {quantity, run[r].seen}
    BY <1>1, SeenAndMet DEF TypeInv, SyncTypeOK
  <2>2. \A q \in Run \ {r} : run'[q] = run[q]
    BY <1>1, RunsCourse
  <2>3. \A q \in Run : run'[q].seen <= quantity
    BY <2>1, <2>2 DEF QuantityInv
  <2>4. ASSUME NEW i \in Place, NEW k \in DOMAIN table'[i] PROVE table'[i][k] <= quantity
    BY <1>1, RowEntries DEF QuantityInv
  <2> QED BY <2>1, <2>3, <2>4 DEF QuantityInv
<1>2. CASE StockChanges
  <2>1. table' = table /\ run' = run /\ quantity' = quantity + 1 /\ quantity \in Nat
    BY <1>2 DEF StockChanges, database, TypeInv, SyncTypeOK
  <2>2. ASSUME NEW i \in Place, NEW k \in DOMAIN table[i] PROVE table[i][k] <= quantity + 1
    <3>1. table[i][k] \in Nat /\ table[i][k] <= quantity
      BY SeqOfRows DEF QuantityInv, TypeInv, SyncTypeOK
    <3> QED BY <2>1, <3>1
  <2>3. ASSUME NEW r \in Run PROVE run[r].seen <= quantity + 1
    <3>1. run[r].seen \in Nat /\ run[r].seen <= quantity
      BY DEF QuantityInv, TypeInv, SyncTypeOK, RunState
    <3> QED BY <2>1, <3>1
  <2> QED BY <2>1, <2>2, <2>3 DEF QuantityInv
<1>3. CASE UNCHANGED syncVars
  BY <1>3 DEF syncVars, QuantityInv
<1> QED BY <1>1, <1>2, <1>3 DEF SyncNext, Step

\* Runs that have not met: the earlier one has ended when the later begins, and
\* has read no newer stock.  A quantity in a row is what some run has read.
AgeInv ==
  /\ \A q, r \in Run : q < r /\ run[r].pc # "idle" /\ {q, r} \notin met
                       => run[q].pc \notin Steps \cup {"idle"}
  /\ \A q, r \in Run : q < r /\ run[r].pc \in Catalogue /\ {q, r} \notin met
                       => run[q].seen <= run[r].seen
  /\ \A i \in Place : \A k \in DOMAIN table[i] :
       \E q \in Run : run[q].pc \notin Reading /\ run[q].seen = table[i][k]

\* Where a step comes from and where it leads.
LEMMA StepGoes ==
  ASSUME TypeInv, NEW r \in Run, Step(r)
  PROVE  /\ run[r].pc \in Steps \cup {"idle"} /\ run'[r].pc # "idle"
         /\ ~StartRun(r) => run[r].pc \in Steps
         /\ run[r].pc \notin Reading => run'[r].pc \notin Reading
         /\ run'[r].pc \in Catalogue => FetchStockItems(r) \/ run[r].pc \in Catalogue
<1>1. ~StartRun(r) => run[r].pc \in Steps
  BY DEF Step, RunStep, Mishap, InFlight, At, Steps, CreateSyncLog, UpdateSyncLog,
     FetchStockItems, FetchChannelSkus, UpsertProducts, FindRow, WriteRow, SearchPage,
     SearchLastPage, FetchOrderItems, DeleteMetric, InsertMetric
<1>2. StartRun(r) => run[r].pc = "idle"
  BY DEF StartRun, At
<1>3. run'[r].pc # "idle"
  BY RunsCourse, CatchType DEF Course, Goes, Working, Steps
<1>4. run[r].pc \notin Reading => run'[r].pc \notin Reading
  <2>1. CASE Quiet(r)
    BY <2>1, QuietGoes DEF Goes, Reading
  <2>2. CASE WriteRow(r)
    BY <2>2, WriteGoes DEF Reading
  <2> QED BY <2>1, <2>2, OthersGo
<1>5. run'[r].pc \in Catalogue => FetchStockItems(r) \/ run[r].pc \in Catalogue
  <2>1. CASE Quiet(r)
    BY <2>1, QuietGoes DEF Goes, Catalogue
  <2>2. CASE WriteRow(r)
    BY <2>2, WriteGoes DEF Catalogue
  <2> QED BY <2>1, <2>2, OthersGo
<1> QED BY <1>1, <1>2, <1>3, <1>4, <1>5

LEMMA AgeOfStep ==
  ASSUME TypeInv, TypeInv', RowInv, QuantityInv, AgeInv, NEW r \in Run, Step(r)
  PROVE  AgeInv'
<1>1. /\ \A q \in Run \ {r} : run'[q] = run[q]
      /\ met \subseteq met'
  BY RunsCourse, SeenAndMet
<1>2. ASSUME NEW q \in Run, NEW p \in Run, q < p, {q, p} \notin met', run'[p].pc # "idle"
      PROVE  run'[q].pc \notin Steps \cup {"idle"} /\ q # r
  <2>1. CASE p = r /\ StartRun(r)
    <3>1. q \notin InFlight
      BY <1>2, <2>1, SeenAndMet
    <3>2. q # r /\ q \in 1 .. r - 1
      BY <1>2, <2>1 DEF Run
    <3>3. run[q].pc # "idle"
      BY <2>1, <3>2 DEF StartRun, At
    <3> QED BY <1>1, <3>1, <3>2, <3>3 DEF InFlight
  <2>2. CASE p = r /\ ~StartRun(r)
    <3>1. run[r].pc # "idle"
      BY <2>2, StepGoes DEF Steps
    <3>2. q # r
      BY <1>2, <2>2 DEF Run
    <3> QED BY <1>1, <1>2, <2>2, <3>1, <3>2 DEF AgeInv
  <2>3. CASE p # r
    <3>1. run[q].pc \notin Steps \cup {"idle"}
      BY <1>1, <1>2, <2>3 DEF AgeInv
    <3> QED BY <1>1, <3>1, StepGoes
  <2> QED BY <2>1, <2>2, <2>3
<1>3. ASSUME NEW q \in Run, NEW p \in Run, q < p, {q, p} \notin met', run'[p].pc \in Catalogue
      PROVE  run'[q].seen <= run'[p].seen
  <2>1. run'[q] = run[q]
    BY <1>1, <1>2, <1>3 DEF Catalogue
  <2>2. CASE FetchStockItems(r) /\ p = r
    BY <2>1, <2>2, SeenAndMet DEF QuantityInv
  <2>3. CASE ~(FetchStockItems(r) /\ p = r)
    <3>1. run[p].pc \in Catalogue /\ run'[p].seen = run[p].seen
      BY <1>1, <1>3, <2>3, SeenAndMet, StepGoes
    <3> QED BY <1>1, <1>3, <2>1, <3>1 DEF AgeInv
  <2> QED BY <2>2, <2>3
<1>4. ASSUME NEW i \in Place, NEW k \in DOMAIN table'[i]
      PROVE  \E q \in Run : run'[q].pc \notin Reading /\ run'[q].seen = table'[i][k]
  <2>1. ASSUME NEW q \in Run, run[q].pc \notin Reading
        PROVE  run'[q].pc \notin Reading /\ run'[q].seen = run[q].seen
    <3>1. FetchStockItems(r) => run[r].pc \in Reading
      BY DEF FetchStockItems, At, Reading
    <3> QED BY <1>1, <2>1, <3>1, SeenAndMet, StepGoes
  <2>2. CASE k \in DOMAIN table[i] /\ table'[i][k] = table[i][k]
    <3>1. PICK q \in Run : run[q].pc \notin Reading /\ run[q].seen = table[i][k]
      BY <2>2 DEF AgeInv
    <3> QED BY <2>1, <2>2, <3>1
  <2>3. CASE WriteRow(r) /\ table'[i][k] = run[r].seen
    <3>1. run[r].pc \notin Reading
      BY <2>3, WriteGoes DEF Reading
    <3> QED BY <2>1, <2>3, <3>1
  <2> QED BY <2>2, <2>3, RowEntries
<1>5. Catalogue \cap {"idle"} = {}
  BY DEF Catalogue
<1> QED BY <1>2, <1>3, <1>4 DEF AgeInv

LEMMA AgeStep ==
  TypeInv /\ TypeInv' /\ RowInv /\ QuantityInv /\ AgeInv /\ [SyncNext]_syncVars => AgeInv'
<1> SUFFICES ASSUME TypeInv, TypeInv', RowInv, QuantityInv, AgeInv, [SyncNext]_syncVars
             PROVE  AgeInv'
  OBVIOUS
<1>1. ASSUME NEW r \in Run, Step(r) PROVE AgeInv'
  BY <1>1, AgeOfStep
<1>2. CASE StockChanges
  BY <1>2 DEF StockChanges, database, AgeInv
<1>3. CASE UNCHANGED syncVars
  BY <1>3 DEF syncVars, AgeInv
<1> QED BY <1>1, <1>2, <1>3 DEF SyncNext, Step

\* A run that works is the only one, if none have met.
LEMMA OnlyOne ==
  ASSUME TypeInv, OneInv, NEW r \in Run, Step(r), met' = {}
  PROVE  met = {} /\ \A q \in Run \ {r} : run[q].pc \notin Steps /\ run'[q] = run[q]
<1>1. met = {}
  BY SeenAndMet
<1>2. \A q \in Run \ {r} : run'[q] = run[q]
  BY RunsCourse
<1>3. CASE StartRun(r)
  <2>1. InFlight = {}
    <3>1. {{q, r} : q \in InFlight} = {}
      BY <1>3, SeenAndMet
    <3> QED BY <3>1
  <2> QED BY <1>1, <1>2, <2>1 DEF InFlight
<1>4. CASE ~StartRun(r)
  BY <1>1, <1>2, <1>4, StepGoes DEF OneInv, Alone
<1> QED BY <1>3, <1>4

LEMMA StaysAlone ==
  ASSUME TypeInv, TypeInv', RowInv, OneInv, NEW r \in Run, Step(r), met' = {}
  PROVE  Alone(r)'
<1>1. /\ run[r] \in RunState /\ run \in [Run -> RunState]
      /\ \A q \in Run \ {r} : run[q].pc \notin Steps /\ run'[q] = run[q]
  BY OnlyOne DEF TypeInv, SyncTypeOK
<1>2. run'[r].pc = "write" /\ run'[r].existing = 0 => table'[run'[r].place] = <<>>
  <2> SUFFICES ASSUME run'[r].pc = "write", run'[r].existing = 0
               PROVE  table'[run'[r].place] = <<>>
    OBVIOUS
  <2>1. FindRow(r)
    <3>1. Quiet(r)
      BY OthersGo, WriteGoes DEF Catalogue
    <3> QED BY <3>1, QuietGoes DEF Goes
  <2>2. PICK k \in IF RowsAt(r) = <<>> THEN {0} ELSE DOMAIN RowsAt(r) :
          run' = [run EXCEPT ![r].existing = k, ![r].pc = "write"]
    BY <2>1 DEF FindRow
  <2>3. run'[r].existing = k /\ run'[r].place = run[r].place
    BY <1>1, <2>2 DEF RunState
  <2>4. run[r].place \in Place
    BY <1>1, <2>1, RowsLength DEF FindRow, At, TypeInv, Placed, RunState, Place
  <2>5. 0 \notin DOMAIN RowsAt(r)
    BY <2>4, SeqOfRows DEF RowsAt
  <2>6. RowsAt(r) = <<>>
    BY <2>2, <2>3, <2>5
  <2> QED BY <2>1, <2>3, <2>6 DEF FindRow, RowsAt, database
<1> QED BY <1>1, <1>2 DEF Alone

LEMMA OneStep ==
  TypeInv /\ TypeInv' /\ RowInv /\ OneInv /\ [SyncNext]_syncVars => OneInv'
<1> SUFFICES ASSUME TypeInv, TypeInv', RowInv, OneInv, [SyncNext]_syncVars
             PROVE  OneInv'
  OBVIOUS
<1>1. ASSUME NEW r \in Run, Step(r) PROVE OneInv'
  <2>1. ASSUME NEW i \in Place, Rows[i] PROVE Len(table'[i]) <= 1
    <3>1. Len(table[i]) \in Nat /\ Len(table[i]) <= 1
      BY <2>1, SeqOfRows DEF OneInv
    <3> QED BY <1>1, <2>1, <3>1, RowLengths
  <2>2. ASSUME met' = {}, NEW i \in Place PROVE Len(table'[i]) <= 1
    <3>1. Len(table[i]) \in Nat /\ Len(table[i]) <= 1 /\ Alone(r)
      BY <1>1, <2>2, OnlyOne, SeqOfRows DEF OneInv
    <3>2. run[r].pc = "write" /\ run[r].existing = 0 /\ run[r].place = i => Len(table[i]) = 0
      BY <3>1, SeqOfRows DEF Alone
    <3> QED BY <1>1, <3>1, <3>2, RowLengths
  <2>3. ASSUME met' = {}, NEW q \in Run PROVE Alone(q)'
    <3>1. CASE q = r
      BY <1>1, <2>3, <3>1, StaysAlone
    <3>2. CASE q # r
      <4>1. run'[q].pc \notin Steps
        BY <1>1, <2>3, <3>2, OnlyOne
      <4> QED BY <4>1 DEF Alone, Steps
    <3> QED BY <3>1, <3>2
  <2> QED BY <2>1, <2>2, <2>3 DEF OneInv
<1>2. CASE StockChanges
  BY <1>2 DEF StockChanges, database, OneInv, Alone
<1>3. CASE UNCHANGED syncVars
  BY <1>3 DEF syncVars, OneInv, Alone
<1> QED BY <1>1, <1>2, <1>3 DEF SyncNext, Step

LEMMA ForwardStep ==
  ASSUME TypeInv, TypeInv', RowInv, AgeInv, [SyncNext]_syncVars,
         NEW i \in Place, NEW k \in DOMAIN table[i], table'[i][k] < table[i][k]
  PROVE  \E pair \in met : {run[r].seen : r \in pair} = {table'[i][k], table[i][k]}
<1>1. table[i][k] \in Nat
  BY SeqOfRows DEF TypeInv, SyncTypeOK
<1>2. table' # table
  BY <1>1
<1>3. PICK r \in Run : Step(r)
  BY <1>2 DEF SyncNext, Step, StockChanges, database, syncVars
<1>4. k \in DOMAIN table'[i]
  BY <1>3, RowsGrow
<1>5. table'[i][k] # table[i][k]
  BY <1>1
<1>6. WriteRow(r) /\ table'[i][k] = run[r].seen
  BY <1>3, <1>4, <1>5, RowEntries
<1>7. run[r].pc = "write" /\ run[r].seen \in Nat
  BY <1>6 DEF WriteRow, At, TypeInv, SyncTypeOK, RunState
<1>8. PICK q \in Run : run[q].pc \notin Reading /\ run[q].seen = table[i][k]
  BY DEF AgeInv
<1>9. q # r
  BY <1>5, <1>6, <1>8
<1>10. {q, r} \in met
  <2> SUFFICES ASSUME {q, r} \notin met PROVE FALSE
    OBVIOUS
  <2>1. CASE q < r
    <3>1. run[q].seen <= run[r].seen
      BY <1>7, <2>1 DEF AgeInv, Catalogue
    <3> QED BY <1>1, <1>6, <1>7, <1>8, <3>1
  <2>2. CASE r < q
    <3>1. {r, q} = {q, r}
      OBVIOUS
    <3>2. run[r].pc \notin Steps
      BY <1>8, <2>2, <3>1 DEF AgeInv, Reading
    <3> QED BY <1>7, <3>2 DEF Steps
  <2> QED BY <1>9, <2>1, <2>2 DEF Run
<1>11. {run[x].seen : x \in {q, r}} = {run[r].seen, run[q].seen}
  OBVIOUS
<1>12. {run[x].seen : x \in {q, r}} = {table'[i][k], table[i][k]}
  BY <1>6, <1>8, <1>11
<1> QED BY <1>10, <1>12, Zenon

LEMMA InitOne == SyncInit => QuantityInv /\ OneInv /\ AgeInv
<1> SUFFICES ASSUME SyncInit PROVE QuantityInv /\ OneInv /\ AgeInv
  OBVIOUS
<1>1. \A r \in Run : run[r].pc = "idle" /\ run[r].seen = 0
  BY DEF SyncInit, Idle
<1>2. \A i \in Place : table[i] = <<>> /\ Len(table[i]) = 0 /\ DOMAIN table[i] = {}
  BY DEF SyncInit
<1>3. quantity = 0
  BY DEF SyncInit
<1> QED BY <1>1, <1>2, <1>3 DEF QuantityInv, OneInv, Alone, AgeInv, Steps,
                                   Catalogue

RowsTogether == TypeInv /\ LogInv /\ RowInv /\ QuantityInv /\ OneInv /\ AgeInv

LEMMA RowsTogetherInductive ==
  /\ SyncInit => RowsTogether
  /\ RowsTogether /\ [SyncNext]_syncVars => RowsTogether'
<1>1. SyncInit => RowsTogether
  BY InitTypes, InitLogAndRows, InitOne DEF RowsTogether
<1>2. RowsTogether /\ [SyncNext]_syncVars => RowsTogether'
  BY StepTypes, LogStep, RowStep, QuantityStep, OneStep, AgeStep DEF RowsTogether
<1> QED BY <1>1, <1>2

\* However many runs there are and wherever they are interrupted: only a row
\* whose key has a null can come twice, and only once two runs have met.
THEOREM OneRowEach == SyncSpec => []OneRowPerPlace
<1>1. RowsTogether => OneRowPerPlace
  <2> SUFFICES ASSUME RowsTogether, NEW i \in Place, Len(table[i]) > 1
               PROVE  met # {} /\ ~Rows[i]
    BY DEF OneRowPerPlace
  <2>1. Len(table[i]) \in Nat
    BY SeqOfRows DEF RowsTogether
  <2> QED BY <2>1 DEF RowsTogether, OneInv
<1> QED BY RowsTogetherInductive, <1>1, PTL DEF SyncSpec

\* Whatever the number of runs, of changes of the stock and of mishaps: a newer
\* quantity gives way to an older one only where the two runs that have read them
\* were at work at the same time.
THEOREM StockGoesForward == SyncSpec => StockMovesForward
<1>1. RowsTogether /\ RowsTogether' /\ [SyncNext]_syncVars
      => [\A i \in Place : \A k \in DOMAIN table[i] :
            table'[i][k] < table[i][k]
            => \E pair \in met : {run[r].seen : r \in pair} = {table'[i][k], table[i][k]}]_syncVars
  BY ForwardStep DEF RowsTogether
<1> QED BY RowsTogetherInductive, <1>1, PTL DEF SyncSpec, StockMovesForward

-----------------------------------------------------------------------------
(* The sales: a search finds the orders of its time page by page, the      *)
(* searches of a run find those of the whole year, and the metrics of a    *)
(* successful run count each of them, however many orders, pages, searches *)
(* and other runs there are.  First the pages.                             *)

Rank(hits, o) == Cardinality({p \in hits : p < o})

\* The orders on the pages before this one.
PagesBefore(hits, page) == {o \in hits : Rank(hits, o) < (page - 1) * PageSize}

LEMMA RankBelow ==
  ASSUME NEW hits \in SUBSET Orders, NEW o \in hits
  PROVE  /\ Rank(hits, o) \in Nat /\ Cardinality(hits) \in Nat
         /\ Rank(hits, o) < Cardinality(hits)
<1>1. IsFiniteSet(hits) /\ o \in Nat
  BY FS_Subset
<1> DEFINE below == {p \in hits : p < o}
<1>2. below \in SUBSET hits /\ o \notin below
  BY <1>1
<1>3. /\ IsFiniteSet(below) /\ Cardinality(below) <= Cardinality(hits)
      /\ Cardinality(hits) # Cardinality(below)
  BY <1>1, <1>2, FS_Subset
<1>4. Cardinality(below) \in Nat /\ Cardinality(hits) \in Nat
  BY <1>1, <1>3, FS_CardinalityType
<1> QED BY <1>3, <1>4 DEF Rank

LEMMA NextPage ==
  ASSUME NEW hits \in SUBSET Orders, NEW page \in Nat \ {0}
  PROVE  PagesBefore(hits, page) \cup OnPage(hits, page) = PagesBefore(hits, page + 1)
<1> DEFINE low == (page - 1) * PageSize
           high == page * PageSize
<1>1. low \in Nat /\ high \in Nat /\ low <= high /\ (page + 1 - 1) * PageSize = high
  BY SMTT(30)
<1>2. PagesBefore(hits, page) = {o \in hits : Rank(hits, o) < low}
      /\ PagesBefore(hits, page + 1) = {o \in hits : Rank(hits, o) < high}
  BY <1>1 DEF PagesBefore
<1>3. OnPage(hits, page) = {o \in hits : Rank(hits, o) \in low .. high - 1}
  BY DEF OnPage, Rank
<1>4. \A o \in hits : Rank(hits, o) \in Nat
  BY RankBelow
<1>5. ASSUME NEW n \in Nat
      PROVE  (n < low \/ n \in low .. high - 1) <=> n < high
  <2> HIDE DEF low, high
  <2> QED BY <1>1
<1>6. \A o \in hits : (Rank(hits, o) < low \/ Rank(hits, o) \in low .. high - 1)
                      <=> Rank(hits, o) < high
  <2> HIDE DEF low, high
  <2> QED BY <1>4, <1>5
<1> HIDE DEF low, high
<1> QED BY <1>2, <1>3, <1>6

LEMMA DivisionBelow ==
  ASSUME NEW a \in Nat, NEW b \in Nat \ {0}
  PROVE  a \div b \in Nat /\ a < ((a \div b) + 1) * b
BY SMTT(30)

LEMMA TimesMonotone ==
  ASSUME NEW m \in Nat, NEW n \in Nat, NEW b \in Nat, m <= n
  PROVE  m * b <= n * b /\ (m + 1) * b = m * b + b /\ m * b \in Nat /\ n * b \in Nat
BY SMTT(30)

\* After the last page every hit is on a page before.
LEMMA LastPage ==
  ASSUME NEW hits \in SUBSET Orders, NEW page \in Nat \ {0}, page >= TotalPages(hits)
  PROVE  PagesBefore(hits, page + 1) = hits
<1> DEFINE total == TotalPages(hits)
           c == Cardinality(hits)
<1>1. c \in Nat
  BY FS_Subset, FS_CardinalityType
<1>2. total \in Nat /\ c + PageSize - 1 < (total + 1) * PageSize
  <2>1. c + PageSize - 1 \in Nat
    BY <1>1
  <2> HIDE DEF c
  <2>2. /\ (c + PageSize - 1) \div PageSize \in Nat
        /\ c + PageSize - 1 < (((c + PageSize - 1) \div PageSize) + 1) * PageSize
    BY <2>1, DivisionBelow
  <2> QED BY <2>2 DEF TotalPages, c
<1>3. (total + 1) * PageSize = total * PageSize + PageSize /\ total * PageSize \in Nat
      /\ total * PageSize <= page * PageSize /\ page * PageSize \in Nat
  BY <1>2, TimesMonotone
<1>4. c <= page * PageSize
  <2> HIDE DEF total, c
  <2> QED BY <1>1, <1>2, <1>3
<1>5. page + 1 - 1 = page
  OBVIOUS
<1>6. \A o \in hits : Rank(hits, o) \in Nat /\ Rank(hits, o) < c
  BY RankBelow
<1>7. PagesBefore(hits, page + 1) = {o \in hits : Rank(hits, o) < page * PageSize}
  BY <1>5 DEF PagesBefore
<1>8. \A o \in hits : Rank(hits, o) < page * PageSize
  <2> HIDE DEF c, total
  <2> QED BY <1>1, <1>3, <1>4, <1>6
<1> QED BY <1>7, <1>8

-----------------------------------------------------------------------------
(* Searches.                                                               *)

\* What a run has found when it searches, and that it begins its searches at
\* multiples of their length.
Searched(r) ==
  /\ run[r].pc = "search" =>
       /\ \E n \in Nat : run[r].from = n * Chunk
       /\ run[r].found = {o \in Orders : times[o] < run[r].from}
                         \cup PagesBefore(Hits(r), run[r].page)
  /\ run[r].pc \in {"items", "delete", "insert"} => run[r].found = Orders

SearchInv == \A r \in Run : Searched(r)

\* The year is not made of whole searches: the last one ends beyond it.
NotWholeSearches == \A n \in Nat : n * Chunk # Span

LEMMA TimesType ==
  ASSUME TypeInv, NEW o \in Orders PROVE times[o] \in 0 .. Span
BY DEF TypeInv, SyncTypeOK

LEMMA FirstPage ==
  ASSUME NEW hits \in SUBSET Orders PROVE PagesBefore(hits, 1) = {}
<1>1. (1 - 1) * PageSize = 0
  OBVIOUS
<1>2. \A o \in hits : Rank(hits, o) \in Nat
  BY RankBelow
<1>3. \A o \in hits : ~(Rank(hits, o) < (1 - 1) * PageSize)
  BY <1>1, <1>2
<1> QED BY <1>3 DEF PagesBefore

LEMMA SearchFinds ==
  ASSUME TypeInv, SearchInv, NEW r \in Run, run[r].pc = "search"
  PROVE  /\ run[r].from \in 0 .. Span - 1 /\ run[r].page \in Nat \ {0}
         /\ Hits(r) \in SUBSET Orders
         /\ WithPage(r) = {o \in Orders : times[o] < run[r].from}
                          \cup PagesBefore(Hits(r), run[r].page + 1)
<1>1. run[r].from \in 0 .. Span - 1 /\ run[r].page \in Nat \ {0}
  BY DEF TypeInv, SyncTypeOK, Placed, RunState
<1>2. Hits(r) \in SUBSET Orders
  BY DEF Hits, Between
<1>3. WithPage(r) = {o \in Orders : times[o] < run[r].from}
                    \cup (PagesBefore(Hits(r), run[r].page) \cup OnPage(Hits(r), run[r].page))
  BY DEF WithPage, SearchInv, Searched
<1>4. PagesBefore(Hits(r), run[r].page) \cup OnPage(Hits(r), run[r].page)
      = PagesBefore(Hits(r), run[r].page + 1)
  BY <1>1, <1>2, NextPage
<1> QED BY <1>1, <1>2, <1>3, <1>4

\* The last page of a search completes the orders up to its end.
LEMMA LastPageFinds ==
  ASSUME TypeInv, SearchInv, NEW r \in Run, run[r].pc = "search",
         run[r].page >= TotalPages(Hits(r))
  PROVE  WithPage(r) = {o \in Orders : times[o] <= SearchEnd(run[r].from)}
<1>1. PagesBefore(Hits(r), run[r].page + 1) = Hits(r)
  BY SearchFinds, LastPage
<1>2. /\ run[r].from \in Nat /\ SearchEnd(run[r].from) \in Nat
      /\ run[r].from <= SearchEnd(run[r].from)
  <2>1. run[r].from \in 0 .. Span - 1
    BY SearchFinds
  <2>2. SearchEnd(run[r].from) = IF Span <= run[r].from + Chunk - 1 THEN Span
                                 ELSE run[r].from + Chunk - 1
    BY <2>1, NextSearchForward
  <2> QED BY <2>1, <2>2
<1>3. ASSUME NEW o \in Orders
      PROVE  (times[o] < run[r].from \/ times[o] \in run[r].from .. SearchEnd(run[r].from))
             <=> times[o] <= SearchEnd(run[r].from)
  BY <1>2, TimesType
<1> QED BY <1>1, <1>3, SearchFinds DEF Hits, Between

\* The next search begins where this one has ended, and there is one unless
\* this one has reached the end of the year.
LEMMA SearchesMeet ==
  ASSUME NotWholeSearches, NEW from \in 0 .. Span - 1, NEW n \in Nat, from = n * Chunk
  PROVE  IF NextSearch(from) < Span
         THEN NextSearch(from) = SearchEnd(from) + 1 /\ NextSearch(from) = (n + 1) * Chunk
         ELSE SearchEnd(from) = Span
<1>1. (n + 1) * Chunk = from + Chunk /\ n + 1 \in Nat
  BY TimesMonotone
<1>2. from + Chunk # Span
  BY <1>1 DEF NotWholeSearches
<1>3. /\ NextSearch(from) = IF Span <= from + Chunk THEN Span ELSE from + Chunk
      /\ SearchEnd(from) = IF Span <= from + Chunk - 1 THEN Span ELSE from + Chunk - 1
  BY NextSearchForward
<1> QED BY <1>1, <1>2, <1>3

LEMMA TimesStay ==
  ASSUME NEW r \in Run, Step(r) PROVE times' = times
BY DEF Step, RunStep, StartRun, Mishap, CreateSyncLog, UpdateSyncLog, FetchStockItems,
   FetchChannelSkus, UpsertProducts, FindRow, WriteRow, SearchPage, SearchLastPage,
   FetchOrderItems, DeleteMetric, InsertMetric, world

\* Where the steps that write metrics leave their run.
LEMMA MetricGoes ==
  ASSUME TypeInv, NEW r \in Run, DeleteMetric(r) \/ InsertMetric(r)
  PROVE  \/ run'[r].pc \in {"died", "fail"}
         \/ /\ DeleteMetric(r) /\ run'[r].pc = "insert"
            /\ run'[r].found = run[r].found /\ run'[r].left = run[r].left
         \/ /\ InsertMetric(r)
            /\ run'[r].pc = IF run[r].left = {Period(r)} THEN "succeed" ELSE "delete"
            /\ run'[r].found = run[r].found /\ run'[r].left = run[r].left \ {Period(r)}
<1>1. run[r] \in RunState
  BY DEF TypeInv, SyncTypeOK
<1>2. Catch(run[r].pc) = "fail"
  BY DEF DeleteMetric, InsertMetric, At, Catch
<1>3. CASE DeleteMetric(r)
  <2>1. PICK next \in RunState : next = [run[r] EXCEPT !.pc = "insert"] /\ Answer(r, next)
    BY <1>3, WritersNext
  <2>2. next.pc = "insert" /\ next.found = run[r].found /\ next.left = run[r].left
    BY <1>1, <2>1 DEF RunState
  <2>3. Answer(r, next)
    BY <2>1
  <2> QED BY <1>2, <1>3, <2>2, <2>3, AnswerGoes
<1>4. CASE InsertMetric(r)
  <2>1. PICK next \in RunState :
          /\ next = [run[r] EXCEPT !.left = @ \ {Period(r)},
                       !.pc = IF run[r].left = {Period(r)} THEN "succeed" ELSE "delete"]
          /\ Answer(r, next)
    BY <1>4, WritersNext
  <2>2. /\ next.pc = IF run[r].left = {Period(r)} THEN "succeed" ELSE "delete"
        /\ next.found = run[r].found /\ next.left = run[r].left \ {Period(r)}
    BY <1>1, <2>1 DEF RunState
  <2>3. Answer(r, next)
    BY <2>1
  <2> QED BY <1>2, <1>4, <2>2, <2>3, AnswerGoes
<1> QED BY <1>3, <1>4

LEMMA SearchOfOneRun ==
  ASSUME TypeInv, SearchInv, NotWholeSearches, NEW r \in Run, Step(r)
  PROVE  Searched(r)'
<1>1. /\ run \in [Run -> RunState] /\ run[r] \in RunState /\ Searched(r) /\ times' = times
      /\ \A o \in Orders : times[o] \in 0 .. Span
  BY TimesStay, TimesType DEF TypeInv, SyncTypeOK, SearchInv
<1> DEFINE Found(from, page) ==
      {o \in Orders : times[o] < from} \cup PagesBefore(Between(from, SearchEnd(from)), page)
<1>2. /\ Searched(r) <=>
           /\ run[r].pc = "search" => /\ \E n \in Nat : run[r].from = n * Chunk
                                      /\ run[r].found = Found(run[r].from, run[r].page)
           /\ run[r].pc \in {"items", "delete", "insert"} => run[r].found = Orders
      /\ Searched(r)' <=>
           /\ run'[r].pc = "search" => /\ \E n \in Nat : run'[r].from = n * Chunk
                                       /\ run'[r].found = Found(run'[r].from, run'[r].page)
           /\ run'[r].pc \in {"items", "delete", "insert"} => run'[r].found = Orders
  BY <1>1 DEF Searched, Hits, Between, PagesBefore, Rank, SearchEnd
<1>3. CASE SearchPage(r)
  <2>1. /\ run[r].pc = "search" /\ run'[r].pc = "search" /\ run'[r].from = run[r].from
        /\ run'[r].page = run[r].page + 1 /\ run'[r].found = WithPage(r)
    BY <1>1, <1>3 DEF SearchPage, At, RunState
  <2>2. WithPage(r) = Found(run[r].from, run[r].page + 1)
    BY <2>1, SearchFinds DEF Hits
  <2> HIDE DEF Found
  <2> QED BY <1>1, <1>2, <2>1, <2>2
<1>4. CASE SearchLastPage(r)
  <2> DEFINE from == NextSearch(run[r].from)
  <2>1. /\ run[r].pc = "search" /\ run[r].page >= TotalPages(Hits(r))
        /\ run'[r].pc = IF from < Span THEN "search" ELSE "items"
        /\ run'[r].from = from /\ run'[r].page = 1 /\ run'[r].found = WithPage(r)
    BY <1>1, <1>4 DEF SearchLastPage, At, RunState
  <2>2. WithPage(r) = {o \in Orders : times[o] <= SearchEnd(run[r].from)}
    BY <2>1, LastPageFinds
  <2>3. run[r].from \in 0 .. Span - 1
    BY <2>1, SearchFinds
  <2>4. PICK n \in Nat : run[r].from = n * Chunk
    BY <2>1 DEF SearchInv, Searched
  <2>5. from \in Nat /\ SearchEnd(run[r].from) \in Int
    BY <2>3, NextSearchForward
  <2>6. CASE from < Span
    <3>1. from = SearchEnd(run[r].from) + 1 /\ from = (n + 1) * Chunk /\ n + 1 \in Nat
      BY <2>3, <2>4, <2>6, SearchesMeet
    <3>2. Found(from, 1) = {o \in Orders : times[o] < from}
      BY FirstPage DEF Between
    <3>3. \A o \in Orders : times[o] < from <=> times[o] <= SearchEnd(run[r].from)
      <4> HIDE DEF from
      <4> QED BY <1>1, <2>5, <3>1
    <3>4. run'[r].found = Found(run'[r].from, run'[r].page)
      BY <2>1, <2>2, <3>2, <3>3
    <3>5. run'[r].pc = "search" /\ \E m \in Nat : run'[r].from = m * Chunk
      BY <2>1, <2>6, <3>1
    <3> HIDE DEF Found
    <3> QED BY <1>2, <3>4, <3>5
  <2>7. CASE ~(from < Span)
    <3>1. SearchEnd(run[r].from) = Span
      BY <2>3, <2>4, <2>7, SearchesMeet
    <3>2. run'[r].pc = "items" /\ run'[r].found = Orders
      BY <1>1, <2>1, <2>2, <2>7, <3>1
    <3> HIDE DEF Found
    <3> QED BY <1>2, <3>2
  <2> QED BY <2>6, <2>7
<1>5. CASE WriteRow(r)
  <2>1. CASE run'[r].pc \in {"died", "fail", "find"}
    <3> HIDE DEF Found
    <3> QED BY <1>2, <2>1
  <2>2. CASE /\ run'[r].pc = "search" /\ run'[r].from = 0 /\ run'[r].page = 1
             /\ run'[r].found = {}
    <3>1. Found(0, 1) = {}
      <4>1. {o \in Orders : times[o] < 0} = {}
        <5>1. \A o \in Orders : ~(times[o] < 0)
          BY TimesType
        <5> QED BY <5>1
      <4>2. PagesBefore(Between(0, SearchEnd(0)), 1) = {}
        BY FirstPage DEF Between
      <4> QED BY <4>1, <4>2
    <3>2. 0 = 0 * Chunk
      OBVIOUS
    <3> HIDE DEF Found
    <3> QED BY <1>2, <2>2, <3>1, <3>2
  <2> QED BY <1>5, <2>1, <2>2, WriteGoes
<1>6. CASE FetchOrderItems(r)
  <2>1. /\ run[r].pc = "items" /\ run'[r].found = run[r].found
        /\ run'[r].pc \in {"succeed", "delete"}
    BY <1>1, <1>6 DEF FetchOrderItems, At, RunState
  <2> HIDE DEF Found
  <2> QED BY <1>1, <1>2, <2>1
<1>7. CASE DeleteMetric(r) \/ InsertMetric(r)
  <2>1. /\ run[r].pc \in {"delete", "insert"}
        /\ \/ run'[r].pc \in {"died", "fail", "succeed"}
           \/ run'[r].pc \in {"delete", "insert"} /\ run'[r].found = run[r].found
    BY <1>7, MetricGoes DEF DeleteMetric, InsertMetric, At
  <2> HIDE DEF Found
  <2> QED BY <1>1, <1>2, <2>1
<1>8. CASE \/ CreateSyncLog(r) \/ UpdateSyncLog(r) \/ Mishap(r) \/ StartRun(r)
           \/ FetchStockItems(r) \/ FetchChannelSkus(r) \/ UpsertProducts(r) \/ FindRow(r)
  <2>1. run'[r].pc \notin {"search", "items", "delete", "insert"}
    <3>1. CASE \/ StartRun(r) \/ FetchStockItems(r) \/ FetchChannelSkus(r)
               \/ UpsertProducts(r) \/ FindRow(r)
      <4>1. run[r].pc \in {"idle", "stock", "channels", "products", "find"}
        BY <3>1 DEF StartRun, FetchStockItems, FetchChannelSkus, UpsertProducts, FindRow, At
      <4>2. Quiet(r)
        BY <3>1 DEF Quiet
      <4> QED BY <4>1, <4>2, QuietGoes DEF Goes
    <3>2. CASE CreateSyncLog(r) \/ UpdateSyncLog(r) \/ Mishap(r)
      BY <3>2, LogGoes
    <3> QED BY <1>8, <3>1, <3>2
  <2> HIDE DEF Found
  <2> QED BY <1>2, <2>1
<1> QED BY <1>3, <1>4, <1>5, <1>6, <1>7, <1>8 DEF Step, RunStep

LEMMA SearchStep ==
  ASSUME NotWholeSearches
  PROVE  TypeInv /\ SearchInv /\ [SyncNext]_syncVars => SearchInv'
<1> SUFFICES ASSUME TypeInv, SearchInv, [SyncNext]_syncVars PROVE SearchInv'
  OBVIOUS
<1>1. ASSUME NEW r \in Run, Step(r) PROVE SearchInv'
  <2>1. ASSUME NEW q \in Run \ {r} PROVE Searched(q)'
    <3>1. run'[q] = run[q] /\ times' = times /\ Searched(q)
      BY <1>1, RunsCourse, TimesStay DEF SearchInv
    <3> QED BY <3>1 DEF Searched, Hits, Between, PagesBefore, Rank, SearchEnd
  <2> QED BY <1>1, <2>1, SearchOfOneRun DEF SearchInv
<1>2. CASE StockChanges \/ UNCHANGED syncVars
  <2>1. run' = run /\ times' = times
    BY <1>2 DEF StockChanges, syncVars
  <2> QED BY <2>1 DEF SearchInv, Searched, Hits, Between, PagesBefore, Rank, SearchEnd
<1> QED BY <1>1, <1>2 DEF SyncNext, Step

-----------------------------------------------------------------------------
(* Metrics.                                                                *)

Stored(r) == {m \in metrics : m.run = r}
Due == {p \in Periods : Sold(Orders, p) > 0}
Counts(r, periods) == {[run |-> r, period |-> p, units |-> Sold(Orders, p)] : p \in periods}

\* The metrics of a run are those of the periods that are not left.
Counted(r) ==
  /\ run[r].pc \in Early \cup {"find", "write", "search", "items"} => Stored(r) = {}
  /\ run[r].pc \in {"delete", "insert"} =>
       run[r].left \subseteq Due /\ Stored(r) = Counts(r, Due \ run[r].left)
  /\ run[r].pc = "succeed" \/ log[r] = "success" => Stored(r) = Counts(r, Due)

MetricInv == \A r \in Run : Counted(r)

\* What a step leaves of the metrics.
LEMMA StoredStays ==
  ASSUME TypeInv, NEW r \in Run, Step(r), NEW q \in Run, q # r \/ ~InsertMetric(r)
  PROVE  (q # r \/ ~DeleteMetric(r)) => Stored(q)' = Stored(q)
<1>1. CASE DeleteMetric(r)
  BY <1>1 DEF DeleteMetric, SameMetric, Stored
<1>2. CASE InsertMetric(r)
  BY <1>2 DEF InsertMetric, Stored
<1>3. CASE ~DeleteMetric(r) /\ ~InsertMetric(r)
  <2>1. metrics' = metrics
    BY <1>3 DEF Step, RunStep, StartRun, Mishap, CreateSyncLog, UpdateSyncLog, FetchStockItems,
       FetchChannelSkus, UpsertProducts, FindRow, WriteRow, SearchPage, SearchLastPage,
       FetchOrderItems, database
  <2> QED BY <2>1 DEF Stored
<1> QED BY <1>1, <1>2, <1>3

LEMMA DueStays ==
  ASSUME times' = times
  PROVE  Due' = Due /\ \A r, periods : Counts(r, periods)' = Counts(r, periods)
BY DEF Due, Counts, Sold

LEMMA CountedStep ==
  ASSUME TypeInv, LogInv, SearchInv, MetricInv, NEW r \in Run, Step(r)
  PROVE  Counted(r)'
<1>1. /\ run[r] \in RunState /\ Counted(r) /\ Searched(r) /\ Placed(run[r]) /\ times' = times
      /\ log \in [Run -> {"none", "running", "success", "failed"}]
      /\ Due' = Due /\ \A periods : Counts(r, periods)' = Counts(r, periods)
  BY TimesStay, DueStays DEF TypeInv, SyncTypeOK, SearchInv, MetricInv
<1> DEFINE Before == Early \cup {"find", "write", "search", "items"}
<1>2. ASSUME /\ run'[r].pc \in Before => Stored(r)' = {}
             /\ run'[r].pc \in {"delete", "insert"} =>
                  run'[r].left \subseteq Due /\ Stored(r)' = Counts(r, Due \ run'[r].left)
             /\ run'[r].pc = "succeed" \/ log'[r] = "success" => Stored(r)' = Counts(r, Due)
      PROVE  Counted(r)'
  BY <1>1, <1>2 DEF Counted
<1>3. ~(DeleteMetric(r) \/ InsertMetric(r)) => Stored(r)' = Stored(r)
  BY StoredStays
<1>4. CASE InsertMetric(r)
  <2>1. run[r].pc = "insert" /\ log' = log /\ log[r] # "success"
    BY <1>4 DEF InsertMetric, At, LogInv, Logged, Working, Steps
  <2>2. /\ run[r].left \subseteq Due /\ run[r].left # {} /\ run[r].found = Orders
        /\ Stored(r) = Counts(r, Due \ run[r].left)
    BY <1>1, <2>1 DEF Counted, Searched, Placed
  <2>3. Period(r) \in run[r].left
    BY <2>2 DEF Period
  <2>4. Stored(r)' = Counts(r, Due \ (run[r].left \ {Period(r)}))
    <3>1. Stored(r)' = Stored(r) \cup Counts(r, {Period(r)})
      BY <1>4, <2>2 DEF InsertMetric, Stored, Counts
    <3>2. Due \ (run[r].left \ {Period(r)}) = (Due \ run[r].left) \cup {Period(r)}
      BY <2>2, <2>3
    <3>3. Counts(r, (Due \ run[r].left) \cup {Period(r)})
          = Counts(r, Due \ run[r].left) \cup Counts(r, {Period(r)})
      BY DEF Counts
    <3> QED BY <2>2, <3>1, <3>2, <3>3
  <2>5. CASE run'[r].pc \in {"died", "fail"}
    BY <1>2, <2>1, <2>5 DEF Early
  <2>6. CASE /\ run'[r].pc = IF run[r].left = {Period(r)} THEN "succeed" ELSE "delete"
             /\ run'[r].left = run[r].left \ {Period(r)}
    <3>1. CASE run[r].left = {Period(r)}
      <4>1. Due \ (run[r].left \ {Period(r)}) = Due
        BY <3>1
      <4> QED BY <1>2, <2>4, <2>6, <3>1, <4>1 DEF Early
    <3>2. CASE run[r].left # {Period(r)}
      <4>1. run'[r].left \subseteq Due
        BY <2>2, <2>6
      <4> QED BY <1>2, <2>1, <2>4, <2>6, <3>2, <4>1 DEF Early
    <3> QED BY <3>1, <3>2
  <2> QED BY <1>4, <2>1, <2>5, <2>6, MetricGoes DEF DeleteMetric, At
<1>5. CASE DeleteMetric(r)
  <2>1. run[r].pc = "delete" /\ log' = log /\ log[r] # "success"
    BY <1>5 DEF DeleteMetric, At, LogInv, Logged, Working, Steps
  <2>2. /\ run[r].left \subseteq Due /\ run[r].left # {}
        /\ Stored(r) = Counts(r, Due \ run[r].left)
    BY <1>1, <2>1 DEF Counted, Placed
  <2>3. Period(r) \in run[r].left
    BY <2>2 DEF Period
  <2>4. \A m \in Stored(r) : ~SameMetric(m, r)
    BY <2>2, <2>3 DEF Counts, SameMetric
  <2>5. Stored(r)' = Stored(r)
    BY <1>5, <2>4 DEF DeleteMetric, Stored
  <2>6. CASE run'[r].pc \in {"died", "fail"}
    BY <1>2, <2>1, <2>6 DEF Early
  <2>7. CASE run'[r].pc = "insert" /\ run'[r].left = run[r].left
    BY <1>2, <2>1, <2>2, <2>5, <2>7 DEF Early
  <2> QED BY <1>5, <2>1, <2>6, <2>7, MetricGoes DEF InsertMetric, At
<1>6. CASE FetchOrderItems(r)
  <2>1. run[r].pc = "items" /\ log' = log /\ log[r] # "success" /\ run[r].found = Orders
    BY <1>1, <1>6 DEF FetchOrderItems, database, At, LogInv, Logged, Working, Steps, Searched
  <2>2. /\ run'[r].left = Due
        /\ run'[r].pc = IF Due = {} THEN "succeed" ELSE "delete"
    BY <1>6, <2>1 DEF FetchOrderItems, Due, TypeInv, SyncTypeOK, RunState
  <2>3. Stored(r)' = {}
    <3>1. ~(DeleteMetric(r) \/ InsertMetric(r))
      BY <2>1 DEF DeleteMetric, InsertMetric, At
    <3> QED BY <1>1, <1>3, <2>1, <3>1 DEF Counted
  <2>4. Counts(r, Due \ Due) = {} /\ (Due = {} => Counts(r, Due) = {})
    BY DEF Counts
  <2> QED BY <1>2, <2>1, <2>2, <2>3, <2>4 DEF Early
<1>7. CASE UpdateSyncLog(r)
  <2>1. /\ run[r].pc \in {"succeed", "fail"}
        /\ log'[r] = "success" => run[r].pc = "succeed"
        /\ ~(DeleteMetric(r) \/ InsertMetric(r))
    BY <1>1, <1>7 DEF UpdateSyncLog, DeleteMetric, InsertMetric, At
  <2>2. run'[r].pc \in {"completed", "threw", "died", "fail"}
    BY <1>7, <2>1, LogGoes
  <2> QED BY <1>1, <1>2, <1>3, <2>1, <2>2 DEF Counted, Early
<1>8. CASE ~(\/ InsertMetric(r) \/ DeleteMetric(r) \/ FetchOrderItems(r) \/ UpdateSyncLog(r))
  <2>1. log'[r] = "success" => log[r] = "success"
    <3>1. CASE CreateSyncLog(r)
      BY <1>1, <3>1 DEF CreateSyncLog
    <3>2. CASE ~CreateSyncLog(r)
      BY <1>8, <3>2 DEF Step, RunStep, StartRun, Mishap, FetchStockItems, FetchChannelSkus,
         UpsertProducts, FindRow, WriteRow, SearchPage, SearchLastPage, database
    <3> QED BY <3>1, <3>2
  <2>2. /\ run'[r].pc \in Before => run[r].pc \in Before
        /\ run'[r].pc \notin {"delete", "insert", "succeed"}
    <3>1. CASE Quiet(r)
      <4>1. run[r].pc \in Before /\ run'[r].pc \notin {"delete", "insert", "succeed"}
        BY <1>8, <3>1, QuietGoes DEF Goes, Early
      <4> QED BY <4>1
    <3>2. CASE WriteRow(r)
      BY <3>2, WriteGoes DEF Early
    <3>3. CASE CreateSyncLog(r) \/ Mishap(r)
      BY <3>3, LogGoes DEF Early
    <3> QED BY <1>8, <3>1, <3>2, <3>3 DEF Step, RunStep, Quiet
  <2>3. Stored(r)' = Stored(r)
    BY <1>3, <1>8
  <2> HIDE DEF Before
  <2>4. /\ run[r].pc \in Before => Stored(r) = {}
        /\ log[r] = "success" => Stored(r) = Counts(r, Due)
    BY <1>1 DEF Counted, Before
  <2> QED BY <1>2, <2>1, <2>2, <2>3, <2>4
<1> QED BY <1>4, <1>5, <1>6, <1>7, <1>8

LEMMA MetricStep ==
  ASSUME NotWholeSearches
  PROVE  TypeInv /\ LogInv /\ SearchInv /\ MetricInv /\ [SyncNext]_syncVars => MetricInv'
<1> SUFFICES ASSUME TypeInv, LogInv, SearchInv, MetricInv, [SyncNext]_syncVars PROVE MetricInv'
  OBVIOUS
<1>1. ASSUME NEW r \in Run, Step(r) PROVE MetricInv'
  <2>1. ASSUME NEW q \in Run \ {r} PROVE Counted(q)'
    <3>1. run'[q] = run[q] /\ times' = times /\ Counted(q)
      BY <1>1, RunsCourse, TimesStay DEF MetricInv
    <3>2. log'[q] = log[q]
      <4>1. Course(r)
        BY <1>1, RunsCourse
      <4>2. \/ log' = log
            \/ \E outcome : log' = [log EXCEPT ![r] = outcome]
        BY <4>1 DEF Course
      <4>3. q # r /\ DOMAIN log = Run
        BY DEF TypeInv, SyncTypeOK
      <4>4. \A outcome : [log EXCEPT ![r] = outcome][q] = log[q]
        BY <4>3
      <4> QED BY <4>2, <4>4
    <3>3. Stored(q)' = Stored(q)
      BY <1>1, StoredStays
    <3> QED BY <3>1, <3>2, <3>3, DueStays DEF Counted
  <2> QED BY <1>1, <2>1, CountedStep DEF MetricInv
<1>2. CASE StockChanges \/ UNCHANGED syncVars
  <2>1. run' = run /\ times' = times /\ log' = log /\ metrics' = metrics
    BY <1>2 DEF StockChanges, syncVars, database
  <2>2. ASSUME NEW q \in Run PROVE Counted(q)'
    <3>1. Stored(q)' = Stored(q)
      BY <2>1 DEF Stored
    <3>2. Due' = Due /\ \A periods : Counts(q, periods)' = Counts(q, periods)
      BY <2>1, DueStays
    <3>3. Counted(q)
      BY DEF MetricInv
    <3>4. run'[q] = run[q] /\ log'[q] = log[q]
      BY <2>1
    <3> QED BY <3>1, <3>2, <3>3, <3>4 DEF Counted
  <2> QED BY <2>2 DEF MetricInv
<1> QED BY <1>1, <1>2 DEF SyncNext, Step

LEMMA InitMetrics == SyncInit => SearchInv /\ MetricInv
<1> SUFFICES ASSUME SyncInit PROVE SearchInv /\ MetricInv
  OBVIOUS
<1>1. \A r \in Run : run[r].pc = "idle" /\ log[r] = "none"
  BY DEF SyncInit, Idle
<1>2. metrics = {}
  BY DEF SyncInit
<1> QED BY <1>1, <1>2 DEF SearchInv, Searched, MetricInv, Counted, Stored

\* Every order of the year is counted once in each period that has it, by each
\* run whose log says SUCCESS, for any length of a search and of a page: if the
\* year is not made of whole searches (365 days are not, in searches of 90).
\* An order at the very end of a year that is would be found by none.
THEOREM EveryOrderCounts ==
  ASSUME NotWholeSearches
  PROVE  SyncSpec => []MetricsComplete
<1> DEFINE Inv == TypeInv /\ LogInv /\ SearchInv /\ MetricInv
<1>1. SyncInit => Inv
  BY InitTypes, InitLogAndRows, InitMetrics
<1>2. Inv /\ [SyncNext]_syncVars => Inv'
  BY StepTypes, LogStep, SearchStep, MetricStep
<1>3. Inv => MetricsComplete
  BY DEF MetricInv, Counted, MetricsComplete, Stored, Counts, Due
<1> QED BY <1>1, <1>2, <1>3, PTL DEF SyncSpec
=============================================================================
