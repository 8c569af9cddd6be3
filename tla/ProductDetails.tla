--------------------------- MODULE ProductDetails ---------------------------
(***************************************************************************)
(* The cost, weight and dimensions of one product.  People type them in    *)
(* (PATCH /sku-dashboard/product/:sku, some fields at a time), and every   *)
(* catalogue sync writes what Linnworks has over them, null included.      *)
(*                                                                         *)
(* An edit is numbered as it arrives; a field holds the number of the edit *)
(* it was typed in with, or FromLinnworks.  Prisma's upsert on MySQL is a  *)
(* query and then a create or an update.                                   *)
(***************************************************************************)
EXTENDS Integers, FiniteSets

CONSTANTS Edits,   \* bound: edits that arrive
          Syncs,   \* bound: runs of the catalogue sync
          Fields   \* cost, weight, length, width, height

Edit == 1 .. Edits
SyncRun == 1 .. Syncs
FromLinnworks == 0

DetailConstants == Edits \in Nat /\ Syncs \in Nat /\ IsFiniteSet(Fields)

VARIABLES
  product,  \* the row's fields; no field before it is created
  edit,     \* the edits: where they stand, the fields they give, and history:
            \* the edits answered before and whether a sync wrote over it
  upsert    \* the syncs: where they stand in upsertProducts

detailVars == <<product, edit, upsert>>

NoProduct == [f \in {} |-> FromLinnworks]
Row == [Fields -> Edit \cup {FromLinnworks}]
EditState == [pc : {"idle", "find", "update", "ok", "NOT_FOUND"}, given : SUBSET Fields,
              before : SUBSET Edit, overrun : BOOLEAN]

DetailTypeOK ==
  /\ product \in Row \cup {NoProduct}
  /\ edit \in [Edit -> EditState]
  /\ upsert \in [SyncRun -> {"idle", "create", "update", "done", "failed"}]

\* The product is there, or a first sync will create it.
DetailInit ==
  /\ product \in {NoProduct, [f \in Fields |-> FromLinnworks]}
  /\ edit = [e \in Edit |-> [pc |-> "idle", given |-> {}, before |-> {}, overrun |-> FALSE]]
  /\ upsert = [s \in SyncRun |-> "idle"]

Exists == product # NoProduct
Answered == {e \in Edit : edit[e].pc = "ok"}

-----------------------------------------------------------------------------
(* UpdateProductService.execute                                            *)

\* The body of the request: every field of UpdateProductDto is optional.
ArriveEdit(e, given) ==
  /\ edit[e].pc = "idle" /\ \A d \in 1 .. e - 1 : edit[d].pc # "idle"
  /\ edit' = [edit EXCEPT ![e] = [pc |-> "find", given |-> given, before |-> Answered,
                                  overrun |-> FALSE]]
  /\ UNCHANGED <<product, upsert>>

FindMetricsBySku(e) ==
  /\ edit[e].pc = "find"
  /\ edit' = [edit EXCEPT ![e].pc = IF Exists THEN "update" ELSE "NOT_FOUND"]
  /\ UNCHANGED <<product, upsert>>

\* updateData: a field is written if it was given, and then nothing else.
Mut_UpdateData(e) == [f \in Fields |-> IF f \in edit[e].given THEN e ELSE FromLinnworks]
UpdateData(e) == [f \in Fields |-> IF f \in edit[e].given THEN e ELSE product[f]]

UpdateProduct(e) ==
  /\ edit[e].pc = "update"
  /\ product' = UpdateData(e)
  /\ edit' = [edit EXCEPT ![e].pc = "ok"]
  /\ UNCHANGED upsert

-----------------------------------------------------------------------------
(* upsertProducts, for this product                                        *)

\* toProduct gives every field, null if Linnworks has none.
ToProduct == [f \in Fields |-> FromLinnworks]

FindProduct(s) ==
  /\ upsert[s] = "idle"
  /\ upsert' = [upsert EXCEPT ![s] = IF Exists THEN "update" ELSE "create"]
  /\ UNCHANGED <<product, edit>>

\* Product.sku is unique: a product that has come meanwhile makes the sync fail.
WriteProduct(s) ==
  /\ upsert[s] \in {"create", "update"}
  /\ IF upsert[s] = "create" /\ Exists
     THEN /\ upsert' = [upsert EXCEPT ![s] = "failed"]
          /\ UNCHANGED <<product, edit>>
     ELSE /\ upsert' = [upsert EXCEPT ![s] = "done"]
          /\ product' = ToProduct
          /\ edit' = [e \in Edit |-> [edit[e] EXCEPT !.overrun = @ \/ edit[e].pc = "ok"]]

DetailNext ==
  \/ \E e \in Edit : \/ \E given \in SUBSET Fields : ArriveEdit(e, given)
                     \/ FindMetricsBySku(e) \/ UpdateProduct(e)
  \/ \E s \in SyncRun : FindProduct(s) \/ WriteProduct(s)

-----------------------------------------------------------------------------

\* What was typed in stays until the same field is typed in again, by an edit
\* that was not over by then, or a sync writes: edits of different fields do
\* not undo each other, whenever they overlap
\* (prisma-sku-dashboard.repository.ts:445-459, 252-265).
EditsSurvive ==
  \A e \in Answered : \A f \in edit[e].given :
    \/ product[f] = e
    \/ \E d \in Answered \ edit[e].before : f \in edit[d].given /\ product[f] = d
    \/ edit[e].overrun /\ product[f] = FromLinnworks
=============================================================================
