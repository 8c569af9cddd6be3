---------------------------- MODULE AtomicWrites ----------------------------
(***************************************************************************)
(* What a unit of work promises: what it writes takes effect in one step,  *)
(* all of it or nothing, and a unit that is answered with success has      *)
(* taken effect.  Of a failed one the caller knows nothing: the answer may *)
(* have been lost.                                                         *)
(***************************************************************************)
EXTENDS Naturals

CONSTANTS Unit,      \* the units of work, natural numbers above None
          Op,        \* what units do
          Field,     \* what the tables hold of one account
          Existence, \* the field that says that the account exists
          Writes,    \* the fields that each of Op writes
          Creates    \* those of Op that create the account

None == 0

VARIABLES op,      \* what each unit does, "none" before it begins
          rows,    \* by which unit each field was last written
          answer   \* what each unit was answered with

Exists == rows[Existence] # None

Init ==
  /\ op = [u \in Unit |-> "none"]
  /\ rows = [f \in Field |-> None]
  /\ answer = [u \in Unit |-> "none"]

\* Nobody works on an account that he has not found.
Begin(u, o) ==
  /\ op[u] = "none"
  /\ o \in Creates \/ Exists
  /\ op' = [op EXCEPT ![u] = o]
  /\ UNCHANGED <<rows, answer>>

AtWork(u) == op[u] # "none" /\ answer[u] = "none"

\* An account is created once.
Apply(u) ==
  /\ AtWork(u)
  /\ op[u] \in Creates <=> ~Exists
  /\ rows' = [f \in Field |-> IF f \in Writes[op[u]] THEN u ELSE rows[f]]
  /\ \E a \in {"ok", "failed"} : answer' = [answer EXCEPT ![u] = a]
  /\ UNCHANGED op

Fail(u) ==
  /\ AtWork(u)
  /\ answer' = [answer EXCEPT ![u] = "failed"]
  /\ UNCHANGED <<op, rows>>

Next == \E u \in Unit : (\E o \in Op : Begin(u, o)) \/ Apply(u) \/ Fail(u)

Spec == Init /\ [][Next]_<<op, rows, answer>>
=============================================================================
