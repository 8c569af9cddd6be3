----------------------------- MODULE MCAccess -----------------------------
(* Instances of Access: revocations, clients with tokens, login attempts.  *)
EXTENDS Access

\* Every address is new, so only the limit of the e-mail is ever reached.
SameEmail == [a \in Attempt |-> {"email"}]

Anyone == {[local |-> TRUE, status |-> "ACTIVE", verified |-> v] : v \in BOOLEAN}
          \cup {[local |-> TRUE, status |-> "BLOCKED", verified |-> TRUE]}
=============================================================================
