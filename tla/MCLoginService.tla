--------------------------- MODULE MCLoginService ---------------------------
(* Instances of LoginService: attempts on one account.                     *)
EXTENDS LoginService

\* Every address is new, so only the limit of the e-mail is ever reached.
SameEmail == [a \in Attempt |-> {"email"}]

Member == {[local |-> TRUE, status |-> "ACTIVE", verified |-> TRUE]}
=============================================================================
