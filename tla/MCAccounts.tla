---------------------------- MODULE MCAccounts ----------------------------
EXTENDS Accounts

Local(verified, lower) ==
  [provider |-> "local", verified |-> verified, active |-> TRUE,
   lower |-> lower, password |-> None]

Anyone == {NoUser, Local(FALSE, TRUE), Local(TRUE, FALSE)}

\* Verifications of one address overlap (README), and pairs that hardly meet.
Racing == {{"verifyEmail"}}
Unrelated == {{op, p} : op \in {"login", "authorize"}, p \in Ops \ {"reset", "change"}}
             \cup {{"forgot"}, {"forgot", "reset"}, {"verifyReset", "reset"}, {"resend"}}
AllApart == Racing \cup Unrelated

Workload(ops, n, atOnce, wrong) ==
  [ops |-> ops, requests |-> n, inFlight |-> atOnce, mishaps |-> wrong]

Registering == {"create", "verifyEmail", "login"}
Resending == {"resend", "verifyEmail"}
Resetting == {"forgot", "verifyReset", "reset"}
SigningIn == {"create", "authorize", "callback"}
LoginAndChange == {"login", "change"}

\* A few requests that overlap, with a mishap; more of them and none, or one after
\* the other, where four are needed; and two mishaps over one e-mail.
Encounters ==
  {Workload(ops, 3, 2, 1) :
     ops \in {Registering, Resending, SigningIn, LoginAndChange, Resetting}}
  \cup {Workload(ops, 4, 2, 0) :
          ops \in {Registering, Resending, LoginAndChange, Resetting \cup {"login", "change"}}}
  \cup {Workload(Resetting, 4, 1, 1), Workload({"forgot"}, 1, 1, 2)}

Callbacks == {Workload({"authorize", "callback"}, 3, 2, 0)}
Registrations == {Workload({"create"}, 2, 2, 0)}
=============================================================================
