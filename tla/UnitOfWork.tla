----------------------------- MODULE UnitOfWork -----------------------------
(***************************************************************************)
(* The writes to the tables of one account: the interactive transactions   *)
(* that PrismaUnitOfWork.execute opens for RegisterService,                *)
(* GoogleOAuthService and PasswordService, and single statements that      *)
(* other requests send meanwhile.                                          *)
(*                                                                         *)
(* A repository writes with the client of the transaction if it is given   *)
(* the context, and with its own if not.  A statement that changes a row   *)
(* waits while another transaction has changed or inserted it; what a      *)
(* transaction wrote is seen by nobody before the commit.                  *)
(***************************************************************************)
EXTENDS Integers, Sequences

CONSTANTS MaxUnits,      \* bound: units of work that begin
          MaxUnitMishaps  \* bound: statements and commits that fail

UnitConstants == MaxUnits \in Nat /\ MaxUnitMishaps \in Nat

Unit == 1 .. MaxUnits
None == 0

VARIABLES
  op,       \* what each unit does
  step,     \* how many of its statements are done
  rows,     \* the committed tables: by which unit each field was last written,
            \* or to which unit the last row belongs
  answer,   \* what each unit was answered with
  unitMishaps

unitVars == <<op, step, rows, answer, unitMishaps>>

AuthUser == {"authUser", "password", "verified", "tokenVersion"}
AuthSecurity == {"authSecurity", "failedAttempts", "lastPasswordChange"}
Field == AuthUser \cup AuthSecurity \cup {"userProfile", "emailHistory", "activityLog"}

\* The tables with one row for an account; the others get a row each time.
OneRowTables == {"authUser", "authSecurity", "userProfile"}

Creates == {"create", "google"}
Transactional == Creates \cup {"verifyEmail", "changePassword"}
Op == Transactional \cup {"failedLogin", "revoke", "updateProfile"}

Write(t, fs) == [table |-> t, fields |-> fs]
SaveUser == Write("authUser", AuthUser)
CreateSecurity == Write("authSecurity", AuthSecurity)
CreateHistory == Write("emailHistory", {"emailHistory"})
CreateProfile == Write("userProfile", {"userProfile"})
LogActivity == Write("activityLog", {"activityLog"})

\* The writes of each, in their order.  logCreate and logCustomEvent hand on the
\* context that they are given.
RegisterWrites == <<SaveUser, CreateSecurity, CreateHistory, LogActivity>>
GoogleWrites == <<SaveUser, CreateSecurity, CreateProfile, LogActivity>>
VerifyWrites == <<Write("authUser", {"verified"}), LogActivity>>
PasswordWrites ==
  <<Write("authUser", {"password"}), Write("authSecurity", {"lastPasswordChange"}), LogActivity>>
FailedLoginWrites == <<Write("authSecurity", {"failedAttempts"})>>
RevokeWrites == <<Write("authUser", {"tokenVersion"})>>
ProfileWrites == <<CreateProfile>>

Statements ==
  [create |-> RegisterWrites, google |-> GoogleWrites, verifyEmail |-> VerifyWrites,
   changePassword |-> PasswordWrites, failedLogin |-> FailedLoginWrites,
   revoke |-> RevokeWrites, updateProfile |-> ProfileWrites]

\* Is a statement sent within the transaction of its unit?
Mut_WithContext(o, table) == o \in Transactional /\ table # "activityLog"
WithContext(o, table) == o \in Transactional

-----------------------------------------------------------------------------

UnitsTypeOK ==
  /\ op \in [Unit -> Op \cup {"none"}]
  /\ step \in [Unit -> 0 .. 4]
  /\ rows \in [Field -> Unit \cup {None}]
  /\ answer \in [Unit -> {"none", "ok", "failed"}]
  /\ unitMishaps \in 0 .. MaxUnitMishaps

UnitsInit ==
  /\ op = [u \in Unit |-> "none"]
  /\ step = [u \in Unit |-> 0]
  /\ rows = [f \in Field |-> None]
  /\ answer = [u \in Unit |-> "none"]
  /\ unitMishaps = 0

Exists == rows["authUser"] # None
AtWork(u) == op[u] # "none" /\ answer[u] = "none"
AllDone(u) == step[u] = Len(Statements[op[u]])
NextStatement(u) == Statements[op[u]][step[u] + 1]

\* The statements of an open transaction that wait for its commit.
Pending(u) ==
  {Statements[op[u]][i] : i \in {j \in 1 .. step[u] :
                                   WithContext(op[u], Statements[op[u]][j].table)}}
Locked(u) == {w.table : w \in Pending(u)} \cap OneRowTables

Written(u, writes) ==
  [f \in Field |-> IF \E w \in writes : f \in w.fields THEN u ELSE rows[f]]

AnswerUnit(u, a) == answer' = [answer EXCEPT ![u] = a]
UnitMishap == unitMishaps < MaxUnitMishaps /\ unitMishaps' = unitMishaps + 1

-----------------------------------------------------------------------------

\* create and handleCallback have found no user; the others have.
Begin(u, o) ==
  /\ op[u] = "none" /\ \A v \in 1 .. u - 1 : op[v] # "none"
  /\ o \in Creates \/ Exists
  /\ op' = [op EXCEPT ![u] = o]
  /\ UNCHANGED <<step, rows, answer, unitMishaps>>

\* The e-mail of an account is unique.
Refused(u) == NextStatement(u).fields = AuthUser /\ Exists

MayExecute(u) ==
  /\ AtWork(u) /\ ~AllDone(u)
  /\ \A v \in Unit \ {u} : AtWork(v) => NextStatement(u).table \notin Locked(v)

Execute(u) ==
  /\ MayExecute(u) /\ ~Refused(u)
  /\ step' = [step EXCEPT ![u] = @ + 1]
  /\ rows' = IF WithContext(op[u], NextStatement(u).table) THEN rows
             ELSE Written(u, {NextStatement(u)})
  /\ IF op[u] \in Transactional THEN UNCHANGED <<answer, unitMishaps>>
     ELSE \/ AnswerUnit(u, "ok") /\ UNCHANGED unitMishaps
          \/ AnswerUnit(u, "failed") /\ UnitMishap
  /\ UNCHANGED op

\* execute wraps the error and throws it; the transaction is rolled back.
BeRefused(u) ==
  /\ MayExecute(u) /\ Refused(u)
  /\ AnswerUnit(u, "failed")
  /\ UNCHANGED <<op, step, rows, unitMishaps>>

\* The answer to a commit may be lost.
Commit(u) ==
  /\ AtWork(u) /\ op[u] \in Transactional /\ AllDone(u)
  /\ rows' = Written(u, Pending(u))
  /\ \/ AnswerUnit(u, "ok") /\ UNCHANGED unitMishaps
     \/ AnswerUnit(u, "failed") /\ UnitMishap
  /\ UNCHANGED <<op, step>>

\* A statement is rejected, waits too long or is late for the 10 s of the
\* transaction, the commit is rejected, or the server process dies.
Rollback(u) ==
  /\ AtWork(u)
  /\ AnswerUnit(u, "failed") /\ UnitMishap
  /\ UNCHANGED <<op, step, rows>>

UnitsNext ==
  \E u \in Unit : \/ \E o \in Op : Begin(u, o)
                  \/ Execute(u) \/ BeRefused(u) \/ Commit(u) \/ Rollback(u)

UnitsSpec == UnitsInit /\ [][UnitsNext]_unitVars

-----------------------------------------------------------------------------

Atomic == INSTANCE AtomicWrites
  WITH Existence <- "authUser",
       Writes <- [o \in Op |-> UNION {Statements[o][i].fields : i \in DOMAIN Statements[o]}]

\* Nobody ever sees a part of what a unit of work writes, whatever fails and
\* whoever writes meanwhile; what is answered with success is there, and an
\* account is created once (prisma-unit-of-work.ts:48-71).
WritesAreWhole == Atomic!Spec
=============================================================================
