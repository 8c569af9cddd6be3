---------------------------- MODULE AccountStore ----------------------------
(***************************************************************************)
(* What registration, passwords and Google sign-in have in common: the     *)
(* AuthUser row of one e-mail address, the sessions of its owner, the      *)
(* e-mails, and the requests with their course.                            *)
(*                                                                         *)
(* An action is what a request does up to the answer of its next awaited   *)
(* command.  Requests are numbered as they arrive, and what a request      *)
(* makes (code, token, password, session, e-mail) has its number: codes    *)
(* and tokens are random and taken not to repeat.  Rate limits are         *)
(* RateLimiter's, what a session is made of is TokenService's; here a      *)
(* session exists or not.                                                  *)
(***************************************************************************)
EXTENDS Integers, FiniteSets, Redis, Errors

CONSTANTS Requests,    \* bound: how many requests arrive
          Apart,       \* pairs of operations the instance does not let overlap
          Workloads,   \* bounds: which operations meet in one behaviour, in how many
                       \* requests, how many of them served at the same time, and
                       \* how many things go wrong
          FirstUsers,  \* rows the address may have at the start
          MaxAttempts, Templates, Workers \* see EmailQueue

Request == 1 .. Requests
None == 0        \* no code, no token; the password a row has at the start

Providers == {"local", "google"}
NoUser == [provider |-> "none", verified |-> FALSE, active |-> FALSE,
           lower |-> TRUE, password |-> None]
User == {NoUser} \cup
        [provider : Providers, verified : BOOLEAN, active : BOOLEAN,
         lower : BOOLEAN, password : Request \cup {None}]

VARIABLES
  user,      \* the row; "lower" says that its e-mail has no capital letter, and
             \* "password" names the request that set the password
  sessions,  \* the sessions whose refresh token is accepted
  req,       \* the requests: where they stand, what the client sent along, and
             \* which others had been answered well when this one arrived
  history, job, log,     \* see EmailQueue
  workload   \* which of the workloads this behaviour is

Mails == INSTANCE EmailQueue WITH Mail <- Request

mails == <<history, job, log>>
store == <<user, sessions, req, mails>>

Ops == {"create", "verifyEmail", "resend", "forgot", "verifyReset", "reset",
        "change", "login", "authorize", "callback"}

ASSUME AccountStoreAssumption ==
  /\ Requests \in Nat
  /\ Apart \subseteq SUBSET Ops
  /\ Workloads \subseteq [ops : SUBSET Ops, requests : Nat, inFlight : Nat, mishaps : Nat]
  /\ FirstUsers \subseteq {NoUser} \cup
       [provider : Providers, verified : BOOLEAN, active : {TRUE}, lower : BOOLEAN,
        password : {None}]
  /\ \A u \in FirstUsers : u.provider = "google" => u.verified
  /\ Mails!QueueConstants

\* A request that failed stands at the status it was answered with.
Final == {"ok"} \cup Statuses
Steps == {"find", "save", "setCode", "record", "queue", "markFailed", "getCode",
          "findUser", "setVerified", "delCode", "welcome", "session", "setGrant",
          "getGrant", "compare", "update", "revoke", "delGrant", "reload",
          "setState", "getState", "delState", "exchange", "findProvider"}
RequestState == [pc : {"idle"} \cup Steps \cup Final, op : Ops \cup {"none"},
                 arg : Request \cup {None}, after : SUBSET Request]

Asked(op) == {r \in Request : req[r].op = op}

StoreTypeOK ==
  /\ user \in User
  /\ sessions \subseteq Request
  /\ req \in [Request -> RequestState]
  /\ Mails!TypeOK

Idle == [pc |-> "idle", op |-> "none", arg |-> None, after |-> {}]

StoreInit ==
  /\ user \in FirstUsers
  /\ sessions = {}
  /\ req = [r \in Request |-> Idle]
  /\ Mails!Init

-----------------------------------------------------------------------------
(* The course of a request.                                                *)

At(r, step) == req[r].pc = step
AtOf(r, op, step) == req[r].op = op /\ At(r, step)
Answered == {r \in Request : At(r, "ok")}
InFlight == {r \in Request : req[r].pc \in Steps}
Succeeded(op) == {r \in Request : AtOf(r, op, "ok")}

Proceed(r, step) == req' = [req EXCEPT ![r].pc = step]

\* The answer.  What a failed request had sent along does not matter.
Succeed(r) == Proceed(r, "ok")
Fail(r, error) == req' = [req EXCEPT ![r].pc = StatusOf(error), ![r].arg = None]

Arrive(r, op, arg, step) ==
  /\ op \in workload.ops /\ r <= workload.requests
  /\ At(r, "idle") /\ \A q \in 1 .. r - 1 : ~At(q, "idle")
  /\ Cardinality(InFlight) < workload.inFlight
  /\ \A q \in InFlight : {op, req[q].op} \notin Apart
  /\ req' = [req EXCEPT ![r] = [pc |-> step, op |-> op, arg |-> arg,
                                after |-> Answered]]
  /\ UNCHANGED <<user, sessions, mails>>

-----------------------------------------------------------------------------
(* What several operations do.                                             *)

\* EmailQueueService.send...Email, whose queue.add may reject.
AddJob(r, kind, next) == Mails!AddJob(r, kind) /\ Proceed(r, next)
JobRejected(r, next) == Proceed(r, next) /\ UNCHANGED mails

\* A client knows a code from the e-mail that carried it.
CodesMailed(kind) == {m \in Mails!outbox : job[m].kind = kind}

\* createSession, the last step of an operation; it throws when another one of
\* the user holds the login lock.
CreateSession(r) ==
  /\ At(r, "session")
  /\ \/ sessions' = sessions \cup {r} /\ Succeed(r)
     \/ UNCHANGED sessions /\ Fail(r, conflict)
  /\ UNCHANGED <<user, mails>>

\* save inside a transaction: AuthUser.email is unique.
Mut_MaySave == TRUE
MaySave == user = NoUser
NotSaved(r) == Fail(r, WrappedByTransaction(toDomainException(Prisma("P2002"))))

\* A query of the database rejects, or the server process dies: then there is no
\* answer, and the client knows no more than from this one.
Crash(r) ==
  /\ r \in InFlight
  /\ Fail(r, toDomainException(Prisma("P1001")))
  /\ UNCHANGED <<user, sessions, mails>>

Block ==
  /\ user.active
  /\ user' = [user EXCEPT !.active = FALSE]
  /\ UNCHANGED <<sessions, req, mails>>
=============================================================================
