----------------------------- MODULE EmailQueue -----------------------------
(***************************************************************************)
(* The e-mails of one account: the rows of EmailHistory, the jobs in       *)
(* BullMQ and EmailProcessor, which sends an e-mail and then writes what   *)
(* became of it.  The writes are updateMany over all pending rows of the   *)
(* account and type, not over the row of the job.                          *)
(*                                                                         *)
(* An e-mail is numbered by the request that asks for it.  The delay       *)
(* between attempts is any delay; jobs that wait have no order.  A worker  *)
(* that dies leaves its job to BullMQ, which gives a stalled job to        *)
(* another one once (its default, maxStalledCount: 1).                     *)
(***************************************************************************)
EXTENDS Integers, FiniteSets

CONSTANTS Mail,
          MaxAttempts,  \* attempts: 3
          Templates,    \* files of templates/emails, named by the type of e-mail
          Workers       \* server processes, each with one job at a time

Kinds == {"verification", "welcome", "password_reset"}
Recorded == Kinds \ {"welcome"}

\* What the constants are; AccountStore, which instantiates them, assumes it.
QueueConstants ==
  /\ MaxAttempts \in Nat \ {0}
  /\ Templates \subseteq Kinds
  /\ Workers \in Nat

VARIABLES
  history,  \* the row of each e-mail: its type and its status
  job,      \* the job of each e-mail, the failed attempts it has behind it, and
            \* whether a worker died over it
  log       \* history, of each e-mail: the copies that the mail server took, the
            \* attempts that broke after that, and whether one wrote a status

vars == <<history, job, log>>

NoRow == [kind |-> "none", status |-> "none"]
NoJob == [kind |-> "none", pc |-> "none", failed |-> 0, stalled |-> FALSE]
NewJob(kind) == [kind |-> kind, pc |-> "waiting", failed |-> 0, stalled |-> FALSE]
NoLog == [copies |-> 0, broken |-> 0, told |-> FALSE]
Row == {NoRow} \cup [kind : Recorded, status : {"pending", "sent", "failed"}]
ActiveJob == [kind : Kinds, pc : {"waiting", "sent", "unsent"},
              failed : 0 .. MaxAttempts - 1, stalled : BOOLEAN]
EndedJob == [kind : Kinds, pc : {"done", "failed"},
             failed : 0 .. MaxAttempts, stalled : BOOLEAN]
Job == {NoJob} \cup ActiveJob \cup EndedJob
Log == [copies : Nat, broken : Nat, told : BOOLEAN]

TypeOK ==
  /\ history \in [Mail -> Row]
  /\ job \in [Mail -> Job]
  /\ log \in [Mail -> Log]

\* The e-mails that were sent.
outbox == {m \in Mail : log[m].copies > 0}

Init ==
  /\ history = [m \in Mail |-> NoRow]
  /\ job = [m \in Mail |-> NoJob]
  /\ log = [m \in Mail |-> NoLog]

-----------------------------------------------------------------------------
(* What the services do.                                                   *)

\* emailHistoryRepo.create, with status "pending"
CreateRow(m, kind) ==
  /\ history' = [history EXCEPT ![m] = [kind |-> kind, status |-> "pending"]]
  /\ UNCHANGED <<job, log>>

\* EmailQueueService.send...Email
AddJob(m, kind) ==
  /\ job' = [job EXCEPT ![m] = NewJob(kind)]
  /\ UNCHANGED <<history, log>>

\* updateStatusByAuth, and the same updateMany in EmailProcessor
Mut_Pending(kind) == {m \in Mail : history[m] = [kind |-> "verification", status |-> "pending"]}
Pending(kind) == {m \in Mail : history[m] = [kind |-> kind, status |-> "pending"]}

UpdateStatus(kind, status) ==
  history' = [m \in Mail |-> IF m \in Pending(kind)
                             THEN [kind |-> kind, status |-> status]
                             ELSE history[m]]

-----------------------------------------------------------------------------
(* EmailProcessor.process.                                                 *)

InHand == {m \in Mail : job[m].pc \in {"sent", "unsent"}}

Mut_AfterSending(kind, sent) ==
  IF kind = "welcome" THEN "done" ELSE "sent"
Mut_AfterSendingTwice(kind, sent) ==
  IF kind = "welcome" THEN "done" ELSE "unsent"
\* Nothing is recorded of a welcome, nor is its failure a reason to retry.
AfterSending(kind, sent) ==
  IF kind = "welcome" THEN "done" ELSE IF sent THEN "sent" ELSE "unsent"

Handle(m, sent) ==
  /\ job[m].pc = "waiting" /\ Cardinality(InHand) < Workers
  /\ log' = [log EXCEPT ![m].copies = @ + IF sent THEN 1 ELSE 0]
  /\ job' = [job EXCEPT ![m].pc = AfterSending(job[m].kind, sent)]
  /\ UNCHANGED history

\* The type without a template fails before the server is asked.
Process(m) == Handle(m, job[m].kind \in Templates)

Writes(m, status) ==
  /\ UpdateStatus(job[m].kind, status)
  /\ log' = [log EXCEPT ![m].told = TRUE]

MarkSent(m) ==
  /\ job[m].pc = "sent"
  /\ Writes(m, "sent")
  /\ job' = [job EXCEPT ![m].pc = "done"]

\* BullMQ takes the exception as a failed attempt.
AfterFailure(j) ==
  [j EXCEPT !.failed = @ + 1, !.pc = IF j.failed + 1 < MaxAttempts THEN "waiting" ELSE "failed"]

MarkFailed(m) ==
  /\ job[m].pc = "unsent"
  /\ Writes(m, "failed")
  /\ job' = [job EXCEPT ![m] = AfterFailure(@)]

Step(m) == Process(m) \/ MarkSent(m) \/ MarkFailed(m)

-----------------------------------------------------------------------------
(* What goes wrong.                                                        *)

ServerRefuses(m) == job[m].kind \in Templates /\ Handle(m, FALSE)

Breaks(m) == log' = [log EXCEPT ![m].broken = @ + 1]

\* The update of line 69 rejects: the same catch as for an e-mail that was not
\* sent.  It may have been made all the same.
SentRejected(m) ==
  /\ job[m].pc = "sent"
  /\ UNCHANGED history \/ UpdateStatus(job[m].kind, "sent")
  /\ Breaks(m)
  /\ job' = [job EXCEPT ![m].pc = "unsent"]

\* The update of line 93 rejects, before it throws the error it was for.
FailedRejected(m) ==
  /\ job[m].pc = "unsent"
  /\ job' = [job EXCEPT ![m] = AfterFailure(@)]
  /\ UNCHANGED <<history, log>>

\* The worker dies, and the job is given to another one, or is given up.
AfterDeath(j) ==
  [j EXCEPT !.stalled = TRUE, !.pc = IF j.stalled THEN "failed" ELSE "waiting"]

Lose(m) == job' = [job EXCEPT ![m] = AfterDeath(@)]

BrokenCopy(l) == [copies |-> l.copies + 1, broken |-> l.broken + 1, told |-> l.told]

\* It dies before the update of the row, or between that and the end of the job;
\* or before there is anything to update, over a welcome after that was sent, too.
Die(m) ==
  \/ /\ job[m].pc = "sent" /\ Lose(m) /\ Breaks(m)
     /\ UNCHANGED history \/ UpdateStatus(job[m].kind, "sent")
  \/ /\ job[m].pc = "unsent" /\ Lose(m)
     /\ Writes(m, "failed") \/ UNCHANGED <<history, log>>
  \/ /\ job[m].pc = "waiting" /\ Cardinality(InHand) < Workers /\ Lose(m)
     /\ \/ UNCHANGED log
        \/ /\ job[m].kind \in Templates \cap {"welcome"}
           /\ log' = [log EXCEPT ![m] = BrokenCopy(@)]
     /\ UNCHANGED history

Trouble(m) == ServerRefuses(m) \/ SentRejected(m) \/ FailedRejected(m) \/ Die(m)

\* The services write the row, if there is one, before they add the job.
Next ==
  \E m \in Mail :
    \/ Step(m) \/ Trouble(m)
    \/ job[m] = NoJob /\ history[m] = NoRow /\ \E kind \in Recorded : CreateRow(m, kind)
    \/ job[m] = NoJob /\ history[m] = NoRow /\ AddJob(m, "welcome")
    \/ job[m] = NoJob /\ history[m] # NoRow /\ AddJob(m, history[m].kind)
    \/ job[m] = NoJob /\ history[m] # NoRow /\ UpdateStatus(history[m].kind, "failed")
                      /\ UNCHANGED <<job, log>>

Spec == Init /\ [][Next]_vars

-----------------------------------------------------------------------------

\* A row that says "sent" says so of an e-mail of its type that was sent, if
\* not of its own (email.processor.ts:68-78).
SentMeansSent ==
  \A m \in Mail : history[m].status = "sent"
                  => \E n \in outbox : job[n].kind = history[m].kind

\* The row of an e-mail whose job has ended is not left pending, whichever of the
\* jobs wrote it, if one attempt at least came to the end of a write of a status
\* (email.processor.ts:69 and 93): a row is pending for ever only if every attempt
\* died, or had no answer from the database.  "failed" it may say all the same of an
\* e-mail that a later attempt delivered.
Ended(m) == job[m].pc \in {"done", "failed"}
NoRowLeftPending ==
  \A m \in Mail : Ended(m) /\ log[m].told => history[m].status # "pending"

\* An e-mail is sent again only by a retry that makes up for an attempt that broke
\* after the server had taken it: the worker died, or the database did not answer
\* line 69 (email.processor.ts:61-78).
SentOnce == \A m \in Mail : log[m].copies <= 1 + log[m].broken
=============================================================================
