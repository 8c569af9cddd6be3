-------------------------- MODULE EmailQueueProofs --------------------------
(***************************************************************************)
(* EmailQueue for any number of e-mails, attempts and workers, whatever    *)
(* fails or dies, and any set of templates.                                *)
(***************************************************************************)
EXTENDS EmailQueue, TLAPS

LEMMA RowIsTyped ==
  ASSUME TypeOK, NEW m \in Mail
  PROVE  history[m] = NoRow \/ (history[m].kind \in Recorded
                                /\ history[m].status \in {"pending", "sent", "failed"})
BY DEF TypeOK, Row

-----------------------------------------------------------------------------
(* What a worker does, at its best or in trouble: its job moves, and the   *)
(* rows stay, or all those of the job's type that wait get a status.       *)

\* The copies that broken attempts and the one that is under way or done
\* account for.
Owed(l, j) == l.copies <= l.broken + (IF j.pc \in {"sent", "done"} THEN 1 ELSE 0)

Moved(m, j, l) ==
  /\ j.kind = job[m].kind /\ job' = [job EXCEPT ![m] = j] /\ log' = [log EXCEPT ![m] = l]
  /\ log[m].copies <= l.copies
  /\ j.pc = "sent" => l.copies > 0
  /\ Owed(log[m], job[m]) => Owed(l, j)

Told(m, told) ==
  \/ UNCHANGED history /\ told = log[m].told
  \/ \E status \in {"sent", "failed"} :
       /\ UpdateStatus(job[m].kind, status)
       /\ status = "sent" => job[m].pc = "sent"

Worked(m) ==
  /\ job[m] \in ActiveJob
  /\ \E j \in ActiveJob \cup EndedJob, l \in Log : Moved(m, j, l) /\ Told(m, l.told)

LEMMA WorkIsActive ==
  ASSUME NEW j \in Job, j.pc \in {"waiting", "sent", "unsent"}
  PROVE  j \in ActiveJob
BY DEF Job, NoJob, EndedJob, ActiveJob

LEMMA SentIsJob ==
  ASSUME QueueConstants, NEW j \in ActiveJob, NEW pc \in {"sent", "unsent", "done"}
  PROVE  /\ [j EXCEPT !.pc = pc] \in ActiveJob \cup EndedJob
         /\ [j EXCEPT !.pc = pc].kind = j.kind
         /\ [j EXCEPT !.pc = pc].pc = pc
BY DEF ActiveJob, EndedJob, QueueConstants

LEMMA AfterFailureIsJob ==
  ASSUME QueueConstants, NEW j \in ActiveJob
  PROVE  /\ AfterFailure(j) \in ActiveJob \cup EndedJob
         /\ AfterFailure(j).kind = j.kind
         /\ AfterFailure(j).pc \in {"waiting", "failed"}
<1>1. j.failed + 1 \in 0 .. MaxAttempts
  BY DEF QueueConstants, ActiveJob
<1>2. CASE j.failed + 1 < MaxAttempts
  <2>1. j.failed + 1 \in 0 .. MaxAttempts - 1
    BY <1>1, <1>2 DEF QueueConstants
  <2>2. AfterFailure(j) = [j EXCEPT !.failed = @ + 1, !.pc = "waiting"]
    BY <1>2 DEF AfterFailure
  <2> QED BY <2>1, <2>2 DEF ActiveJob
<1>3. CASE ~(j.failed + 1 < MaxAttempts)
  <2>1. AfterFailure(j) = [j EXCEPT !.failed = @ + 1, !.pc = "failed"]
    BY <1>3 DEF AfterFailure
  <2> QED BY <1>1, <2>1 DEF ActiveJob, EndedJob
<1> QED BY <1>2, <1>3

LEMMA AfterDeathIsJob ==
  ASSUME QueueConstants, NEW j \in ActiveJob
  PROVE  /\ AfterDeath(j) \in ActiveJob \cup EndedJob
         /\ AfterDeath(j).kind = j.kind
         /\ AfterDeath(j).pc \in {"waiting", "failed"}
<1>1. CASE j.stalled
  <2>1. AfterDeath(j) = [j EXCEPT !.stalled = TRUE, !.pc = "failed"]
    BY <1>1 DEF AfterDeath
  <2>2. j.failed \in 0 .. MaxAttempts
    BY DEF ActiveJob, QueueConstants
  <2>3. AfterDeath(j) \in EndedJob
    BY <2>1, <2>2 DEF ActiveJob, EndedJob
  <2> QED BY <2>1, <2>3 DEF ActiveJob
<1>2. CASE ~j.stalled
  <2>1. AfterDeath(j) = [j EXCEPT !.stalled = TRUE, !.pc = "waiting"]
    BY <1>2 DEF AfterDeath
  <2> QED BY <2>1 DEF ActiveJob
<1> QED BY <1>1, <1>2 DEF ActiveJob

\* The four ways to write the log.
LEMMA LogIsKept ==
  ASSUME TypeOK, NEW m \in Mail, UNCHANGED log
  PROVE  log[m] \in Log /\ log' = [log EXCEPT ![m] = log[m]]
BY DEF TypeOK

LEMMA CopyIsLogged ==
  ASSUME TypeOK, NEW m \in Mail, NEW n \in {0, 1},
         log' = [log EXCEPT ![m].copies = @ + n]
  PROVE  \E l \in Log : /\ log' = [log EXCEPT ![m] = l] /\ l.copies = log[m].copies + n
                        /\ l.broken = log[m].broken /\ l.told = log[m].told
<1> DEFINE l == [log[m] EXCEPT !.copies = @ + n]
<1>1. log[m] \in Log
  BY DEF TypeOK
<1>2. l \in Log /\ l.copies = log[m].copies + n /\ l.broken = log[m].broken
      /\ l.told = log[m].told
  BY <1>1 DEF Log
<1>3. log' = [log EXCEPT ![m] = l]
  OBVIOUS
<1> HIDE DEF l
<1> QED BY <1>2, <1>3

LEMMA BreakIsLogged ==
  ASSUME TypeOK, NEW m \in Mail, Breaks(m)
  PROVE  \E l \in Log : /\ log' = [log EXCEPT ![m] = l] /\ l.copies = log[m].copies
                        /\ l.broken = log[m].broken + 1 /\ l.told = log[m].told
<1> DEFINE l == [log[m] EXCEPT !.broken = @ + 1]
<1>1. log[m] \in Log
  BY DEF TypeOK
<1>2. l \in Log /\ l.copies = log[m].copies /\ l.broken = log[m].broken + 1
      /\ l.told = log[m].told
  BY <1>1 DEF Log
<1>3. log' = [log EXCEPT ![m] = l]
  BY DEF Breaks
<1> HIDE DEF l
<1> QED BY <1>2, <1>3

LEMMA WriteIsLogged ==
  ASSUME TypeOK, NEW m \in Mail, NEW status, Writes(m, status)
  PROVE  \E l \in Log : /\ log' = [log EXCEPT ![m] = l] /\ l.copies = log[m].copies
                        /\ l.broken = log[m].broken
<1> DEFINE l == [log[m] EXCEPT !.told = TRUE]
<1>1. log[m] \in Log
  BY DEF TypeOK
<1>2. l \in Log /\ l.copies = log[m].copies /\ l.broken = log[m].broken
  BY <1>1 DEF Log
<1>3. log' = [log EXCEPT ![m] = l]
  BY DEF Writes
<1> HIDE DEF l
<1> QED BY <1>2, <1>3

LEMMA CountsAreNumbers ==
  ASSUME TypeOK, NEW m \in Mail
  PROVE  log[m].copies \in Nat /\ log[m].broken \in Nat
BY DEF TypeOK, Log

LEMMA HandleWorks ==
  ASSUME QueueConstants, TypeOK, NEW m \in Mail, NEW sent \in BOOLEAN, Handle(m, sent)
  PROVE  Worked(m)
<1>1. job[m] \in ActiveJob /\ job[m].pc = "waiting"
  BY WorkIsActive DEF Handle, TypeOK
<1> DEFINE n == IF sent THEN 1 ELSE 0
           pc == AfterSending(job[m].kind, sent)
           j == [job[m] EXCEPT !.pc = pc]
<1>2. pc \in {"sent", "unsent", "done"} /\ (pc = "sent" => sent)
  BY DEF AfterSending
<1>3. j \in ActiveJob \cup EndedJob /\ j.kind = job[m].kind /\ j.pc = pc
  BY <1>1, <1>2, SentIsJob
<1>4. PICK l \in Log : /\ log' = [log EXCEPT ![m] = l] /\ l.copies = log[m].copies + n
                       /\ l.broken = log[m].broken /\ l.told = log[m].told
  BY CopyIsLogged DEF Handle
<1>5. job' = [job EXCEPT ![m] = j] /\ UNCHANGED history
  BY DEF Handle
<1>6. sent \/ pc \in {"unsent", "done"}
  BY <1>2
<1>7. sent => pc \in {"sent", "done"}
  BY DEF AfterSending
<1> HIDE DEF pc, j
<1>8. log[m].copies <= l.copies /\ (j.pc = "sent" => l.copies > 0)
  BY <1>2, <1>3, <1>4, CountsAreNumbers
<1>9. Owed(log[m], job[m]) => Owed(l, j)
  BY <1>1, <1>3, <1>4, <1>6, <1>7, CountsAreNumbers DEF Owed
<1>10. Moved(m, j, l)
  BY <1>3, <1>4, <1>5, <1>8, <1>9 DEF Moved
<1> QED BY <1>1, <1>3, <1>4, <1>5, <1>10 DEF Worked, Told

\* A job that leaves a worker's hands, or goes to the catch: the copy of this
\* attempt is accounted for by the attempt that broke.
LEMMA LeavingWorks ==
  ASSUME QueueConstants, TypeOK, NEW m \in Mail, job[m] \in ActiveJob,
         NEW j \in ActiveJob \cup EndedJob, j.kind = job[m].kind,
         job' = [job EXCEPT ![m] = j], j.pc # "sent",
         NEW l \in Log, log' = [log EXCEPT ![m] = l],
         \/ l.copies = log[m].copies /\ l.broken = log[m].broken + 1
         \/ /\ l.copies = log[m].copies + 1 /\ l.broken = log[m].broken + 1
            /\ job[m].pc # "sent"
         \/ /\ l.copies = log[m].copies /\ l.broken = log[m].broken
            /\ job[m].pc # "sent" \/ j.pc = "done",
         Told(m, l.told)
  PROVE  Worked(m)
<1>1. log[m].copies \in Nat /\ log[m].broken \in Nat /\ l.copies \in Nat /\ l.broken \in Nat
  BY CountsAreNumbers DEF Log
<1>2. job[m].pc # "done"
  BY DEF ActiveJob
<1>3. Owed(log[m], job[m]) => Owed(l, j)
  BY <1>1, <1>2 DEF Owed
<1>4. Moved(m, j, l)
  BY <1>1, <1>3 DEF Moved
<1> QED BY <1>4 DEF Worked

LEMMA WorkerWorks ==
  ASSUME QueueConstants, TypeOK, NEW m \in Mail, Step(m) \/ Trouble(m)
  PROVE  Worked(m)
<1>1. CASE Process(m)
  <2>1. (job[m].kind \in Templates) \in BOOLEAN
    OBVIOUS
  <2> QED BY <1>1, <2>1, HandleWorks DEF Process
<1>2. CASE ServerRefuses(m)
  BY <1>2, HandleWorks DEF ServerRefuses
<1>3. CASE MarkSent(m)
  <2>1. job[m] \in ActiveJob /\ job[m].pc = "sent"
    BY <1>3, WorkIsActive DEF MarkSent, TypeOK
  <2> DEFINE j == [job[m] EXCEPT !.pc = "done"]
  <2>2. j \in ActiveJob \cup EndedJob /\ j.kind = job[m].kind /\ j.pc = "done"
    BY <2>1, SentIsJob
  <2>3. PICK l \in Log : /\ log' = [log EXCEPT ![m] = l] /\ l.copies = log[m].copies
                         /\ l.broken = log[m].broken
    BY <1>3, WriteIsLogged DEF MarkSent
  <2>4. job' = [job EXCEPT ![m] = j]
    BY <1>3 DEF MarkSent
  <2>5. Told(m, l.told)
    BY <1>3, <2>1 DEF MarkSent, Writes, Told
  <2> HIDE DEF j
  <2> QED BY <2>1, <2>2, <2>3, <2>4, <2>5, CountsAreNumbers, LeavingWorks
<1>4. CASE MarkFailed(m)
  <2>1. job[m] \in ActiveJob /\ job[m].pc = "unsent"
    BY <1>4, WorkIsActive DEF MarkFailed, TypeOK
  <2>2. PICK l \in Log : /\ log' = [log EXCEPT ![m] = l] /\ l.copies = log[m].copies
                         /\ l.broken = log[m].broken
    BY <1>4, WriteIsLogged DEF MarkFailed
  <2>3. Told(m, l.told)
    BY <1>4 DEF MarkFailed, Writes, Told
  <2>4. job' = [job EXCEPT ![m] = AfterFailure(job[m])]
    BY <1>4 DEF MarkFailed
  <2> QED BY <2>1, <2>2, <2>3, <2>4, AfterFailureIsJob, CountsAreNumbers, LeavingWorks
<1>5. CASE SentRejected(m)
  <2>1. job[m] \in ActiveJob /\ job[m].pc = "sent"
    BY <1>5, WorkIsActive DEF SentRejected, TypeOK
  <2> DEFINE j == [job[m] EXCEPT !.pc = "unsent"]
  <2>2. j \in ActiveJob \cup EndedJob /\ j.kind = job[m].kind /\ j.pc = "unsent"
    BY <2>1, SentIsJob
  <2>3. PICK l \in Log : /\ log' = [log EXCEPT ![m] = l] /\ l.copies = log[m].copies
                         /\ l.broken = log[m].broken + 1 /\ l.told = log[m].told
    BY <1>5, BreakIsLogged DEF SentRejected
  <2>4. job' = [job EXCEPT ![m] = j]
    BY <1>5 DEF SentRejected
  <2>5. Told(m, l.told)
    BY <1>5, <2>1, <2>3 DEF SentRejected, Told
  <2> HIDE DEF j
  <2> QED BY <2>1, <2>2, <2>3, <2>4, <2>5, CountsAreNumbers, LeavingWorks
<1>6. CASE FailedRejected(m)
  <2>1. job[m] \in ActiveJob /\ job[m].pc = "unsent"
    BY <1>6, WorkIsActive DEF FailedRejected, TypeOK
  <2>2. log[m] \in Log /\ log' = [log EXCEPT ![m] = log[m]]
    BY <1>6, LogIsKept DEF FailedRejected
  <2>3. job' = [job EXCEPT ![m] = AfterFailure(job[m])] /\ Told(m, log[m].told)
    BY <1>6 DEF FailedRejected, Told
  <2> QED BY <2>1, <2>2, <2>3, AfterFailureIsJob, CountsAreNumbers, LeavingWorks
<1>7. CASE Die(m)
  <2>1. job[m] \in ActiveJob /\ job' = [job EXCEPT ![m] = AfterDeath(job[m])]
    BY <1>7, WorkIsActive DEF Die, Lose, TypeOK
  <2>2. CASE job[m].pc = "sent" /\ Breaks(m)
             /\ (UNCHANGED history \/ UpdateStatus(job[m].kind, "sent"))
    <3>1. PICK l \in Log : /\ log' = [log EXCEPT ![m] = l] /\ l.copies = log[m].copies
                           /\ l.broken = log[m].broken + 1 /\ l.told = log[m].told
      BY <2>2, BreakIsLogged
    <3>2. Told(m, l.told)
      BY <2>2, <3>1 DEF Told
    <3> QED BY <2>1, <2>2, <3>1, <3>2, AfterDeathIsJob, CountsAreNumbers, LeavingWorks
  <2>3. CASE job[m].pc = "unsent" /\ Writes(m, "failed")
    <3>1. PICK l \in Log : /\ log' = [log EXCEPT ![m] = l] /\ l.copies = log[m].copies
                           /\ l.broken = log[m].broken
      BY <2>3, WriteIsLogged
    <3>2. Told(m, l.told)
      BY <2>3 DEF Writes, Told
    <3> QED BY <2>1, <2>3, <3>1, <3>2, AfterDeathIsJob, CountsAreNumbers, LeavingWorks
  <2>4. CASE job[m].pc \in {"unsent", "waiting"} /\ UNCHANGED <<history, log>>
    <3>1. log[m] \in Log /\ log' = [log EXCEPT ![m] = log[m]]
      BY <2>4, LogIsKept
    <3>2. Told(m, log[m].told)
      BY <2>4 DEF Told
    <3> QED BY <2>1, <2>4, <3>1, <3>2, AfterDeathIsJob, CountsAreNumbers, LeavingWorks
  <2>5. CASE /\ job[m].pc = "waiting" /\ UNCHANGED history
             /\ log' = [log EXCEPT ![m] = BrokenCopy(@)]
    <3> DEFINE l == BrokenCopy(log[m])
    <3>1. log[m] \in Log
      BY DEF TypeOK
    <3>2. l \in Log /\ l.copies = log[m].copies + 1 /\ l.broken = log[m].broken + 1
          /\ l.told = log[m].told
      BY <3>1 DEF Log, BrokenCopy
    <3>3. log' = [log EXCEPT ![m] = l]
      BY <2>5
    <3>4. Told(m, l.told)
      BY <2>5, <3>2 DEF Told
    <3> HIDE DEF l
    <3> QED BY <2>1, <2>5, <3>2, <3>3, <3>4, AfterDeathIsJob, CountsAreNumbers, LeavingWorks
  <2>6. CASE job[m].pc = "waiting"
    BY <1>7, <2>4, <2>5, <2>6 DEF Die
  <2>7. CASE job[m].pc = "unsent"
    BY <1>7, <2>3, <2>4, <2>7 DEF Die
  <2>8. CASE job[m].pc = "sent"
    BY <1>7, <2>2, <2>8 DEF Die
  <2>9. job[m].pc \in {"waiting", "unsent", "sent"}
    BY <2>1 DEF ActiveJob
  <2> QED BY <2>6, <2>7, <2>8, <2>9
<1> QED BY <1>1, <1>2, <1>3, <1>4, <1>5, <1>6, <1>7 DEF Step, Trouble

\* The steps of the services, all of them before the e-mail has a job.
Served(m) ==
  /\ job[m] = NoJob /\ UNCHANGED log
  /\ \/ history[m] = NoRow /\ \E kind \in Recorded : CreateRow(m, kind)
     \/ history[m] = NoRow /\ AddJob(m, "welcome")
     \/ history[m] # NoRow /\ AddJob(m, history[m].kind)
     \/ history[m] # NoRow /\ UpdateStatus(history[m].kind, "failed") /\ UNCHANGED job

LEMMA StepsAre ==
  ASSUME QueueConstants, TypeOK, Next
  PROVE  \E m \in Mail : Worked(m) \/ Served(m)
BY WorkerWorks DEF Next, Served, CreateRow, AddJob

-----------------------------------------------------------------------------
(* Types.                                                                  *)

LEMMA RowsStayTyped ==
  ASSUME TypeOK, NEW kind \in Kinds, NEW status \in {"sent", "failed"},
         UpdateStatus(kind, status)
  PROVE  history' \in [Mail -> Row]
<1>1. ASSUME NEW m \in Pending(kind)
      PROVE  kind \in Recorded
  BY <1>1 DEF Pending, TypeOK, Row, NoRow
<1> QED BY <1>1 DEF UpdateStatus, TypeOK, Row, Pending

LEMMA TypeInductive ==
  ASSUME QueueConstants
  PROVE  /\ Init => TypeOK
         /\ TypeOK /\ [Next]_vars => TypeOK'
<1>1. Init => TypeOK
  BY DEF Init, TypeOK, Row, Job, Log, NoLog
<1>2. ASSUME TypeOK, [Next]_vars
      PROVE  TypeOK'
  <2> USE <1>2
  <2>1. CASE UNCHANGED vars
    BY <2>1 DEF TypeOK, vars
  <2>2. ASSUME NEW m \in Mail, Worked(m)
        PROVE  TypeOK'
    <3>1. PICK j \in ActiveJob \cup EndedJob, l \in Log : Moved(m, j, l) /\ Told(m, l.told)
      BY <2>2 DEF Worked
    <3>2. job[m].kind \in Kinds
      BY <2>2 DEF Worked, ActiveJob
    <3>3. history' \in [Mail -> Row]
      BY <3>1, <3>2, RowsStayTyped DEF Told, TypeOK
    <3>4. j \in Job
      BY DEF Job
    <3> QED BY <3>1, <3>3, <3>4 DEF Moved, TypeOK
  <2>3. ASSUME NEW m \in Mail, Served(m)
        PROVE  TypeOK'
    <3>1. history[m] # NoRow => history[m].kind \in Kinds
      BY RowIsTyped DEF Recorded
    <3>2. ASSUME NEW kind \in Kinds
          PROVE  NewJob(kind) \in Job
      BY <3>2 DEF QueueConstants, NewJob, Job, ActiveJob
    <3>3. history' \in [Mail -> Row]
      BY <2>3, <3>1, RowsStayTyped DEF Served, CreateRow, AddJob, TypeOK, Row
    <3>4. job' \in [Mail -> Job]
      BY <2>3, <3>1, <3>2 DEF Served, CreateRow, AddJob, TypeOK, Kinds
    <3> QED BY <2>3, <3>3, <3>4 DEF Served, TypeOK
  <2> QED BY <2>1, <2>2, <2>3, StepsAre
<1> QED BY <1>1, <1>2

\* Rows and jobs are well formed, and no job is tried more often than the
\* options of email.queue.ts:54 say: an active one has attempts left.
THEOREM TypeCorrect ==
  ASSUME QueueConstants
  PROVE  Spec => []TypeOK
<1>1. Init => TypeOK
  BY TypeInductive
<1>2. TypeOK /\ [Next]_vars => TypeOK'
  BY TypeInductive
<1> QED BY <1>1, <1>2, PTL DEF Spec

-----------------------------------------------------------------------------
(* A row that says "sent".  The invariant adds that a job about to write   *)
(* so has been sent, and that an e-mail that was sent keeps its job, so    *)
(* that its type cannot change afterwards.                                 *)

SentInv ==
  /\ SentMeansSent
  /\ \A m \in Mail : job[m].pc = "sent" => m \in outbox
  /\ \A n \in outbox : job[n] # NoJob

\* Rows may fall back from "sent" or follow the job of an e-mail that was sent.
LEMMA SentByJobs ==
  ASSUME SentMeansSent, outbox \subseteq outbox',
         \A n \in outbox : job'[n].kind = job[n].kind,
         \A m \in Mail : history'[m].status = "sent"
                         => \/ history[m].status = "sent" /\ history[m].kind = history'[m].kind
                            \/ \E n \in outbox : job[n].kind = history'[m].kind
  PROVE  SentMeansSent'
<1>1. ASSUME NEW m \in Mail, history'[m].status = "sent"
      PROVE  \E n \in outbox : job[n].kind = history'[m].kind
  BY <1>1 DEF SentMeansSent
<1> QED BY <1>1 DEF SentMeansSent

LEMMA SentInductive ==
  ASSUME QueueConstants
  PROVE  /\ Init => SentInv
         /\ TypeOK /\ SentInv /\ [Next]_vars => SentInv'
<1>1. Init => SentInv
  BY DEF Init, SentInv, SentMeansSent, NoRow, NoJob, outbox, NoLog
<1>2. ASSUME TypeOK, SentInv, [Next]_vars
      PROVE  SentInv'
  <2> USE <1>2
  <2>1. CASE UNCHANGED vars
    BY <2>1 DEF SentInv, SentMeansSent, outbox, vars
  <2>2. ASSUME NEW m \in Mail, Worked(m)
        PROVE  SentInv'
    <3>1. PICK j \in ActiveJob \cup EndedJob, l \in Log : Moved(m, j, l) /\ Told(m, l.told)
      BY <2>2 DEF Worked
    <3>2. /\ job'[m] = j /\ log'[m] = l /\ j.kind = job[m].kind /\ j # NoJob
          /\ \A n \in Mail \ {m} : job'[n] = job[n] /\ log'[n] = log[n]
      BY <3>1 DEF Moved, TypeOK, ActiveJob, EndedJob, NoJob
    <3>3. m \in outbox => m \in outbox'
      BY <3>1, <3>2, CountsAreNumbers DEF outbox, Moved, Log
    <3>4. outbox \subseteq outbox' /\ outbox' \subseteq outbox \cup {m}
      BY <3>2, <3>3 DEF outbox
    <3>5. \A n \in Mail : job'[n].kind = job[n].kind
      BY <3>2
    <3>6. ASSUME NEW x \in Mail, history'[x].status = "sent", history'[x] # history[x]
          PROVE  \E n \in outbox : job[n].kind = history'[x].kind
      <4>1. PICK status \in {"sent", "failed"} : UpdateStatus(job[m].kind, status)
                                                /\ (status = "sent" => job[m].pc = "sent")
        BY <3>1, <3>6 DEF Told
      <4>2. history'[x] = [kind |-> job[m].kind, status |-> status]
        BY <3>6, <4>1 DEF UpdateStatus
      <4>3. m \in outbox
        BY <3>6, <4>1, <4>2 DEF SentInv
      <4> QED BY <4>2, <4>3
    <3>7. SentMeansSent'
      BY <3>4, <3>5, <3>6, SentByJobs DEF SentInv, outbox
    <3>8. job'[m].pc = "sent" => m \in outbox'
      BY <3>1, <3>2 DEF Moved, outbox
    <3>9. \A n \in Mail : job'[n].pc = "sent" => n \in outbox'
      BY <3>2, <3>4, <3>8 DEF SentInv
    <3>10. \A n \in outbox' : job'[n] # NoJob
      BY <3>2, <3>4 DEF SentInv, outbox
    <3> QED BY <3>7, <3>9, <3>10 DEF SentInv
  <2>3. ASSUME NEW m \in Mail, Served(m)
        PROVE  SentInv'
    <3>1. outbox' = outbox /\ m \notin outbox
      BY <2>3 DEF Served, SentInv, outbox
    <3>2. /\ \A n \in Mail \ {m} : job'[n] = job[n]
          /\ job'[m].pc # "sent"
      BY <2>3 DEF Served, CreateRow, AddJob, NewJob, NoJob, TypeOK
    <3>3. \A x \in Mail : history'[x].status = "sent" => history'[x] = history[x]
      BY <2>3 DEF Served, CreateRow, AddJob, UpdateStatus, TypeOK
    <3>4. SentMeansSent'
      BY <3>1, <3>2, <3>3, SentByJobs DEF SentInv, outbox
    <3> QED BY <3>1, <3>2, <3>4 DEF SentInv, outbox
  <2> QED BY <2>1, <2>2, <2>3, StepsAre
<1> QED BY <1>1, <1>2

\* The history never claims for a type of e-mail that one was sent when none
\* was, whatever fails and however often the processor tries.
THEOREM SentIsSent ==
  ASSUME QueueConstants
  PROVE  Spec => []SentMeansSent
<1>1. Init => TypeOK /\ SentInv
  BY TypeInductive, SentInductive
<1>2. TypeOK /\ SentInv /\ [Next]_vars => (TypeOK /\ SentInv)'
  BY TypeInductive, SentInductive
<1>3. SentInv => SentMeansSent
  BY DEF SentInv
<1> QED BY <1>1, <1>2, <1>3, PTL DEF Spec

-----------------------------------------------------------------------------
(* No row left pending.  The invariant says that a job and its row are of  *)
(* one type: so whatever status the job writes, it writes over its own     *)
(* pending row as well.                                                    *)

RowOfJob ==
  \A m \in Mail : job[m] # NoJob
                  => IF job[m].kind = "welcome" THEN history[m] = NoRow
                                                ELSE history[m].kind = job[m].kind
ToldInv == \A m \in Mail : log[m].told => job[m] # NoJob /\ history[m].status # "pending"
SettledInv == ToldInv /\ RowOfJob

LEMMA UpdateKeepsRows ==
  ASSUME TypeOK, NEW kind \in Kinds, NEW status \in {"sent", "failed"},
         UpdateStatus(kind, status), NEW m \in Mail
  PROVE  /\ history'[m].kind = history[m].kind
         /\ history[m] = NoRow => history'[m] = NoRow
         /\ history'[m].status = "pending" => history[m].status = "pending"
         /\ history[m].kind = kind => history'[m].status # "pending"
<1>1. history[m] = NoRow
      \/ history[m] \in [kind : Recorded, status : {"pending", "sent", "failed"}]
  BY DEF TypeOK, Row
<1>2. CASE history[m] = [kind |-> kind, status |-> "pending"]
  <2>1. history'[m] = [kind |-> kind, status |-> status]
    BY <1>2 DEF UpdateStatus, Pending
  <2> QED BY <1>2, <2>1 DEF NoRow
<1>3. CASE history[m] # [kind |-> kind, status |-> "pending"]
  <2>1. history'[m] = history[m]
    BY <1>3 DEF UpdateStatus, Pending
  <2>2. history[m].kind = kind => history[m].status # "pending"
    BY <1>1, <1>3 DEF NoRow
  <2> QED BY <2>1, <2>2
<1> QED BY <1>2, <1>3

LEMMA SettledInductive ==
  ASSUME QueueConstants
  PROVE  /\ Init => SettledInv
         /\ TypeOK /\ SettledInv /\ [Next]_vars => SettledInv'
<1>1. Init => SettledInv
  BY DEF Init, SettledInv, ToldInv, RowOfJob, NoLog, NoRow, NoJob
<1>2. ASSUME TypeOK, SettledInv, [Next]_vars
      PROVE  SettledInv'
  <2> USE <1>2
  <2>1. CASE UNCHANGED vars
    BY <2>1 DEF SettledInv, ToldInv, RowOfJob, vars
  <2>2. ASSUME NEW m \in Mail, Worked(m)
        PROVE  SettledInv'
    <3>1. PICK j \in ActiveJob \cup EndedJob, l \in Log : Moved(m, j, l) /\ Told(m, l.told)
      BY <2>2 DEF Worked
    <3>2. /\ job'[m] = j /\ log'[m] = l /\ j.kind = job[m].kind /\ j # NoJob
          /\ \A n \in Mail \ {m} : job'[n] = job[n] /\ log'[n] = log[n]
      BY <3>1 DEF Moved, TypeOK, ActiveJob, EndedJob, NoJob
    <3>3. job[m].kind \in Kinds /\ job[m] # NoJob
      BY <2>2 DEF Worked, ActiveJob, NoJob
    <3>4. CASE UNCHANGED history /\ l.told = log[m].told
      <4>1. ToldInv'
        BY <3>2, <3>4 DEF SettledInv, ToldInv
      <4> QED BY <3>2, <3>3, <3>4, <4>1 DEF SettledInv, RowOfJob
    <3>5. CASE \E status \in {"sent", "failed"} : UpdateStatus(job[m].kind, status)
      <4>1. \A x \in Mail :
              /\ history'[x].kind = history[x].kind
              /\ history[x] = NoRow => history'[x] = NoRow
              /\ history'[x].status = "pending" => history[x].status = "pending"
              /\ history[x].kind = job[m].kind => history'[x].status # "pending"
        BY <3>3, <3>5, UpdateKeepsRows
      <4>2. RowOfJob'
        BY <3>2, <3>3, <4>1 DEF SettledInv, RowOfJob
      <4>3. history'[m].status # "pending"
        BY <3>3, <4>1 DEF SettledInv, RowOfJob, NoRow
      <4>4. ToldInv'
        BY <3>2, <4>1, <4>3 DEF SettledInv, ToldInv
      <4> QED BY <4>2, <4>4 DEF SettledInv
    <3> QED BY <3>1, <3>4, <3>5 DEF Told
  <2>3. ASSUME NEW m \in Mail, Served(m)
        PROVE  SettledInv'
    <3>1. ~log[m].told /\ UNCHANGED log
      BY <2>3 DEF Served, SettledInv, ToldInv
    <3>2. \A n \in Mail \ {m} :
            /\ job'[n] = job[n] /\ history'[n].kind = history[n].kind
            /\ history[n] = NoRow => history'[n] = NoRow
            /\ history'[n].status = "pending" => history[n].status = "pending"
      <4>1. CASE UpdateStatus(history[m].kind, "failed") /\ UNCHANGED job /\ history[m] # NoRow
        <5>1. history[m].kind \in Kinds
          BY <4>1, RowIsTyped DEF Recorded
        <5> QED BY <4>1, <5>1, UpdateKeepsRows
      <4> QED BY <2>3, <4>1 DEF Served, CreateRow, AddJob, TypeOK
    <3>3. \/ job'[m] = NoJob
          \/ job'[m].kind = "welcome" /\ history'[m] = NoRow
          \/ job'[m].kind # "welcome" /\ history'[m].kind = job'[m].kind
      <4>1. CASE UNCHANGED job
        BY <2>3, <4>1 DEF Served
      <4>2. CASE AddJob(m, "welcome") /\ history[m] = NoRow
        BY <4>2 DEF AddJob, NewJob, TypeOK
      <4>3. CASE AddJob(m, history[m].kind) /\ history[m] # NoRow
        <5>1. history[m].kind # "welcome"
          BY <4>3, RowIsTyped DEF Recorded
        <5> QED BY <4>3, <5>1 DEF AddJob, NewJob, TypeOK
      <4> QED BY <2>3, <4>1, <4>2, <4>3 DEF Served, CreateRow
    <3>4. ToldInv'
      BY <3>1, <3>2 DEF SettledInv, ToldInv
    <3>5. RowOfJob'
      BY <3>2, <3>3 DEF SettledInv, RowOfJob
    <3> QED BY <3>4, <3>5 DEF SettledInv
  <2> QED BY <2>1, <2>2, <2>3, StepsAre
<1> QED BY <1>1, <1>2

\* Whatever is retried or dies, the row of an e-mail whose job has ended is left
\* pending only if not one attempt came to write a status; for any number of
\* e-mails that write each other's rows.  Which status it tells is not said.
THEOREM NoRowIsLeft ==
  ASSUME QueueConstants
  PROVE  Spec => []NoRowLeftPending
<1>1. Init => TypeOK /\ SettledInv
  BY TypeInductive, SettledInductive
<1>2. TypeOK /\ SettledInv /\ [Next]_vars => (TypeOK /\ SettledInv)'
  BY TypeInductive, SettledInductive
<1>3. SettledInv => NoRowLeftPending
  BY DEF SettledInv, ToldInv, NoRowLeftPending
<1> QED BY <1>1, <1>2, <1>3, PTL DEF Spec

-----------------------------------------------------------------------------
(* No e-mail is sent again but after an attempt that broke: whatever is to *)
(* be tried again has no copy that is not accounted for.                   *)

OnceInv == \A m \in Mail : Owed(log[m], job[m])

LEMMA OnceInductive ==
  ASSUME QueueConstants
  PROVE  /\ Init => OnceInv
         /\ TypeOK /\ OnceInv /\ [Next]_vars => OnceInv'
<1>1. Init => OnceInv
  BY DEF Init, OnceInv, Owed, NoLog, NoJob
<1>2. ASSUME TypeOK, OnceInv, [Next]_vars
      PROVE  OnceInv'
  <2> USE <1>2
  <2>1. CASE UNCHANGED vars
    BY <2>1 DEF OnceInv, vars
  <2>2. ASSUME NEW m \in Mail, Worked(m)
        PROVE  OnceInv'
    <3>1. PICK j \in ActiveJob \cup EndedJob, l \in Log : Moved(m, j, l)
      BY <2>2 DEF Worked
    <3>2. /\ job'[m] = j /\ log'[m] = l
          /\ \A n \in Mail \ {m} : job'[n] = job[n] /\ log'[n] = log[n]
      BY <3>1 DEF Moved, TypeOK
    <3>3. Owed(l, j)
      BY <3>1 DEF Moved, OnceInv
    <3> QED BY <3>2, <3>3 DEF OnceInv
  <2>3. ASSUME NEW m \in Mail, Served(m)
        PROVE  OnceInv'
    <3>1. UNCHANGED log /\ \A n \in Mail \ {m} : job'[n] = job[n]
      BY <2>3 DEF Served, CreateRow, AddJob, TypeOK
    <3>2. job'[m].pc \notin {"sent", "done"} /\ job[m].pc \notin {"sent", "done"}
      BY <2>3 DEF Served, CreateRow, AddJob, NewJob, NoJob, TypeOK
    <3>3. Owed(log'[m], job'[m])
      BY <3>1, <3>2 DEF OnceInv, Owed
    <3> QED BY <3>1, <3>3 DEF OnceInv
  <2> QED BY <2>1, <2>2, <2>3, StepsAre
<1> QED BY <1>1, <1>2

\* Every copy of an e-mail but one answers for an attempt that broke after the
\* server had taken it, however many attempts, workers and deaths there are: what
\* ended well, or failed before the server took it, is not repeated.
THEOREM CopiesAreOwed ==
  ASSUME QueueConstants
  PROVE  Spec => []SentOnce
<1>1. Init => TypeOK /\ OnceInv
  BY TypeInductive, OnceInductive
<1>2. TypeOK /\ OnceInv /\ [Next]_vars => (TypeOK /\ OnceInv)'
  BY TypeInductive, OnceInductive
<1>3. TypeOK /\ OnceInv => SentOnce
  <2> SUFFICES ASSUME TypeOK, OnceInv, NEW m \in Mail
               PROVE  log[m].copies <= 1 + log[m].broken
    BY DEF SentOnce
  <2>1. log[m].copies \in Nat /\ log[m].broken \in Nat
    BY CountsAreNumbers
  <2> QED BY <2>1 DEF OnceInv, Owed
<1> QED BY <1>1, <1>2, <1>3, PTL DEF Spec
=============================================================================
