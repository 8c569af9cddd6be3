--------------------------- MODULE AccountsProofs ---------------------------
(***************************************************************************)
(* Accounts for any number of requests, at once or not, and any number of  *)
(* mishaps: types, and the step down to EmailQueue, by which its theorems  *)
(* hold here.                                                              *)
(***************************************************************************)
EXTENDS Accounts, FiniteSetTheorems, TLAPS

(* What a request's step tells of its operation and of its e-mail: before  *)
(* the last steps there is no job, and a row only if one is owed.          *)

OwesMail(r) == req[r].pc \in {"queue", "markFailed"} \/ AtOf(r, "create", "setCode")
Over == {"session"} \cup Final
Untouched(r) == job[r] = Mails!NoJob /\ history[r] = Mails!NoRow
KindOf(op) == IF op = "forgot" THEN "password_reset" ELSE "verification"

CourseOf(r) ==
  /\ At(r, "idle") => req[r].op = "none"
  /\ req[r].pc \in {"setVerified", "update"} => user # NoUser
  /\ OwesMail(r) => job[r] = Mails!NoJob /\ history[r].kind = KindOf(req[r].op)
  /\ OwesMail(r) \/ req[r].pc \in Over \/ Untouched(r)

Courses == \A r \in Request : CourseOf(r)

KeysTypeOK == RegisterTypeOK /\ PasswordTypeOK /\ GoogleTypeOK
Inv == StoreTypeOK /\ KeysTypeOK /\ Courses

MailStep == [Mails!Next]_(Mails!vars)

\* The theorems of EmailQueue, on these e-mails.
MP == INSTANCE EmailQueueProofs WITH Mail <- Request

LEMMA SameQueue ==
  /\ Mails!Init => MP!Init
  /\ MailStep => [MP!Next]_(MP!vars)
<1> USE DEF Mails!NoRow, MP!NoRow, Mails!NoJob, MP!NoJob, Mails!NoLog, MP!NoLog
<1>1. Mails!Init => MP!Init
  BY DEF Mails!Init, MP!Init
<1>2. ASSUME NEW m \in Request, NEW sent
      PROVE  Mails!Handle(m, sent) <=> MP!Handle(m, sent)
  BY DEF Mails!Handle, MP!Handle, Mails!AfterSending, MP!AfterSending, Mails!InHand, MP!InHand,
         Mails!Cardinality, MP!Cardinality
<1>3. \A kind, status : Mails!UpdateStatus(kind, status) <=> MP!UpdateStatus(kind, status)
  BY DEF Mails!UpdateStatus, MP!UpdateStatus, Mails!Pending, MP!Pending
<1>4. \A m \in Request : Mails!Step(m) <=> MP!Step(m)
  BY <1>2, <1>3
  DEF Mails!Step, MP!Step, Mails!Process, MP!Process, Mails!MarkSent, MP!MarkSent,
      Mails!MarkFailed, MP!MarkFailed, Mails!AfterFailure, MP!AfterFailure,
      Mails!Writes, MP!Writes
<1>5. \A m \in Request : Mails!Trouble(m) <=> MP!Trouble(m)
  <2>1. \A m \in Request : Mails!Die(m) <=> MP!Die(m)
    <3>1. Mails!InHand = MP!InHand /\ Mails!Cardinality(Mails!InHand) = MP!Cardinality(MP!InHand)
      BY DEF Mails!InHand, MP!InHand, Mails!Cardinality, MP!Cardinality
    <3> QED
      BY <1>3, <3>1
      DEF Mails!Die, MP!Die, Mails!Lose, MP!Lose, Mails!AfterDeath, MP!AfterDeath,
          Mails!Breaks, MP!Breaks, Mails!BrokenCopy, MP!BrokenCopy, Mails!Writes, MP!Writes
  <2>2. \A m \in Request :
          /\ Mails!ServerRefuses(m) <=> MP!ServerRefuses(m)
          /\ Mails!SentRejected(m) <=> MP!SentRejected(m)
          /\ Mails!FailedRejected(m) <=> MP!FailedRejected(m)
    BY <1>2, <1>3
    DEF Mails!ServerRefuses, MP!ServerRefuses, Mails!SentRejected, MP!SentRejected,
        Mails!FailedRejected, MP!FailedRejected, Mails!AfterFailure, MP!AfterFailure,
        Mails!Breaks, MP!Breaks
  <2> QED BY <2>1, <2>2 DEF Mails!Trouble, MP!Trouble
<1>6. Mails!Next <=> MP!Next
  BY <1>3, <1>4, <1>5
  DEF Mails!Next, MP!Next, Mails!CreateRow, MP!CreateRow, Mails!AddJob, MP!AddJob,
      Mails!NewJob, MP!NewJob, Mails!Recorded, MP!Recorded, Mails!Kinds, MP!Kinds
<1> QED BY <1>1, <1>6 DEF MailStep, Mails!vars, MP!vars

LEMMA SameSpec == Mails!Spec => MP!Spec
<1>1. Mails!Init => MP!Init
  BY SameQueue
<1>2. [Mails!Next]_(Mails!vars) => [MP!Next]_(MP!vars)
  BY SameQueue DEF MailStep
<1> QED BY <1>1, <1>2, PTL DEF Mails!Spec, MP!Spec

LEMMA SameConstants == MP!QueueConstants
BY AccountStoreAssumption DEF Mails!QueueConstants, MP!QueueConstants, Mails!Kinds, MP!Kinds

LEMMA SameTypes == /\ Mails!TypeOK => MP!TypeOK
                   /\ MP!TypeOK' => Mails!TypeOK'
BY DEF Mails!TypeOK, MP!TypeOK, Mails!Row, MP!Row, Mails!Job, MP!Job, Mails!Log, MP!Log,
       Mails!NoRow, MP!NoRow, Mails!NoJob, MP!NoJob, Mails!Recorded, MP!Recorded,
       Mails!Kinds, MP!Kinds, Mails!ActiveJob, MP!ActiveJob, Mails!EndedJob, MP!EndedJob

LEMMA MailsStayTyped ==
  ASSUME Mails!TypeOK, MailStep
  PROVE  Mails!TypeOK'
BY SameConstants, SameQueue, SameTypes, MP!TypeInductive

LEMMA RowsKeepKind ==
  ASSUME Mails!TypeOK, NEW kind, NEW status, Mails!UpdateStatus(kind, status), NEW m \in Request
  PROVE  /\ history'[m].kind = history[m].kind
         /\ history[m] = Mails!NoRow => kind = "none" \/ history'[m] = Mails!NoRow
BY DEF Mails!UpdateStatus, Mails!Pending, Mails!NoRow, Mails!TypeOK

-----------------------------------------------------------------------------
(* A request that has arrived goes to another step.                        *)

Goes(r, x) ==
  \/ req' = [req EXCEPT ![r].pc = x]
  \/ req' = [req EXCEPT ![r].pc = x, ![r].arg = None]

\* An error ends a request at some status, which is no step.
LEMMA FailGoes ==
  ASSUME NEW r \in Request, \E e : Fail(r, e)
  PROVE  \E s \in Statuses : Goes(r, s)
<1>1. PICK e : Fail(r, e)
  OBVIOUS
<1>2. StatusOf(e) \in Statuses
  BY
  DEF StatusOf, IsDomainException, DomainErrorCategory, mapDomainErrorToHttpStatus, Statuses
<1> QED BY <1>1, <1>2 DEF Fail, Goes

LEMMA StatusEnds ==
  \A s \in Statuses : s \in Final /\ s \notin Steps /\ s # "idle"
BY DEF Statuses, Final, Steps

LEMMA Gone ==
  ASSUME StoreTypeOK, NEW r \in Request, ~At(r, "idle"), NEW x \in Steps \cup Final, Goes(r, x)
  PROVE  /\ req' \in [Request -> RequestState]
         /\ req'[r].pc = x /\ req'[r].op = req[r].op /\ req'[r].after = req[r].after
         /\ req'[r].arg \in {req[r].arg, None}
         /\ \A q \in Request \ {r} : req'[q] = req[q]
         /\ \A op \in Ops : Asked(op)' = Asked(op)
<1>1. req \in [Request -> RequestState]
  BY DEF StoreTypeOK
<1>2. req[r] \in RequestState
  BY <1>1
<1>3. /\ req' \in [Request -> RequestState]
      /\ req'[r].pc = x /\ req'[r].op = req[r].op /\ req'[r].after = req[r].after
      /\ req'[r].arg \in {req[r].arg, None}
      /\ \A q \in Request \ {r} : req'[q] = req[q]
  <2>1. CASE req' = [req EXCEPT ![r].pc = x]
    BY <1>1, <1>2, <2>1 DEF RequestState
  <2>2. CASE req' = [req EXCEPT ![r].pc = x, ![r].arg = None]
    BY <1>1, <1>2, <2>2 DEF RequestState
  <2> QED BY <2>1, <2>2 DEF Goes
<1>4. \A q \in Request : req'[q].op = req[q].op
  BY <1>3
<1> QED BY <1>3, <1>4 DEF Asked

\* Where a request may go without a change to its e-mail.
Legal(r, x) ==
  \/ x \in Over
  \/ OwesMail(r) /\ x \in {"queue", "markFailed"}
  \/ /\ ~OwesMail(r) /\ req[r].pc \notin Over
     /\ x \notin {"queue", "markFailed"} /\ (x = "setCode" => req[r].op # "create")

QuietMove(r) ==
  /\ ~At(r, "idle")
  /\ \E x \in Steps \cup Final :
       /\ Goes(r, x) /\ Legal(r, x)
       /\ x \in {"setVerified", "update"} => user' # NoUser
  /\ user' \in User /\ (user # NoUser => user' # NoUser)
  /\ sessions' \subseteq Request
  /\ UNCHANGED mails

LEMMA QuietKeeps ==
  ASSUME Inv, NEW r \in Request, QuietMove(r)
  PROVE  /\ StoreTypeOK' /\ Courses' /\ MailStep
         /\ \A op \in Ops : Asked(op)' = Asked(op)
<1>1. PICK x \in Steps \cup Final : Goes(r, x) /\ Legal(r, x)
                                    /\ (x \in {"setVerified", "update"} => user' # NoUser)
  BY DEF QuietMove
<1>2. /\ req' \in [Request -> RequestState]
      /\ req'[r].pc = x /\ req'[r].op = req[r].op
      /\ \A q \in Request \ {r} : req'[q] = req[q]
      /\ \A op \in Ops : Asked(op)' = Asked(op)
  BY <1>1, Gone DEF Inv, QuietMove
<1>3. UNCHANGED <<history, job, log>>
  BY DEF QuietMove, mails
<1>4. StoreTypeOK'
  BY <1>2, <1>3 DEF Inv, QuietMove, StoreTypeOK, Mails!TypeOK
<1>5. \A q \in Request \ {r} : CourseOf(q)'
  BY <1>2, <1>3 DEF Inv, Courses, CourseOf, At, AtOf, OwesMail, Untouched, QuietMove
<1>6. CourseOf(r)'
  <2>1. CourseOf(r)
    BY DEF Inv, Courses
  <2>2. x # "idle"
    BY DEF Steps, Final, Statuses
  <2>3. CASE x \in Over
    BY <1>2, <2>2, <2>3 DEF CourseOf, At, AtOf, OwesMail, Over, Final, Statuses
  <2>4. CASE OwesMail(r) /\ x \in {"queue", "markFailed"}
    BY <1>2, <1>3, <2>1, <2>4 DEF CourseOf, At, AtOf, OwesMail
  <2>5. CASE ~OwesMail(r) /\ req[r].pc \notin Over /\ x \notin {"queue", "markFailed"}
             /\ (x = "setCode" => req[r].op # "create")
    BY <1>1, <1>2, <1>3, <2>1, <2>2, <2>5 DEF CourseOf, At, AtOf, OwesMail, Untouched
  <2> QED BY <1>1, <2>3, <2>4, <2>5 DEF Legal
<1> QED BY <1>2, <1>3, <1>4, <1>5, <1>6 DEF Courses, MailStep, Mails!vars

\* A request arrives.
Arriving(op, arg, x) == [pc |-> x, op |-> op, arg |-> arg, after |-> Answered]

LEMMA ArrivalKeeps ==
  ASSUME Inv, NEW r \in Request, NEW op \in Ops, NEW arg \in Request \cup {None},
         NEW x \in Steps \ {"queue", "markFailed", "setVerified", "update", "session"},
         op = "create" => x # "setCode",
         Arrive(r, op, arg, x)
  PROVE  /\ StoreTypeOK' /\ Courses' /\ MailStep
         /\ \A o \in Ops : Asked(o) \subseteq Asked(o)'
<1>1. UNCHANGED <<user, sessions, history, job, log>> /\ At(r, "idle")
  BY DEF Arrive, mails
<1>2. req' = [req EXCEPT ![r] = Arriving(op, arg, x)]
  BY DEF Arrive, Arriving
<1>3. req \in [Request -> RequestState] /\ Arriving(op, arg, x) \in RequestState
  BY DEF Inv, StoreTypeOK, RequestState, Arriving, Answered
<1>4. /\ req' \in [Request -> RequestState]
      /\ req'[r].pc = x /\ req'[r].op = op /\ req'[r].arg = arg
      /\ \A q \in Request \ {r} : req'[q] = req[q]
  BY <1>2, <1>3 DEF Arriving
<1>5. StoreTypeOK'
  BY <1>1, <1>4 DEF Inv, StoreTypeOK, Mails!TypeOK
<1>6. \A q \in Request \ {r} : CourseOf(q)'
  BY <1>1, <1>4 DEF Inv, Courses, CourseOf, At, AtOf, OwesMail, Untouched
<1>7. x \notin {"idle"} \cup Over /\ x \in Steps
  BY DEF Steps, Over, Final, Statuses
<1>8. Untouched(r)
  BY <1>1 DEF Inv, Courses, CourseOf, At, AtOf, OwesMail, Over, Final, Statuses
<1>9. CourseOf(r)'
  BY <1>1, <1>4, <1>7, <1>8 DEF CourseOf, At, AtOf, OwesMail, Untouched
<1>10. req[r].op = "none"
  BY <1>1 DEF Inv, Courses, CourseOf
<1>11. \A o \in Ops : Asked(o) \subseteq Asked(o)'
  BY <1>4, <1>10 DEF Asked, Ops
<1> QED BY <1>1, <1>5, <1>6, <1>9, <1>11 DEF Courses, MailStep, Mails!vars

-----------------------------------------------------------------------------
(* A request goes on with its e-mail.                                      *)

LEMMA MailKeeps ==
  ASSUME Inv, NEW r \in Request, ~At(r, "idle"), NEW x \in Steps \cup Final, Goes(r, x),
         user' \in User, user # NoUser => user' # NoUser, UNCHANGED sessions,
         MailStep,
         \A q \in Request \ {r} :
           /\ job'[q] = job[q]
           /\ history'[q].kind = history[q].kind
           /\ history[q] = Mails!NoRow => history'[q] = Mails!NoRow,
         \/ x \in Over
         \/ /\ job'[r] = Mails!NoJob /\ history'[r].kind = KindOf(req[r].op)
            /\ x = "queue" \/ (x = "setCode" /\ req[r].op = "create")
  PROVE  /\ StoreTypeOK' /\ Courses'
         /\ \A op \in Ops : Asked(op)' = Asked(op)
<1>1. /\ req' \in [Request -> RequestState]
      /\ req'[r].pc = x /\ req'[r].op = req[r].op
      /\ \A q \in Request \ {r} : req'[q] = req[q]
      /\ \A op \in Ops : Asked(op)' = Asked(op)
  BY Gone DEF Inv
<1>2. Mails!TypeOK'
  BY MailsStayTyped DEF Inv, StoreTypeOK
<1>3. StoreTypeOK'
  BY <1>1, <1>2 DEF Inv, StoreTypeOK
<1>4. \A q \in Request \ {r} : CourseOf(q)'
  BY <1>1 DEF Inv, Courses, CourseOf, At, AtOf, OwesMail, Untouched
<1>5. CourseOf(r)'
  BY <1>1 DEF CourseOf, At, AtOf, OwesMail, Over, Final, Statuses
<1> QED BY <1>1, <1>3, <1>4, <1>5 DEF Courses

-----------------------------------------------------------------------------
(* The operations, one by one.                                             *)

Grows == \A op \in Ops : Asked(op) \subseteq Asked(op)'
Keeps == StoreTypeOK' /\ Courses' /\ MailStep /\ Grows

LEMMA QuietIsKept ==
  ASSUME Inv, NEW r \in Request, QuietMove(r)
  PROVE  Keeps
BY QuietKeeps DEF Keeps, Grows

LEMMA ArrivalIsKept ==
  ASSUME Inv, NEW r \in Request, NEW op \in Ops, NEW arg \in Request \cup {None},
         NEW x \in {"find", "getCode", "getGrant", "compare", "setState", "getState"},
         Arrive(r, op, arg, x)
  PROVE  Keeps
BY ArrivalKeeps DEF Keeps, Grows, Steps

\* A step that reads, and then goes on or fails.
LEMMA ReadIsQuiet ==
  ASSUME Inv, NEW r \in Request, req[r].pc \in Steps \ (Over \cup {"queue", "markFailed"}),
         ~OwesMail(r),
         NEW x \in (Steps \cup Final) \ {"queue", "markFailed"},
         x = "setCode" => req[r].op # "create",
         x \in {"setVerified", "update"} => user # NoUser,
         Proceed(r, x) \/ \E e : Fail(r, e),
         UNCHANGED <<user, sessions, mails>>
  PROVE  QuietMove(r)
<1>1. ~At(r, "idle") /\ user' \in User /\ sessions' \subseteq Request /\ UNCHANGED mails
  BY DEF At, Steps, Inv, StoreTypeOK
<1>2. CASE Proceed(r, x)
  BY <1>1, <1>2 DEF QuietMove, Goes, Legal, Proceed
<1>3. CASE \E e : Fail(r, e)
  <2>1. PICK x2 \in Statuses : Goes(r, x2)
    BY <1>3, FailGoes
  <2>2. Legal(r, x2) /\ x2 \in Steps \cup Final /\ x2 \notin {"setVerified", "update"}
    BY <2>1, StatusEnds DEF Legal, Over, Final, Statuses
  <2> QED BY <1>1, <2>1, <2>2 DEF QuietMove
<1> QED BY <1>2, <1>3

\* What becomes of the e-mails: of that of r, and of the others.
Others(r) ==
  \A q \in Request \ {r} :
    /\ job'[q] = job[q]
    /\ history'[q].kind = history[q].kind
    /\ history[q] = Mails!NoRow => history'[q] = Mails!NoRow

LEMMA RowCreated ==
  ASSUME Inv, NEW r \in Request, Untouched(r), NEW kind \in Mails!Recorded,
         Mails!CreateRow(r, kind)
  PROVE  /\ MailStep /\ Others(r)
         /\ job'[r] = Mails!NoJob /\ history'[r].kind = kind
<1>1. job[r] = Mails!NoJob /\ history[r] = Mails!NoRow
  BY DEF Untouched
<1>2. MailStep
  BY <1>1 DEF MailStep, Mails!Next
<1> QED BY <1>1, <1>2 DEF Others, Mails!CreateRow, Inv, StoreTypeOK, Mails!TypeOK

LEMMA JobAdded ==
  ASSUME Inv, NEW r \in Request, job[r] = Mails!NoJob, NEW kind, Mails!AddJob(r, kind),
         \/ kind = "welcome" /\ history[r] = Mails!NoRow
         \/ kind = history[r].kind /\ kind # "none"
  PROVE  MailStep /\ Others(r)
<1>1. MailStep
  BY DEF MailStep, Mails!Next, Mails!NoRow
<1> QED BY <1>1 DEF Others, Mails!AddJob, Inv, StoreTypeOK, Mails!TypeOK

LEMMA RowFailed ==
  ASSUME Inv, NEW r \in Request, job[r] = Mails!NoJob, NEW kind,
         kind = history[r].kind, kind # "none",
         Mails!UpdateStatus(kind, "failed"), UNCHANGED <<job, log>>
  PROVE  MailStep /\ Others(r)
<1>1. MailStep
  BY DEF MailStep, Mails!Next, Mails!NoRow
<1>2. Mails!TypeOK
  BY DEF Inv, StoreTypeOK
<1> QED BY <1>1, <1>2, RowsKeepKind DEF Others

LEMMA MailIsKept ==
  ASSUME Inv, NEW r \in Request, ~At(r, "idle"), NEW x \in Steps \cup Final,
         Proceed(r, x) \/ \E e : Fail(r, e),
         user' \in User, user # NoUser => user' # NoUser, UNCHANGED sessions,
         MailStep, Others(r),
         \/ x \in Over
         \/ /\ job'[r] = Mails!NoJob /\ history'[r].kind = KindOf(req[r].op)
            /\ x = "queue" \/ (x = "setCode" /\ req[r].op = "create")
  PROVE  Keeps
<1>1. CASE Proceed(r, x)
  <2>1. Goes(r, x)
    BY <1>1 DEF Goes, Proceed
  <2> QED BY <2>1, MailKeeps DEF Keeps, Grows, Others
<1>2. CASE \E e : Fail(r, e)
  <2>1. \E s \in Statuses : Goes(r, s) /\ s \in Over /\ s \in Steps \cup Final
    BY <1>2, FailGoes, StatusEnds DEF Over, Final, Statuses
  <2> QED BY <2>1, MailKeeps DEF Keeps, Grows, Others
<1> QED BY <1>1, <1>2

LEMMA RegisterKeeps ==
  ASSUME Inv, NEW r \in Request, RegisterStep(r) \/ RegisterMishap(r)
  PROVE  Keeps /\ RegisterTypeOK'
<1> USE DEF At, AtOf
<1>1. CASE Create(r)
  <2>1. Keeps
    BY <1>1, ArrivalIsKept DEF Create, Ops
  <2> QED BY <1>1, <2>1 DEF Create, Keeps, Grows, Inv, KeysTypeOK, RegisterTypeOK, Ops
<1>2. CASE Resend(r)
  <2>1. Keeps
    BY <1>2, ArrivalIsKept DEF Resend, Ops
  <2> QED BY <1>2, <2>1 DEF Resend, Keeps, Grows, Inv, KeysTypeOK, RegisterTypeOK, Ops
<1>3. CASE VerifyEmail(r)
  <2>1. PICK code \in CodesMailed("verification") : Arrive(r, "verifyEmail", code, "getCode")
    BY <1>3 DEF VerifyEmail
  <2>2. code \in Request
    BY DEF CodesMailed, Mails!outbox
  <2>3. Keeps
    BY <2>1, <2>2, ArrivalIsKept DEF Ops
  <2> QED BY <1>3, <2>3 DEF VerifyEmail, Keeps, Grows, Inv, KeysTypeOK, RegisterTypeOK, Ops
\* the steps that only read
<1>4. ASSUME QuietMove(r), UNCHANGED verificationCode
      PROVE  Keeps /\ RegisterTypeOK'
  <2>1. Keeps
    BY <1>4, QuietIsKept
  <2> QED BY <1>4, <2>1 DEF Keeps, Grows, Inv, KeysTypeOK, RegisterTypeOK, Ops
<1>5. CASE FindExisting(r)
  <2>1. QuietMove(r)
    BY <1>5, ReadIsQuiet DEF FindExisting, OwesMail, Over, Final, Statuses, Steps
  <2> QED BY <1>4, <1>5, <2>1 DEF FindExisting
<1>6. CASE FindUnverified(r)
  <2>1. QuietMove(r)
    BY <1>6, ReadIsQuiet DEF FindUnverified, OwesMail, Over, Final, Statuses, Steps
  <2> QED BY <1>4, <1>6, <2>1 DEF FindUnverified
<1>7. CASE GetVerificationCode(r)
  <2>1. QuietMove(r)
    BY <1>7, ReadIsQuiet DEF GetVerificationCode, OwesMail, Over, Final, Statuses, Steps
  <2> QED BY <1>4, <1>7, <2>1 DEF GetVerificationCode
<1>8. CASE FindUserToVerify(r)
  <2>1. QuietMove(r)
    BY <1>8, ReadIsQuiet
    DEF FindUserToVerify, MayVerify, Unverified, OwesMail, Over, Final, Statuses, Steps
  <2> QED BY <1>4, <1>8, <2>1 DEF FindUserToVerify
<1>9. CASE SetVerified(r)
  <2>1. user # NoUser /\ user \in User
    BY <1>9 DEF SetVerified, Inv, Courses, CourseOf, StoreTypeOK
  <2>2. user' \in User /\ user' # NoUser
    BY <1>9, <2>1 DEF SetVerified, User, NoUser, Providers
  <2>3. Goes(r, "delCode") /\ Legal(r, "delCode") /\ "delCode" \in Steps
    BY <1>9 DEF SetVerified, Goes, Proceed, Legal, OwesMail, Over, Final, Statuses, Steps
  <2>4. QuietMove(r)
    BY <1>9, <2>2, <2>3 DEF SetVerified, QuietMove, Inv, StoreTypeOK
  <2> QED BY <1>4, <1>9, <2>4 DEF SetVerified
<1>10. CASE DeleteVerificationCode(r)
  <2>1. Goes(r, "welcome") /\ Legal(r, "welcome") /\ "welcome" \in Steps
    BY <1>10
    DEF DeleteVerificationCode, Goes, Proceed, Legal, OwesMail, Over, Final, Statuses, Steps
  <2>2. QuietMove(r)
    BY <1>10, <2>1 DEF DeleteVerificationCode, QuietMove, Inv, StoreTypeOK
  <2>3. Keeps
    BY <2>2, QuietIsKept
  <2> QED BY <1>10, <2>3
    DEF DeleteVerificationCode, Stored, Keeps, Grows, Inv, KeysTypeOK, RegisterTypeOK, Ops
<1>11. CASE SetVerificationCode(r)
  <2>1. \E x \in {"queue", "record"} : Goes(r, x) /\ Legal(r, x)
    BY <1>11 DEF SetVerificationCode, Goes, Proceed, Legal, OwesMail, Over, Final, Statuses
  <2>2. QuietMove(r)
    BY <1>11, <2>1 DEF SetVerificationCode, QuietMove, Inv, StoreTypeOK, Steps
  <2>3. Keeps
    BY <2>2, QuietIsKept
  <2>4. r \in Asked("create") \cup Asked("resend")
    BY <1>11 DEF SetVerificationCode, Asked
  <2> QED BY <1>11, <2>3, <2>4
    DEF SetVerificationCode, Stored, Keeps, Grows, Inv, KeysTypeOK, RegisterTypeOK, Ops
<1>12. CASE VerificationRejected(r)
  <2>1. Goes(r, "markFailed") /\ Legal(r, "markFailed") /\ "markFailed" \in Steps
    BY <1>12 DEF VerificationRejected, JobRejected, Goes, Proceed, Legal, OwesMail, Steps
  <2>2. QuietMove(r)
    BY <1>12, <2>1 DEF VerificationRejected, JobRejected, QuietMove, Inv, StoreTypeOK
  <2> QED BY <1>4, <1>12, <2>2 DEF VerificationRejected
<1>13. CASE WelcomeRejected(r)
  <2>1. Goes(r, "session") /\ Legal(r, "session") /\ "session" \in Steps
    BY <1>13
    DEF WelcomeRejected, JobRejected, Goes, Proceed, Legal, Over, Final, Statuses, Steps
  <2>2. QuietMove(r)
    BY <1>13, <2>1 DEF WelcomeRejected, JobRejected, QuietMove, Inv, StoreTypeOK
  <2> QED BY <1>4, <1>13, <2>2 DEF WelcomeRejected
\* the steps that do something about the e-mail
<1>14. ASSUME Keeps, UNCHANGED verificationCode
       PROVE  Keeps /\ RegisterTypeOK'
  BY <1>14 DEF Keeps, Grows, Inv, KeysTypeOK, RegisterTypeOK, Ops
<1>15. CourseOf(r) /\ req[r].op \in Ops \cup {"none"} /\ user \in User
  BY DEF Inv, Courses, StoreTypeOK, RequestState
<1>16. CASE SaveUser(r)
  <2>1. CASE MaySave /\ Mails!CreateRow(r, "verification") /\ Proceed(r, "setCode")
    <3>1. Untouched(r)
      BY <1>15, <1>16 DEF SaveUser, CourseOf, OwesMail, Over, Final, Statuses
    <3>2. user' \in User /\ user' # NoUser
      <4>1. PICK lower \in BOOLEAN :
              user' = [provider |-> "local", verified |-> FALSE, active |-> TRUE,
                       lower |-> lower, password |-> r]
        BY <1>16, <2>1 DEF SaveUser
      <4>2. user' \in User
        BY <4>1 DEF User, Providers
      <4>3. user'.provider # NoUser.provider
        BY <4>1 DEF NoUser
      <4> QED BY <4>2, <4>3
    <3>3. Keeps
      BY <1>16, <2>1, <3>1, <3>2, RowCreated, MailIsKept
      DEF SaveUser, Mails!Recorded, Mails!Kinds, KindOf, Steps
    <3> QED BY <1>14, <1>16, <3>3 DEF SaveUser
  <2>2. CASE NotSaved(r) /\ UNCHANGED <<user, mails>>
    <3>1. QuietMove(r)
      BY <1>16, <2>2, ReadIsQuiet
      DEF SaveUser, NotSaved, OwesMail, Over, Final, Statuses, Steps
    <3> QED BY <1>4, <1>16, <3>1 DEF SaveUser
  <2> QED BY <1>16, <2>1, <2>2 DEF SaveUser
<1>17. CASE RecordResend(r)
  <2>1. Untouched(r)
    BY <1>15, <1>17 DEF RecordResend, CourseOf, OwesMail, Over, Final, Statuses
  <2>2. Keeps
    BY <1>15, <1>17, <2>1, RowCreated, MailIsKept
    DEF RecordResend, Mails!Recorded, Mails!Kinds, KindOf, Steps
  <2> QED BY <1>14, <1>17, <2>2 DEF RecordResend
<1>18. CASE QueueVerification(r)
  <2>1. job[r] = Mails!NoJob /\ history[r].kind = "verification"
    BY <1>15, <1>18 DEF QueueVerification, CourseOf, OwesMail, KindOf
  <2>2. Keeps
    BY <1>15, <1>18, <2>1, JobAdded, MailIsKept
    DEF QueueVerification, AddJob, Over, Final, Statuses
  <2> QED BY <1>14, <1>18, <2>2 DEF QueueVerification
<1>19. CASE VerificationNotQueued(r)
  <2>1. job[r] = Mails!NoJob /\ history[r].kind = "verification"
    BY <1>15, <1>19 DEF VerificationNotQueued, CourseOf, OwesMail, KindOf
  <2>2. Keeps
    BY <1>15, <1>19, <2>1, RowFailed, MailIsKept
    DEF VerificationNotQueued, Succeed, Over, Final, Statuses
  <2> QED BY <1>14, <1>19, <2>2 DEF VerificationNotQueued
<1>20. CASE QueueWelcome(r)
  <2>1. Untouched(r)
    BY <1>15, <1>20 DEF QueueWelcome, CourseOf, OwesMail, Over, Final, Statuses
  <2>2. Keeps
    BY <1>15, <1>20, <2>1, JobAdded, MailIsKept
    DEF QueueWelcome, AddJob, Untouched, Over, Final, Statuses, Steps
  <2> QED BY <1>14, <1>20, <2>2 DEF QueueWelcome
<1> QED BY <1>1, <1>2, <1>3, <1>5, <1>6, <1>7, <1>8, <1>9, <1>10, <1>11, <1>12, <1>13,
           <1>16, <1>17, <1>18, <1>19, <1>20 DEF RegisterStep, RegisterMishap

LEMMA PasswordKeeps ==
  ASSUME Inv, NEW r \in Request, PasswordStep(r) \/ ResetRejected(r)
  PROVE  Keeps /\ PasswordTypeOK'
<1> USE DEF At, AtOf
<1>1. CourseOf(r) /\ req[r].op \in Ops \cup {"none"} /\ user \in User
  BY DEF Inv, Courses, StoreTypeOK, RequestState
<1>2. ASSUME Keeps, UNCHANGED passwordKeys
      PROVE  Keeps /\ PasswordTypeOK'
  BY <1>2 DEF Keeps, Grows, Inv, KeysTypeOK, PasswordTypeOK, passwordKeys, Ops
<1>3. ASSUME QuietMove(r), UNCHANGED passwordKeys
      PROVE  Keeps /\ PasswordTypeOK'
  BY <1>2, <1>3, QuietIsKept
<1>4. CASE ForgotPassword(r)
  <2>1. Keeps
    BY <1>4, ArrivalIsKept DEF ForgotPassword, Ops
  <2> QED BY <1>2, <1>4, <2>1 DEF ForgotPassword
<1>5. CASE VerifyReset(r)
  <2>1. PICK code \in CodesMailed("password_reset") : Arrive(r, "verifyReset", code, "getCode")
    BY <1>5 DEF VerifyReset
  <2>2. code \in Request
    BY DEF CodesMailed, Mails!outbox
  <2>3. Keeps
    BY <2>1, <2>2, ArrivalIsKept DEF Ops
  <2> QED BY <1>2, <1>5, <2>3 DEF VerifyReset
<1>6. CASE ResetPassword(r)
  <2>1. PICK token \in Succeeded("verifyReset") : Arrive(r, "reset", token, "getGrant")
    BY <1>6 DEF ResetPassword
  <2>2. Keeps
    BY <2>1, ArrivalIsKept DEF Ops, Succeeded
  <2> QED BY <1>2, <1>6, <2>2 DEF ResetPassword
<1>7. CASE ChangePassword(r)
  <2>1. PICK old \in 0 .. r - 1 : Arrive(r, "change", old, "compare")
    BY <1>7 DEF ChangePassword
  <2>2. old \in Request \cup {None}
    BY AccountStoreAssumption DEF Request, None
  <2>3. Keeps
    BY <2>1, <2>2, ArrivalIsKept DEF Ops
  <2> QED BY <1>2, <1>7, <2>3 DEF ChangePassword
<1>8. CASE GetResetCode(r)
  <2>1. QuietMove(r)
    BY <1>8, ReadIsQuiet DEF GetResetCode, OwesMail, Over, Final, Statuses, Steps
  <2> QED BY <1>3, <1>8, <2>1 DEF GetResetCode
<1>9. CASE FindUserToGrant(r)
  <2>1. QuietMove(r)
    BY <1>9, ReadIsQuiet DEF FindUserToGrant, OwesMail, Over, Final, Statuses, Steps
  <2> QED BY <1>3, <1>9, <2>1 DEF FindUserToGrant
<1>10. CASE GetGrant(r)
  <2>1. QuietMove(r)
    BY <1>10, ReadIsQuiet DEF GetGrant, OwesMail, Over, Final, Statuses, Steps
  <2> QED BY <1>3, <1>10, <2>1 DEF GetGrant
<1>11. CASE FindUserToReset(r)
  <2>1. QuietMove(r)
    BY <1>11, ReadIsQuiet
    DEF FindUserToReset, NoUser, OwesMail, Over, Final, Statuses, Steps
  <2> QED BY <1>3, <1>11, <2>1 DEF FindUserToReset
<1>12. CASE CompareCurrent(r)
  <2>1. QuietMove(r)
    BY <1>12, ReadIsQuiet DEF CompareCurrent, NoUser, OwesMail, Over, Final, Statuses, Steps
  <2> QED BY <1>3, <1>12, <2>1 DEF CompareCurrent
<1>13. CASE ReloadUser(r)
  <2>1. QuietMove(r)
    BY <1>13, ReadIsQuiet DEF ReloadUser, Changing, OwesMail, Over, Final, Statuses, Steps
  <2> QED BY <1>3, <1>13, <2>1 DEF ReloadUser
<1>14. CASE FindForgetful(r)
  <2>1. \E x \in {"setCode", "ok"} : Goes(r, x) /\ Legal(r, x)
    BY <1>14
    DEF FindForgetful, Succeed, Goes, Proceed, Legal, OwesMail, Over, Final, Statuses
  <2>2. QuietMove(r)
    BY <1>14, <2>1 DEF FindForgetful, QuietMove, Inv, StoreTypeOK, Steps, Final
  <2> QED BY <1>3, <1>14, <2>2 DEF FindForgetful
<1>15. CASE SetResetCode(r)
  <2>1. Goes(r, "record") /\ Legal(r, "record") /\ "record" \in Steps \cup Final
    BY <1>15
    DEF SetResetCode, AfterResetCode, Goes, Proceed, Legal, OwesMail, Over, Final, Statuses, Steps
  <2>2. QuietMove(r)
    BY <1>15, <2>1 DEF SetResetCode, QuietMove, Inv, StoreTypeOK
  <2>3. Keeps
    BY <2>2, QuietIsKept
  <2>4. r \in Asked("forgot")
    BY <1>15 DEF SetResetCode, Asked
  <2> QED BY <1>15, <2>3, <2>4
    DEF SetResetCode, Stored, Keeps, Grows, Inv, KeysTypeOK, PasswordTypeOK, Ops
<1>16. CASE SetGrant(r)
  <2>1. Goes(r, "delCode") /\ Legal(r, "delCode") /\ "delCode" \in Steps \cup Final
    BY <1>16 DEF SetGrant, Goes, Proceed, Legal, OwesMail, Over, Final, Statuses, Steps
  <2>2. QuietMove(r)
    BY <1>16, <2>1 DEF SetGrant, QuietMove, Inv, StoreTypeOK
  <2>3. Keeps
    BY <2>2, QuietIsKept
  <2>4. r \in Asked("verifyReset")
    BY <1>16 DEF SetGrant, Asked
  <2> QED BY <1>16, <2>3, <2>4
    DEF SetGrant, GrantToken, Stored, Keeps, Grows, Inv, KeysTypeOK, PasswordTypeOK, Ops
<1>17. CASE DeleteResetCode(r)
  <2>1. Goes(r, "ok") /\ Legal(r, "ok") /\ "ok" \in Steps \cup Final
    BY <1>17
    DEF DeleteResetCode, Succeed, Goes, Proceed, Legal, OwesMail, Over, Final, Statuses, Steps
  <2>2. QuietMove(r)
    BY <1>17, <2>1 DEF DeleteResetCode, QuietMove, Inv, StoreTypeOK
  <2>3. Keeps
    BY <2>2, QuietIsKept
  <2> QED BY <1>17, <2>3
   
    DEF DeleteResetCode, SpentCode, Stored, Keeps, Grows, Inv, KeysTypeOK, PasswordTypeOK, Ops
<1>18. CASE DeleteGrant(r)
  <2>1. Goes(r, "reload") /\ Legal(r, "reload") /\ "reload" \in Steps \cup Final
    BY <1>18 DEF DeleteGrant, Goes, Proceed, Legal, OwesMail, Over, Final, Statuses, Steps
  <2>2. QuietMove(r)
    BY <1>18, <2>1 DEF DeleteGrant, QuietMove, Inv, StoreTypeOK
  <2>3. Keeps
    BY <2>2, QuietIsKept
  <2> QED BY <1>18, <2>3
   
    DEF DeleteGrant, WithoutGrant, Stored, Keeps, Grows, Inv, KeysTypeOK, PasswordTypeOK, Ops
<1>19. CASE UpdatePassword(r)
  <2>1. user # NoUser
    BY <1>1, <1>19 DEF UpdatePassword, CourseOf
  <2>2. user' \in User /\ user' # NoUser
    BY <1>1, <1>19, <2>1 DEF UpdatePassword, User, NoUser, Providers
  <2>3. Goes(r, "revoke") /\ Legal(r, "revoke") /\ "revoke" \in Steps
    BY <1>19
    DEF UpdatePassword, Goes, Proceed, Legal, OwesMail, Over, Final, Statuses, Steps
  <2>4. QuietMove(r)
    BY <1>19, <2>2, <2>3 DEF UpdatePassword, QuietMove, Inv, StoreTypeOK
  <2> QED BY <1>3, <1>19, <2>4 DEF UpdatePassword
<1>20. CASE RevokeAll(r)
  <2>1. \E x \in {"delGrant", "reload"} : Goes(r, x) /\ Legal(r, x)
    BY <1>20 DEF RevokeAll, Goes, Proceed, Legal, OwesMail, Over, Final, Statuses
  <2>2. QuietMove(r)
    BY <1>20, <2>1 DEF RevokeAll, AfterRevocation, QuietMove, Inv, StoreTypeOK, Steps
  <2> QED BY <1>3, <1>20, <2>2 DEF RevokeAll
<1>21. CASE ResetRejected(r)
  <2>1. Goes(r, "markFailed") /\ Legal(r, "markFailed") /\ "markFailed" \in Steps
    BY <1>21 DEF ResetRejected, JobRejected, Goes, Proceed, Legal, OwesMail, Steps
  <2>2. QuietMove(r)
    BY <1>21, <2>1 DEF ResetRejected, JobRejected, QuietMove, Inv, StoreTypeOK
  <2> QED BY <1>3, <1>21, <2>2 DEF ResetRejected
<1>22. CASE RecordReset(r)
  <2>1. Untouched(r)
    BY <1>1, <1>22 DEF RecordReset, CourseOf, OwesMail, Over, Final, Statuses
  <2>2. Keeps
    BY <1>1, <1>22, <2>1, RowCreated, MailIsKept
    DEF RecordReset, Mails!Recorded, Mails!Kinds, KindOf, Steps
  <2> QED BY <1>2, <1>22, <2>2 DEF RecordReset
<1>23. CASE QueueReset(r)
  <2>1. job[r] = Mails!NoJob /\ history[r].kind = "password_reset"
    BY <1>1, <1>23 DEF QueueReset, CourseOf, OwesMail, KindOf
  <2>2. Keeps
    BY <1>1, <1>23, <2>1, JobAdded, MailIsKept DEF QueueReset, AddJob, Over, Final, Statuses
  <2> QED BY <1>2, <1>23, <2>2 DEF QueueReset
<1>24. CASE ResetNotQueued(r)
  <2>1. job[r] = Mails!NoJob /\ history[r].kind = "password_reset"
    BY <1>1, <1>24 DEF ResetNotQueued, CourseOf, OwesMail, KindOf
  <2>2. Keeps
    BY <1>1, <1>24, <2>1, RowFailed, MailIsKept
    DEF ResetNotQueued, Succeed, Over, Final, Statuses
  <2> QED BY <1>2, <1>24, <2>2 DEF ResetNotQueued
<1> QED
  BY <1>4, <1>5, <1>6, <1>7, <1>8, <1>9, <1>10, <1>11, <1>12, <1>13, <1>14,
     <1>15, <1>16, <1>17, <1>18, <1>19, <1>20, <1>21, <1>22, <1>23, <1>24
  DEF PasswordStep

LEMMA GoogleKeeps ==
  ASSUME Inv, NEW r \in Request, GoogleStep(r)
  PROVE  Keeps /\ GoogleTypeOK'
<1> USE DEF At, AtOf
<1>1. user \in User
  BY DEF Inv, StoreTypeOK
<1>2. ASSUME Keeps, UNCHANGED oauthStates
      PROVE  Keeps /\ GoogleTypeOK'
  BY <1>2 DEF Keeps, Grows, Inv, KeysTypeOK, GoogleTypeOK, Ops
<1>3. ASSUME QuietMove(r), UNCHANGED oauthStates
      PROVE  Keeps /\ GoogleTypeOK'
  BY <1>2, <1>3, QuietIsKept
<1>4. CASE GetAuthorizationUrl(r)
  <2>1. Keeps
    BY <1>4, ArrivalIsKept DEF GetAuthorizationUrl, Ops
  <2> QED BY <1>2, <1>4, <2>1 DEF GetAuthorizationUrl
<1>5. CASE HandleCallback(r)
  <2>1. PICK state \in Succeeded("authorize") : Arrive(r, "callback", state, "getState")
    BY <1>5 DEF HandleCallback
  <2>2. Keeps
    BY <2>1, ArrivalIsKept DEF Ops, Succeeded
  <2> QED BY <1>2, <1>5, <2>2 DEF HandleCallback
<1>6. CASE SetState(r)
  <2>1. Goes(r, "ok") /\ Legal(r, "ok") /\ "ok" \in Steps \cup Final
    BY <1>6 DEF SetState, Succeed, Goes, Proceed, Legal, Over, Final, Statuses
  <2>2. QuietMove(r)
    BY <1>6, <2>1 DEF SetState, QuietMove, Inv, StoreTypeOK
  <2>3. Keeps
    BY <2>2, QuietIsKept
  <2>4. r \in Asked("authorize")
    BY <1>6 DEF SetState, Asked
  <2> QED BY <1>6, <2>3, <2>4
    DEF SetState, Stored, Keeps, Grows, Inv, KeysTypeOK, GoogleTypeOK, Ops
<1>7. CASE GetState(r)
  <2>1. QuietMove(r)
    BY <1>7, ReadIsQuiet DEF GetState, OwesMail, Over, Final, Statuses, Steps
  <2> QED BY <1>3, <1>7, <2>1 DEF GetState
<1>8. CASE DeleteState(r)
  <2>1. Goes(r, "exchange") /\ Legal(r, "exchange") /\ "exchange" \in Steps \cup Final
    BY <1>8 DEF DeleteState, Goes, Proceed, Legal, OwesMail, Over, Final, Statuses, Steps
  <2>2. QuietMove(r)
    BY <1>8, <2>1 DEF DeleteState, QuietMove, Inv, StoreTypeOK
  <2>3. Keeps
    BY <2>2, QuietIsKept
  <2> QED BY <1>8, <2>3
    DEF DeleteState, WithoutState, Stored, Keeps, Grows, Inv, KeysTypeOK, GoogleTypeOK, Ops
<1>9. CASE ExchangeCode(r)
  <2>1. QuietMove(r)
    BY <1>9, ReadIsQuiet DEF ExchangeCode, OwesMail, Over, Final, Statuses, Steps
  <2> QED BY <1>3, <1>9, <2>1 DEF ExchangeCode
<1>10. CASE FindByProvider(r)
  <2>1. \E x \in {"find", "session"} : Proceed(r, x) \/ \E e : Fail(r, e)
    BY <1>10 DEF FindByProvider
  <2>2. QuietMove(r)
    BY <1>10, <2>1, ReadIsQuiet DEF FindByProvider, OwesMail, Over, Final, Statuses, Steps
  <2> QED BY <1>3, <1>10, <2>2 DEF FindByProvider
<1>11. CASE FindByEmail(r)
  <2>1. QuietMove(r)
    BY <1>11, ReadIsQuiet DEF FindByEmail, OwesMail, Over, Final, Statuses, Steps
  <2> QED BY <1>3, <1>11, <2>1 DEF FindByEmail
<1>12. CASE SaveGoogleUser(r)
  <2>1. CASE MaySave /\ Proceed(r, "session")
             /\ user' = [provider |-> "google", verified |-> TRUE, active |-> TRUE,
                         lower |-> TRUE, password |-> None]
    <3>1. user' \in User
      BY <2>1 DEF User, Providers
    <3>2. user'.provider # NoUser.provider
      BY <2>1 DEF NoUser
    <3>3. Goes(r, "session") /\ Legal(r, "session") /\ "session" \in Steps \cup Final
      BY <2>1 DEF Goes, Proceed, Legal, Over, Final, Statuses, Steps
    <3>4. QuietMove(r)
      BY <1>12, <3>1, <3>2, <3>3 DEF SaveGoogleUser, QuietMove, Inv, StoreTypeOK
    <3> QED BY <1>3, <1>12, <3>4 DEF SaveGoogleUser
  <2>2. CASE NotSaved(r) /\ UNCHANGED user
    <3>1. QuietMove(r)
      BY <1>12, <2>2, ReadIsQuiet
      DEF SaveGoogleUser, NotSaved, OwesMail, Over, Final, Statuses, Steps
    <3> QED BY <1>3, <1>12, <3>1 DEF SaveGoogleUser
  <2> QED BY <1>12, <2>1, <2>2 DEF SaveGoogleUser
<1> QED BY <1>4, <1>5, <1>6, <1>7, <1>8, <1>9, <1>10, <1>11, <1>12 DEF GoogleStep

LEMMA LoginKeeps ==
  ASSUME Inv, NEW r \in Request, LoginStep(r) \/ CreateSession(r) \/ Crash(r)
  PROVE  Keeps
<1> USE DEF At, AtOf
<1>1. user \in User /\ sessions \subseteq Request
  BY DEF Inv, StoreTypeOK
<1>2. CASE Login(r)
  <2>1. PICK password \in 0 .. r - 1 : Arrive(r, "login", password, "compare")
    BY <1>2 DEF Login
  <2>2. password \in Request \cup {None}
    BY AccountStoreAssumption DEF Request, None
  <2> QED BY <2>1, <2>2, ArrivalIsKept DEF Ops
<1>3. CASE ComparePassword(r)
  <2>1. QuietMove(r)
    BY <1>3, ReadIsQuiet DEF ComparePassword, OwesMail, Over, Final, Statuses, Steps
  <2> QED BY <2>1, QuietIsKept
<1>4. CASE CreateSession(r)
  <2>1. \E x \in {"ok"} \cup Statuses : Goes(r, x) /\ Legal(r, x)
    <3>1. CASE Succeed(r)
      BY <3>1 DEF Succeed, Goes, Proceed, Legal, Over, Final, Statuses
    <3>2. CASE Fail(r, conflict)
      BY <3>2, FailGoes, StatusEnds DEF Legal, Over, Final, Statuses
    <3> QED BY <1>4, <3>1, <3>2 DEF CreateSession
  <2>2. QuietMove(r)
    BY <1>1, <1>4, <2>1 DEF CreateSession, QuietMove, Final, Statuses
  <2> QED BY <2>2, QuietIsKept
<1>5. CASE Crash(r)
  <2>1. \E s \in Statuses : Goes(r, s) /\ Legal(r, s) /\ s \in Final \ Steps
    BY <1>5, FailGoes, StatusEnds DEF Crash, Legal, Over, Final, Statuses
  <2>2. req[r].pc # "idle"
    BY <1>5 DEF Crash, InFlight, Steps
  <2>3. QuietMove(r)
    BY <1>1, <1>5, <2>1, <2>2 DEF Crash, QuietMove, Steps
  <2> QED BY <2>3, QuietIsKept
<1> QED BY <1>2, <1>3, <1>4, <1>5 DEF LoginStep

\* The requests stand still.
LEMMA StandingKeeps ==
  ASSUME Inv, UNCHANGED <<req, sessions>>, MailStep,
         user' \in User, user # NoUser => user' # NoUser,
         \A q \in Request :
           \/ job'[q] = job[q] /\ history'[q].kind = history[q].kind
              /\ (history[q] = Mails!NoRow => history'[q] = Mails!NoRow)
           \/ req[q].pc \in Over
  PROVE  Keeps
<1>1. Mails!TypeOK'
  BY MailsStayTyped DEF Inv, StoreTypeOK
<1>2. StoreTypeOK'
  BY <1>1 DEF Inv, StoreTypeOK
<1>3. \A q \in Request : CourseOf(q)'
  BY DEF Inv, Courses, CourseOf, At, AtOf, OwesMail, Untouched, Over, Final, Statuses
<1> QED BY <1>2, <1>3 DEF Keeps, Grows, Courses, Asked

\* What a worker does, in trouble or not: one job, and rows of its type.
LEMMA WorkerTouches ==
  ASSUME NEW m \in Request, Mails!Step(m) \/ Mails!Trouble(m),
         job \in [Request -> Mails!Job]
  PROVE  /\ job[m].pc \in {"waiting", "sent", "unsent"}
         /\ \A q \in Request \ {m} : job'[q] = job[q]
         /\ UNCHANGED history \/ \E status : Mails!UpdateStatus(job[m].kind, status)
<1>1. CASE Mails!Step(m)
  BY <1>1 DEF Mails!Step, Mails!Process, Mails!Handle, Mails!MarkSent, Mails!MarkFailed,
              Mails!Writes
<1>2. CASE Mails!ServerRefuses(m) \/ Mails!SentRejected(m) \/ Mails!FailedRejected(m)
  BY <1>2 DEF Mails!ServerRefuses, Mails!Handle, Mails!SentRejected, Mails!FailedRejected
<1>3. CASE Mails!Die(m)
  BY <1>3 DEF Mails!Die, Mails!Lose, Mails!Writes
<1> QED BY <1>1, <1>2, <1>3 DEF Mails!Trouble

LEMMA ProcessKeeps ==
  ASSUME Inv, NEW m \in Request, Mails!Step(m) \/ Mails!Trouble(m),
         UNCHANGED <<user, req, sessions>>
  PROVE  Keeps
<1>1. MailStep
  BY DEF MailStep, Mails!Next
<1>2. Mails!TypeOK /\ job \in [Request -> Mails!Job]
  BY DEF Inv, StoreTypeOK, Mails!TypeOK
<1>3. job[m] # Mails!NoJob
  BY <1>2, WorkerTouches DEF Mails!NoJob
<1>4. req[m].pc \in Over
  BY <1>3 DEF Inv, Courses, CourseOf, Untouched
<1>5. job[m].kind # "none"
  BY <1>2, <1>3 DEF Mails!Job, Mails!ActiveJob, Mails!EndedJob, Mails!Kinds
<1>6. \A q \in Request : history'[q].kind = history[q].kind
                         /\ (history[q] = Mails!NoRow => history'[q] = Mails!NoRow)
  <2>1. CASE UNCHANGED history
    BY <2>1
  <2>2. CASE \E status : Mails!UpdateStatus(job[m].kind, status)
    BY <2>2, <1>2, <1>5, RowsKeepKind
  <2> QED BY <1>2, <2>1, <2>2, WorkerTouches
<1> QED BY <1>1, <1>2, <1>4, <1>6, WorkerTouches, StandingKeeps DEF Inv, StoreTypeOK

LEMMA BlockKeeps ==
  ASSUME Inv, Block
  PROVE  Keeps
<1>1. user \in User /\ user.active /\ user' = [user EXCEPT !.active = FALSE]
  BY DEF Inv, StoreTypeOK, Block
<1>2. user \in [provider : Providers, verified : BOOLEAN, active : BOOLEAN,
                lower : BOOLEAN, password : Request \cup {None}]
  BY <1>1 DEF User, NoUser
<1>3. user' \in User
  BY <1>1, <1>2 DEF User
<1>4. user' # NoUser
  BY <1>1, <1>2 DEF NoUser, Providers
<1>5. UNCHANGED <<history, job, log>>
  BY DEF Block, mails
<1>6. MailStep
  BY <1>5 DEF MailStep, Mails!vars
<1> QED BY <1>3, <1>4, <1>5, <1>6, StandingKeeps DEF Block

-----------------------------------------------------------------------------
(* All of it.                                                              *)

LEMMA InitIsInv == Init => Inv /\ Mails!Init
<1> SUFFICES ASSUME Init PROVE Inv /\ Mails!Init
  OBVIOUS
<1>1. Mails!Init /\ user \in FirstUsers /\ sessions = {} /\ req = [r \in Request |-> Idle]
  BY DEF Init, StoreInit
<1>2. Mails!TypeOK
  BY <1>1 DEF Mails!Init, Mails!TypeOK, Mails!Row, Mails!Job, Mails!Log, Mails!NoLog
<1>3. user \in User
  BY <1>1, AccountStoreAssumption DEF User
<1>4. StoreTypeOK
  BY <1>1, <1>2, <1>3 DEF StoreTypeOK, Idle, RequestState
<1>5. KeysTypeOK
  BY DEF Init, RegisterInit, PasswordInit, GoogleInit, KeysTypeOK,
         RegisterTypeOK, PasswordTypeOK, GoogleTypeOK
<1>6. Courses
  BY <1>1 DEF Courses, CourseOf, Idle, At, AtOf, OwesMail, Untouched, Mails!Init
<1> QED BY <1>1, <1>4, <1>5, <1>6 DEF Inv

LEMMA KeysStand ==
  ASSUME Inv, Keeps
  PROVE  /\ UNCHANGED verificationCode => RegisterTypeOK'
         /\ UNCHANGED passwordKeys => PasswordTypeOK'
         /\ UNCHANGED oauthStates => GoogleTypeOK'
BY DEF Inv, Keeps, Grows, Ops, KeysTypeOK, RegisterTypeOK, PasswordTypeOK, GoogleTypeOK,
       passwordKeys

LEMMA StutterKeeps ==
  ASSUME Inv, UNCHANGED store
  PROVE  Keeps
<1>1. UNCHANGED <<user, sessions, req, history, job, log>>
  BY DEF store, mails
<1>2. MailStep
  BY <1>1 DEF MailStep, Mails!vars
<1> QED BY <1>1, <1>2, StandingKeeps DEF Inv, StoreTypeOK

LEMMA Inductive ==
  ASSUME Inv, [Next]_vars
  PROVE  Inv' /\ MailStep
<1>1. ASSUME Keeps, KeysTypeOK'
      PROVE  Inv' /\ MailStep
  BY <1>1 DEF Keeps, Inv
<1>2. CASE UNCHANGED vars
  <2>1. Keeps
    BY <1>2, StutterKeeps DEF vars
  <2> QED BY <1>1, <1>2, <2>1, KeysStand DEF vars, keys, passwordKeys, KeysTypeOK
<1>3. ASSUME NEW r \in Request, RequestStep(r)
      PROVE  Inv' /\ MailStep
  <2>1. CASE RegisterStep(r) /\ UNCHANGED <<passwordKeys, oauthStates>>
    BY <1>1, <2>1, RegisterKeeps, KeysStand DEF KeysTypeOK
  <2>2. CASE PasswordStep(r) /\ UNCHANGED <<verificationCode, oauthStates>>
    BY <1>1, <2>2, PasswordKeeps, KeysStand DEF KeysTypeOK
  <2>3. CASE GoogleStep(r) /\ UNCHANGED <<verificationCode, passwordKeys>>
    BY <1>1, <2>3, GoogleKeeps, KeysStand DEF KeysTypeOK
  <2>4. CASE (LoginStep(r) \/ CreateSession(r)) /\ UNCHANGED keys
    BY <1>1, <2>4, LoginKeeps, KeysStand DEF KeysTypeOK, keys
  <2> QED BY <1>3, <2>1, <2>2, <2>3, <2>4 DEF RequestStep
<1>4. ASSUME NEW m \in Request, ProcessMail(m)
      PROVE  Inv' /\ MailStep
  BY <1>1, <1>4, ProcessKeeps, KeysStand DEF ProcessMail, KeysTypeOK, keys, passwordKeys
<1>5. ASSUME Accident
      PROVE  Inv' /\ MailStep
  <2>1. ASSUME NEW r \in Request, Crash(r), UNCHANGED keys
        PROVE  Inv' /\ MailStep
    BY <1>1, <2>1, LoginKeeps, KeysStand DEF KeysTypeOK, keys
  <2>2. ASSUME NEW r \in Request, RegisterMishap(r), UNCHANGED <<passwordKeys, oauthStates>>
        PROVE  Inv' /\ MailStep
    BY <1>1, <2>2, RegisterKeeps, KeysStand DEF KeysTypeOK
  <2>3. ASSUME NEW r \in Request, ResetRejected(r), UNCHANGED <<verificationCode, oauthStates>>
        PROVE  Inv' /\ MailStep
    BY <1>1, <2>3, PasswordKeeps, KeysStand DEF KeysTypeOK
  <2>4. CASE Block /\ UNCHANGED keys
    BY <1>1, <2>4, BlockKeeps, KeysStand DEF KeysTypeOK, keys
  <2>5. CASE VerificationCodeExpires /\ UNCHANGED <<passwordKeys, oauthStates>>
    <3>1. Keeps
      BY <2>5, StutterKeeps DEF VerificationCodeExpires
    <3>2. RegisterTypeOK'
      BY <2>5 DEF VerificationCodeExpires, RegisterTypeOK
    <3> QED BY <1>1, <2>5, <3>1, <3>2, KeysStand DEF KeysTypeOK
  <2>6. CASE ResetKeyExpires /\ UNCHANGED <<verificationCode, oauthStates>>
    <3>1. Keeps
      BY <2>6, StutterKeeps DEF ResetKeyExpires
    <3>2. PasswordTypeOK'
      BY <2>6, <3>1 DEF ResetKeyExpires, PasswordTypeOK, Inv, KeysTypeOK, Keeps, Grows, Ops
    <3> QED BY <1>1, <2>6, <3>1, <3>2, KeysStand DEF KeysTypeOK
  <2>7. CASE StateExpires /\ UNCHANGED <<verificationCode, passwordKeys>>
    <3>1. Keeps
      BY <2>7, StutterKeeps DEF StateExpires
    <3>2. GoogleTypeOK'
      BY <2>7, <3>1 DEF StateExpires, GoogleTypeOK, Inv, KeysTypeOK, Keeps, Grows, Ops
    <3> QED BY <1>1, <2>7, <3>1, <3>2, KeysStand DEF KeysTypeOK
  <2>8. ASSUME NEW m \in Request, MailTrouble(m)
        PROVE  Inv' /\ MailStep
    BY <1>1, <2>8, ProcessKeeps, KeysStand DEF MailTrouble, KeysTypeOK, keys, passwordKeys
  <2> QED BY <1>5, <2>1, <2>2, <2>3, <2>4, <2>5, <2>6, <2>7, <2>8 DEF Accident
<1> QED BY <1>2, <1>3, <1>4, <1>5 DEF Next

\* Every key, row, request and e-mail keeps its type, whoever asks for what
\* and whatever goes wrong in between.
THEOREM TypeCorrect == Spec => []TypeOK
<1> DEFINE Bounds == workload \in Workloads /\ mishaps \in 0 .. workload.mishaps
<1>1. \A w \in Workloads : w.mishaps \in Nat
  BY AccountStoreAssumption
<1>2. Init => Inv /\ Bounds
  BY <1>1, InitIsInv DEF Init
<1>3. Inv /\ Bounds /\ [Next]_vars => (Inv /\ Bounds)'
  <2> SUFFICES ASSUME Inv, Bounds, [Next]_vars
               PROVE  Bounds'
    BY Inductive
  <2>1. UNCHANGED workload
    BY DEF Next, vars
  <2>2. mishaps' = mishaps \/ (mishaps < workload.mishaps /\ mishaps' = mishaps + 1)
    BY DEF Next, vars, Calmly, Mishap
  <2> QED BY <1>1, <2>1, <2>2
<1>4. Inv /\ Bounds => TypeOK
  BY DEF Inv, KeysTypeOK, TypeOK
<1> HIDE DEF Bounds
<1> QED BY <1>2, <1>3, <1>4, PTL DEF Spec

\* Accounts implements EmailQueue: a service writes the row before it adds
\* the job, one of each for an e-mail (register.service.ts:150 and 207,
\* password.service.ts:105 and 117).
THEOREM MailsAreKept == Spec => KeepsMails
<1>1. Init => Inv /\ Mails!Init
  BY InitIsInv
<1>2. Inv /\ [Next]_vars => Inv' /\ [Mails!Next]_(Mails!vars)
  BY Inductive DEF MailStep
<1> QED BY <1>1, <1>2, PTL DEF Spec, KeepsMails, Mails!Spec

\* With the services of the account at work, a row that says "sent" has an
\* e-mail of its type that was sent (email.processor.ts:68-78).
THEOREM SentIsSent == Spec => []SentMeansSent
<1>1. MP!Spec => []MP!SentMeansSent
  BY SameConstants, MP!SentIsSent
<1>2. MP!SentMeansSent => SentMeansSent
  BY DEF SentMeansSent, Mails!SentMeansSent, MP!SentMeansSent, Mails!outbox, MP!outbox
<1>3. Spec => Mails!Spec
  BY MailsAreKept DEF KeepsMails
<1> QED BY <1>1, <1>2, <1>3, SameSpec, PTL

\* No row of an e-mail whose job has ended is left pending, where one attempt at
\* least came to the end of a write (email.processor.ts:69 and 93).
THEOREM NoRowIsLeft == Spec => []NoRowLeftPending
<1>1. MP!Spec => []MP!NoRowLeftPending
  BY SameConstants, MP!NoRowIsLeft
<1>2. MP!NoRowLeftPending => NoRowLeftPending
  BY
  DEF NoRowLeftPending, Mails!NoRowLeftPending, MP!NoRowLeftPending, Mails!Ended, MP!Ended
<1>3. Spec => Mails!Spec
  BY MailsAreKept DEF KeepsMails
<1> QED BY <1>1, <1>2, <1>3, SameSpec, PTL

\* Of an e-mail of the account there are no more copies than attempts that broke
\* after the server had taken it, and one, whichever worker dies and whenever the
\* database does not answer (email.processor.ts:61-78).
THEOREM CopiesAreOwed == Spec => []SentOnce
<1>1. MP!Spec => []MP!SentOnce
  BY SameConstants, MP!CopiesAreOwed
<1>2. MP!SentOnce => SentOnce
  BY DEF SentOnce, Mails!SentOnce, MP!SentOnce
<1>3. Spec => Mails!Spec
  BY MailsAreKept DEF KeepsMails
<1> QED BY <1>1, <1>2, <1>3, SameSpec, PTL

-----------------------------------------------------------------------------
(* The row of the user.                                                    *)

LEMMA WhoWritesUser ==
  ASSUME [Next]_vars
  PROVE  \/ UNCHANGED user
         \/ Block
         \/ \E r \in Request : SaveUser(r) \/ SetVerified(r) \/ UpdatePassword(r)
                             \/ SaveGoogleUser(r)
<1>1. ASSUME NEW r \in Request, RegisterStep(r) \/ RegisterMishap(r)
      PROVE  UNCHANGED user \/ SaveUser(r) \/ SetVerified(r)
  BY <1>1
  DEF RegisterStep, RegisterMishap, Create, FindExisting, SetVerificationCode,
      QueueVerification, VerificationNotQueued, Resend, FindUnverified, RecordResend,
      VerifyEmail, GetVerificationCode, FindUserToVerify, DeleteVerificationCode,
      QueueWelcome, VerificationRejected, WelcomeRejected, Arrive
<1>2. ASSUME NEW r \in Request, PasswordStep(r) \/ ResetRejected(r)
      PROVE  UNCHANGED user \/ UpdatePassword(r)
  BY <1>2
  DEF PasswordStep, ForgotPassword, FindForgetful, SetResetCode, RecordReset, QueueReset,
      ResetNotQueued, VerifyReset, GetResetCode, FindUserToGrant, SetGrant, DeleteResetCode,
      ResetPassword, ChangePassword, GetGrant, FindUserToReset, CompareCurrent, RevokeAll,
      DeleteGrant, ReloadUser, ResetRejected, Arrive
<1>3. ASSUME NEW r \in Request, GoogleStep(r)
      PROVE  UNCHANGED user \/ SaveGoogleUser(r)
  BY <1>3
  DEF GoogleStep, GetAuthorizationUrl, SetState, HandleCallback, GetState, DeleteState,
      ExchangeCode, FindByProvider, FindByEmail, Arrive
<1>4. ASSUME NEW r \in Request, LoginStep(r) \/ CreateSession(r) \/ Crash(r)
      PROVE  UNCHANGED user
  BY <1>4 DEF LoginStep, Login, ComparePassword, CreateSession, Crash, Arrive
<1>5. CASE UNCHANGED vars
  BY <1>5 DEF vars, store
<1>6. CASE Next
  <2>1. CASE \E r \in Request : RequestStep(r)
    BY <1>1, <1>2, <1>3, <1>4, <2>1 DEF RequestStep
  <2>2. CASE \E m \in Request : ProcessMail(m)
    BY <2>2 DEF ProcessMail
  <2>3. CASE Accident
    BY <1>1, <1>2, <1>4, <2>3
    DEF Accident, MailTrouble, VerificationCodeExpires, ResetKeyExpires, StateExpires, store
  <2> QED BY <1>6, <2>1, <2>2, <2>3 DEF Next
<1> QED BY <1>5, <1>6

LEMMA UserIsKept ==
  ASSUME Inv, [Next]_vars, user # NoUser
  PROVE  /\ user'.provider = user.provider /\ user'.lower = user.lower
         /\ user.verified => user'.verified
<1>1. user \in [provider : Providers, verified : BOOLEAN, active : BOOLEAN,
                lower : BOOLEAN, password : Request \cup {None}]
  BY DEF Inv, StoreTypeOK, User
<1>2. CASE UNCHANGED user
  BY <1>2
<1>3. CASE Block
  BY <1>1, <1>3 DEF Block
<1>4. ASSUME NEW r \in Request,
             SaveUser(r) \/ SetVerified(r) \/ UpdatePassword(r) \/ SaveGoogleUser(r)
      PROVE  /\ user'.provider = user.provider /\ user'.lower = user.lower
             /\ user.verified => user'.verified
  <2>1. CASE SaveUser(r) \/ SaveGoogleUser(r)
    BY <2>1 DEF SaveUser, SaveGoogleUser, MaySave
  <2>2. CASE SetVerified(r) \/ UpdatePassword(r)
    BY <1>1, <2>2 DEF SetVerified, UpdatePassword
  <2> QED BY <1>4, <2>1, <2>2
<1> QED BY <1>2, <1>3, <1>4, WhoWritesUser

\* Registration and Google never take an account over from each other, and
\* what is verified stays so, for any number of requests that race.
THEOREM AccountsStand == Spec => AccountNotReplaced
<1>1. Init => Inv
  BY InitIsInv
<1>2. Inv /\ [Next]_vars => Inv'
  BY Inductive
<1>3. Inv /\ [Next]_vars
      => [user # NoUser => /\ user'.provider = user.provider /\ user'.lower = user.lower
                           /\ user.verified => user'.verified]_vars
  BY UserIsKept
<1> QED BY <1>1, <1>2, <1>3, PTL DEF Spec, AccountNotReplaced

-----------------------------------------------------------------------------
(* Who must be verified: a login, a verification or a callback that is     *)
(* past its check, and the sessions that came of them.                     *)

Checked == {"login", "verifyEmail", "callback"}
PastCheck == {"delCode", "welcome", "session"}

MustBeVerified(r) == req[r].op \in Checked /\ (req[r].pc \in PastCheck \/ r \in sessions)

VerifiedInv ==
  /\ user.provider = "google" => user.verified
  /\ \A r \in Request : MustBeVerified(r) => user.verified
  /\ \A r \in sessions : ~At(r, "idle")

\* Only r moves.
LEMMA VerifiedFrame ==
  ASSUME Inv, VerifiedInv, NEW r \in Request,
         user.verified => user'.verified,
         user'.provider = "google" => user'.verified,
         \A q \in Request \ {r} : req'[q] = req[q],
         sessions' \subseteq sessions \cup {r},
         MustBeVerified(r)' => user'.verified,
         r \in sessions' => ~At(r, "idle")'
  PROVE  VerifiedInv'
<1>1. sessions \subseteq Request
  BY DEF Inv, StoreTypeOK
<1>2. \A q \in Request \ {r} : MustBeVerified(q)' => MustBeVerified(q)
  BY DEF MustBeVerified
<1>3. \A q \in sessions' : ~At(q, "idle")'
  BY <1>1 DEF VerifiedInv, At
<1> QED BY <1>2, <1>3 DEF VerifiedInv

\* A request that has arrived takes a step that opens no session.
LEMMA StepVerified ==
  ASSUME Inv, VerifiedInv, NEW r \in Request, ~At(r, "idle"),
         NEW x \in Steps \cup Final, Goes(r, x),
         user.verified => user'.verified,
         user'.provider = "google" => user'.verified,
         sessions' \subseteq sessions,
         req[r].op \in Checked /\ x \in PastCheck => user'.verified
  PROVE  VerifiedInv'
<1>1. /\ req'[r].pc = x /\ req'[r].op = req[r].op
      /\ \A q \in Request \ {r} : req'[q] = req[q]
  BY Gone DEF Inv
<1>2. MustBeVerified(r)' => user'.verified
  BY <1>1 DEF MustBeVerified, VerifiedInv
<1>3. ~At(r, "idle")'
  BY <1>1 DEF At, Steps, Final, Statuses
<1> QED BY <1>1, <1>2, <1>3, VerifiedFrame

\* A step that goes on to x or fails.
LEMMA StepOrFailVerified ==
  ASSUME Inv, VerifiedInv, NEW r \in Request, ~At(r, "idle"),
         NEW x \in Steps \cup Final,
         Proceed(r, x) \/ \E e : Fail(r, e),
         UNCHANGED user, sessions' \subseteq sessions,
         req[r].op \in Checked /\ x \in PastCheck => user.verified
  PROVE  VerifiedInv'
<1>1. CASE Proceed(r, x)
  BY <1>1, StepVerified DEF Goes, Proceed, VerifiedInv
<1>2. CASE \E e : Fail(r, e)
  <2>1. PICK s \in Statuses : Goes(r, s)
    BY <1>2, FailGoes
  <2>2. s \in Steps \cup Final /\ s \notin PastCheck
    BY <2>1, StatusEnds DEF PastCheck, Steps
  <2> QED BY <2>1, <2>2, StepVerified DEF VerifiedInv
<1> QED BY <1>1, <1>2

LEMMA ArrivalVerified ==
  ASSUME Inv, VerifiedInv, NEW r \in Request, NEW op, NEW arg,
         NEW x \in Steps \ PastCheck, Arrive(r, op, arg, x)
  PROVE  VerifiedInv'
<1>1. UNCHANGED <<user, sessions>> /\ At(r, "idle")
  BY DEF Arrive
<1>2. req'[r].pc = x /\ \A q \in Request \ {r} : req'[q] = req[q]
  BY DEF Arrive, Inv, StoreTypeOK
<1>3. r \notin sessions
  BY <1>1 DEF VerifiedInv
<1> QED BY <1>1, <1>2, <1>3, VerifiedFrame DEF MustBeVerified, VerifiedInv

LEMMA RegisterVerified ==
  ASSUME Inv, VerifiedInv, NEW r \in Request, RegisterStep(r) \/ RegisterMishap(r)
  PROVE  VerifiedInv'
<1> USE DEF At, AtOf
<1>1. CASE Create(r) \/ Resend(r) \/ VerifyEmail(r)
  BY <1>1, ArrivalVerified DEF Create, Resend, VerifyEmail, Steps, PastCheck
<1>2. CASE SaveUser(r)
  <2>1. CASE user = NoUser /\ Proceed(r, "setCode") /\ user'.provider = "local"
    <3>1. ~user.verified
      BY <2>1 DEF NoUser
    <3>2. Goes(r, "setCode") /\ "setCode" \in Steps \ PastCheck
      BY <2>1 DEF Goes, Proceed, Steps, PastCheck
    <3>3. ~At(r, "idle") /\ UNCHANGED sessions
      BY <1>2 DEF SaveUser
    <3> QED BY <2>1, <3>1, <3>2, <3>3, StepVerified
  <2>2. CASE NotSaved(r) /\ UNCHANGED user
    BY <1>2, <2>2, StepOrFailVerified DEF SaveUser, NotSaved, Steps, PastCheck
  <2> QED BY <1>2, <2>1, <2>2 DEF SaveUser, MaySave
<1>3. CASE SetVerified(r)
  <2>1. user # NoUser
    BY <1>3 DEF SetVerified, Inv, Courses, CourseOf
  <2>2. user'.verified
    BY <1>3, <2>1 DEF SetVerified, Inv, StoreTypeOK, User
  <2> QED BY <1>3, <2>2, StepVerified DEF SetVerified, Goes, Proceed, Steps
<1>4. CASE DeleteVerificationCode(r) \/ QueueWelcome(r) \/ WelcomeRejected(r)
  <2>1. user.verified
    BY <1>4 DEF DeleteVerificationCode, QueueWelcome, WelcomeRejected, VerifiedInv,
                MustBeVerified, Checked, PastCheck
  <2> QED
    BY <1>4, <2>1, StepOrFailVerified
    DEF DeleteVerificationCode, QueueWelcome, WelcomeRejected, AddJob, JobRejected, Steps
<1>5. CASE FindExisting(r) \/ FindUnverified(r) \/ GetVerificationCode(r) \/ FindUserToVerify(r)
  BY <1>5, StepOrFailVerified
  DEF FindExisting, FindUnverified, GetVerificationCode, FindUserToVerify, Steps, PastCheck
<1>6. CASE SetVerificationCode(r) \/ RecordResend(r)
  BY <1>6, StepOrFailVerified
  DEF SetVerificationCode, RecordResend, Steps, PastCheck
<1>7. CASE QueueVerification(r) \/ VerificationRejected(r) \/ VerificationNotQueued(r)
  BY <1>7, StepOrFailVerified
  DEF QueueVerification, VerificationRejected, VerificationNotQueued, AddJob, JobRejected,
      Succeed, Steps, Final, PastCheck
<1> QED BY <1>1, <1>2, <1>3, <1>4, <1>5, <1>6, <1>7 DEF RegisterStep, RegisterMishap

LEMMA PasswordVerified ==
  ASSUME Inv, VerifiedInv, NEW r \in Request, PasswordStep(r) \/ ResetRejected(r)
  PROVE  VerifiedInv'
<1> USE DEF At, AtOf
<1>1. CASE ForgotPassword(r) \/ VerifyReset(r) \/ ResetPassword(r) \/ ChangePassword(r)
  BY <1>1, ArrivalVerified
  DEF ForgotPassword, VerifyReset, ResetPassword, ChangePassword, Steps, PastCheck
<1>2. CASE FindForgetful(r) \/ SetResetCode(r) \/ RecordReset(r)
  BY <1>2, StepOrFailVerified
  DEF FindForgetful, SetResetCode, AfterResetCode, RecordReset, Succeed, Steps, Final, PastCheck
<1>3. CASE QueueReset(r) \/ ResetRejected(r) \/ ResetNotQueued(r)
  BY <1>3, StepOrFailVerified
  DEF QueueReset, ResetRejected, ResetNotQueued, AddJob, JobRejected, Succeed, Steps, Final,
      PastCheck
<1>4. CASE GetResetCode(r) \/ FindUserToGrant(r)
  BY <1>4, StepOrFailVerified DEF GetResetCode, FindUserToGrant, Steps, PastCheck
<1>5. CASE SetGrant(r) \/ DeleteResetCode(r)
  BY <1>5, StepOrFailVerified DEF SetGrant, DeleteResetCode, Succeed, Steps, Final, Checked
<1>6. CASE GetGrant(r) \/ FindUserToReset(r) \/ CompareCurrent(r)
  BY <1>6, StepOrFailVerified
  DEF GetGrant, FindUserToReset, CompareCurrent, Steps, PastCheck
<1>7. CASE UpdatePassword(r)
  <2>1. user # NoUser
    BY <1>7 DEF UpdatePassword, Inv, Courses, CourseOf
  <2>2. user'.verified = user.verified /\ user'.provider = user.provider
    BY <1>7, <2>1 DEF UpdatePassword, Inv, StoreTypeOK, User
  <2>3. Goes(r, "revoke") /\ "revoke" \in Steps \ PastCheck
    BY <1>7 DEF UpdatePassword, Goes, Proceed, Steps, PastCheck
  <2>4. ~At(r, "idle") /\ UNCHANGED sessions
    BY <1>7 DEF UpdatePassword
  <2> QED BY <2>2, <2>3, <2>4, StepVerified DEF VerifiedInv
<1>8. CASE RevokeAll(r) \/ DeleteGrant(r)
  BY <1>8, StepOrFailVerified DEF RevokeAll, AfterRevocation, DeleteGrant, Steps, PastCheck
<1>9. CASE ReloadUser(r)
  BY <1>9, StepOrFailVerified DEF ReloadUser, Changing, Steps, Checked
<1> QED BY <1>1, <1>2, <1>3, <1>4, <1>5, <1>6, <1>7, <1>8, <1>9 DEF PasswordStep

LEMMA GoogleVerified ==
  ASSUME Inv, VerifiedInv, NEW r \in Request, GoogleStep(r)
  PROVE  VerifiedInv'
<1> USE DEF At, AtOf
<1>1. CASE GetAuthorizationUrl(r) \/ HandleCallback(r)
  BY <1>1, ArrivalVerified DEF GetAuthorizationUrl, HandleCallback, Steps, PastCheck
<1>2. CASE SetState(r) \/ GetState(r) \/ DeleteState(r)
  BY <1>2, StepOrFailVerified
  DEF SetState, GetState, DeleteState, Succeed, Steps, Final, PastCheck
<1>3. CASE ExchangeCode(r) \/ FindByEmail(r)
  BY <1>3, StepOrFailVerified DEF ExchangeCode, FindByEmail, Steps, PastCheck
<1>4. CASE FindByProvider(r)
  BY <1>4, StepOrFailVerified DEF FindByProvider, VerifiedInv, Steps, PastCheck
<1>5. CASE SaveGoogleUser(r)
  <2>1. CASE Proceed(r, "session") /\ user'.verified
    BY <1>5, <2>1, StepVerified DEF SaveGoogleUser, Goes, Proceed, Steps
  <2>2. CASE NotSaved(r) /\ UNCHANGED user
    BY <1>5, <2>2, StepOrFailVerified DEF SaveGoogleUser, NotSaved, Steps, PastCheck
  <2> QED BY <1>5, <2>1, <2>2 DEF SaveGoogleUser
<1> QED BY <1>1, <1>2, <1>3, <1>4, <1>5 DEF GoogleStep

LEMMA LoginVerified ==
  ASSUME Inv, VerifiedInv, NEW r \in Request, LoginStep(r) \/ CreateSession(r) \/ Crash(r)
  PROVE  VerifiedInv'
<1> USE DEF At, AtOf
<1>1. CASE Login(r)
  BY <1>1, ArrivalVerified DEF Login, Steps, PastCheck
<1>2. CASE ComparePassword(r)
  <2>1. CASE MayLogin(req[r].arg) /\ Proceed(r, "session")
    BY <1>2, <2>1, StepOrFailVerified DEF ComparePassword, MayLogin, Steps
  <2>2. CASE \E e : Fail(r, e)
    BY <1>2, <2>2, StepOrFailVerified DEF ComparePassword, Final, PastCheck
  <2> QED BY <1>2, <2>1, <2>2 DEF ComparePassword
<1>3. CASE CreateSession(r) /\ Succeed(r)
  <2>1. /\ req'[r].pc = "ok" /\ req'[r].op = req[r].op
        /\ \A q \in Request \ {r} : req'[q] = req[q]
    BY <1>3, Gone DEF CreateSession, Succeed, Goes, Proceed, Inv, Final
  <2>2. MustBeVerified(r)' => user'.verified
    BY <1>3, <2>1 DEF CreateSession, MustBeVerified, VerifiedInv, PastCheck
  <2>3. sessions' \subseteq sessions \cup {r} /\ UNCHANGED user
    BY <1>3 DEF CreateSession
  <2>4. ~At(r, "idle")'
    BY <2>1
  <2> QED BY <2>1, <2>2, <2>3, <2>4, VerifiedFrame DEF VerifiedInv
<1>4. CASE CreateSession(r) /\ ~Succeed(r)
  BY <1>4, StepOrFailVerified DEF CreateSession, Final, PastCheck
<1>5. CASE Crash(r)
  BY <1>5, StepOrFailVerified DEF Crash, InFlight, Final, PastCheck, Steps
<1> QED BY <1>1, <1>2, <1>3, <1>4, <1>5 DEF LoginStep

LEMMA VerifiedInductive ==
  /\ Init => VerifiedInv
  /\ Inv /\ VerifiedInv /\ [Next]_vars => VerifiedInv'
<1>1. Init => VerifiedInv
  BY AccountStoreAssumption
  DEF Init, StoreInit, VerifiedInv, MustBeVerified, Idle, Checked
<1>2. ASSUME Inv, VerifiedInv, [Next]_vars
      PROVE  VerifiedInv'
  <2>1. CASE UNCHANGED <<user, sessions, req>>
    BY <1>2, <2>1 DEF VerifiedInv, MustBeVerified, At
  <2>2. CASE Block
    <3>1. UNCHANGED <<sessions, req>> /\ user'.verified = user.verified
          /\ user'.provider = user.provider
      BY <1>2, <2>2 DEF Block, Inv, StoreTypeOK, User, NoUser
    <3> QED BY <1>2, <3>1 DEF VerifiedInv, MustBeVerified, At
  <2>3. ASSUME NEW r \in Request,
               \/ RegisterStep(r) \/ RegisterMishap(r)
               \/ PasswordStep(r) \/ ResetRejected(r)
               \/ GoogleStep(r)
               \/ LoginStep(r) \/ CreateSession(r) \/ Crash(r)
        PROVE  VerifiedInv'
    BY <1>2, <2>3, RegisterVerified, PasswordVerified, GoogleVerified, LoginVerified
  <2>4. CASE \E r \in Request : RequestStep(r)
    BY <2>3, <2>4 DEF RequestStep
  <2>5. CASE \E m \in Request : ProcessMail(m)
    BY <2>1, <2>5 DEF ProcessMail
  <2>6. CASE Accident
    BY <2>1, <2>2, <2>3, <2>6
    DEF Accident, MailTrouble, VerificationCodeExpires, ResetKeyExpires, StateExpires, store
  <2>7. CASE UNCHANGED vars
    BY <2>1, <2>7 DEF vars, store
  <2> QED BY <1>2, <2>4, <2>5, <2>6, <2>7 DEF Next
<1> QED BY <1>1, <1>2

\* Login, verification and Google open sessions for verified addresses only,
\* whatever overlaps with them between the check and the session
\* (login.service.ts:136); a change of the password does not ask.
THEOREM SessionsAreVerified == Spec => []SessionsNeedVerification
<1>1. Init => Inv /\ VerifiedInv
  BY InitIsInv, VerifiedInductive
<1>2. Inv /\ VerifiedInv /\ [Next]_vars => (Inv /\ VerifiedInv)'
  BY Inductive, VerifiedInductive
<1>3. Inv /\ VerifiedInv => SessionsNeedVerification
  BY DEF Inv, StoreTypeOK, VerifiedInv, MustBeVerified, Checked, SessionsNeedVerification
<1> QED BY <1>1, <1>2, <1>3, PTL DEF Spec

-----------------------------------------------------------------------------
(* Single use.  A step serves one request, and leaves the others alone.    *)

Goal == Steps \cup {"ok"}

\* A reset begins at getGrant; no step leads there.
Onward == Goal \ {"getGrant"}

Moves(r) ==
  /\ req[r].pc \in Steps
  /\ \/ \E x \in Onward : Proceed(r, x) /\ (At(r, "session") => x = "ok")
     \/ \E s \in Statuses : req' = [req EXCEPT ![r].pc = s, ![r].arg = None]

Serves(r, ops) ==
  \/ Moves(r) /\ req[r].op \in ops
  \/ \E op \in ops, arg \in Request \cup {None}, x \in Steps \ {"session"} :
       Arrive(r, op, arg, x)

LEMMA NotOk == "ok" \notin Steps /\ "idle" # "ok" /\ "ok" \notin Statuses
BY DEF Steps, Statuses

LEMMA FailMoves ==
  ASSUME NEW r \in Request, req[r].pc \in Steps, \E e : Fail(r, e)
  PROVE  Moves(r)
<1>1. PICK e : Fail(r, e)
  OBVIOUS
<1>2. StatusOf(e) \in Statuses
  BY
  DEF StatusOf, IsDomainException, DomainErrorCategory, mapDomainErrorToHttpStatus, Statuses
<1> QED BY <1>1, <1>2 DEF Fail, Moves

\* What a request is that has moved.
LEMMA Moved ==
  ASSUME Inv, NEW r \in Request, Moves(r)
  PROVE  /\ \A q \in Request \ {r} : req'[q] = req[q]
         /\ req'[r].op = req[r].op /\ req'[r].after = req[r].after
         /\ \/ req'[r].pc \in Onward /\ req'[r].arg = req[r].arg
            \/ req'[r].pc \in Statuses /\ req'[r].arg = None
         /\ req[r].pc \in Over => req'[r].pc \in Over
<1>1. req \in [Request -> RequestState]
  BY DEF Inv, StoreTypeOK
<1>2. req[r] \in RequestState
  BY <1>1
<1>3. CASE \E x \in Onward : Proceed(r, x) /\ (At(r, "session") => x = "ok")
  <2>1. PICK x \in Onward : Proceed(r, x) /\ (At(r, "session") => x = "ok")
    BY <1>3
  <2>2. /\ \A q \in Request \ {r} : req'[q] = req[q]
        /\ req'[r].op = req[r].op /\ req'[r].pc = x /\ req'[r].arg = req[r].arg
        /\ req'[r].after = req[r].after
    BY <1>1, <1>2, <2>1 DEF Proceed, RequestState
  <2>3. req[r].pc \in Over => At(r, "session")
    BY StatusEnds DEF Moves, Over, Final, Steps, At
  <2> QED BY <2>1, <2>2, <2>3 DEF Over, Final
<1>4. CASE \E s \in Statuses : req' = [req EXCEPT ![r].pc = s, ![r].arg = None]
  <2>1. PICK s \in Statuses : req' = [req EXCEPT ![r].pc = s, ![r].arg = None]
    BY <1>4
  <2>2. /\ \A q \in Request \ {r} : req'[q] = req[q]
        /\ req'[r].op = req[r].op /\ req'[r].pc = s /\ req'[r].arg = None
        /\ req'[r].after = req[r].after
    BY <1>1, <1>2, <2>1 DEF RequestState
  <2> QED BY <2>1, <2>2 DEF Over, Final
<1> QED BY <1>3, <1>4 DEF Moves

LEMMA Arrived ==
  ASSUME Inv, NEW r \in Request, NEW op, NEW arg, NEW x, Arrive(r, op, arg, x)
  PROVE  /\ \A q \in Request \ {r} : req'[q] = req[q]
         /\ req'[r].pc = x /\ req'[r].op = op /\ req'[r].arg = arg
         /\ req'[r].after = Answered
         /\ req[r].pc = "idle"
         /\ \A q \in Request : req[q].pc \in Steps => {op, req[q].op} \notin Apart
BY DEF Arrive, Inv, StoreTypeOK, At, InFlight

LEMMA ArrivedFor ==
  ASSUME Inv, NEW r \in Request, NEW op, NEW x, \E arg : Arrive(r, op, arg, x)
  PROVE  req'[r].op = op
<1>1. PICK arg : Arrive(r, op, arg, x)
  OBVIOUS
<1>2. req'[r].pc = x /\ req'[r].op = op /\ req'[r].arg = arg
  BY <1>1, Arrived
<1> QED BY <1>2

LEMMA Served ==
  ASSUME Inv, NEW r \in Request, NEW ops, Serves(r, ops)
  PROVE  /\ \A q \in Request \ {r} : req'[q] = req[q]
         /\ req'[r].op \in ops
         /\ req[r].pc # "ok"
         /\ req[r].pc \in Over => req'[r].pc \in Over
<1>1. CASE Moves(r) /\ req[r].op \in ops
  BY <1>1, Moved, NotOk DEF Moves
<1>2. ASSUME NEW op \in ops, NEW arg \in Request \cup {None}, NEW x \in Steps \ {"session"},
             Arrive(r, op, arg, x)
      PROVE  /\ \A q \in Request \ {r} : req'[q] = req[q]
             /\ req'[r].op \in ops
             /\ req[r].pc # "ok"
             /\ req[r].pc \in Over => req'[r].pc \in Over
  <2>1. /\ \A q \in Request \ {r} : req'[q] = req[q]
        /\ req'[r].op = op /\ req[r].pc = "idle"
    BY <1>2, Arrived
  <2> QED BY <2>1 DEF Over, Final, Statuses
<1> QED BY <1>1, <1>2 DEF Serves

\* A step that goes on to x or fails.
LEMMA GoesOrFails ==
  ASSUME NEW r \in Request, req[r].pc \in Steps \ {"session"}, NEW x \in Onward,
         Proceed(r, x) \/ \E e : Fail(r, e)
  PROVE  Moves(r)
BY FailMoves DEF Moves, At

RegisterOps == {"create", "resend", "verifyEmail"}
PasswordOps == {"forgot", "verifyReset", "reset", "change"}
GoogleOps == {"authorize", "callback"}

LEMMA RegisterServes ==
  ASSUME Inv, NEW r \in Request, RegisterStep(r) \/ RegisterMishap(r)
  PROVE  Serves(r, RegisterOps)
<1> USE DEF At, AtOf, RegisterOps
<1>1. CASE Create(r) \/ Resend(r)
  BY <1>1 DEF Create, Resend, Serves, Steps
<1>2. CASE VerifyEmail(r)
  <2>1. PICK code \in CodesMailed("verification") : Arrive(r, "verifyEmail", code, "getCode")
    BY <1>2 DEF VerifyEmail
  <2>2. code \in Request
    BY DEF CodesMailed, Mails!outbox
  <2> QED BY <2>1, <2>2 DEF Serves, Steps
<1>3. CASE FindExisting(r) \/ FindUnverified(r) \/ GetVerificationCode(r) \/ FindUserToVerify(r)
  <2>1. Moves(r)
    BY <1>3, GoesOrFails
    DEF FindExisting, FindUnverified, GetVerificationCode, FindUserToVerify, Steps, Goal, Onward
  <2>2. req[r].op \in RegisterOps
    BY <1>3 DEF FindExisting, FindUnverified, GetVerificationCode, FindUserToVerify
  <2> QED BY <2>1, <2>2 DEF Serves
<1>4. CASE SaveUser(r)
  <2>1. Moves(r)
    BY <1>4, GoesOrFails DEF SaveUser, NotSaved, Steps, Goal, Onward
  <2> QED BY <1>4, <2>1 DEF Serves, SaveUser
<1>5. CASE SetVerificationCode(r) \/ RecordResend(r) \/ SetVerified(r) \/ DeleteVerificationCode(r)
  <2>1. Moves(r)
    BY <1>5, GoesOrFails
    DEF SetVerificationCode, RecordResend, SetVerified, DeleteVerificationCode, Steps, Goal, Onward
  <2>2. req[r].op \in RegisterOps
    BY <1>5 DEF SetVerificationCode, RecordResend, SetVerified, DeleteVerificationCode
  <2> QED BY <2>1, <2>2 DEF Serves
<1>6. CASE \/ QueueVerification(r) \/ VerificationRejected(r) \/ VerificationNotQueued(r)
           \/ QueueWelcome(r) \/ WelcomeRejected(r)
  <2>1. Moves(r)
    BY <1>6, GoesOrFails
    DEF QueueVerification, VerificationRejected, VerificationNotQueued, QueueWelcome,
        WelcomeRejected, AddJob, JobRejected, Succeed, Steps, Goal, Onward
  <2>2. req[r].op \in RegisterOps
    BY <1>6 DEF QueueVerification, VerificationRejected, VerificationNotQueued, QueueWelcome,
                WelcomeRejected
  <2> QED BY <2>1, <2>2 DEF Serves
<1> QED BY <1>1, <1>2, <1>3, <1>4, <1>5, <1>6 DEF RegisterStep, RegisterMishap

LEMMA PasswordServes ==
  ASSUME Inv, NEW r \in Request, PasswordStep(r) \/ ResetRejected(r)
  PROVE  Serves(r, PasswordOps)
<1> USE DEF At, AtOf, PasswordOps
<1>1. CASE ForgotPassword(r)
  BY <1>1 DEF ForgotPassword, Serves, Steps
<1>2. CASE VerifyReset(r)
  <2>1. PICK code \in CodesMailed("password_reset") : Arrive(r, "verifyReset", code, "getCode")
    BY <1>2 DEF VerifyReset
  <2>2. code \in Request
    BY DEF CodesMailed, Mails!outbox
  <2> QED BY <2>1, <2>2 DEF Serves, Steps
<1>3. CASE ResetPassword(r)
  BY <1>3 DEF ResetPassword, Succeeded, Serves, Steps
<1>4. CASE ChangePassword(r)
  <2>1. PICK old \in 0 .. r - 1 : Arrive(r, "change", old, "compare")
    BY <1>4 DEF ChangePassword
  <2>2. old \in Request \cup {None}
    BY AccountStoreAssumption DEF Request, None
  <2> QED BY <2>1, <2>2 DEF Serves, Steps
<1>5. CASE FindForgetful(r) \/ SetResetCode(r) \/ RecordReset(r)
  <2>1. Moves(r)
    BY <1>5, GoesOrFails
    DEF FindForgetful, SetResetCode, AfterResetCode, RecordReset, Succeed, Steps, Goal, Onward
  <2> QED BY <1>5, <2>1 DEF Serves, FindForgetful, SetResetCode, RecordReset
<1>6. CASE QueueReset(r) \/ ResetRejected(r) \/ ResetNotQueued(r)
  <2>1. Moves(r)
    BY <1>6, GoesOrFails
    DEF QueueReset, ResetRejected, ResetNotQueued, AddJob, JobRejected, Succeed, Steps, Goal, Onward
  <2> QED BY <1>6, <2>1 DEF Serves, QueueReset, ResetRejected, ResetNotQueued
<1>7. CASE GetResetCode(r) \/ FindUserToGrant(r) \/ SetGrant(r) \/ DeleteResetCode(r)
  <2>1. Moves(r)
    BY <1>7, GoesOrFails
    DEF GetResetCode, FindUserToGrant, SetGrant, DeleteResetCode, Succeed, Steps, Goal, Onward
  <2> QED BY <1>7, <2>1 DEF Serves, GetResetCode, FindUserToGrant, SetGrant, DeleteResetCode
<1>8. CASE GetGrant(r) \/ FindUserToReset(r) \/ CompareCurrent(r)
  <2>1. CASE GetGrant(r)
    <3>1. Moves(r)
      BY <2>1, GoesOrFails DEF GetGrant, Steps, Goal, Onward
    <3> QED BY <2>1, <3>1 DEF Serves, GetGrant
  <2>2. CASE FindUserToReset(r)
    <3>1. Moves(r)
      BY <2>2, GoesOrFails DEF FindUserToReset, Steps, Goal, Onward
    <3> QED BY <2>2, <3>1 DEF Serves, FindUserToReset
  <2>3. CASE CompareCurrent(r)
    <3>1. Moves(r)
      BY <2>3, GoesOrFails DEF CompareCurrent, Steps, Goal, Onward
    <3> QED BY <2>3, <3>1 DEF Serves, CompareCurrent
  <2> QED BY <1>8, <2>1, <2>2, <2>3
<1>9. CASE UpdatePassword(r) \/ RevokeAll(r) \/ DeleteGrant(r) \/ ReloadUser(r)
  <2>1. Moves(r)
    BY <1>9, GoesOrFails
    DEF UpdatePassword, RevokeAll, DeleteGrant, ReloadUser, Steps, Goal, Onward
  <2> QED BY <1>9, <2>1 DEF Serves, UpdatePassword, RevokeAll, DeleteGrant, ReloadUser, Changing
<1> QED BY <1>1, <1>2, <1>3, <1>4, <1>5, <1>6, <1>7, <1>8, <1>9 DEF PasswordStep

LEMMA GoogleServes ==
  ASSUME Inv, NEW r \in Request, GoogleStep(r)
  PROVE  Serves(r, GoogleOps)
<1> USE DEF At, AtOf, GoogleOps
<1>1. CASE GetAuthorizationUrl(r) \/ HandleCallback(r)
  BY <1>1 DEF GetAuthorizationUrl, HandleCallback, Succeeded, Serves, Steps
<1>2. CASE SetState(r) \/ GetState(r) \/ DeleteState(r) \/ ExchangeCode(r)
  <2>1. Moves(r)
    BY <1>2, GoesOrFails
    DEF SetState, GetState, DeleteState, ExchangeCode, Succeed, Steps, Goal, Onward
  <2> QED BY <1>2, <2>1 DEF Serves, SetState, GetState, DeleteState, ExchangeCode
<1>3. CASE FindByProvider(r) \/ FindByEmail(r) \/ SaveGoogleUser(r)
  <2>1. Moves(r)
    BY <1>3, GoesOrFails DEF FindByProvider, FindByEmail, SaveGoogleUser, NotSaved, Steps, Goal,
       Onward
  <2> QED BY <1>3, <2>1 DEF Serves, FindByProvider, FindByEmail, SaveGoogleUser
<1> QED BY <1>1, <1>2, <1>3 DEF GoogleStep

LEMMA LoginServes ==
  ASSUME Inv, NEW r \in Request, LoginStep(r)
  PROVE  Serves(r, {"login"})
<1> USE DEF At, AtOf
<1>1. CASE Login(r)
  <2>1. PICK password \in 0 .. r - 1 : Arrive(r, "login", password, "compare")
    BY <1>1 DEF Login
  <2>2. password \in Request \cup {None}
    BY AccountStoreAssumption DEF Request, None
  <2> QED BY <2>1, <2>2 DEF Serves, Steps
<1>2. CASE ComparePassword(r)
  <2>1. Moves(r)
    BY <1>2, GoesOrFails DEF ComparePassword, Steps, Goal, Onward
  <2> QED BY <1>2, <2>1 DEF Serves, ComparePassword
<1> QED BY <1>1, <1>2 DEF LoginStep

\* The end of a request, at which no ticket is looked at.
Ending(r) == CreateSession(r) \/ Crash(r)

LEMMA EndingMoves ==
  ASSUME Inv, NEW r \in Request, Ending(r)
  PROVE  /\ Moves(r)
         /\ req'[r].pc \in Statuses \/ (req[r].pc = "session" /\ req'[r].pc = "ok")
<1>1. CASE CreateSession(r) /\ Succeed(r)
  <2>1. req'[r].pc = "ok" /\ req[r].pc = "session"
    BY <1>1 DEF CreateSession, Succeed, Proceed, Inv, StoreTypeOK, At
  <2> QED BY <1>1, <2>1 DEF Succeed, Moves, Steps, Goal, Onward
<1>2. CASE \E e : Fail(r, e)
  <2>1. req[r].pc \in Steps
    BY DEF Ending, CreateSession, Crash, InFlight, At, Steps
  <2>2. \E s \in Statuses : Goes(r, s)
    BY <1>2, FailGoes
  <2>3. req'[r].pc \in Statuses
    BY <2>1, <2>2, Gone, StatusEnds DEF Inv, At, Steps
  <2> QED BY <1>2, <2>1, <2>3, FailMoves
<1> QED BY <1>1, <1>2 DEF Ending, CreateSession, Crash

KeysExpire ==
  resetCode' \in {resetCode, None} /\ grants' \subseteq grants /\ oauthStates' \subseteq oauthStates

\* Whose step it is.
LEMMA StepOfOne ==
  ASSUME [Next]_vars
  PROVE  \/ /\ UNCHANGED <<req, sessions>> /\ (UNCHANGED user \/ Block)
            /\ KeysExpire
         \/ \E r \in Request :
              \/ (RegisterStep(r) \/ RegisterMishap(r)) /\ UNCHANGED <<passwordKeys, oauthStates>>
              \/ (PasswordStep(r) \/ ResetRejected(r)) /\ UNCHANGED oauthStates
              \/ GoogleStep(r) /\ UNCHANGED passwordKeys
              \/ (LoginStep(r) \/ Ending(r)) /\ UNCHANGED <<passwordKeys, oauthStates>>
<1>1. CASE UNCHANGED vars
  BY <1>1 DEF vars, store, keys, passwordKeys, KeysExpire
<1>2. CASE \E r \in Request : RequestStep(r)
  BY <1>2 DEF RequestStep, Ending, keys
<1>3. CASE \E m \in Request : ProcessMail(m)
  BY <1>3 DEF ProcessMail, keys, passwordKeys, KeysExpire
<1>4. CASE Accident
  <2>1. CASE \E r \in Request :
               \/ Crash(r) /\ UNCHANGED keys
               \/ RegisterMishap(r) /\ UNCHANGED <<passwordKeys, oauthStates>>
               \/ ResetRejected(r) /\ UNCHANGED <<verificationCode, oauthStates>>
    BY <2>1 DEF Ending, keys
  <2>2. CASE Block /\ UNCHANGED keys
    BY <2>2 DEF Block, keys, passwordKeys, KeysExpire
  <2>3. CASE \/ VerificationCodeExpires /\ UNCHANGED <<passwordKeys, oauthStates>>
             \/ ResetKeyExpires /\ UNCHANGED <<verificationCode, oauthStates>>
             \/ StateExpires /\ UNCHANGED <<verificationCode, passwordKeys>>
    BY <2>3
    DEF VerificationCodeExpires, ResetKeyExpires, StateExpires, store, passwordKeys, KeysExpire
  <2>4. CASE \E m \in Request : MailTrouble(m)
    BY <2>4 DEF MailTrouble, keys, passwordKeys, KeysExpire
  <2> QED BY <1>4, <2>1, <2>2, <2>3, <2>4 DEF Accident
<1> QED BY <1>1, <1>2, <1>3, <1>4 DEF Next

LEMMA StepServes ==
  ASSUME Inv, [Next]_vars
  PROVE  UNCHANGED req \/ \E r \in Request, ops \in SUBSET (Ops \cup {"none"}) : Serves(r, ops)
<1>1. RegisterOps \subseteq Ops /\ PasswordOps \subseteq Ops /\ GoogleOps \subseteq Ops
      /\ {"login"} \subseteq Ops
  BY DEF RegisterOps, PasswordOps, GoogleOps, Ops
<1>2. ASSUME NEW r \in Request, Ending(r)
      PROVE  Serves(r, Ops \cup {"none"})
  <2>1. req[r].op \in Ops \cup {"none"}
    BY DEF Inv, StoreTypeOK, RequestState
  <2> QED BY <1>2, <2>1, EndingMoves DEF Serves
<1> QED BY <1>1, <1>2, StepOfOne, RegisterServes, PasswordServes, GoogleServes, LoginServes

-----------------------------------------------------------------------------
(* An operation that the instance keeps apart from itself.                 *)

InStep(op) == {r \in Request : req[r].op = op /\ req[r].pc \in Steps}
Alone(op) == \A q, r \in InStep(op) : q = r

LEMMA AloneKept ==
  ASSUME Inv, [Next]_vars, NEW op, {op} \in Apart, Alone(op)
  PROVE  Alone(op)'
<1>1. CASE UNCHANGED req
  BY <1>1 DEF Alone, InStep
<1>2. ASSUME NEW r \in Request, Moves(r)
      PROVE  Alone(op)'
  <2>1. /\ \A q \in Request \ {r} : req'[q] = req[q]
        /\ req'[r].op = req[r].op /\ req[r].pc \in Steps
    BY <1>2, Moved DEF Moves
  <2>2. InStep(op)' \subseteq InStep(op)
    BY <2>1 DEF InStep
  <2> QED BY <2>2 DEF Alone
<1>3. ASSUME NEW r \in Request, NEW o, NEW arg, NEW x, Arrive(r, o, arg, x)
      PROVE  Alone(op)'
  <2>1. /\ \A q \in Request \ {r} : req'[q] = req[q]
        /\ req'[r].pc = x /\ req'[r].op = o /\ req'[r].arg = arg
        /\ \A q \in Request : req[q].pc \in Steps => {o, req[q].op} \notin Apart
    BY <1>3, Arrived
  <2>2. req'[r].op = o
    BY <2>1
  <2>3. CASE o # op
    <3>1. InStep(op)' \subseteq InStep(op)
      BY <2>1, <2>2, <2>3 DEF InStep
    <3> QED BY <3>1 DEF Alone
  <2>4. CASE o = op
    <3>1. {op, op} = {op}
      OBVIOUS
    <3>2. InStep(op) = {}
      BY <2>1, <2>4, <3>1 DEF InStep
    <3>3. InStep(op)' \subseteq {r}
      BY <2>1, <3>2 DEF InStep
    <3> QED BY <3>3 DEF Alone
  <2> QED BY <2>3, <2>4
<1> QED BY <1>1, <1>2, <1>3, StepServes DEF Serves

-----------------------------------------------------------------------------
(* Tickets: a state, a grant, a code.  A request checks that the one it    *)
(* was sent is live, and spends it later; who made it has ended.           *)

Is(rs, r, op, S) == rs[r].op = op /\ rs[r].pc \in S

\* The requests that r came after have been answered, and stay so.
Behind == \A r \in Request : \A q \in req[r].after : q # r /\ req[q].pc = "ok"

LEMMA BehindKept ==
  /\ Init => Behind
  /\ Inv /\ Behind /\ [Next]_vars => Behind'
<1>1. Init => Behind
  BY DEF Init, StoreInit, Idle, Behind
<1>2. ASSUME Inv, Behind, [Next]_vars
      PROVE  Behind'
  <2>1. CASE UNCHANGED req
    BY <1>2, <2>1 DEF Behind
  <2>2. ASSUME NEW r \in Request, Moves(r)
        PROVE  Behind'
    <3>1. /\ \A q \in Request \ {r} : req'[q] = req[q]
          /\ req'[r].after = req[r].after /\ req[r].pc # "ok"
      BY <1>2, <2>2, Moved, NotOk DEF Moves
    <3>2. \A q \in Request : req[q].after \subseteq Request
      BY <1>2 DEF Inv, StoreTypeOK, RequestState
    <3> QED BY <1>2, <3>1, <3>2 DEF Behind
  <2>3. ASSUME NEW r \in Request, NEW op, NEW arg, NEW x, Arrive(r, op, arg, x)
        PROVE  Behind'
    <3>1. /\ \A q \in Request \ {r} : req'[q] = req[q]
          /\ req'[r].after = Answered /\ req[r].pc = "idle"
      BY <1>2, <2>3, Arrived
    <3>2. \A q \in Request : req[q].after \subseteq Request
      BY <1>2 DEF Inv, StoreTypeOK, RequestState
    <3> QED BY <1>2, <3>1, <3>2 DEF Behind, Answered, At
  <2> QED BY <1>2, <2>1, <2>2, <2>3, StepServes DEF Serves
<1> QED BY <1>1, <1>2

\* A request that has spent its ticket finds it live no more, and one that has
\* looked at its ticket came after none that was answered for the same one.
Spent(rs, op, entry, spent, live) ==
  /\ \A r \in Request : Is(rs, r, op, Goal) => /\ rs[r].arg \in Request
                                               /\ rs[rs[r].arg].pc \in Over
  /\ \A r \in Request : Is(rs, r, op, spent) => rs[r].arg \notin live
  /\ \A r \in Request : rs[r].op = op /\ rs[r].pc # entry
       => \A q \in rs[r].after : Is(rs, q, op, {"ok"}) => rs[q].arg # rs[r].arg

LEMMA SpentShrinks ==
  ASSUME NEW rs, NEW op, NEW entry, NEW spent \in SUBSET Goal, NEW live, NEW live2,
         Spent(rs, op, entry, spent, live), \A t \in Request : t \in live2 => t \in live
  PROVE  Spent(rs, op, entry, spent, live2)
BY DEF Spent, Is

\* A step of r keeps it so, if it looks at the ticket on its way from the entry,
\* and takes it away when it has spent it.
LEMMA SpentKept ==
  ASSUME Inv, Behind, NEW op, NEW entry, NEW spent \in SUBSET Goal, "ok" \in spent,
         NEW live, NEW live2, Spent(req, op, entry, spent, live), NEW r \in Request,
         \A q \in Request \ {r} : req'[q] = req[q],
         req[r].pc # "ok", req[r].pc \in Over => req'[r].pc \in Over,
         \A t \in Request : t \in live2 => t \in live \/ (t = r /\ req[r].pc \notin Over),
         Is(req', r, op, Goal) => /\ req'[r].arg \in Request
                                  /\ req[req'[r].arg].pc \in Over,
         Is(req', r, op, spent)
         => /\ req'[r].arg = req[r].arg
            /\ Is(req, r, op, spent) \/ req[r].arg \notin live2,
         req'[r].op = op /\ req'[r].pc # entry
         => /\ req'[r].after = req[r].after
            /\ \/ req'[r].arg = None
               \/ /\ req'[r].arg = req[r].arg
                  /\ req[r].arg \in live \/ (req[r].op = op /\ req[r].pc # entry)
  PROVE  Spent(req', op, entry, spent, live2)
<1>0. \A q \in Request : req[q].after \subseteq Request
  BY DEF Inv, StoreTypeOK, RequestState
<1>1. ASSUME NEW q \in Request, Is(req', q, op, Goal)
      PROVE  req'[q].arg \in Request /\ req'[req'[q].arg].pc \in Over
  <2>1. req'[q].arg \in Request /\ req[req'[q].arg].pc \in Over
    BY <1>1 DEF Spent, Is
  <2> QED BY <2>1
<1>2. ASSUME NEW q \in Request, Is(req', q, op, spent), req'[q].arg \in live2
      PROVE  FALSE
  <2>1. Is(req, q, op, spent) /\ req'[q].arg = req[q].arg
    BY <1>2 DEF Is
  <2>2. req[q].arg \in Request /\ req[req[q].arg].pc \in Over /\ req[q].arg \notin live
    BY <2>1 DEF Spent, Is
  <2> QED BY <1>2, <2>1, <2>2
<1>3. ASSUME NEW p \in Request, req'[p].op = op, req'[p].pc # entry,
             NEW q \in req'[p].after, Is(req', q, op, {"ok"}), req'[q].arg = req'[p].arg
      PROVE  FALSE
  <2>1. q \in Request /\ q \in req[p].after
    BY <1>0, <1>3
  <2>2. req[q].pc = "ok" /\ q # r /\ req'[q] = req[q] /\ Is(req, q, op, {"ok"})
    BY <1>3, <2>1 DEF Behind, Is
  <2>3. req[q].arg \in Request /\ req[q].arg \notin live
    BY <2>1, <2>2 DEF Spent, Is, Goal
  <2>4. CASE p # r
    BY <1>3, <2>1, <2>2, <2>4 DEF Spent
  <2>5. CASE p = r
    <3>0. None \notin Request
      BY AccountStoreAssumption DEF None, Request
    <3>1. req'[r].arg \in Request
      BY <1>3, <2>2, <2>3, <2>5
    <3>2. req'[r].arg = req[r].arg
          /\ (req[r].arg \in live \/ (req[r].op = op /\ req[r].pc # entry))
      BY <1>3, <2>5, <3>0, <3>1
    <3> QED BY <1>3, <2>1, <2>2, <2>3, <2>5, <3>2 DEF Spent
  <2> QED BY <2>4, <2>5
<1> QED BY <1>1, <1>2, <1>3 DEF Spent

\* A request that is under way takes a step.
LEMMA SpentStep ==
  ASSUME Inv, Behind, NEW op, NEW entry, NEW spent \in SUBSET Goal, "ok" \in spent,
         NEW live, NEW live2, Spent(req, op, entry, spent, live), NEW r \in Request, Moves(r),
         \A t \in Request : t \in live2 => t \in live \/ (t = r /\ req[r].pc \notin Over),
         req[r].op = op /\ req[r].pc = entry
         => req[r].arg \in live \/ req'[r].pc \in Statuses,
         req[r].op = op /\ req'[r].pc \in spent
         => req[r].pc \in spent \/ req[r].arg \notin live2
  PROVE  Spent(req', op, entry, spent, live2)
<1>1. /\ \A q \in Request \ {r} : req'[q] = req[q]
      /\ req'[r].op = req[r].op /\ req'[r].after = req[r].after
      /\ \/ req'[r].pc \in Goal /\ req'[r].arg = req[r].arg
         \/ req'[r].pc \in Statuses /\ req'[r].arg = None
      /\ req[r].pc \in Over => req'[r].pc \in Over
      /\ req[r].pc \in Steps /\ req[r].pc \in Goal /\ req[r].pc # "ok"
  BY Moved, NotOk DEF Moves, Goal, Onward
<1>2. \A s \in Statuses : s \notin Goal
  BY StatusEnds DEF Statuses, Goal
<1>3. Is(req', r, op, Goal) => /\ req'[r].arg \in Request
                               /\ req[req'[r].arg].pc \in Over
  BY <1>1, <1>2 DEF Is, Spent
<1>4. Is(req', r, op, spent)
      => /\ req'[r].arg = req[r].arg
         /\ Is(req, r, op, spent) \/ req[r].arg \notin live2
  BY <1>1, <1>2 DEF Is
<1>5. req'[r].op = op /\ req'[r].pc # entry
      => \/ req'[r].arg = None
         \/ /\ req'[r].arg = req[r].arg
            /\ req[r].arg \in live \/ (req[r].op = op /\ req[r].pc # entry)
  BY <1>1, <1>2
<1> QED BY <1>1, <1>3, <1>4, <1>5, SpentKept

\* A request arrives with a ticket.
LEMMA SpentArrival ==
  ASSUME Inv, Behind, NEW op, NEW entry, NEW spent \in SUBSET Goal, "ok" \in spent,
         entry \notin spent, NEW live, NEW live2, Spent(req, op, entry, spent, live),
         NEW r \in Request, NEW arg \in Request, Arrive(r, op, arg, entry),
         req[arg].pc \in Over, \A t \in Request : t \in live2 => t \in live
  PROVE  Spent(req', op, entry, spent, live2)
<1>1. /\ \A q \in Request \ {r} : req'[q] = req[q]
      /\ req'[r].pc = entry /\ req'[r].arg = arg
      /\ req[r].pc = "idle"
  BY Arrived
<1>2. "idle" \notin Over
  BY DEF Over, Final, Statuses
<1> QED BY <1>1, <1>2, SpentKept DEF Is

\* A step that does not look at these tickets, of another operation.
LEMMA SpentOfOthers ==
  ASSUME Inv, Behind, NEW op, NEW entry, NEW spent \in SUBSET Goal, "ok" \in spent,
         NEW live, NEW live2, Spent(req, op, entry, spent, live), NEW r \in Request,
         \A t \in Request : t \in live2 => t \in live \/ (t = r /\ req[r].pc \notin Over),
         NEW ops, Serves(r, ops), op \notin ops
  PROVE  Spent(req', op, entry, spent, live2)
<1>1. /\ \A q \in Request \ {r} : req'[q] = req[q]
      /\ req'[r].op # op /\ req[r].pc # "ok"
      /\ req[r].pc \in Over => req'[r].pc \in Over
  BY Served
<1> QED BY <1>1, SpentKept DEF Is

LEMMA SpentAtEnd ==
  ASSUME Inv, Behind, NEW op, NEW entry, entry # "session",
         NEW spent \in SUBSET Goal, "ok" \in spent, "session" \in spent, NEW live,
         Spent(req, op, entry, spent, live), NEW r \in Request, Ending(r)
  PROVE  Spent(req', op, entry, spent, live)
<1>1. /\ Moves(r)
      /\ req'[r].pc \in Statuses \/ (req[r].pc = "session" /\ req'[r].pc = "ok")
  BY EndingMoves
<1>2. \A s \in Statuses : s \notin Goal
  BY StatusEnds DEF Statuses, Goal
<1> QED BY <1>1, <1>2, SpentStep

LEMMA Went ==
  ASSUME Inv, NEW r \in Request, NEW x, Proceed(r, x)
  PROVE  req'[r].pc = x
BY DEF Proceed, Inv, StoreTypeOK

LEMMA Failed ==
  ASSUME Inv, NEW r \in Request, req[r].pc \in Steps, \E e : Fail(r, e)
  PROVE  req'[r].pc \in Statuses /\ req'[r].pc \notin Goal
<1>1. \E s \in Statuses : Goes(r, s)
  BY FailGoes
<1>2. req'[r].pc \in Statuses
  BY <1>1, Gone, StatusEnds DEF Inv, At, Steps
<1> QED BY <1>2, StatusEnds DEF Goal, Statuses

-----------------------------------------------------------------------------
(* States of Google sign-in.                                               *)

StateSpent == {"exchange", "findProvider", "find", "save", "session", "ok"}
StatesUsed == Spent(req, "callback", "getState", StateSpent, oauthStates)

LEMMA StatesKept ==
  ASSUME Inv, ~RedisMayFail, Behind, StatesUsed, [Next]_vars
  PROVE  StatesUsed'
<1>0. /\ StateSpent \in SUBSET Goal /\ "session" \in StateSpent /\ "ok" \in StateSpent
      /\ "getState" \notin StateSpent
  BY DEF StateSpent, Goal, Steps
<1> SUFFICES Spent(req', "callback", "getState", StateSpent, oauthStates')
  BY DEF StatesUsed
<1>1. Spent(req, "callback", "getState", StateSpent, oauthStates)
  BY DEF StatesUsed
<1>2. CASE UNCHANGED req /\ KeysExpire
  BY <1>0, <1>1, <1>2, SpentShrinks DEF KeysExpire
<1>3. ASSUME NEW r \in Request, NEW ops, Serves(r, ops), "callback" \notin ops,
             UNCHANGED oauthStates
      PROVE  Spent(req', "callback", "getState", StateSpent, oauthStates')
  BY <1>0, <1>1, <1>3, SpentOfOthers
<1>4. ASSUME NEW r \in Request, Ending(r), UNCHANGED oauthStates
      PROVE  Spent(req', "callback", "getState", StateSpent, oauthStates')
  BY <1>0, <1>1, <1>4, SpentAtEnd
<1>5. ASSUME NEW r \in Request, GoogleStep(r)
      PROVE  Spent(req', "callback", "getState", StateSpent, oauthStates')
  <2> USE DEF At, AtOf
  <2>1. CASE GetAuthorizationUrl(r)
    <3>1. Serves(r, {"authorize"}) /\ UNCHANGED oauthStates
      BY <2>1 DEF GetAuthorizationUrl, Serves, Steps
    <3> QED BY <1>3, <3>1
  <2>2. CASE SetState(r)
    <3>1. Moves(r) /\ req[r].op = "authorize" /\ req[r].pc = "setState"
      BY <2>2, GoesOrFails DEF SetState, Succeed, Steps, Goal, Onward
    <3>2. Serves(r, {"authorize"}) /\ req[r].pc \notin Over
      BY <3>1 DEF Serves, Over, Final, Statuses
    <3>3. oauthStates' = oauthStates \cup {r}
      BY <2>2 DEF SetState, Stored
    <3> QED BY <1>0, <1>1, <3>2, <3>3, SpentOfOthers
  <2>3. CASE HandleCallback(r)
    <3>1. PICK state \in Succeeded("authorize") : Arrive(r, "callback", state, "getState")
      BY <2>3 DEF HandleCallback
    <3>2. state \in Request /\ req[state].pc \in Over /\ UNCHANGED oauthStates
      BY <2>3 DEF HandleCallback, Succeeded, Over, Final
    <3> QED BY <1>0, <1>1, <3>1, <3>2, SpentArrival
  <2>4. CASE GetState(r)
    <3>1. Moves(r) /\ UNCHANGED oauthStates /\ req[r].pc = "getState"
      BY <2>4, GoesOrFails DEF GetState, Steps, Goal, Onward
    <3>2. CASE req[r].arg \in oauthStates /\ Proceed(r, "delState")
      <4>1. req'[r].pc = "delState" /\ "delState" \notin StateSpent
        BY <3>2, Went DEF StateSpent
      <4> QED BY <1>0, <1>1, <3>1, <3>2, <4>1, SpentStep
    <3>3. CASE \E e : Fail(r, e)
      <4>1. req'[r].pc \in Statuses /\ req'[r].pc \notin StateSpent
        BY <1>0, <3>1, <3>3, Failed DEF Moves
      <4> QED BY <1>0, <1>1, <3>1, <4>1, SpentStep
    <3> QED BY <2>4, <3>2, <3>3 DEF GetState, Got
  <2>5. CASE DeleteState(r)
    <3>1. Moves(r) /\ req[r].pc = "delState"
      BY <2>5, GoesOrFails DEF DeleteState, Steps, Goal, Onward
    <3>2. oauthStates' = oauthStates \ {req[r].arg} /\ Proceed(r, "exchange")
      BY <2>5 DEF DeleteState, Stored, WithoutState
    <3>3. req[r].arg \notin oauthStates'
      BY <3>2
    <3> QED BY <1>0, <1>1, <3>1, <3>2, <3>3, SpentStep
  <2>6. CASE ExchangeCode(r) \/ FindByProvider(r) \/ FindByEmail(r) \/ SaveGoogleUser(r)
    <3>1. Moves(r) /\ UNCHANGED oauthStates
      BY <2>6, GoesOrFails
      DEF ExchangeCode, FindByProvider, FindByEmail, SaveGoogleUser, NotSaved, Steps, Goal, Onward
    <3>2. req[r].pc \in StateSpent /\ req[r].pc # "getState"
      BY <1>0, <2>6 DEF ExchangeCode, FindByProvider, FindByEmail, SaveGoogleUser, StateSpent
    <3> QED BY <1>0, <1>1, <3>1, <3>2, SpentStep
  <2> QED BY <1>5, <2>1, <2>2, <2>3, <2>4, <2>5, <2>6 DEF GoogleStep
<1>6. "callback" \notin RegisterOps \cup PasswordOps \cup {"login"}
  BY DEF RegisterOps, PasswordOps
<1> QED BY <1>2, <1>3, <1>4, <1>5, <1>6, StepOfOne, RegisterServes, PasswordServes, LoginServes

LEMMA NothingIn ==
  ASSUME Init, NEW op \in Ops
  PROVE  Alone(op) /\ \A r \in Request : req[r].op # op
BY DEF Init, StoreInit, Idle, Alone, InStep, Ops

\* While Redis answers: whoever comes after a callback that was answered needs
\* another state, whatever overlaps, crashes and expires
\* (google-oauth.service.ts:152).
THEOREM StatesAreSpent ==
  ASSUME ~RedisMayFail
  PROVE  Spec => []StateUsedOnce
<1>1. Init => Inv /\ Behind /\ StatesUsed
  <2>1. "callback" \in Ops
    BY DEF Ops
  <2> QED BY <2>1, InitIsInv, BehindKept, NothingIn DEF StatesUsed, Spent, Is
<1>2. Inv /\ Behind /\ StatesUsed /\ [Next]_vars => (Inv /\ Behind /\ StatesUsed)'
  BY Inductive, BehindKept, StatesKept
<1>3. Behind /\ StatesUsed => StateUsedOnce
  BY DEF Behind, StatesUsed, Spent, Is, StateUsedOnce, Succeeded, Asked, AtOf, At
<1> QED BY <1>1, <1>2, <1>3, PTL DEF Spec

-----------------------------------------------------------------------------
(* Grants and codes of a reset of the password.                            *)

GrantSpent == {"reload", "session", "ok"}
GrantsUsed == Spent(req, "reset", "getGrant", GrantSpent, grants)

LEMMA GrantsKept ==
  ASSUME Inv, ~RedisMayFail, Behind, GrantsUsed, [Next]_vars
  PROVE  GrantsUsed'
<1>0. /\ GrantSpent \in SUBSET Goal /\ "session" \in GrantSpent /\ "ok" \in GrantSpent
      /\ "getGrant" \notin GrantSpent
  BY DEF GrantSpent, Goal, Steps
<1> SUFFICES Spent(req', "reset", "getGrant", GrantSpent, grants')
  BY DEF GrantsUsed
<1>1. Spent(req, "reset", "getGrant", GrantSpent, grants)
  BY DEF GrantsUsed
<1>2. CASE UNCHANGED req /\ KeysExpire
  BY <1>0, <1>1, <1>2, SpentShrinks DEF KeysExpire
<1>3. ASSUME NEW r \in Request, NEW ops, Serves(r, ops), "reset" \notin ops, UNCHANGED grants
      PROVE  Spent(req', "reset", "getGrant", GrantSpent, grants')
  BY <1>0, <1>1, <1>3, SpentOfOthers
<1>4. ASSUME NEW r \in Request, Ending(r), UNCHANGED grants
      PROVE  Spent(req', "reset", "getGrant", GrantSpent, grants')
  BY <1>0, <1>1, <1>4, SpentAtEnd
<1>5. ASSUME NEW r \in Request, PasswordStep(r) \/ ResetRejected(r)
      PROVE  Spent(req', "reset", "getGrant", GrantSpent, grants')
  <2> USE DEF At, AtOf
  <2>0. Serves(r, PasswordOps)
    BY <1>5, PasswordServes
  <2>1. CASE req'[r].op # "reset" /\ UNCHANGED grants
    <3>1. Serves(r, PasswordOps \ {"reset"})
      <4>1. CASE Moves(r) /\ req[r].op \in PasswordOps
        BY <2>1, <4>1, Moved DEF Serves
      <4>2. ASSUME NEW op \in PasswordOps, NEW arg \in Request \cup {None},
                   NEW x \in Steps \ {"session"}, Arrive(r, op, arg, x)
            PROVE  Serves(r, PasswordOps \ {"reset"})
        <5>1. req'[r].pc = x /\ req'[r].op = op /\ req'[r].arg = arg
          BY <4>2, Arrived
        <5>2. op # "reset"
          BY <2>1, <5>1
        <5> QED BY <4>2, <5>2 DEF Serves
      <4> QED BY <2>0, <4>1, <4>2 DEF Serves
    <3> QED BY <1>3, <2>1, <3>1
  <2>2. CASE SetGrant(r)
    <3>1. Moves(r) /\ req[r].op = "verifyReset" /\ req[r].pc = "setGrant"
      BY <2>2, GoesOrFails DEF SetGrant, Steps, Goal, Onward
    <3>2. Serves(r, {"verifyReset"}) /\ req[r].pc \notin Over
      BY <3>1 DEF Serves, Over, Final, Statuses
    <3>3. grants' = grants \cup {r}
      BY <2>2 DEF SetGrant, Stored, GrantToken
    <3> QED BY <1>0, <1>1, <3>2, <3>3, SpentOfOthers
  <2>3. CASE ResetPassword(r)
    <3>1. PICK token \in Succeeded("verifyReset") : Arrive(r, "reset", token, "getGrant")
      BY <2>3 DEF ResetPassword
    <3>2. token \in Request /\ req[token].pc \in Over /\ UNCHANGED grants
      BY <2>3 DEF ResetPassword, Succeeded, Over, Final, passwordKeys
    <3> QED BY <1>0, <1>1, <3>1, <3>2, SpentArrival
  <2>4. CASE GetGrant(r)
    <3>1. Moves(r) /\ UNCHANGED grants /\ req[r].pc = "getGrant"
      BY <2>4, GoesOrFails DEF GetGrant, passwordKeys, Steps, Goal, Onward
    <3>2. CASE req[r].arg \in grants /\ Proceed(r, "findUser")
      <4>1. req'[r].pc = "findUser" /\ "findUser" \notin GrantSpent
        BY <3>2, Went DEF GrantSpent
      <4> QED BY <1>0, <1>1, <3>1, <3>2, <4>1, SpentStep
    <3>3. CASE \E e : Fail(r, e)
      <4>1. req'[r].pc \in Statuses /\ req'[r].pc \notin GrantSpent
        BY <1>0, <3>1, <3>3, Failed DEF Moves
      <4> QED BY <1>0, <1>1, <3>1, <4>1, SpentStep
    <3> QED BY <2>4, <3>2, <3>3 DEF GetGrant, Got
  <2>5. CASE FindUserToReset(r) \/ UpdatePassword(r) \/ RevokeAll(r)
    <3>1. Moves(r) /\ UNCHANGED grants
      BY <2>5, GoesOrFails DEF FindUserToReset, UpdatePassword, RevokeAll, passwordKeys, Steps, Goal,
         Onward
    <3>2. req[r].pc # "getGrant" /\ req[r].pc \in Steps
      BY <2>5 DEF FindUserToReset, UpdatePassword, RevokeAll, Steps
    <3>3. \/ req[r].op = "reset" /\ \E x \in {"update", "revoke", "delGrant"} : Proceed(r, x)
          \/ req[r].op # "reset" \/ \E e : Fail(r, e)
      BY <2>5 DEF FindUserToReset, UpdatePassword, RevokeAll
    <3>4. req[r].op = "reset" => req'[r].pc \notin GrantSpent
      BY <1>0, <3>2, <3>3, Went, Failed DEF GrantSpent
    <3> QED BY <1>0, <1>1, <3>1, <3>2, <3>4, SpentStep
  <2>6. CASE DeleteGrant(r)
    <3>1. Moves(r) /\ req[r].pc = "delGrant"
      BY <2>6, GoesOrFails DEF DeleteGrant, Steps, Goal, Onward
    <3>2. grants' = grants \ {req[r].arg} /\ Proceed(r, "reload")
      BY <2>6 DEF DeleteGrant, Stored, WithoutGrant
    <3>3. req[r].arg \notin grants'
      BY <3>2
    <3> QED BY <1>0, <1>1, <3>1, <3>2, <3>3, SpentStep
  <2>7. CASE ReloadUser(r)
    <3>1. Moves(r) /\ UNCHANGED grants /\ req[r].pc = "reload" /\ req[r].pc \in GrantSpent
      BY <2>7, GoesOrFails DEF ReloadUser, passwordKeys, Steps, Goal, Onward, GrantSpent
    <3> QED BY <1>0, <1>1, <3>1, SpentStep
  <2>8. \/ req'[r].op # "reset" /\ UNCHANGED grants
        \/ SetGrant(r) \/ ResetPassword(r) \/ GetGrant(r) \/ FindUserToReset(r)
        \/ UpdatePassword(r) \/ RevokeAll(r) \/ DeleteGrant(r) \/ ReloadUser(r)
    <3>1. CASE ForgotPassword(r) \/ VerifyReset(r) \/ ChangePassword(r)
      <4>1. \E op \in {"forgot", "verifyReset", "change"} : \E x, arg : Arrive(r, op, arg, x)
        BY <3>1 DEF ForgotPassword, VerifyReset, ChangePassword
      <4>2. UNCHANGED grants
        BY <3>1 DEF ForgotPassword, VerifyReset, ChangePassword, passwordKeys
      <4> QED BY <4>1, <4>2, ArrivedFor
    <3>2. CASE \/ FindForgetful(r) \/ SetResetCode(r) \/ RecordReset(r) \/ QueueReset(r)
               \/ ResetNotQueued(r) \/ ResetRejected(r)
               \/ GetResetCode(r) \/ FindUserToGrant(r) \/ DeleteResetCode(r) \/ CompareCurrent(r)
      <4>1. req[r].op # "reset" /\ req[r].pc # "idle" /\ UNCHANGED grants
        BY <3>2
        DEF FindForgetful, SetResetCode, RecordReset, QueueReset, ResetNotQueued, ResetRejected,
            GetResetCode, FindUserToGrant, DeleteResetCode, CompareCurrent, passwordKeys
      <4>2. Moves(r)
        BY <2>0, <4>1, Arrived DEF Serves
      <4> QED BY <4>1, <4>2, Moved
    <3> QED BY <1>5, <3>1, <3>2 DEF PasswordStep
  <2> QED BY <2>1, <2>2, <2>3, <2>4, <2>5, <2>6, <2>7, <2>8
<1>6. "reset" \notin RegisterOps \cup GoogleOps \cup {"login"}
  BY DEF RegisterOps, GoogleOps
<1>7. UNCHANGED passwordKeys => UNCHANGED grants
  BY DEF passwordKeys
<1> QED BY <1>2, <1>3, <1>4, <1>5, <1>6, <1>7, StepOfOne, RegisterServes, GoogleServes, LoginServes

\* A password is set by a registration or a change, which goes on from there.
LEMMA WhoSetsPassword ==
  ASSUME Inv, [Next]_vars, user'.password # user.password, user'.password # None
  PROVE  \E r \in Request :
           /\ Moves(r) /\ user'.password = r
           /\ \/ AtOf(r, "create", "save") /\ req'[r].pc = "setCode"
              \/ UpdatePassword(r) /\ req'[r].pc = "revoke"
<1>0. user \in User
  BY DEF Inv, StoreTypeOK
<1>1. PICK r \in Request : SaveUser(r) \/ UpdatePassword(r)
  <2>1. ~Block
    BY <1>0 DEF Block, User, NoUser
  <2>2. \A r \in Request : ~SetVerified(r) /\ ~SaveGoogleUser(r)
    BY <1>0 DEF SetVerified, SaveGoogleUser, User, NoUser
  <2> QED BY <2>1, <2>2, WhoWritesUser
<1>2. CASE SaveUser(r)
  <2>1. /\ AtOf(r, "create", "save") /\ Proceed(r, "setCode")
        /\ \E lower \in BOOLEAN :
             user' = [provider |-> "local", verified |-> FALSE, active |-> TRUE,
                      lower |-> lower, password |-> r]
    BY <1>2 DEF SaveUser
  <2>2. user'.password = r /\ req'[r].pc = "setCode"
    BY <2>1, Went
  <2>3. Moves(r)
    BY <2>1, GoesOrFails DEF AtOf, At, Steps, Goal, Onward
  <2> QED BY <2>1, <2>2, <2>3
<1>3. CASE UpdatePassword(r)
  <2>1. user'.password = r /\ req'[r].pc = "revoke"
    BY <1>0, <1>3, Went DEF UpdatePassword, User, NoUser
  <2>2. Moves(r)
    BY <1>3, GoesOrFails DEF UpdatePassword, At, Steps, Goal, Onward
  <2> QED BY <1>3, <2>1, <2>2
<1> QED BY <1>1, <1>2, <1>3

\* Whoever has set the password is past the look at its grant.
PastEntry == \A r \in Request : user.password = r => req[r].pc \notin {"idle", "getGrant"}

LEMMA PastEntryKept ==
  /\ Init => PastEntry
  /\ Inv /\ PastEntry /\ [Next]_vars => PastEntry'
<1>1. Init => PastEntry
  <2> SUFFICES ASSUME Init PROVE PastEntry
    OBVIOUS
  <2>1. user.password = None
    <3>1. user \in FirstUsers
      BY DEF Init, StoreInit
    <3>2. \/ user = NoUser
          \/ user \in [provider : Providers, verified : BOOLEAN, active : {TRUE},
                       lower : BOOLEAN, password : {None}]
      BY <3>1, AccountStoreAssumption
    <3>3. NoUser.password = None
      BY DEF NoUser
    <3> QED BY <3>2, <3>3
  <2>2. None \notin Request
    BY AccountStoreAssumption DEF Request, None
  <2> QED BY <2>1, <2>2 DEF PastEntry
<1>2. ASSUME Inv, PastEntry, [Next]_vars
      PROVE  PastEntry'
  <2>1. ASSUME NEW r \in Request, Moves(r)
        PROVE  /\ \A q \in Request \ {r} : req'[q] = req[q]
               /\ req'[r].pc \notin {"idle", "getGrant"}
    <3>1. /\ \A q \in Request \ {r} : req'[q] = req[q]
          /\ req'[r].pc \in Onward \cup Statuses
      BY <1>2, <2>1, Moved
    <3> QED BY <3>1 DEF Onward, Goal, Steps, Statuses
  <2>2. CASE user'.password = user.password
    <3>1. CASE UNCHANGED req
      BY <1>2, <2>2, <3>1 DEF PastEntry
    <3>2. ASSUME NEW r \in Request, Moves(r)
          PROVE  PastEntry'
      BY <1>2, <2>1, <2>2, <3>2 DEF PastEntry
    <3>3. ASSUME NEW r \in Request, NEW op, NEW arg, NEW x, Arrive(r, op, arg, x)
          PROVE  PastEntry'
      <4>1. /\ \A q \in Request \ {r} : req'[q] = req[q]
            /\ req[r].pc = "idle"
        BY <1>2, <3>3, Arrived
      <4> QED BY <1>2, <2>2, <4>1 DEF PastEntry
    <3> QED BY <1>2, <3>1, <3>2, <3>3, StepServes DEF Serves
  <2>3. CASE user'.password = None
    BY <2>3 DEF PastEntry, None, Request
  <2>4. ASSUME NEW r \in Request, Moves(r), user'.password = r
        PROVE  PastEntry'
    BY <2>1, <2>4 DEF PastEntry
  <2> QED BY <1>2, <2>2, <2>3, <2>4, WhoSetsPassword
<1> QED BY <1>1, <1>2

\* While Redis answers: a token whose reset has been answered sets no other
\* password, not even by a reset that dies of it, whatever overlaps, crashes and
\* expires (password.service.ts:258).
THEOREM GrantsAreSpent ==
  ASSUME ~RedisMayFail
  PROVE  Spec => []OneGrantOneChange
<1>1. Init => Inv /\ Behind /\ PastEntry /\ GrantsUsed
  <2>1. "reset" \in Ops
    BY DEF Ops
  <2> QED BY <2>1, InitIsInv, BehindKept, PastEntryKept, NothingIn DEF GrantsUsed, Spent, Is
<1>2. Inv /\ Behind /\ PastEntry /\ GrantsUsed /\ [Next]_vars
      => (Inv /\ Behind /\ PastEntry /\ GrantsUsed)'
  BY Inductive, BehindKept, PastEntryKept, GrantsKept
<1>3. Behind /\ PastEntry /\ GrantsUsed => OneGrantOneChange
  BY DEF Behind, PastEntry, GrantsUsed, Spent, Is, OneGrantOneChange, Asked
<1> QED BY <1>1, <1>2, <1>3, PTL DEF Spec

CodeSpent == {"session", "ok"}
CodesUsed == Spent(req, "verifyReset", "getCode", CodeSpent, {resetCode})

LEMMA CodesKept ==
  ASSUME Inv, ~RedisMayFail, Behind, CodesUsed, [Next]_vars
  PROVE  CodesUsed'
<1>0. /\ CodeSpent \in SUBSET Goal /\ "session" \in CodeSpent /\ "ok" \in CodeSpent
      /\ "getCode" \notin CodeSpent /\ None \notin Request
  BY AccountStoreAssumption DEF CodeSpent, Goal, Steps, Request, None
<1> SUFFICES Spent(req', "verifyReset", "getCode", CodeSpent, {resetCode'})
  BY DEF CodesUsed
<1>1. Spent(req, "verifyReset", "getCode", CodeSpent, {resetCode})
  BY DEF CodesUsed
<1>2. CASE UNCHANGED req /\ KeysExpire
  BY <1>0, <1>1, <1>2, SpentShrinks DEF KeysExpire
<1>3. ASSUME NEW r \in Request, NEW ops, Serves(r, ops), "verifyReset" \notin ops,
             UNCHANGED resetCode
      PROVE  Spent(req', "verifyReset", "getCode", CodeSpent, {resetCode'})
  BY <1>0, <1>1, <1>3, SpentOfOthers
<1>4. ASSUME NEW r \in Request, Ending(r), UNCHANGED resetCode
      PROVE  Spent(req', "verifyReset", "getCode", CodeSpent, {resetCode'})
  BY <1>0, <1>1, <1>4, SpentAtEnd
<1>5. ASSUME NEW r \in Request, PasswordStep(r) \/ ResetRejected(r)
      PROVE  Spent(req', "verifyReset", "getCode", CodeSpent, {resetCode'})
  <2> USE DEF At, AtOf
  <2>0. Serves(r, PasswordOps)
    BY <1>5, PasswordServes
  <2>1. CASE req'[r].op # "verifyReset" /\ UNCHANGED resetCode
    <3>1. Serves(r, PasswordOps \ {"verifyReset"})
      <4>1. CASE Moves(r) /\ req[r].op \in PasswordOps
        BY <2>1, <4>1, Moved DEF Serves
      <4>2. ASSUME NEW op \in PasswordOps, NEW arg \in Request \cup {None},
                   NEW x \in Steps \ {"session"}, Arrive(r, op, arg, x)
            PROVE  Serves(r, PasswordOps \ {"verifyReset"})
        <5>1. req'[r].pc = x /\ req'[r].op = op /\ req'[r].arg = arg
          BY <4>2, Arrived
        <5>2. op # "verifyReset"
          BY <2>1, <5>1
        <5> QED BY <4>2, <5>2 DEF Serves
      <4> QED BY <2>0, <4>1, <4>2 DEF Serves
    <3> QED BY <1>3, <2>1, <3>1
  <2>2. CASE SetResetCode(r)
    <3>1. Moves(r) /\ req[r].op = "forgot" /\ req[r].pc = "setCode"
      BY <2>2, GoesOrFails DEF SetResetCode, AfterResetCode, Steps, Goal, Onward
    <3>2. Serves(r, {"forgot"}) /\ req[r].pc \notin Over
      BY <3>1 DEF Serves, Over, Final, Statuses
    <3>3. resetCode' = r
      BY <2>2 DEF SetResetCode, Stored
    <3> QED BY <1>0, <1>1, <3>2, <3>3, SpentOfOthers
  <2>3. CASE VerifyReset(r)
    <3>1. PICK code \in CodesMailed("password_reset") : Arrive(r, "verifyReset", code, "getCode")
      BY <2>3 DEF VerifyReset
    <3>2. code \in Request /\ job[code].kind = "password_reset"
      BY DEF CodesMailed, Mails!outbox
    <3>3. req[code].pc \in Over
      BY <3>2 DEF Inv, Courses, CourseOf, Untouched, Mails!NoJob
    <3>4. UNCHANGED resetCode
      BY <2>3 DEF VerifyReset, passwordKeys
    <3> QED BY <1>0, <1>1, <3>1, <3>2, <3>3, <3>4, SpentArrival
  <2>4. CASE GetResetCode(r)
    <3>1. Moves(r) /\ UNCHANGED resetCode /\ req[r].pc = "getCode"
      BY <2>4, GoesOrFails DEF GetResetCode, passwordKeys, Steps, Goal, Onward
    <3>2. CASE req[r].arg = resetCode /\ Proceed(r, "findUser")
      <4>1. req'[r].pc = "findUser" /\ "findUser" \notin CodeSpent
        BY <3>2, Went DEF CodeSpent
      <4> QED BY <1>0, <1>1, <3>1, <3>2, <4>1, SpentStep
    <3>3. CASE \E e : Fail(r, e)
      <4>1. req'[r].pc \in Statuses /\ req'[r].pc \notin CodeSpent
        BY <1>0, <3>1, <3>3, Failed DEF Moves
      <4> QED BY <1>0, <1>1, <3>1, <4>1, SpentStep
    <3> QED BY <2>4, <3>2, <3>3 DEF GetResetCode, Got
  <2>5. CASE FindUserToGrant(r) \/ SetGrant(r)
    <3>1. Moves(r) /\ UNCHANGED resetCode
      BY <2>5, GoesOrFails DEF FindUserToGrant, SetGrant, passwordKeys, Steps, Goal, Onward
    <3>2. req[r].pc # "getCode" /\ req[r].pc \in Steps
      BY <2>5 DEF FindUserToGrant, SetGrant, Steps
    <3>3. (\E x \in {"setGrant", "delCode"} : Proceed(r, x)) \/ \E e : Fail(r, e)
      BY <2>5 DEF FindUserToGrant, SetGrant
    <3>4. req'[r].pc \notin CodeSpent
      BY <1>0, <3>2, <3>3, Went, Failed DEF CodeSpent
    <3> QED BY <1>0, <1>1, <3>1, <3>2, <3>4, SpentStep
  <2>6. CASE DeleteResetCode(r)
    <3>1. Moves(r) /\ req[r].pc = "delCode" /\ req[r].op = "verifyReset"
      BY <2>6, GoesOrFails DEF DeleteResetCode, Succeed, Steps, Goal, Onward
    <3>2. resetCode' = None /\ Proceed(r, "ok")
      BY <2>6 DEF DeleteResetCode, Stored, SpentCode, Succeed
    <3>4. req[r].arg \in Request
      BY <1>1, <3>1 DEF Spent, Is, Moves, Goal
    <3> QED BY <1>0, <1>1, <3>1, <3>2, <3>4, SpentStep
  <2>7. \/ req'[r].op # "verifyReset" /\ UNCHANGED resetCode
        \/ SetResetCode(r) \/ VerifyReset(r) \/ GetResetCode(r) \/ FindUserToGrant(r)
        \/ SetGrant(r) \/ DeleteResetCode(r)
    <3>1. CASE ForgotPassword(r) \/ ResetPassword(r) \/ ChangePassword(r)
      <4>1. \E op \in {"forgot", "reset", "change"} : \E x, arg : Arrive(r, op, arg, x)
        BY <3>1 DEF ForgotPassword, ResetPassword, ChangePassword
      <4>2. UNCHANGED resetCode
        BY <3>1 DEF ForgotPassword, ResetPassword, ChangePassword, passwordKeys
      <4> QED BY <4>1, <4>2, ArrivedFor
    <3>2. CASE \/ FindForgetful(r) \/ RecordReset(r) \/ QueueReset(r)
               \/ ResetNotQueued(r) \/ ResetRejected(r)
               \/ GetGrant(r) \/ FindUserToReset(r) \/ CompareCurrent(r)
               \/ UpdatePassword(r) \/ RevokeAll(r) \/ DeleteGrant(r) \/ ReloadUser(r)
      <4>1. req[r].op # "verifyReset" /\ req[r].pc # "idle" /\ UNCHANGED resetCode
        BY <3>2
        DEF FindForgetful, RecordReset, QueueReset, ResetNotQueued, ResetRejected, GetGrant,
            FindUserToReset, CompareCurrent, UpdatePassword, RevokeAll, DeleteGrant, ReloadUser,
            Changing, passwordKeys
      <4>2. Moves(r)
        BY <2>0, <4>1, Arrived DEF Serves
      <4> QED BY <4>1, <4>2, Moved
    <3> QED BY <1>5, <3>1, <3>2 DEF PasswordStep
  <2> QED BY <2>1, <2>2, <2>3, <2>4, <2>5, <2>6, <2>7
<1>6. "verifyReset" \notin RegisterOps \cup GoogleOps \cup {"login"}
  BY DEF RegisterOps, GoogleOps
<1>7. UNCHANGED passwordKeys => UNCHANGED resetCode
  BY DEF passwordKeys
<1> QED BY <1>2, <1>3, <1>4, <1>5, <1>6, <1>7, StepOfOne, RegisterServes, GoogleServes, LoginServes

\* While Redis answers: whoever comes after an exchange that was answered needs
\* another code, although a new code takes the place of the old one at any time
\* (password.service.ts:184).
THEOREM CodesAreSpent ==
  ASSUME ~RedisMayFail
  PROVE  Spec => []OneCodeOneGrant
<1>1. Init => Inv /\ Behind /\ CodesUsed
  <2>1. "verifyReset" \in Ops
    BY DEF Ops
  <2> QED BY <2>1, InitIsInv, BehindKept, NothingIn DEF CodesUsed, Spent, Is
<1>2. Inv /\ Behind /\ CodesUsed /\ [Next]_vars => (Inv /\ Behind /\ CodesUsed)'
  BY Inductive, BehindKept, CodesKept
<1>3. Behind /\ CodesUsed => OneCodeOneGrant
  BY DEF Behind, CodesUsed, Spent, Is, OneCodeOneGrant, Succeeded, Asked, AtOf, At
<1> QED BY <1>1, <1>2, <1>3, PTL DEF Spec

-----------------------------------------------------------------------------
(* The verification of the address.                                        *)

VerifiedPast == {"delCode", "welcome", "session", "ok"}
Verifies(rs, r, S) == Is(rs, r, "verifyEmail", S)

OnceInv ==
  /\ \A r \in Request : Verifies(req, r, VerifiedPast) => user.verified
  /\ \A q, r \in Request : q # r /\ Verifies(req, q, VerifiedPast)
                           => ~Verifies(req, r, VerifiedPast \cup {"setVerified"})

LEMMA OnceFrame ==
  ASSUME Inv, OnceInv, Alone("verifyEmail"), user.verified => user'.verified,
         NEW r \in Request, \A q \in Request \ {r} : req'[q] = req[q],
         Verifies(req', r, VerifiedPast)
         => \/ Verifies(req, r, VerifiedPast)
            \/ Verifies(req, r, {"setVerified"}) /\ user'.verified,
         Verifies(req', r, {"setVerified"})
         => Verifies(req, r, {"setVerified"}) \/ ~user.verified
  PROVE  OnceInv'
<1>1. \A q \in Request : Verifies(req', q, VerifiedPast) => user'.verified
  BY DEF OnceInv, Verifies, Is
<1>2. ASSUME NEW q \in Request, NEW p \in Request, q # p,
             Verifies(req', q, VerifiedPast), Verifies(req', p, VerifiedPast \cup {"setVerified"})
      PROVE  FALSE
  <2>1. CASE q # r /\ p # r
    BY <1>2, <2>1 DEF OnceInv, Verifies, Is
  <2>2. CASE p = r
    <3>1. Verifies(req, q, VerifiedPast) /\ user.verified
      BY <1>2, <2>2 DEF OnceInv, Verifies, Is
    <3>2. Verifies(req, r, VerifiedPast \cup {"setVerified"})
      BY <1>2, <2>2, <3>1 DEF Verifies, Is
    <3> QED BY <1>2, <2>2, <3>1, <3>2 DEF OnceInv
  <2>3. CASE q = r
    <3>1. Verifies(req, p, VerifiedPast \cup {"setVerified"})
      BY <1>2, <2>3 DEF Verifies, Is
    <3>2. CASE Verifies(req, r, VerifiedPast)
      BY <1>2, <2>3, <3>1, <3>2 DEF OnceInv
    <3>3. CASE Verifies(req, r, {"setVerified"})
      <4>1. ~Verifies(req, p, VerifiedPast)
        BY <1>2, <2>3, <3>3 DEF OnceInv, Verifies, Is
      <4>2. Verifies(req, p, {"setVerified"})
        BY <3>1, <4>1 DEF Verifies, Is
      <4> QED BY <1>2, <2>3, <3>3, <4>2 DEF Alone, InStep, Verifies, Is, Steps
    <3> QED BY <1>2, <2>3, <3>2, <3>3
  <2> QED BY <2>1, <2>2, <2>3
<1> QED BY <1>1, <1>2 DEF OnceInv, Verifies, Is

LEMMA OnceKept ==
  ASSUME Inv, Alone("verifyEmail"), OnceInv, [Next]_vars
  PROVE  OnceInv'
<1>1. user.verified => user'.verified
  <2>1. user.verified => user # NoUser
    BY DEF NoUser
  <2> QED BY <2>1, UserIsKept
<1>2. CASE UNCHANGED req
  BY <1>1, <1>2 DEF OnceInv, Verifies, Is
<1>3. ASSUME NEW r \in Request, NEW ops, Serves(r, ops), "verifyEmail" \notin ops
      PROVE  OnceInv'
  <2>1. req'[r].op # "verifyEmail" /\ \A q \in Request \ {r} : req'[q] = req[q]
    BY <1>3, Served
  <2> QED BY <1>1, <2>1, OnceFrame DEF Verifies, Is
<1>4. ASSUME NEW r \in Request, Moves(r),
             req'[r].pc \in VerifiedPast
             => \/ req[r].pc \in VerifiedPast
                \/ req[r].pc = "setVerified" /\ user'.verified,
             req'[r].pc = "setVerified" => ~user.verified
      PROVE  OnceInv'
  <2>1. req'[r].op = req[r].op /\ \A q \in Request \ {r} : req'[q] = req[q]
    BY <1>4, Moved
  <2> QED BY <1>1, <1>4, <2>1, OnceFrame DEF Verifies, Is
<1>5. ASSUME NEW r \in Request, Ending(r)
      PROVE  OnceInv'
  <2>1. Moves(r) /\ (req'[r].pc \in Statuses \/ (req[r].pc = "session" /\ req'[r].pc = "ok"))
    BY <1>5, EndingMoves
  <2>2. \A s \in Statuses \cup {"ok"} : s # "setVerified"
    BY DEF Statuses
  <2>3. \A s \in Statuses : s \notin VerifiedPast
    BY DEF Statuses, VerifiedPast
  <2>4. "session" \in VerifiedPast
    BY DEF VerifiedPast
  <2> QED BY <1>4, <2>1, <2>2, <2>3, <2>4
<1>6. ASSUME NEW r \in Request, RegisterStep(r) \/ RegisterMishap(r)
      PROVE  OnceInv'
  <2> USE DEF At, AtOf
  <2>0. Serves(r, RegisterOps)
    BY <1>6, RegisterServes
  <2>1. CASE Create(r) \/ Resend(r) \/ VerifyEmail(r)
    <3>1. \E op \in RegisterOps, x \in {"find", "getCode"} : \E arg : Arrive(r, op, arg, x)
      BY <2>1 DEF Create, Resend, VerifyEmail, RegisterOps
    <3>2. req'[r].pc \in {"find", "getCode"} /\ \A q \in Request \ {r} : req'[q] = req[q]
      <4>0. PICK op \in RegisterOps, x \in {"find", "getCode"} : \E arg : Arrive(r, op, arg, x)
        BY <3>1
      <4>1. PICK arg : Arrive(r, op, arg, x)
        BY <4>0
      <4>2. /\ req'[r].pc = x /\ req'[r].op = op /\ req'[r].arg = arg
            /\ \A q \in Request \ {r} : req'[q] = req[q]
        BY <4>1, Arrived
      <4>3. req'[r].pc = x
        BY <4>2
      <4> QED BY <4>2, <4>3
    <3>3. ~Verifies(req', r, VerifiedPast) /\ ~Verifies(req', r, {"setVerified"})
      BY <3>2 DEF Verifies, Is, VerifiedPast
    <3> QED BY <1>1, <3>2, <3>3, OnceFrame
  <2>2. CASE req[r].op # "verifyEmail" /\ req[r].pc # "idle"
    <3>1. Moves(r) /\ req[r].op \in RegisterOps
      BY <2>0, <2>2, Arrived DEF Serves
    <3>2. Serves(r, RegisterOps \ {"verifyEmail"})
      BY <2>2, <3>1 DEF Serves
    <3> QED BY <1>3, <3>2
  <2>3. CASE GetVerificationCode(r) \/ FindUserToVerify(r)
    <3>1. Moves(r) /\ req[r].pc \in Steps
      BY <2>3, GoesOrFails DEF GetVerificationCode, FindUserToVerify, Steps, Goal, Onward
    <3>2. \/ Proceed(r, "findUser") \/ (Proceed(r, "setVerified") /\ ~user.verified)
          \/ \E e : Fail(r, e)
      BY <2>3 DEF GetVerificationCode, FindUserToVerify, MayVerify, Unverified
    <3>3. \/ req'[r].pc = "findUser" \/ (req'[r].pc = "setVerified" /\ ~user.verified)
          \/ req'[r].pc \notin Goal
      BY <3>1, <3>2, Went, Failed
    <3> QED BY <1>4, <3>1, <3>3 DEF VerifiedPast, Goal, Steps
  <2>4. CASE SetVerified(r)
    <3>1. Moves(r) /\ req[r].pc = "setVerified"
      BY <2>4, GoesOrFails DEF SetVerified, Steps, Goal, Onward
    <3>2. user # NoUser
      BY <2>4 DEF SetVerified, Inv, Courses, CourseOf
    <3>3. user'.verified
      BY <2>4, <3>2 DEF SetVerified, Inv, StoreTypeOK, User
    <3>4. req'[r].pc = "delCode"
      BY <2>4, Went DEF SetVerified
    <3> QED BY <1>4, <3>1, <3>3, <3>4
  <2>5. CASE DeleteVerificationCode(r) \/ QueueWelcome(r) \/ WelcomeRejected(r)
    <3>1. Moves(r) /\ req[r].pc \in VerifiedPast
      BY <2>5, GoesOrFails
      DEF DeleteVerificationCode, QueueWelcome, WelcomeRejected, AddJob, JobRejected, Steps,
          Goal, Onward, VerifiedPast
    <3>2. Proceed(r, "welcome") \/ Proceed(r, "session")
      BY <2>5 DEF DeleteVerificationCode, QueueWelcome, WelcomeRejected, AddJob, JobRejected
    <3>3. req'[r].pc # "setVerified"
      BY <3>2, Went
    <3> QED BY <1>4, <3>1, <3>3
  <2>6. \/ req[r].op # "verifyEmail" /\ req[r].pc # "idle"
        \/ Create(r) \/ Resend(r) \/ VerifyEmail(r)
        \/ GetVerificationCode(r) \/ FindUserToVerify(r) \/ SetVerified(r)
        \/ DeleteVerificationCode(r) \/ QueueWelcome(r) \/ WelcomeRejected(r)
    BY <1>6
    DEF RegisterStep, RegisterMishap, FindExisting, SaveUser, SetVerificationCode,
        QueueVerification, VerificationNotQueued, FindUnverified, RecordResend,
        VerificationRejected
  <2> QED BY <2>1, <2>2, <2>3, <2>4, <2>5, <2>6
<1>7. "verifyEmail" \notin PasswordOps \cup GoogleOps \cup {"login"}
  BY DEF PasswordOps, GoogleOps
<1> QED BY <1>2, <1>3, <1>5, <1>6, <1>7, StepOfOne, PasswordServes, GoogleServes, LoginServes

\* If no two verifications overlap, the address is verified once, whatever is
\* resent, lost or blocked meanwhile (register.service.ts:311-313).
THEOREM VerifiesOnce ==
  ASSUME {"verifyEmail"} \in Apart
  PROVE  Spec => []VerifiedOnce
<1>1. Init => Inv /\ Alone("verifyEmail") /\ OnceInv
  <2>1. "verifyEmail" \in Ops
    BY DEF Ops
  <2> QED BY <2>1, InitIsInv, NothingIn DEF OnceInv, Verifies, Is
<1>2. Inv /\ Alone("verifyEmail") /\ OnceInv /\ [Next]_vars
      => (Inv /\ Alone("verifyEmail") /\ OnceInv)'
  BY Inductive, AloneKept, OnceKept
<1>3. OnceInv => VerifiedOnce
  <2> SUFFICES ASSUME OnceInv PROVE VerifiedOnce
    OBVIOUS
  <2>1. \A q, r \in Succeeded("verifyEmail") : q = r
    BY DEF OnceInv, Verifies, Is, VerifiedPast, Succeeded, AtOf, At
  <2>2. CASE Succeeded("verifyEmail") = {}
    BY <2>2, FS_EmptySet DEF VerifiedOnce
  <2>3. CASE Succeeded("verifyEmail") # {}
    <3>1. PICK r : Succeeded("verifyEmail") = {r}
      BY <2>1, <2>3
    <3> QED BY <3>1, FS_Singleton DEF VerifiedOnce
  <2> QED BY <2>2, <2>3
<1> QED BY <1>1, <1>2, <1>3, PTL DEF Spec

-----------------------------------------------------------------------------
(* Sessions of old passwords: revokeAllUserTokens ends what was there before *)
(* the change was asked for, and whoever comes after it is asked for it.   *)

Changes == {"reset", "change"}
WithPassword == {"login", "reset", "change"}

AfterUpdate == {"revoke", "delGrant", "reload", "session", "ok"}
AfterRevoke == {"delGrant", "reload", "session", "ok"}
Within(rs, r, S) == rs[r].op \in Changes /\ rs[r].pc \in S

\* The password of r has been compared, or set.
Certain(rs, r) == Is(rs, r, "login", {"session", "ok"}) \/ Within(rs, r, AfterUpdate)

AccessInv ==
  /\ \A r \in Request : Within(req, r, AfterRevoke)
                        => \A s \in sessions : s \notin req[r].after
  /\ \A r \in Request : Certain(req, r) /\ user.password \in req[r].after
                        => Proof(r) = user.password

\* A password that is new is of nobody who has been answered.
LEMMA NewPassword ==
  ASSUME Inv, Behind, [Next]_vars, NEW s \in Request, user'.password \in req[s].after
  PROVE  user'.password = user.password
<1>1. req[s].after \subseteq Request /\ None \notin Request
  BY AccountStoreAssumption DEF Inv, StoreTypeOK, RequestState, None, Request
<1>2. req[user'.password].pc = "ok"
  BY <1>1 DEF Behind
<1>3. \A r \in Request : Moves(r) => req[r].pc # "ok"
  BY NotOk DEF Moves
<1> QED BY <1>1, <1>2, <1>3, WhoSetsPassword

\* A step that opens the session of r at most.
LEMMA AccessFrame ==
  ASSUME Inv, Behind, AccessInv, [Next]_vars,
         NEW r \in Request, \A q \in Request \ {r} : req'[q] = req[q],
         req[r].pc # "ok", sessions' \subseteq sessions \cup {r},
         Within(req', r, AfterRevoke)
         => req'[r].after = req[r].after /\ (Within(req, r, AfterRevoke) \/ sessions' = {}),
         Certain(req', r)
         => /\ req'[r].after = req[r].after
            /\ \/ Certain(req, r) /\ Proof(r)' = Proof(r)
               \/ Proof(r)' = user'.password
  PROVE  AccessInv'
<1>1. ASSUME NEW q \in Request, Within(req', q, AfterRevoke), NEW s \in sessions',
             s \in req'[q].after
      PROVE  FALSE
  <2>1. req'[q].after = req[q].after /\ Within(req, q, AfterRevoke)
    BY <1>1 DEF Within
  <2>2. s # r
    BY <1>1, <2>1 DEF Behind
  <2> QED BY <1>1, <2>1, <2>2 DEF AccessInv
<1>2. ASSUME NEW q \in Request, Certain(req', q), user'.password \in req'[q].after
      PROVE  Proof(q)' = user'.password
  <2>1. CASE q = r
    <3>1. user'.password = user.password
      BY <1>2, <2>1, NewPassword
    <3> QED BY <1>2, <2>1, <3>1 DEF AccessInv
  <2>2. CASE q # r
    <3>1. req'[q] = req[q] /\ Certain(req, q) /\ Proof(q)' = Proof(q)
      BY <1>2, <2>2 DEF Certain, Is, Within, Proof
    <3>2. user'.password = user.password
      BY <1>2, <3>1, NewPassword
    <3> QED BY <1>2, <3>1, <3>2 DEF AccessInv
  <2> QED BY <2>1, <2>2
<1> QED BY <1>1, <1>2 DEF AccessInv, Within, Certain, Is

\* Steps of other operations.
LEMMA OthersKeepAccess ==
  ASSUME Inv, Behind, AccessInv, [Next]_vars, NEW r \in Request, NEW ops, Serves(r, ops),
         ops \cap WithPassword = {}, UNCHANGED sessions
  PROVE  AccessInv'
<1>1. /\ \A q \in Request \ {r} : req'[q] = req[q]
      /\ req'[r].op \in ops /\ req[r].pc # "ok"
  BY Served
<1>2. ~Within(req', r, AfterRevoke) /\ ~Certain(req', r)
  BY <1>1 DEF Certain, Is, Within, Changes, WithPassword
<1> QED BY <1>1, <1>2, AccessFrame

\* A step of an operation with a password that writes neither row nor sessions.
LEMMA CourseKeepsAccess ==
  ASSUME Inv, Behind, AccessInv, [Next]_vars, NEW r \in Request, Moves(r),
         UNCHANGED <<user, sessions>>,
         req[r].op \in Changes
         => /\ req'[r].pc \in AfterUpdate => req[r].pc \in AfterUpdate
            /\ req'[r].pc \in AfterRevoke => req[r].pc \in AfterRevoke,
         req[r].op = "login" /\ req'[r].pc \in {"session", "ok"}
         => req[r].pc = "session" \/ req[r].arg = user.password
  PROVE  AccessInv'
<1>1. /\ \A q \in Request \ {r} : req'[q] = req[q]
      /\ req'[r].op = req[r].op /\ req'[r].after = req[r].after
      /\ req'[r].arg = req[r].arg \/ req'[r].pc \in Statuses
      /\ req[r].pc # "ok"
  BY Moved, NotOk DEF Moves
<1>2. "session" \notin Statuses /\ "ok" \notin Statuses
  BY DEF Statuses
<1>3. Within(req', r, AfterRevoke) => Within(req, r, AfterRevoke)
  BY <1>1 DEF Within
<1>4. ASSUME Certain(req', r)
      PROVE  (Certain(req, r) /\ Proof(r)' = Proof(r)) \/ Proof(r)' = user'.password
  <2>1. CASE req[r].op = "login"
    <3>1. req'[r].pc \in {"session", "ok"}
      BY <1>1, <1>4, <2>1 DEF Certain, Is, Within, Changes
    <3> QED BY <1>1, <1>2, <2>1, <3>1 DEF Certain, Is, Proof
  <2>2. CASE req[r].op # "login"
    <3>1. Within(req', r, AfterUpdate) /\ Within(req, r, AfterUpdate)
      BY <1>1, <1>4, <2>2 DEF Certain, Is, Within
    <3> QED BY <1>1, <2>2, <3>1 DEF Certain, Proof
  <2> QED BY <2>1, <2>2
<1> QED BY <1>1, <1>3, <1>4, AccessFrame

LEMMA ArrivalKeepsAccess ==
  ASSUME Inv, Behind, AccessInv, [Next]_vars, NEW r \in Request, NEW op, NEW arg, NEW x,
         Arrive(r, op, arg, x), x \notin AfterUpdate
  PROVE  AccessInv'
<1>1. /\ \A q \in Request \ {r} : req'[q] = req[q]
      /\ req'[r].pc = x /\ req[r].pc = "idle"
  BY Arrived
<1>2. UNCHANGED sessions
  BY DEF Arrive
<1>3. ~Within(req', r, AfterRevoke) /\ ~Certain(req', r)
  BY <1>1 DEF Certain, Is, Within, AfterUpdate, AfterRevoke
<1> QED BY <1>1, <1>2, <1>3, AccessFrame

LEMMA UpdateKeepsAccess ==
  ASSUME Inv, Behind, AccessInv, [Next]_vars, NEW r \in Request, UpdatePassword(r)
  PROVE  AccessInv'
<1>1. /\ req[r].op \in Changes /\ req[r].pc = "update" /\ Proceed(r, "revoke")
      /\ user' = [user EXCEPT !.password = r] /\ UNCHANGED sessions
  BY DEF UpdatePassword, Changing, Changes, At
<1>2. /\ \A q \in Request \ {r} : req'[q] = req[q]
      /\ req'[r].op = req[r].op /\ req'[r].pc = "revoke" /\ req'[r].after = req[r].after
  BY <1>1 DEF Proceed, Inv, StoreTypeOK, RequestState
<1>3. user'.password = r
  BY <1>1 DEF Inv, StoreTypeOK, User, NoUser
<1>4. Proof(r)' = r
  BY <1>1, <1>2 DEF Proof, Changes
<1>5. ~Within(req', r, AfterRevoke)
  BY <1>2 DEF Within, AfterRevoke
<1> QED BY <1>1, <1>2, <1>3, <1>4, <1>5, AccessFrame

LEMMA RevocationKeepsAccess ==
  ASSUME Inv, Behind, AccessInv, [Next]_vars, NEW r \in Request, RevokeAll(r)
  PROVE  AccessInv'
<1>1. /\ req[r].op \in Changes /\ req[r].pc = "revoke" /\ sessions' = {}
      /\ \E x \in {"delGrant", "reload"} : Proceed(r, x)
  BY DEF RevokeAll, AfterRevocation, Changing, Changes, At
<1>2. /\ \A q \in Request \ {r} : req'[q] = req[q]
      /\ req'[r].op = req[r].op /\ req'[r].arg = req[r].arg /\ req'[r].after = req[r].after
  BY <1>1 DEF Proceed, Inv, StoreTypeOK, RequestState
<1>3. Certain(req, r)
  BY <1>1 DEF Certain, Within, AfterUpdate
<1>4. Proof(r)' = Proof(r)
  BY <1>2 DEF Proof
<1> QED BY <1>1, <1>2, <1>3, <1>4, AccessFrame

LEMMA EndingKeepsAccess ==
  ASSUME Inv, Behind, AccessInv, [Next]_vars, NEW r \in Request, Ending(r)
  PROVE  AccessInv'
<1>1. CASE CreateSession(r) /\ Succeed(r) /\ sessions' = sessions \cup {r}
  <2>1. req[r].pc = "session"
    BY <1>1 DEF CreateSession, At
  <2>2. /\ \A q \in Request \ {r} : req'[q] = req[q]
        /\ req'[r].op = req[r].op /\ req'[r].arg = req[r].arg /\ req'[r].after = req[r].after
    BY <1>1 DEF Succeed, Proceed, Inv, StoreTypeOK, RequestState
  <2>3. Within(req', r, AfterRevoke) => Within(req, r, AfterRevoke)
    BY <2>1, <2>2 DEF Within, AfterRevoke
  <2>4. Certain(req', r) => Certain(req, r)
    BY <2>1, <2>2 DEF Certain, Is, Within, AfterUpdate
  <2>5. Proof(r)' = Proof(r)
    BY <2>2 DEF Proof
  <2> QED BY <1>1, <2>1, <2>2, <2>3, <2>4, <2>5, AccessFrame
<1>2. CASE UNCHANGED <<user, sessions>> /\ \E e : Fail(r, e)
  <2>1. req[r].pc \in Steps
    BY DEF Ending, CreateSession, Crash, InFlight, At, Steps
  <2>2. Moves(r) /\ req'[r].pc \in Statuses
    BY <1>2, <2>1, FailMoves, Failed
  <2>3. \A s \in Statuses :
          s \notin AfterUpdate /\ s \notin AfterRevoke /\ s \notin {"session", "ok"}
    BY DEF Statuses, AfterUpdate, AfterRevoke
  <2> QED BY <1>2, <2>2, <2>3, CourseKeepsAccess
<1> QED BY <1>1, <1>2 DEF Ending, CreateSession, Crash

LEMMA AccessKept ==
  ASSUME Inv, Behind, AccessInv, [Next]_vars
  PROVE  AccessInv'
<1> USE DEF At, AtOf
<1>1. CASE UNCHANGED <<req, sessions>>
  <2>1. \A s : Proof(s)' = Proof(s)
    BY <1>1 DEF Proof
  <2>2. ASSUME NEW s \in Request, user'.password \in req[s].after
        PROVE  user'.password = user.password
    BY <2>2, NewPassword
  <2> QED BY <1>1, <2>1, <2>2 DEF AccessInv, Certain, Is, Within
<1>2. ASSUME NEW r \in Request, RegisterStep(r) \/ RegisterMishap(r)
      PROVE  AccessInv'
  <2>1. Serves(r, RegisterOps) /\ RegisterOps \cap WithPassword = {}
    BY <1>2, RegisterServes DEF RegisterOps, WithPassword
  <2>2. UNCHANGED sessions
    BY <1>2
    DEF RegisterStep, RegisterMishap, Create, FindExisting, SetVerificationCode, SaveUser,
        SetVerified,
        QueueVerification, VerificationNotQueued, Resend, FindUnverified, RecordResend,
        VerifyEmail, GetVerificationCode, FindUserToVerify, DeleteVerificationCode,
        QueueWelcome, VerificationRejected, WelcomeRejected, Arrive
  <2> QED BY <2>1, <2>2, OthersKeepAccess
<1>3. ASSUME NEW r \in Request, GoogleStep(r)
      PROVE  AccessInv'
  <2>1. Serves(r, GoogleOps) /\ GoogleOps \cap WithPassword = {}
    BY <1>3, GoogleServes DEF GoogleOps, WithPassword
  <2>2. UNCHANGED sessions
    BY <1>3
    DEF GoogleStep, GetAuthorizationUrl, SetState, HandleCallback, GetState, DeleteState,
        ExchangeCode, FindByProvider, FindByEmail, SaveGoogleUser, Arrive
  <2> QED BY <2>1, <2>2, OthersKeepAccess
<1>4. ASSUME NEW r \in Request, PasswordStep(r) \/ ResetRejected(r)
      PROVE  AccessInv'
  <2>1. CASE ForgotPassword(r) \/ VerifyReset(r) \/ ResetPassword(r) \/ ChangePassword(r)
    <3>1. \E op, arg, x : x \in {"find", "getCode", "getGrant", "compare"} /\ Arrive(r, op, arg, x)
      BY <2>1 DEF ForgotPassword, VerifyReset, ResetPassword, ChangePassword
    <3> QED BY <3>1, ArrivalKeepsAccess DEF AfterUpdate
  <2>2. CASE \/ FindForgetful(r) \/ SetResetCode(r) \/ RecordReset(r) \/ QueueReset(r)
             \/ ResetNotQueued(r) \/ ResetRejected(r)
             \/ GetResetCode(r) \/ FindUserToGrant(r) \/ SetGrant(r) \/ DeleteResetCode(r)
    <3>1. /\ req[r].op \in {"forgot", "verifyReset"} /\ req[r].pc # "idle"
          /\ UNCHANGED sessions
      BY <2>2
      DEF FindForgetful, SetResetCode, RecordReset, QueueReset, ResetNotQueued, ResetRejected,
          GetResetCode, FindUserToGrant, SetGrant, DeleteResetCode
    <3>2. Moves(r)
      BY <1>4, <3>1, PasswordServes, Arrived DEF Serves
    <3>3. Serves(r, {"forgot", "verifyReset"})
      BY <3>1, <3>2 DEF Serves
    <3> QED BY <3>1, <3>3, OthersKeepAccess DEF WithPassword
  <2>3. CASE GetGrant(r) \/ FindUserToReset(r) \/ CompareCurrent(r)
    <3>0. /\ UNCHANGED <<user, sessions>> /\ req[r].pc \in Steps /\ req[r].op # "login"
          /\ req[r].pc # "idle"
      BY <2>3 DEF GetGrant, FindUserToReset, CompareCurrent, Steps
    <3>1. Moves(r) /\ UNCHANGED <<user, sessions>> /\ req[r].pc \in Steps /\ req[r].op # "login"
      BY <1>4, <3>0, PasswordServes, Arrived DEF Serves
    <3>2. Proceed(r, "findUser") \/ Proceed(r, "update") \/ \E e : Fail(r, e)
      BY <2>3 DEF GetGrant, FindUserToReset, CompareCurrent
    <3>3. req'[r].pc \in {"findUser", "update"} \/ req'[r].pc \notin Goal
      BY <3>1, <3>2, Went, Failed
    <3>4. req'[r].pc \notin AfterUpdate \cup AfterRevoke
      BY <3>3 DEF AfterUpdate, AfterRevoke, Goal, Steps
    <3> QED BY <3>1, <3>4, CourseKeepsAccess
  <2>4. CASE UpdatePassword(r)
    BY <2>4, UpdateKeepsAccess
  <2>5. CASE RevokeAll(r)
    BY <2>5, RevocationKeepsAccess
  <2>6. CASE DeleteGrant(r) \/ ReloadUser(r)
    <3>1. /\ Moves(r) /\ UNCHANGED <<user, sessions>> /\ req[r].pc \in Steps
          /\ req[r].op # "login" /\ req[r].pc \in AfterRevoke
      BY <2>6, GoesOrFails DEF DeleteGrant, ReloadUser, Changing, Steps, Goal, Onward, AfterRevoke
    <3>2. req[r].pc \in AfterUpdate
      BY <3>1 DEF AfterUpdate, AfterRevoke
    <3> QED BY <3>1, <3>2, CourseKeepsAccess
  <2> QED BY <1>4, <2>1, <2>2, <2>3, <2>4, <2>5, <2>6 DEF PasswordStep
<1>5. ASSUME NEW r \in Request, LoginStep(r)
      PROVE  AccessInv'
  <2>1. CASE Login(r)
    <3>1. \E arg : Arrive(r, "login", arg, "compare")
      BY <2>1 DEF Login
    <3> QED BY <3>1, ArrivalKeepsAccess DEF AfterUpdate
  <2>2. CASE ComparePassword(r)
    <3>1. Moves(r) /\ UNCHANGED <<user, sessions>> /\ req[r].op = "login" /\ req[r].pc \in Steps
      BY <2>2, GoesOrFails DEF ComparePassword, Steps, Goal, Onward
    <3>2. (MayLogin(req[r].arg) /\ Proceed(r, "session")) \/ \E e : Fail(r, e)
      BY <2>2 DEF ComparePassword
    <3>3. req'[r].pc \in {"session", "ok"} => MayLogin(req[r].arg)
      BY <3>1, <3>2, Failed DEF Goal, Steps
    <3>4. MayLogin(req[r].arg) => req[r].arg = user.password
      BY DEF MayLogin
    <3> QED BY <3>1, <3>3, <3>4, CourseKeepsAccess DEF Changes
  <2> QED BY <1>5, <2>1, <2>2 DEF LoginStep
<1> QED BY <1>1, <1>2, <1>3, <1>4, <1>5, StepOfOne, EndingKeepsAccess

\* When a change of the password is answered, whatever overlapped it, crashed or
\* raced, no session that was there when it was asked for is left, and whoever
\* asks for one afterwards has the new password (password.service.ts:241-260,
\* README.md:2718).
THEOREM OldPasswordsAreOut == Spec => []OldPasswordsLoseAccess
<1>1. Init => Inv /\ Behind /\ AccessInv
  <2>1. Init => AccessInv
    BY DEF Init, StoreInit, Idle, AccessInv, Certain, Is, Within, Changes
  <2> QED BY <2>1, InitIsInv, BehindKept
<1>2. Inv /\ Behind /\ AccessInv /\ [Next]_vars => (Inv /\ Behind /\ AccessInv)'
  BY Inductive, BehindKept, AccessKept
<1>3. Inv /\ AccessInv => OldPasswordsLoseAccess
  <2> SUFFICES ASSUME Inv, AccessInv,
                      NEW p \in Succeeded("reset") \cup Succeeded("change"), NEW s \in sessions
               PROVE  /\ s \notin req[p].after
                      /\ s \in ByPassword /\ p \in req[s].after /\ p = user.password
                         => Proof(s) = p
    BY DEF OldPasswordsLoseAccess
  <2>1. s \in Request /\ p \in Request /\ Within(req, p, AfterRevoke)
    BY DEF Succeeded, AtOf, At, Within, Changes, AfterRevoke, Inv, StoreTypeOK
  <2>2. s \in ByPassword => Certain(req, s)
    BY DEF ByPassword, Succeeded, AtOf, At, Certain, Is, Within, Changes, AfterUpdate
  <2> QED BY <2>1, <2>2 DEF AccessInv
<1> QED BY <1>1, <1>2, <1>3, PTL DEF Spec
=============================================================================
