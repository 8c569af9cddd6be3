-------------------------- MODULE RegisterService --------------------------
(***************************************************************************)
(* RegisterService: create, verifyEmail and resendVerificationEmail for    *)
(* one e-mail address.  The row of the user, its AuthSecurity and its      *)
(* EmailHistory are written in one transaction, the code goes to Redis     *)
(* after it, the e-mail to the queue after that.  Whether the user name is *)
(* free depends on other accounts, and a name that is not only refuses:    *)
(* left out.  The key of the code has the address as it was typed (lines   *)
(* 189, 275, 413), though MySQL finds the row whatever the case: here all  *)
(* requests spell it alike.                                                *)
(***************************************************************************)
EXTENDS AccountStore

VARIABLE verificationCode   \* verification_token:<email>; the request that set it

RegisterTypeOK == verificationCode \in Asked("create") \cup Asked("resend") \cup {None}
RegisterInit == verificationCode = None

-----------------------------------------------------------------------------

Create(r) == Arrive(r, "create", None, "find") /\ UNCHANGED verificationCode

\* The database finds the row whatever the case of the address, and line 93
\* compares: one that is spelled otherwise goes on like a new one.
FindExisting(r) ==
  /\ AtOf(r, "create", "find")
  /\ \/ Proceed(r, "save")
     \/ user # NoUser /\ Fail(r, conflict)
  /\ UNCHANGED <<user, sessions, mails, verificationCode>>

\* The address is saved as it was typed.
SaveUser(r) ==
  /\ AtOf(r, "create", "save")
  /\ \/ /\ MaySave
        /\ \E lower \in BOOLEAN :
             user' = [provider |-> "local", verified |-> FALSE, active |-> TRUE,
                      lower |-> lower, password |-> r]
        /\ Mails!CreateRow(r, "verification")
        /\ Proceed(r, "setCode")
     \/ /\ ~MaySave
        /\ NotSaved(r)
        /\ UNCHANGED <<user, mails>>
  /\ UNCHANGED <<sessions, verificationCode>>

\* The code of an earlier e-mail is overwritten.
SetVerificationCode(r) ==
  /\ req[r].op \in {"create", "resend"} /\ At(r, "setCode")
  /\ verificationCode' \in Stored(r, verificationCode)
  /\ Proceed(r, IF req[r].op = "create" THEN "queue" ELSE "record")
  /\ UNCHANGED <<user, sessions, mails>>

QueueVerification(r) ==
  /\ req[r].op \in {"create", "resend"} /\ At(r, "queue")
  /\ AddJob(r, "verification", "ok")
  /\ UNCHANGED <<user, sessions, verificationCode>>

VerificationRejected(r) ==
  /\ req[r].op \in {"create", "resend"} /\ At(r, "queue")
  /\ JobRejected(r, "markFailed")
  /\ UNCHANGED <<user, sessions, verificationCode>>

\* create answers all the same, resend with an error.
VerificationNotQueued(r) ==
  /\ req[r].op \in {"create", "resend"} /\ At(r, "markFailed")
  /\ Mails!UpdateStatus("verification", "failed")
  /\ IF req[r].op = "create" THEN Succeed(r) ELSE Fail(r, badRequest)
  /\ UNCHANGED <<user, sessions, job, log, verificationCode>>

-----------------------------------------------------------------------------

Resend(r) == Arrive(r, "resend", None, "find") /\ UNCHANGED verificationCode

Unverified == user # NoUser /\ ~user.verified
NotUnverified == IF user = NoUser THEN notFound ELSE badRequest

FindUnverified(r) ==
  /\ AtOf(r, "resend", "find")
  /\ IF Unverified THEN Proceed(r, "setCode") ELSE Fail(r, NotUnverified)
  /\ UNCHANGED <<user, sessions, mails, verificationCode>>

RecordResend(r) ==
  /\ AtOf(r, "resend", "record")
  /\ Mails!CreateRow(r, "verification")
  /\ Proceed(r, "queue")
  /\ UNCHANGED <<user, sessions, verificationCode>>

-----------------------------------------------------------------------------

VerifyEmail(r) ==
  /\ \E code \in CodesMailed("verification") : Arrive(r, "verifyEmail", code, "getCode")
  /\ UNCHANGED verificationCode

GetVerificationCode(r) ==
  /\ AtOf(r, "verifyEmail", "getCode")
  /\ \E code \in Got(verificationCode, None) :
       IF code = req[r].arg THEN Proceed(r, "findUser") ELSE Fail(r, badRequest)
  /\ UNCHANGED <<user, sessions, mails, verificationCode>>

\* The status of the user is not looked at.
Mut_MayVerify == user # NoUser
MayVerify == Unverified

FindUserToVerify(r) ==
  /\ AtOf(r, "verifyEmail", "findUser")
  /\ IF MayVerify THEN Proceed(r, "setVerified") ELSE Fail(r, NotUnverified)
  /\ UNCHANGED <<user, sessions, mails, verificationCode>>

SetVerified(r) ==
  /\ AtOf(r, "verifyEmail", "setVerified")
  /\ user' = [user EXCEPT !.verified = TRUE]
  /\ Proceed(r, "delCode")
  /\ UNCHANGED <<sessions, mails, verificationCode>>

DeleteVerificationCode(r) ==
  /\ AtOf(r, "verifyEmail", "delCode")
  /\ verificationCode' \in Stored(None, verificationCode)
  /\ Proceed(r, "welcome")
  /\ UNCHANGED <<user, sessions, mails>>

QueueWelcome(r) ==
  /\ AtOf(r, "verifyEmail", "welcome")
  /\ AddJob(r, "welcome", "session")
  /\ UNCHANGED <<user, sessions, verificationCode>>

WelcomeRejected(r) ==
  /\ AtOf(r, "verifyEmail", "welcome")
  /\ JobRejected(r, "session")
  /\ UNCHANGED <<user, sessions, verificationCode>>

\* 24 h
VerificationCodeExpires ==
  /\ verificationCode # None
  /\ verificationCode' = None
  /\ UNCHANGED store

-----------------------------------------------------------------------------

RegisterStep(r) ==
  \/ Create(r) \/ FindExisting(r) \/ SaveUser(r) \/ SetVerificationCode(r)
  \/ QueueVerification(r) \/ VerificationNotQueued(r)
  \/ Resend(r) \/ FindUnverified(r) \/ RecordResend(r)
  \/ VerifyEmail(r) \/ GetVerificationCode(r) \/ FindUserToVerify(r)
  \/ SetVerified(r) \/ DeleteVerificationCode(r) \/ QueueWelcome(r)

RegisterMishap(r) == VerificationRejected(r) \/ WelcomeRejected(r)
=============================================================================
