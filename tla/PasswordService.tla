-------------------------- MODULE PasswordService --------------------------
(***************************************************************************)
(* PasswordService: forgotPassword, verifyPasswordResetOtp and             *)
(* changePassword, by a reset token or by the current password, for one    *)
(* e-mail address.  A code is exchanged for a grant in Redis, the grant    *)
(* for a new password in the database and a new session.                   *)
(*                                                                         *)
(* The three of them look the user up by the address in lower case, which  *)
(* MySQL compares without regard to case; line 302 does regard it.         *)
(***************************************************************************)
EXTENDS AccountStore

VARIABLES
  resetCode,  \* password_reset_token:<email>; the request that set it
  grants      \* password_reset_token:grant:<hash>; the requests that set them

PasswordTypeOK ==
  /\ resetCode \in Asked("forgot") \cup {None}
  /\ grants \subseteq Asked("verifyReset")
PasswordInit == resetCode = None /\ grants = {}

passwordKeys == <<resetCode, grants>>

-----------------------------------------------------------------------------

ForgotPassword(r) == Arrive(r, "forgot", None, "find") /\ UNCHANGED passwordKeys

\* The answer is the same whether there is such a user or not.
FindForgetful(r) ==
  /\ AtOf(r, "forgot", "find")
  /\ IF user.provider = "local" /\ user.active THEN Proceed(r, "setCode") ELSE Succeed(r)
  /\ UNCHANGED <<user, sessions, mails, passwordKeys>>

Mut_AfterResetCode == "queue"
AfterResetCode == "record"

SetResetCode(r) ==
  /\ AtOf(r, "forgot", "setCode")
  /\ resetCode' \in Stored(r, resetCode)
  /\ Proceed(r, AfterResetCode)
  /\ UNCHANGED <<user, sessions, mails, grants>>

RecordReset(r) ==
  /\ AtOf(r, "forgot", "record")
  /\ Mails!CreateRow(r, "password_reset")
  /\ Proceed(r, "queue")
  /\ UNCHANGED <<user, sessions, passwordKeys>>

QueueReset(r) ==
  /\ AtOf(r, "forgot", "queue")
  /\ AddJob(r, "password_reset", "ok")
  /\ UNCHANGED <<user, sessions, passwordKeys>>

ResetRejected(r) ==
  /\ AtOf(r, "forgot", "queue")
  /\ JobRejected(r, "markFailed")
  /\ UNCHANGED <<user, sessions, passwordKeys>>

ResetNotQueued(r) ==
  /\ AtOf(r, "forgot", "markFailed")
  /\ Mails!UpdateStatus("password_reset", "failed")
  /\ Succeed(r)
  /\ UNCHANGED <<user, sessions, job, log, passwordKeys>>

-----------------------------------------------------------------------------

VerifyReset(r) ==
  /\ \E code \in CodesMailed("password_reset") : Arrive(r, "verifyReset", code, "getCode")
  /\ UNCHANGED passwordKeys

GetResetCode(r) ==
  /\ AtOf(r, "verifyReset", "getCode")
  /\ \E code \in Got(resetCode, None) :
       IF code = req[r].arg THEN Proceed(r, "findUser") ELSE Fail(r, badRequest)
  /\ UNCHANGED <<user, sessions, mails, passwordKeys>>

FindUserToGrant(r) ==
  /\ AtOf(r, "verifyReset", "findUser")
  /\ IF user.provider = "local" THEN Proceed(r, "setGrant") ELSE Fail(r, badRequest)
  /\ UNCHANGED <<user, sessions, mails, passwordKeys>>

GrantToken(r) == r

SetGrant(r) ==
  /\ AtOf(r, "verifyReset", "setGrant")
  /\ grants' \in Stored(grants \cup {GrantToken(r)}, grants)
  /\ Proceed(r, "delCode")
  /\ UNCHANGED <<user, sessions, mails, resetCode>>

\* Whichever code is there by now; then the answer, with the grant's token.
Mut_SpentCode == resetCode
SpentCode == None

DeleteResetCode(r) ==
  /\ AtOf(r, "verifyReset", "delCode")
  /\ resetCode' \in Stored(SpentCode, resetCode)
  /\ Succeed(r)
  /\ UNCHANGED <<user, sessions, mails, grants>>

-----------------------------------------------------------------------------
(* changePassword: "reset" with a token, "change" with the password.       *)

Changing(r) == req[r].op \in {"reset", "change"}

ResetPassword(r) ==
  /\ \E token \in Succeeded("verifyReset") : Arrive(r, "reset", token, "getGrant")
  /\ UNCHANGED passwordKeys

ChangePassword(r) ==
  /\ \E old \in 0 .. r - 1 : Arrive(r, "change", old, "compare")
  /\ UNCHANGED passwordKeys

GetGrant(r) ==
  /\ AtOf(r, "reset", "getGrant")
  /\ \E found \in Got(req[r].arg \in grants, FALSE) :
       IF found THEN Proceed(r, "findUser") ELSE Fail(r, badRequest)
  /\ UNCHANGED <<user, sessions, mails, passwordKeys>>

FindUserToReset(r) ==
  /\ AtOf(r, "reset", "findUser")
  /\ IF user.active /\ user.lower /\ user.provider = "local"
     THEN Proceed(r, "update") ELSE Fail(r, badRequest)
  /\ UNCHANGED <<user, sessions, mails, passwordKeys>>

CompareCurrent(r) ==
  /\ AtOf(r, "change", "compare")
  /\ LET known == user.active /\ user.password = req[r].arg
     IN IF known /\ user.provider = "local" THEN Proceed(r, "update")
        ELSE Fail(r, IF known THEN badRequest ELSE unauthorized)
  /\ UNCHANGED <<user, sessions, mails, passwordKeys>>

UpdatePassword(r) ==
  /\ Changing(r) /\ At(r, "update")
  /\ user' = [user EXCEPT !.password = r]
  /\ Proceed(r, "revoke")
  /\ UNCHANGED <<sessions, mails, passwordKeys>>

\* revokeAllUserTokens
Mut_AfterRevocation == sessions
AfterRevocation == {}

RevokeAll(r) ==
  /\ Changing(r) /\ At(r, "revoke")
  /\ sessions' = AfterRevocation
  /\ Proceed(r, IF req[r].op = "reset" THEN "delGrant" ELSE "reload")
  /\ UNCHANGED <<user, mails, passwordKeys>>

Mut_WithoutGrant(r) == grants
WithoutGrant(r) == grants \ {req[r].arg}

DeleteGrant(r) ==
  /\ AtOf(r, "reset", "delGrant")
  /\ grants' \in Stored(WithoutGrant(r), grants)
  /\ Proceed(r, "reload")
  /\ UNCHANGED <<user, sessions, mails, resetCode>>

ReloadUser(r) ==
  /\ Changing(r) /\ At(r, "reload")
  /\ IF user.active THEN Proceed(r, "session") ELSE Fail(r, unauthorized)
  /\ UNCHANGED <<user, sessions, mails, passwordKeys>>

\* 1 h and 10 min
ResetKeyExpires ==
  /\ \/ resetCode # None /\ resetCode' = None /\ UNCHANGED grants
     \/ \E token \in grants : grants' = grants \ {token} /\ UNCHANGED resetCode
  /\ UNCHANGED store

-----------------------------------------------------------------------------

PasswordStep(r) ==
  \/ ForgotPassword(r) \/ FindForgetful(r) \/ SetResetCode(r) \/ RecordReset(r)
  \/ QueueReset(r) \/ ResetNotQueued(r)
  \/ VerifyReset(r) \/ GetResetCode(r) \/ FindUserToGrant(r) \/ SetGrant(r)
  \/ DeleteResetCode(r)
  \/ ResetPassword(r) \/ ChangePassword(r) \/ GetGrant(r) \/ FindUserToReset(r)
  \/ CompareCurrent(r) \/ UpdatePassword(r) \/ RevokeAll(r) \/ DeleteGrant(r)
  \/ ReloadUser(r)
=============================================================================
