------------------------------ MODULE Accounts ------------------------------
(***************************************************************************)
(* The account of one e-mail address and all that may happen to it:        *)
(* RegisterService, PasswordService, GoogleOAuthService, logins            *)
(* (LoginService without its limits), and EmailQueue's processor, over the *)
(* row, the keys in Redis and the sessions that they share.                *)
(***************************************************************************)
EXTENDS RegisterService, PasswordService, GoogleOAuthService

VARIABLE mishaps   \* how many things went wrong so far

keys == <<verificationCode, passwordKeys, oauthStates>>
vars == <<store, keys, mishaps, workload>>

TypeOK ==
  /\ StoreTypeOK /\ RegisterTypeOK /\ PasswordTypeOK /\ GoogleTypeOK
  /\ workload \in Workloads /\ mishaps \in 0 .. workload.mishaps

Init ==
  /\ StoreInit /\ RegisterInit /\ PasswordInit /\ GoogleInit
  /\ workload \in Workloads /\ mishaps = 0

-----------------------------------------------------------------------------

Login(r) == \E password \in 0 .. r - 1 : Arrive(r, "login", password, "compare")

Mut_MayLoginUnverified(password) ==
  user.provider = "local" /\ user.active /\ user.password = password
MayLogin(password) ==
  user.provider = "local" /\ user.active /\ user.password = password /\ user.verified

\* A blocked account has a lock only if passwords were missed: without one,
\* handleLockedLoginFailure fails on its null.
LoginErrors(password) ==
  IF user.provider \notin Providers THEN {unauthorized}
  ELSE IF user.provider # "local" THEN {badRequest}
  ELSE IF ~user.active THEN {forbidden, Thrown("TypeError", "none")}
  ELSE IF user.password # password THEN {unauthorized}
  ELSE {forbidden}

ComparePassword(r) ==
  /\ AtOf(r, "login", "compare")
  /\ IF MayLogin(req[r].arg) THEN Proceed(r, "session")
     ELSE \E error \in LoginErrors(req[r].arg) : Fail(r, error)
  /\ UNCHANGED <<user, sessions, mails>>

LoginStep(r) == Login(r) \/ ComparePassword(r)

Calmly == UNCHANGED mishaps
Mishap == mishaps < workload.mishaps /\ mishaps' = mishaps + 1

\* The workers of the job queue send e-mails while requests come and go.
ProcessMail(m) == Mails!Step(m) /\ UNCHANGED <<user, sessions, req, keys>>
MailTrouble(m) == Mails!Trouble(m) /\ UNCHANGED <<user, sessions, req, keys>>

RequestStep(r) ==
  \/ RegisterStep(r) /\ UNCHANGED <<passwordKeys, oauthStates>>
  \/ PasswordStep(r) /\ UNCHANGED <<verificationCode, oauthStates>>
  \/ GoogleStep(r) /\ UNCHANGED <<verificationCode, passwordKeys>>
  \/ (LoginStep(r) \/ CreateSession(r)) /\ UNCHANGED keys

\* A crash, a job that is refused, trouble with a mail, a block, a key that expires.
Accident ==
  \/ \E m \in Request : MailTrouble(m)
  \/ \E r \in Request :
       \/ Crash(r) /\ UNCHANGED keys
       \/ RegisterMishap(r) /\ UNCHANGED <<passwordKeys, oauthStates>>
       \/ ResetRejected(r) /\ UNCHANGED <<verificationCode, oauthStates>>
  \/ Block /\ UNCHANGED keys
  \/ VerificationCodeExpires /\ UNCHANGED <<passwordKeys, oauthStates>>
  \/ ResetKeyExpires /\ UNCHANGED <<verificationCode, oauthStates>>
  \/ StateExpires /\ UNCHANGED <<verificationCode, passwordKeys>>

Next ==
  /\ \/ \E r \in Request : RequestStep(r) /\ Calmly
     \/ \E m \in Request : ProcessMail(m) /\ Calmly
     \/ Accident /\ Mishap
  /\ UNCHANGED workload

Spec == Init /\ [][Next]_vars

-----------------------------------------------------------------------------

\* What the e-mail history says (README.md:120); see EmailQueue.
SentMeansSent == Mails!SentMeansSent
NoRowLeftPending == Mails!NoRowLeftPending
SentOnce == Mails!SentOnce

\* The services use the queue as EmailQueue expects (EmailQueueProofs shows the
\* three above of it): a row is written before its job is added, one of each
\* (register.service.ts:150 and 207, password.service.ts:105 and 117).
KeepsMails == Mails!Spec

\* Where a request is answered, what it has used up is of no use to one that
\* arrives later; those that overlap it may still use it.

\* A code from an e-mail is good for one reset token (password.service.ts:184):
\* when one is answered for it, no later request gets one.  A check that dies
\* after it has set the grant leaves the code, and tells nobody the token.
OneCodeOneGrant ==
  \A r \in Succeeded("verifyReset") :
    \A q \in req[r].after \cap Asked("verifyReset") : req[q].arg # req[r].arg

\* A reset token is good for one new password (line 258): after an answered reset
\* no later one changes the password with it, not even one that dies of it.  A
\* reset that dies itself between line 228 and line 258 leaves its token, and
\* may be repeated.
OneGrantOneChange ==
  \A r \in Asked("reset") : user.password = r
    => \A q \in req[r].after \cap Asked("reset") : req[q].arg # req[r].arg

\* The password a session was opened with: the one that login compared or the
\* one that changePassword had just set; none of verifyEmail and Google.
ByPassword == Succeeded("login") \cup Succeeded("reset") \cup Succeeded("change")
Proof(s) == IF req[s].op = "login" THEN req[s].arg ELSE s

\* When a change of the password has been answered, every session that was there
\* when it was asked for is gone, and whoever asks for one later needs the new
\* password (README.md:2718, "User logged out or password changed").  A login that
\* overlaps the change may keep a session by the old password, and a change that
\* dies between line 228 and line 255 is not answered and revokes nothing.
OldPasswordsLoseAccess ==
  \A p \in Succeeded("reset") \cup Succeeded("change"), s \in sessions :
    /\ s \notin req[p].after
    /\ s \in ByPassword /\ p \in req[s].after /\ p = user.password => Proof(s) = p

\* An address is verified once, whatever is resent meanwhile (lines 311-313).
VerifiedOnce == Cardinality(Succeeded("verifyEmail")) <= 1

\* Whoever came in by a login, a verification or Google has a verified address,
\* whatever happened meanwhile; a change of the password does not look
\* (password.service.ts:275, login.service.ts:136).
SessionsNeedVerification ==
  \A s \in sessions : req[s].op \in {"login", "verifyEmail", "callback"} => user.verified

\* A callback spends its state parameter: after one that was answered no later one
\* comes in with the same (google-oauth.service.ts:152).
StateUsedOnce ==
  \A r \in Succeeded("callback") :
    \A q \in req[r].after \cap Asked("callback") : req[q].arg # req[r].arg

\* "Delete state from Redis (single-use)", google-oauth.service.ts:151: no two
\* callbacks are let in by one state.
LetIn == {r \in Asked("callback") : req[r].pc \notin {"getState"} \cup Statuses}
StateIsSingleUse == \A q, r \in LetIn : req[q].arg = req[r].arg => q = r

\* Two ways to an account that race for an address make one: what exists is
\* not created over, and does not lose its verification.
AccountNotReplaced ==
  [][user # NoUser => /\ user'.provider = user.provider /\ user'.lower = user.lower
                      /\ user.verified => user'.verified]_vars

\* README.md:2102 says of status 409 "Email/username already exists": when nothing
\* goes wrong, a registration that is refused is refused with it.
ConflictAnswered ==
  mishaps = 0 => \A r \in Asked("create") : req[r].pc \in Statuses => At(r, "CONFLICT")
=============================================================================
