------------------------- MODULE GoogleOAuthService -------------------------
(***************************************************************************)
(* GoogleOAuthService: getAuthorizationUrl and handleCallback for the      *)
(* Google account of one e-mail address.  The state parameter is a key in  *)
(* Redis that the callback reads and deletes.  Google's answer is taken as *)
(* it is: the exchange of the code and the check of the ID token succeed   *)
(* or not.                                                                 *)
(***************************************************************************)
EXTENDS AccountStore

VARIABLE oauthStates   \* oauth:google:state:<state>; the requests that set them

GoogleTypeOK == oauthStates \subseteq Asked("authorize")
GoogleInit == oauthStates = {}

-----------------------------------------------------------------------------

GetAuthorizationUrl(r) ==
  Arrive(r, "authorize", None, "setState") /\ UNCHANGED oauthStates

SetState(r) ==
  /\ AtOf(r, "authorize", "setState")
  /\ oauthStates' \in Stored(oauthStates \cup {r}, oauthStates)
  /\ Succeed(r)
  /\ UNCHANGED <<user, sessions, mails>>

HandleCallback(r) ==
  /\ \E state \in Succeeded("authorize") : Arrive(r, "callback", state, "getState")
  /\ UNCHANGED oauthStates

GetState(r) ==
  /\ AtOf(r, "callback", "getState")
  /\ \E found \in Got(req[r].arg \in oauthStates, FALSE) :
       IF found THEN Proceed(r, "delState") ELSE Fail(r, badRequest)
  /\ UNCHANGED <<user, sessions, mails, oauthStates>>

Mut_WithoutState(r) == oauthStates
WithoutState(r) == oauthStates \ {req[r].arg}

DeleteState(r) ==
  /\ AtOf(r, "callback", "delState")
  /\ oauthStates' \in Stored(WithoutState(r), oauthStates)
  /\ Proceed(r, "exchange")
  /\ UNCHANGED <<user, sessions, mails>>

\* exchangeCodeForTokens; verifyIdToken or getUserInfo, and email_verified
TokensRefused == {unauthorized}
IdentityRefused == {unauthorized, forbidden}

ExchangeCode(r) ==
  /\ AtOf(r, "callback", "exchange")
  /\ \/ Proceed(r, "findProvider")
     \/ \E error \in TokensRefused \cup IdentityRefused : Fail(r, error)
  /\ UNCHANGED <<user, sessions, mails, oauthStates>>

FindByProvider(r) ==
  /\ AtOf(r, "callback", "findProvider")
  /\ \/ user.provider # "google" /\ Proceed(r, "find")
     \/ user.provider = "google" /\ user.active /\ Proceed(r, "session")
     \/ user.provider = "google" /\ ~user.active /\ Fail(r, forbidden)
  /\ UNCHANGED <<user, sessions, mails, oauthStates>>

FindByEmail(r) ==
  /\ AtOf(r, "callback", "find")
  /\ IF user = NoUser THEN Proceed(r, "save") ELSE Fail(r, conflict)
  /\ UNCHANGED <<user, sessions, mails, oauthStates>>

SaveGoogleUser(r) ==
  /\ AtOf(r, "callback", "save")
  /\ \/ /\ MaySave
        /\ user' = [provider |-> "google", verified |-> TRUE, active |-> TRUE,
                    lower |-> TRUE, password |-> None]
        /\ Proceed(r, "session")
     \/ /\ ~MaySave
        /\ NotSaved(r)
        /\ UNCHANGED user
  /\ UNCHANGED <<sessions, mails, oauthStates>>

StateExpires ==
  /\ \E state \in oauthStates : oauthStates' = oauthStates \ {state}
  /\ UNCHANGED store

-----------------------------------------------------------------------------

GoogleStep(r) ==
  \/ GetAuthorizationUrl(r) \/ SetState(r)
  \/ HandleCallback(r) \/ GetState(r) \/ DeleteState(r) \/ ExchangeCode(r)
  \/ FindByProvider(r) \/ FindByEmail(r) \/ SaveGoogleUser(r)
=============================================================================
