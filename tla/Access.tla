------------------------------- MODULE Access -------------------------------
(***************************************************************************)
(* Who gets in: by a password (LoginService, with its rate limits) or by   *)
(* an access token (TokenVersion).  The two read and write other columns   *)
(* and keys, and no property speaks of both: a behaviour is about one of   *)
(* them, chosen at the start, while the other one rests.                   *)
(***************************************************************************)
EXTENDS TokenVersion, LoginService

VARIABLE way    \* how the clients of this behaviour come in

accessVars == <<versionVars, loginVars, way>>

AccessInit ==
  /\ VersionInit /\ LoginInit
  /\ way \in {"token", "password"}
  /\ way = "token" => account = CHOOSE a \in Accounts : TRUE

ByToken == way = "token" /\ VersionNext /\ UNCHANGED <<loginVars, way>>

ByPassword == way = "password" /\ LoginNext /\ UNCHANGED <<versionVars, way>>

AccessNext == ByToken \/ ByPassword

\* Nothing is owed to a login; see VersionFairness for the rest.
AccessSpec == AccessInit /\ [][AccessNext]_accessVars /\ VersionFairness
=============================================================================
