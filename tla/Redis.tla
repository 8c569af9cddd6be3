------------------------------- MODULE Redis -------------------------------
(***************************************************************************)
(* RedisService as its callers see it.  Every command is awaited and       *)
(* atomic.  An error of the client is logged and swallowed: a get answers  *)
(* null, a set or del leaves the caller none the wiser (its result is      *)
(* never looked at), whether or not the server had applied the command.    *)
(***************************************************************************)
CONSTANT RedisMayFail   \* does the client meet connection errors?

ASSUME RedisMayFailAssumption == RedisMayFail \in BOOLEAN

\* What get may answer when the key holds v; null stands for a missing key.
Got(v, null) == IF RedisMayFail THEN {v, null} ELSE {v}

\* What the key may hold after a set or a del that asks for new over old.
Stored(new, old) == IF RedisMayFail THEN {new, old} ELSE {new}
=============================================================================
