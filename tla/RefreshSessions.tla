--------------------------- MODULE RefreshSessions ---------------------------
(***************************************************************************)
(* What the refresh tokens of one user promise, without saying how they    *)
(* are stored: a token handed to a client is live until it is exchanged,   *)
(* given back or taken away, it is exchanged for one successor at most,    *)
(* and no more than MaxDevices are live at any time.                       *)
(***************************************************************************)
EXTENDS Integers, FiniteSets

CONSTANTS Token, MaxDevices, FirstTokens

VARIABLES live,   \* tokens that will be accepted
          past    \* tokens that were live and never will be again

vars == <<live, past>>

Init == live = FirstTokens /\ past = {}

Fresh(k) == k \in Token \ (live \cup past)

Issue(k) ==
  /\ Fresh(k)
  /\ Cardinality(live) < MaxDevices
  /\ live' = live \cup {k}
  /\ UNCHANGED past

Exchange(j, k) ==
  /\ j \in live
  /\ Fresh(k)
  /\ live' = (live \ {j}) \cup {k}
  /\ past' = past \cup {j}

End(j) ==
  /\ j \in live
  /\ live' = live \ {j}
  /\ past' = past \cup {j}

Next == \E j \in Token : Issue(j) \/ End(j) \/ \E k \in Token : Exchange(j, k)

Spec == Init /\ [][Next]_vars
=============================================================================
