--------------------------- MODULE MCTokenService ---------------------------
(* Instances of TokenService for TLC.                                      *)
EXTENDS TokenService

AllOps == {"login", "refresh", "logout", "logoutAll"}

\* One request after the other, of every kind; and logins that overlap.
OneAfterTheOther == [happens |-> AllOps \cup {"check", "block", "crash"},
                     requests |-> 3, inFlight |-> 1]
RacingLogins == [happens |-> {"login", "crash"}, requests |-> 4, inFlight |-> 3]
SerialOrLogins == {OneAfterTheOther, RacingLogins}

RacingRefreshes == {[happens |-> {"refresh"}, requests |-> 2, inFlight |-> 2]}
RefreshMeetsLogin == {[happens |-> {"refresh", "login"}, requests |-> 2, inFlight |-> 2]}
RefreshesAndLogins == {[happens |-> {"refresh", "login"}, requests |-> 4, inFlight |-> 1]}
=============================================================================
