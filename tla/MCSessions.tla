----------------------------- MODULE MCSessions -----------------------------
(* Instances of Sessions for TLC. *)
EXTENDS Sessions

CONSTANTS u1, u2, w1, w2

Setting(ops) == [ops |-> ops, users |-> {u1}, workers |-> {w1, w2}, apart |-> TRUE, track |-> FALSE,
                 logoutOnChange |-> FALSE, jwt |-> FALSE, loginOnReset |-> FALSE, crash |-> FALSE,
                 keys |-> 3, passwords |-> 2, logins |-> 3]

Managed   == Setting({"login", "change", "list", "end", "logout"})
Tracked   == [Setting({"login", "change", "end"}) EXCEPT !.track = TRUE, !.crash = TRUE, !.logoutOnChange = TRUE]
Tokens    == [Setting({"login", "end", "refresh", "reauthenticate"}) EXCEPT !.jwt = TRUE]
Passwords == [Setting({"login", "change", "connect", "reset"}) EXCEPT !.keys = 2, !.passwords = 3, !.loginOnReset = TRUE]
Proofs    == [Setting({"login", "logout", "post", "reauthenticate"}) EXCEPT !.users = {u1, u2}, !.workers = {w1}, !.logins = 1]

AllSettings == {Managed, Tracked, Tokens, Passwords, Proofs}
\* The overlaps that break a property: see the README.
RacingPairs == {{"login"}, {"login", "list"}, {"change", "end"}, {"change", "logout"},
                {"refresh"}, {"refresh", "reauthenticate"}, {"refresh", "login"},
                {"login", "reset"}, {"connect", "change"}, {"connect", "reset"}, {"reset"},
                {"change"}, {"list", "reset"}, {"post", "refresh"}}
=============================================================================
