---------------------------- MODULE MCRateLimit ----------------------------
(***************************************************************************)
(* RateLimit for TLC: an action limited by IP address and by key, as       *)
(* "login_failed" is.                                                      *)
(***************************************************************************)
EXTENDS RateLimit, TLC

CONSTANTS ip, subject, w1, w2

TwoRates == (ip :> [amount |-> 2, duration |-> 3])
         @@ (subject :> [amount |-> 1, duration |-> 2])

TwoRules == {<<ip, subject>>}
=============================================================================
