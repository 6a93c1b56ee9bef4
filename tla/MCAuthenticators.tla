------------------------- MODULE MCAuthenticators -------------------------
(***************************************************************************)
(* Authenticators for TLC: two requests at a time.                         *)
(***************************************************************************)
EXTENDS Authenticators, TLC

CONSTANTS w1, w2

(* Each of these pairs breaks a property when it overlaps: a view's save    *)
(* undoes a recovery code's use, and a removal's clean-up and an addition  *)
(* or a renaming do not see each other.                                    *)
RacingPairs ==
    {{"view", "recovery"}, {"remove", "activate"},
     {"remove", "passkey"}, {"remove", "rename"}, {"remove", "generate"}}

Nothing == {}

Symmetric == Permutations(Worker)
=============================================================================
