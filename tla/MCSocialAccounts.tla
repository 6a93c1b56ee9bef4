------------------------ MODULE MCSocialAccounts --------------------------
(***************************************************************************)
(* SocialAccounts for TLC: a user with a password, who may sign up again,  *)
(* in two browsers.                                                        *)
(***************************************************************************)
EXTENDS SocialAccounts, TLC

CONSTANTS u1, u2, e1, e2, p1, p2, b1, b2

OneHome == u1 :> [version |-> 1, password |-> TRUE, mail |-> e1]
             @@ u2 :> [version |-> 0, password |-> FALSE, mail |-> None]

Says(e, v, p) == [email |-> e, verified |-> v, primary |-> p]

(* One address that is verified, or two of which the other one is. *)
Profiles ==
    {<<Says(e1, TRUE, TRUE)>>,
     <<Says(e2, FALSE, TRUE), Says(e1, TRUE, FALSE)>>}

Configured(overlap, kills, auto, byEmail, reauth, mandatory, hide) ==
    [auto |-> auto, byEmail |-> byEmail, reauth |-> reauth,
     mandatory |-> mandatory, hide |-> hide, overlap |-> overlap,
     crashes |-> kills]

EachMode ==
    {Configured(TRUE, 0, TRUE, "no", TRUE, TRUE, "yes"),
     Configured(TRUE, 1, FALSE, "connect", FALSE, FALSE, "strict"),
     Configured(FALSE, 1, TRUE, "yes", TRUE, TRUE, "yes"),
     Configured(FALSE, 1, TRUE, "no", FALSE, FALSE, "strict"),
     Configured(FALSE, 1, FALSE, "no", FALSE, TRUE, "yes")}

Symmetric == Permutations(Browser)
=============================================================================
