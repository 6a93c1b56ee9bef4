------------------------- MODULE MCEmailAddresses -------------------------
(***************************************************************************)
(* EmailAddresses for TLC: two users with an address each, and one that is *)
(* free.                                                                   *)
(***************************************************************************)
EXTENDS EmailAddresses, TLC

CONSTANTS u1, u2, e1, e2, e3, w1, w2

OwnHome == u1 :> e1 @@ u2 :> e2

Configured(pages, change, byCode, strict, max) ==
    [pages : pages, change : {change}, byCode : {byCode}, byEmail : {TRUE},
     unique : {TRUE}, hide : {TRUE}, strict : {strict}, max : {max}]

(* Many addresses or one, by links or by codes; codes also with addresses  *)
(* that may be anybody's.                                                  *)
EachMode ==
    Configured(BOOLEAN, FALSE, FALSE, FALSE, 2)
        \cup Configured({TRUE}, TRUE, FALSE, FALSE, 0)
        \cup Configured({FALSE}, FALSE, TRUE, TRUE, 0)
        \cup Configured({TRUE}, TRUE, TRUE, FALSE, 0)

(* The users with their addresses, and the workers, are interchangeable.   *)
Swapped == u1 :> u2 @@ u2 :> u1 @@ e1 :> e2 @@ e2 :> e1

Symmetric == Permutations(Server) \cup {Swapped}
=============================================================================
