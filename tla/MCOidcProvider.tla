-------------------------- MODULE MCOidcProvider --------------------------
(***************************************************************************)
(* OidcProvider for TLC: one scope or two, one resource or any.            *)
(***************************************************************************)
EXTENDS OidcProvider, TLC

CONSTANTS u1, u2, w1, w2, k1, k2, c1, c2, device

Wishes == {[scopes |-> {"openid"}, resources |-> {"api"}],
           [scopes |-> {"openid", "email"}, resources |-> {}]}

Targets == {{}, {"files"}}

(* A client uses one of the flows. *)
OneFlow == {s \in AllSettings : Cardinality(s.grants) = 1}

Symmetric ==
    Permutations(User) \cup Permutations(Worker) \cup Permutations(Client)
      \cup Permutations(Code)
=============================================================================
