-------------------------- MODULE MCProviderLogin --------------------------
(* Two tabs and two people at any of the providers. *)
EXTENDS ProviderLogin, TLC

AnyProvider == AllProviders

Symmetric == Permutations(Tab)

AnySetting == {[vouched |-> FALSE, rejects |-> TRUE], [vouched |-> TRUE, rejects |-> FALSE]}
=============================================================================
