------------------------------- MODULE Rates -------------------------------
(***************************************************************************)
(* The pure part of allauth/core/internal/ratelimit.py: a rate is an       *)
(* amount of hits per duration, and a hit is its time stamp.               *)
(***************************************************************************)
EXTENDS Naturals, FiniteSets

CONSTANTS
    Key,        \* the cache keys of get_cache_key(): one per limited subject
    RateOf      \* the rate [amount, duration] that limits each key

ASSUME RateAssumption ==
    RateOf \in [Key -> [amount : Nat, duration : Nat \ {0}]]

Amount(k) == RateOf[k].amount
Duration(k) == RateOf[k].duration

(* What apply_rate() keeps of the time stamps S of key k at time t: those  *)
(* that are not <= t - duration.                                           *)
Live(k, S, t) == {s \in S : s + Duration(k) > t}

(* Mutant: the comparison includes the amount. *)
RateAllowsOneMore(k, S, t) == Cardinality(Live(k, S, t)) <= Amount(k)

(* apply_rate() allows a hit when the pruned history is short enough. *)
RateAllows(k, S, t) == Cardinality(Live(k, S, t)) < Amount(k)

=============================================================================
