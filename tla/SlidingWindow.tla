--------------------------- MODULE SlidingWindow ---------------------------
(***************************************************************************)
(* What the rate limiter of allauth/core/internal/ratelimit.py promises:   *)
(* for every cache key there is a log of the hits that count, to which a   *)
(* hit is added only while fewer than `amount` of them lie within the last *)
(* `duration`.  There are no workers, no cache and no lock here; RateLimit *)
(* implements this specification.                                          *)
(***************************************************************************)
EXTENDS Rates

VARIABLES
    hits,       \* per key, the time stamps of the hits that count
    clock       \* time.time(); two readings are never equal

Init ==
    /\ hits = [k \in Key |-> {}]
    /\ clock = 1

(* A hit that the rate allows. *)
Admit(k) ==
    /\ RateAllows(k, hits[k], clock)
    /\ hits' = [hits EXCEPT ![k] = @ \cup {clock}]
    /\ clock' = clock + 1

(* An earlier hit is taken back (RateLimitUsage.rollback). *)
Withdraw(k) ==
    /\ \E s \in hits[k] : hits' = [hits EXCEPT ![k] = @ \ {s}]
    /\ UNCHANGED clock

(* All hits are forgotten (clear). *)
Forget(k) ==
    /\ hits' = [hits EXCEPT ![k] = {}]
    /\ UNCHANGED clock

(* Time passes; a refused hit leaves nothing else behind. *)
Advance ==
    /\ clock' = clock + 1
    /\ UNCHANGED hits

Next == Advance \/ \E k \in Key : Admit(k) \/ Withdraw(k) \/ Forget(k)

Spec == Init /\ [][Next]_<<hits, clock>>

=============================================================================
