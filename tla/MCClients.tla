----------------------------- MODULE MCClients -----------------------------
(* An instance of Clients for TLC. *)
EXTENDS Clients

CONSTANTS w1, w2

To(scheme, host, port) ==
    [scheme |-> scheme, host |-> host, port |-> port, path |-> "cb", query |-> {}]

Site     == To("https", <<"app", "com">>, "443")
OtherPort == [Site EXCEPT !.port = "8443"]
Elsewhere == To("https", <<"app", "org">>, "443")
Stars    == To("https", <<"*", "com">>, "443")
TwoStars == To("https", <<"*", "*">>, "443")
Listener(port) == To("http", <<"loopback">>, port)
Phone    == To("org.app", << >>, "")

Asked    == [Site EXCEPT !.query = {"a=b"}]

AllUris == {Site, OtherPort, Elsewhere, Stars, TwoStars,
            Listener("1"), Listener("2"), Phone, Asked}

Documents ==
    {[uris |-> {Listener("1")}, after |-> {}],
     [uris |-> {Stars}, after |-> {Phone}]}

Registrations ==
    {[uris |-> {Asked, Phone}, after |-> {}, confidential |-> TRUE],
     [uris |-> {Stars}, after |-> {Site}, confidential |-> FALSE],
     [uris |-> {TwoStars}, after |-> {}, confidential |-> FALSE]}

OneOrTwo == {[workers |-> {w1}, answers |-> TRUE],
             [workers |-> {w1, w2}, answers |-> FALSE]}
=============================================================================
