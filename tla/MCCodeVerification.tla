------------------------ MODULE MCCodeVerification ------------------------
(***************************************************************************)
(* CodeVerification for TLC: two addresses, one request at a time through  *)
(* the pages or two that overlap through the API.                          *)
(***************************************************************************)
EXTENDS CodeVerification, TLC

CONSTANTS a, b, w1, w2

Pages ==
    [flow : AllFlows, attempts : {3}, timeout : {2},
     headless : {FALSE}, saves : BOOLEAN, overlap : {FALSE}]

Overlapping ==
    [flow : AllFlows, attempts : {1}, timeout : {0},
     headless : BOOLEAN, saves : {TRUE}, overlap : {TRUE}]

PagesAndOverlaps == Pages \cup Overlapping

PhoneOfLogin ==
    [flow : {"phone"}, attempts : {2}, timeout : {1},
     headless : {TRUE}, saves : {FALSE}, overlap : {FALSE}]

Symmetric == Permutations(Address) \cup Permutations(Worker)
=============================================================================
