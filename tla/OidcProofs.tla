--------------------------- MODULE OidcProofs ---------------------------
(***************************************************************************)
(* Theorems about OidcProvider for any users, clients, codes, devices,     *)
(* wishes and bounds.  The first invariant, GInv, carries what was granted *)
(* from the user to the tokens; the second, SInv, that it is spent once.   *)
(***************************************************************************)
EXTENDS OidcProvider, TLAPS

Consented(u) == UNION {g.scopes : g \in {h \in granted : ~h.silent /\ h.user = u}}

(* What is granted in silence was agreed to before. *)
GrantsConsented == \A g \in granted : g.scopes \subseteq Consented(g.user)

Covered(t) == \E g \in granted : Covers(g, t)

(* The entries of the cache hold nothing but what was granted. *)
CodesGranted == \A c \in Code : codes[c] # None => codes[c] \in granted

ConfirmedGranted(d, data) == data.answer = "confirm" => GrantOf(d, data) \in granted

DevicesGranted ==
    \A d \in Device : devices[d] # None => ConfirmedGranted(d, devices[d])

(* So do the requests that have read them; a request that issues tokens    *)
(* has compared the resources.                                             *)
HoldsGrant(r) ==
    /\ {"step", "grant", "asked"} \subseteq DOMAIN r
    /\ r.grant \in granted

RequestGranted(r) ==
    /\ r.step \in {"exchange", "take", "issue"} => HoldsGrant(r)
    /\ r.step = "issue" => Within(r.asked, r.grant.resources)
    /\ r.step = "poll" => ConfirmedGranted(r.credential, r.data)
    /\ r.step = "refresh" =>
         Covered(r.credential) /\ r.scopes \subseteq r.credential.scopes

RequestsGranted == \A w \in Worker : ~Idle(w) => RequestGranted(request[w])

Domains == DOMAIN codes = Code /\ DOMAIN devices = Device /\ DOMAIN request = Worker

(* WithinGrant is not inductive: a token is as good as the request that    *)
(* makes it, and that as the entry which it has read.                      *)
GInv ==
    /\ Domains
    /\ WithinGrant
    /\ GrantsConsented
    /\ CodesGranted
    /\ DevicesGranted
    /\ RequestsGranted

LEMMA GInvInit == Init => GInv
BY DEF Init, GInv, Domains, WithinGrant, GrantsConsented, CodesGranted,
       DevicesGranted, RequestsGranted, Idle

(* Tokens made from something that a grant covers are covered by it. *)
LEMMA PairCovered ==
    ASSUME NEW g0, NEW g, NEW scopes, NEW asked,
           Covers(g0, g), scopes \subseteq g.scopes, Within(asked, g.resources)
    PROVE  /\ Covers(g0, Access(g, scopes, asked))
           /\ \A t \in Pair(g, scopes, asked) : Covers(g0, t)
<1>1. Covers(g0, Access(g, scopes, asked))
  BY DEF Covers, Access, Token, Within
<1>2. Covers(g0, Token(FreeId, "refresh", g, scopes, g.resources))
  BY DEF Covers, Token
<1> QED
  BY <1>1, <1>2 DEF Pair

(* Whatever is granted stays granted, and so do the facts about requests.  *)
LEMMA GrantedGrows ==
    ASSUME granted \subseteq granted'
    PROVE  /\ \A r : RequestGranted(r) => RequestGranted(r)'
           /\ \A d, data : ConfirmedGranted(d, data) => ConfirmedGranted(d, data)'
           /\ \A t : Covered(t) => Covered(t)'
           /\ \A u : Consented(u) \subseteq Consented(u)'
BY DEF RequestGranted, ConfirmedGranted, Covered, Consented, HoldsGrant, Covers,
       Within, GrantOf

LEMMA StartEffect ==
    ASSUME Domains, NEW w \in Worker, NEW r, Start(w, r)
    PROVE  /\ DOMAIN request' = Worker
           /\ request'[w] = r
           /\ \A v \in Worker \ {w} : request'[v] = request[v]
BY DEF Domains, Start

(* A step that leaves the tokens, the entries and the grants alone, or     *)
(* takes some of them away, needs only that its request is well-founded.   *)
LEMMA RequestsKept ==
    ASSUME GInv, granted \subseteq granted', NEW w \in Worker, NEW r,
           Start(w, r), r # None => RequestGranted(r)'
    PROVE  DOMAIN request' = Worker /\ RequestsGranted'
<1>1. /\ DOMAIN request' = Worker
      /\ request'[w] = r
      /\ \A v \in Worker \ {w} : request'[v] = request[v]
  BY StartEffect DEF GInv
<1>2. ASSUME NEW v \in Worker, NEW q, q = request'[v], q # None
      PROVE  RequestGranted(q)'
  <2>1. CASE v = w
    BY <1>1, <1>2, <2>1
  <2>2. CASE v # w
    <3>1. RequestGranted(q)
      BY <1>1, <1>2, <2>2 DEF GInv, RequestsGranted, Idle
    <3> QED
      BY <3>1, GrantedGrows
  <2> QED
    BY <2>1, <2>2
<1> QED
  BY <1>1, <1>2 DEF RequestsGranted, Idle

LEMMA RequestsSame ==
    ASSUME GInv, granted \subseteq granted', UNCHANGED request
    PROVE  DOMAIN request' = Worker /\ RequestsGranted'
<1>1. \A q : RequestGranted(q) => RequestGranted(q)'
  BY GrantedGrows
<1> QED
  BY <1>1 DEF GInv, Domains, RequestsGranted, Idle

(* The grants that were made before, and the tokens that were.             *)
LEMMA OldCovered ==
    ASSUME GInv, granted \subseteq granted'
    PROVE  \A t \in tokens : Covered(t)'
BY GrantedGrows DEF GInv, WithinGrant, Covered

LEMMA SameGrants ==
    ASSUME GInv, UNCHANGED granted
    PROVE  GrantsConsented'
BY DEF GInv, GrantsConsented, Consented

LEMMA SameCodes ==
    ASSUME GInv, granted \subseteq granted', UNCHANGED codes
    PROVE  DOMAIN codes' = Code /\ CodesGranted'
BY DEF GInv, Domains, CodesGranted

LEMMA SameDevices ==
    ASSUME GInv, granted \subseteq granted', UNCHANGED devices
    PROVE  DOMAIN devices' = Device /\ DevicesGranted'
<1>1. \A d, data : ConfirmedGranted(d, data) => ConfirmedGranted(d, data)'
  BY GrantedGrows
<1> QED
  BY <1>1 DEF GInv, Domains, DevicesGranted

LEMMA NoNewTokens ==
    ASSUME GInv, granted \subseteq granted', tokens' \subseteq tokens
    PROVE  WithinGrant'
BY OldCovered DEF WithinGrant, Covered

(* The user agrees, or has agreed: a code is made for the grant. *)
LEMMA IssuedStep ==
    ASSUME GInv, NEW c \in Code, NEW g, Issued(c, g),
           ~g.silent \/ g.scopes \subseteq Consented(g.user)
    PROVE  GInv'
<1>1. granted' = granted \cup {g}
  BY DEF Issued
<1>2. DOMAIN request' = Worker /\ RequestsGranted'
  BY <1>1, RequestsSame DEF Issued
<1>3. DOMAIN devices' = Device /\ DevicesGranted'
  BY <1>1, SameDevices DEF Issued
<1>4. WithinGrant'
  BY <1>1, NoNewTokens DEF Issued
<1>5. DOMAIN codes' = Code /\ CodesGranted'
  BY <1>1 DEF Issued, GInv, Domains, CodesGranted
<1>6. GrantsConsented'
  <2>1. ASSUME NEW h \in granted PROVE h.scopes \subseteq Consented(h.user)'
    BY <1>1, GrantedGrows DEF GInv, GrantsConsented
  <2>2. g.scopes \subseteq Consented(g.user)'
    <3>1. CASE ~g.silent
      BY <1>1, <3>1 DEF Consented
    <3>2. CASE g.scopes \subseteq Consented(g.user)
      BY <1>1, <3>2, GrantedGrows
    <3> QED
      BY <3>1, <3>2
  <2> QED
    BY <1>1, <2>1, <2>2 DEF GrantsConsented
<1> QED
  BY <1>2, <1>3, <1>4, <1>5, <1>6 DEF GInv, Domains

LEMMA AuthorizeStep ==
    ASSUME GInv, NEW u, NEW k, NEW c \in Code, Authorize(u, k, c)
    PROVE  GInv'
<1>1. PICK wish \in Wish :
        Issued(c, [from |-> c, user |-> u, client |-> k,
                   scopes |-> wish.scopes, resources |-> wish.resources,
                   silent |-> FALSE])
  BY DEF Authorize
<1> QED
  BY <1>1, IssuedStep

(* The scopes of a user's tokens were agreed to. *)
LEMMA TokensConsented ==
    ASSUME GInv, NEW t \in tokens
    PROVE  t.scopes \subseteq Consented(t.user)
<1>1. PICK g \in granted : Covers(g, t)
  BY DEF GInv, WithinGrant
<1>2. g.scopes \subseteq Consented(g.user)
  BY DEF GInv, GrantsConsented
<1> QED
  BY <1>1, <1>2 DEF Covers

LEMMA AuthorizeSilentlyStep ==
    ASSUME GInv, NEW u, NEW k, NEW c \in Code, AuthorizeSilently(u, k, c)
    PROVE  GInv'
<1>1. PICK wish \in Wish :
        /\ Agreed(u, wish.scopes)
        /\ Issued(c, [from |-> c, user |-> u, client |-> k,
                      scopes |-> wish.scopes, resources |-> {},
                      silent |-> TRUE])
  BY DEF AuthorizeSilently
<1>2. wish.scopes \subseteq Consented(u)
  <2> SUFFICES ASSUME NEW s \in wish.scopes PROVE s \in Consented(u)
    OBVIOUS
  <2>1. PICK t \in TokensOf(u) : s \in t.scopes
    BY <1>1 DEF Agreed
  <2> QED
    BY <2>1, TokensConsented DEF TokensOf
<1> QED
  BY <1>1, <1>2, IssuedStep

LEMMA LapseStep ==
    ASSUME GInv, NEW s, Lapse(s)
    PROVE  GInv'
<1>1. UNCHANGED <<tokens, request, granted>>
  BY DEF Lapse
<1>2. DOMAIN codes' = Code /\ CodesGranted'
  BY <1>1 DEF Lapse, GInv, CodesGranted
<1>3. DOMAIN devices' = Device /\ DevicesGranted'
  BY <1>1 DEF Lapse, GInv, DevicesGranted, ConfirmedGranted
<1> QED
  BY <1>1, <1>2, <1>3, RequestsSame, SameGrants, NoNewTokens DEF GInv, Domains

LEMMA RequestDeviceStep ==
    ASSUME GInv, NEW k, NEW d \in Device, RequestDevice(k, d)
    PROVE  GInv'
<1>1. UNCHANGED <<codes, tokens, request, granted>>
  BY DEF RequestDevice
<1>2. PICK wish \in Wish :
        devices' = [devices EXCEPT ![d] =
                      [client |-> k, scopes |-> wish.scopes,
                       resources |-> wish.resources, answer |-> None,
                       user |-> None]]
  BY DEF RequestDevice
<1>3. DOMAIN devices' = Device /\ DevicesGranted'
  BY <1>1, <1>2, AnswerAssumption DEF GInv, Domains, DevicesGranted, ConfirmedGranted
<1> QED
  BY <1>1, <1>3, RequestsSame, SameGrants, SameCodes, NoNewTokens
  DEF GInv, Domains

(* A request begins with an entry or a token that it has read, and changes *)
(* nothing.                                                                *)
LEMMA Begins ==
    ASSUME GInv, NEW w \in Worker, NEW r, Start(w, r),
           RequestGranted(r)',
           UNCHANGED <<codes, devices, tokens, granted>>
    PROVE  GInv'
BY RequestsKept, SameGrants, SameCodes, SameDevices, NoNewTokens DEF GInv, Domains

LEMMA ExchangeStep ==
    ASSUME GInv, NEW w \in Worker, NEW k, NEW c \in Code, NEW asked,
           Exchange(w, k, c, asked)
    PROVE  GInv'
<1>1. PICK r : r = [step |-> "exchange", credential |-> c, asked |-> asked,
                    grant |-> codes[c], again |-> c \in spent]
  OBVIOUS
<1>2. Start(w, r) /\ UNCHANGED <<codes, devices, tokens, granted>>
  BY <1>1 DEF Exchange
<1>3. codes[c] \in granted
  BY DEF Exchange, GInv, CodesGranted
<1>4. RequestGranted(r)'
  BY <1>1, <1>2, <1>3 DEF RequestGranted, HoldsGrant
<1> QED
  BY <1>2, <1>4, Begins

LEMMA AnswerStep ==
    ASSUME GInv, NEW w \in Worker, NEW u, NEW d \in Device, NEW answer,
           Answer(w, u, d, answer)
    PROVE  GInv'
<1>1. PICK r : r = [step |-> "answer", credential |-> d,
                    data |-> Answered(d, u, answer)]
  OBVIOUS
<1>2. Start(w, r) /\ UNCHANGED <<codes, devices, tokens, granted>>
  BY <1>1 DEF Answer
<1>3. RequestGranted(r)'
  BY <1>1 DEF RequestGranted
<1> QED
  BY <1>2, <1>3, Begins

LEMMA PollStep ==
    ASSUME GInv, NEW w \in Worker, NEW k, NEW d \in Device, NEW asked,
           Poll(w, k, d, asked)
    PROVE  GInv'
<1>1. PICK r : r = [step |-> "poll", credential |-> d, asked |-> asked,
                    data |-> devices[d], again |-> d \in spent]
  OBVIOUS
<1>2. Start(w, r) /\ UNCHANGED <<codes, devices, tokens, granted>>
  BY <1>1 DEF Poll
<1>3. ConfirmedGranted(d, devices[d])
  BY DEF Poll, GInv, DevicesGranted
<1>4. RequestGranted(r)
  BY <1>1, <1>3 DEF RequestGranted
<1>5. RequestGranted(r)'
  BY <1>2, <1>4, GrantedGrows
<1> QED
  BY <1>2, <1>5, Begins

LEMMA RefreshStep ==
    ASSUME GInv, NEW w \in Worker, NEW k, NEW t \in tokens, NEW asked,
           Refresh(w, k, t, asked)
    PROVE  GInv'
<1>1. PICK scopes : scopes \subseteq t.scopes
                    /\ Start(w, [step |-> "refresh", credential |-> t,
                                 asked |-> asked, scopes |-> scopes])
  BY DEF Refresh
<1>2. PICK r : r = [step |-> "refresh", credential |-> t, asked |-> asked,
                    scopes |-> scopes]
  OBVIOUS
<1>3. Start(w, r) /\ UNCHANGED <<codes, devices, tokens, granted>>
  BY <1>1, <1>2 DEF Refresh
<1>4. Covered(t)
  BY DEF GInv, WithinGrant, Covered
<1>5. RequestGranted(r)
  BY <1>1, <1>2, <1>4 DEF RequestGranted
<1>6. RequestGranted(r)'
  BY <1>3, <1>5, GrantedGrows
<1> QED
  BY <1>3, <1>6, Begins

(* A request goes on with the grant that it holds... *)
LEMMA GoesOn ==
    ASSUME NEW w \in Worker, HoldsGrant(request[w]),
           Within(request[w].asked, request[w].grant.resources),
           UNCHANGED granted,
           NEW r, r = [request[w] EXCEPT !.step = "issue"]
    PROVE  RequestGranted(r)'
<1>1. HoldsGrant(r) /\ r.step = "issue"
  BY DEF HoldsGrant
<1>2. Within(r.asked, r.grant.resources)
  BY DEF HoldsGrant
<1>3. RequestGranted(r)
  BY <1>1, <1>2 DEF RequestGranted
<1> QED
  BY <1>3, GrantedGrows

(* ... or it ends. *)
LEMMA Ends ==
    ASSUME GInv, granted \subseteq granted', NEW w \in Worker, Finish(w)
    PROVE  DOMAIN request' = Worker /\ RequestsGranted'
<1>1. Start(w, None)
  BY DEF Start, Finish
<1> QED
  BY <1>1, RequestsKept

LEMMA RedeemStep ==
    ASSUME GInv, NEW w \in Worker, Redeem(w)
    PROVE  GInv'
<1>1. UNCHANGED <<devices, tokens, granted>>
  BY DEF Redeem
<1>2. HoldsGrant(request[w])
  BY DEF Redeem, GInv, RequestsGranted, RequestGranted
<1>3. DOMAIN codes' = Code /\ CodesGranted'
  BY <1>1 DEF Redeem, Invalidated, GInv, Domains, CodesGranted
<1>4. DOMAIN request' = Worker /\ RequestsGranted'
  <2>1. CASE Within(request[w].asked, request[w].grant.resources)
    <3>1. PICK r : r = [request[w] EXCEPT !.step = "issue"]
      OBVIOUS
    <3>2. Start(w, r)
      BY <2>1, <3>1 DEF Redeem
    <3>3. RequestGranted(r)'
      BY <1>1, <1>2, <2>1, <3>1, GoesOn
    <3> QED
      BY <1>1, <3>2, <3>3, RequestsKept
  <2>2. CASE ~Within(request[w].asked, request[w].grant.resources)
    <3>1. Finish(w)
      BY <2>2 DEF Redeem, Fail
    <3> QED
      BY <1>1, <3>1, Ends
  <2> QED
    BY <2>1, <2>2
<1> QED
  BY <1>1, <1>3, <1>4, SameGrants, SameDevices, NoNewTokens DEF GInv, Domains

LEMMA TakeStep ==
    ASSUME GInv, NEW w \in Worker, Take(w)
    PROVE  GInv'
<1>1. UNCHANGED <<codes, tokens, granted>>
  BY DEF Take
<1>2. HoldsGrant(request[w])
  BY DEF Take, GInv, RequestsGranted, RequestGranted
<1>3. DOMAIN devices' = Device /\ DevicesGranted'
  BY <1>1 DEF Take, GInv, Domains, DevicesGranted, ConfirmedGranted
<1>4. DOMAIN request' = Worker /\ RequestsGranted'
  <2>1. CASE Within(request[w].asked, request[w].grant.resources)
    <3>1. PICK r : r = [request[w] EXCEPT !.step = "issue"]
      OBVIOUS
    <3>2. Start(w, r)
      BY <2>1, <3>1 DEF Take
    <3>3. RequestGranted(r)'
      BY <1>1, <1>2, <2>1, <3>1, GoesOn
    <3> QED
      BY <1>1, <3>2, <3>3, RequestsKept
  <2>2. CASE ~Within(request[w].asked, request[w].grant.resources)
    <3>1. Finish(w)
      BY <2>2 DEF Take, Fail
    <3> QED
      BY <1>1, <3>1, Ends
  <2> QED
    BY <2>1, <2>2
<1> QED
  BY <1>1, <1>3, <1>4, SameGrants, SameCodes, NoNewTokens DEF GInv, Domains

(* An entry that is written back goes back to a grant, if it is confirmed. *)
LEMMA StoredGranted ==
    ASSUME GInv, granted \subseteq granted', NEW d, NEW data, Stored(d, data),
           ConfirmedGranted(d, data)'
    PROVE  DOMAIN devices' = Device /\ DevicesGranted'
<1>1. DOMAIN devices' = Device
  BY DEF Stored, GInv, Domains
<1>2. ASSUME NEW e \in Device, NEW x, x = devices'[e], x # None
      PROVE  ConfirmedGranted(e, x)'
  <2>1. x = devices[e] \/ (e = d /\ x = data)
    BY <1>2 DEF Stored, GInv, Domains
  <2>2. CASE x = devices[e]
    <3>1. ConfirmedGranted(e, x)
      BY <1>2, <2>2 DEF GInv, DevicesGranted
    <3> QED
      BY <3>1, GrantedGrows
  <2> QED
    BY <2>1, <2>2
<1> QED
  BY <1>1, <1>2 DEF DevicesGranted

LEMMA WriteBackStep ==
    ASSUME GInv, NEW w \in Worker, WriteBack(w)
    PROVE  GInv'
<1>1. UNCHANGED <<codes, tokens, granted>>
  BY DEF WriteBack
<1>2. PICK d, data : d = request[w].credential /\ data = request[w].data
  OBVIOUS
<1>3. ConfirmedGranted(d, data) /\ ConfirmedGranted(d, data)'
  <2>1. ConfirmedGranted(d, data)
    BY <1>2 DEF WriteBack, GInv, RequestsGranted, RequestGranted
  <2> QED
    BY <1>1, <2>1, GrantedGrows
<1>4. DOMAIN devices' = Device /\ DevicesGranted'
  BY <1>1, <1>2, <1>3, StoredGranted DEF WriteBack
<1>5. DOMAIN request' = Worker /\ RequestsGranted'
  <2>1. CASE data.answer = "confirm"
    <3>1. PICK r : r = [step |-> "take", credential |-> d,
                        asked |-> request[w].asked, again |-> request[w].again,
                        grant |-> GrantOf(d, data)]
      OBVIOUS
    <3>2. Start(w, r)
      BY <1>2, <2>1, <3>1 DEF WriteBack
    <3>3. RequestGranted(r)
      BY <1>3, <2>1, <3>1 DEF RequestGranted, HoldsGrant, ConfirmedGranted
    <3>4. RequestGranted(r)'
      BY <1>1, <3>3, GrantedGrows
    <3> QED
      BY <1>1, <3>2, <3>4, RequestsKept
  <2>2. CASE data.answer # "confirm"
    <3>1. Finish(w)
      BY <1>2, <2>2 DEF WriteBack
    <3> QED
      BY <1>1, <3>1, Ends
  <2> QED
    BY <2>1, <2>2
<1> QED
  BY <1>1, <1>4, <1>5, SameGrants, SameCodes, NoNewTokens DEF GInv, Domains

LEMMA RecordStep ==
    ASSUME GInv, NEW w \in Worker, Record(w)
    PROVE  GInv'
<1>1. PICK d, data : d = request[w].credential /\ data = request[w].data
  OBVIOUS
<1>2. /\ Stored(d, data) /\ Finish(w)
      /\ granted' = IF data.answer = "confirm"
                      THEN granted \cup {GrantOf(d, data)} ELSE granted
      /\ UNCHANGED <<codes, tokens>>
  BY <1>1 DEF Record
<1>3. granted \subseteq granted'
  BY <1>2
<1>4. ConfirmedGranted(d, data)'
  BY <1>2 DEF ConfirmedGranted, GrantOf
<1>5. GrantsConsented'
  <2>1. CASE granted' = granted
    BY <2>1, SameGrants
  <2>2. CASE granted' = granted \cup {GrantOf(d, data)}
    <3>1. ASSUME NEW g \in granted PROVE g.scopes \subseteq Consented(g.user)'
      BY <1>3, GrantedGrows DEF GInv, GrantsConsented
    <3>2. PICK g : g = GrantOf(d, data)
      OBVIOUS
    <3>3. g.scopes \subseteq Consented(g.user)'
      BY <2>2, <3>2 DEF Consented, GrantOf
    <3> QED
      BY <2>2, <3>1, <3>2, <3>3 DEF GrantsConsented
  <2> QED
    BY <1>2, <2>1, <2>2
<1>6. DOMAIN devices' = Device /\ DevicesGranted'
  BY <1>2, <1>3, <1>4, StoredGranted
<1>7. DOMAIN request' = Worker /\ RequestsGranted'
  BY <1>2, <1>3, Ends
<1> QED
  BY <1>2, <1>3, <1>5, <1>6, <1>7, SameCodes, NoNewTokens DEF GInv, Domains

(* The tokens of an exchange or a poll. *)
LEMMA IssueStep ==
    ASSUME GInv, NEW w \in Worker, Issue(w)
    PROVE  GInv'
<1>1. UNCHANGED <<codes, devices, granted>> /\ Finish(w)
  BY DEF Issue
<1>2. PICK g, asked : g = request[w].grant /\ asked = request[w].asked
  OBVIOUS
<1>3. g \in granted /\ Within(asked, g.resources)
  BY <1>2 DEF Issue, GInv, RequestsGranted, RequestGranted, HoldsGrant
<1>4. tokens' = tokens \cup Pair(g, g.scopes, asked)
  BY <1>2 DEF Issue
<1>5. Covers(g, g)
  BY DEF Covers
<1>6. \A t \in Pair(g, g.scopes, asked) : Covers(g, t)
  BY <1>3, <1>5, PairCovered
<1>7. WithinGrant'
  <2> SUFFICES ASSUME NEW t \in tokens' PROVE \E h \in granted' : Covers(h, t)'
    BY DEF WithinGrant
  <2> QED
    BY <1>1, <1>3, <1>4, <1>6, Zenon DEF GInv, WithinGrant, Covers
<1> QED
  BY <1>1, <1>7, Ends, SameGrants, SameCodes, SameDevices DEF GInv, Domains

(* A refresh makes tokens that its token's grant covers, and drops at most *)
(* the token.                                                              *)
LEMMA RenewStep ==
    ASSUME GInv, NEW w \in Worker, Renew(w)
    PROVE  GInv'
<1>1. UNCHANGED <<codes, devices, granted>> /\ Finish(w)
  BY DEF Renew
<1>2. PICK t, asked, scopes :
        /\ t = request[w].credential /\ asked = request[w].asked
        /\ scopes = request[w].scopes
  OBVIOUS
<1>3. Covered(t) /\ scopes \subseteq t.scopes
  BY <1>2 DEF Renew, GInv, RequestsGranted, RequestGranted
<1>4. PICK g \in granted : Covers(g, t)
  BY <1>3 DEF Covered
<1>5. ASSUME Within(asked, t.resources)
      PROVE  /\ Covers(g, Access(t, scopes, asked))
             /\ \A new \in Pair(t, scopes, asked) : Covers(g, new)
  BY <1>3, <1>4, <1>5, PairCovered
<1>6. ASSUME NEW new \in tokens', new \notin tokens
      PROVE  Covers(g, new)
  <2>1. CASE Within(asked, t.resources)
    <3>1. new \in Pair(t, scopes, asked) \/ new = Access(t, scopes, asked)
      BY <1>2, <1>6, <2>1 DEF Renew, OldDropped
    <3> QED
      BY <1>5, <2>1, <3>1
  <2>2. CASE ~Within(asked, t.resources)
    BY <1>2, <1>6, <2>2 DEF Renew, OldDropped
  <2> QED
    BY <2>1, <2>2
<1>7. WithinGrant'
  <2> SUFFICES ASSUME NEW new \in tokens' PROVE \E h \in granted' : Covers(h, new)'
    BY DEF WithinGrant
  <2> QED
    BY <1>1, <1>4, <1>6, Zenon DEF GInv, WithinGrant, Covers
<1> QED
  BY <1>1, <1>7, Ends, SameGrants, SameCodes, SameDevices DEF GInv, Domains

(* Tokens go, or a worker does. *)
LEMMA RemovalStep ==
    ASSUME GInv, tokens' \subseteq tokens,
           UNCHANGED <<codes, devices, granted>>,
           UNCHANGED request \/ (\E w \in Worker : Finish(w))
    PROVE  GInv'
<1>1. DOMAIN request' = Worker /\ RequestsGranted'
  BY RequestsSame, Ends
<1> QED
  BY <1>1, SameGrants, SameCodes, SameDevices, NoNewTokens DEF GInv, Domains

LEMMA GInvStep == GInv /\ [Next]_vars => GInv'
<1> SUFFICES ASSUME GInv, [Next]_vars PROVE GInv'
  OBVIOUS
<1>1. ASSUME NEW u \in User, NEW k \in Client, NEW c \in Code,
             Authorize(u, k, c) \/ AuthorizeSilently(u, k, c)
      PROVE  GInv'
  BY <1>1, AuthorizeStep, AuthorizeSilentlyStep
<1>2. ASSUME NEW s \in Source, Lapse(s) PROVE GInv'
  BY <1>2, LapseStep
<1>3. ASSUME NEW k \in Client, NEW d \in Device, RequestDevice(k, d) PROVE GInv'
  BY <1>3, RequestDeviceStep
<1>4. ASSUME NEW w \in Worker, NEW k \in Client, NEW asked \in Target,
             \/ \E c \in Code : Exchange(w, k, c, asked)
             \/ \E d \in Device : Poll(w, k, d, asked)
             \/ \E t \in RefreshTokens : Refresh(w, k, t, asked)
      PROVE  GInv'
  BY <1>4, ExchangeStep, PollStep, RefreshStep DEF RefreshTokens
<1>5. ASSUME NEW w \in Worker, NEW u \in User, NEW d \in Device,
             NEW answer \in {"confirm", "deny"}, Answer(w, u, d, answer)
      PROVE  GInv'
  BY <1>5, AnswerStep
<1>6. ASSUME NEW w \in Worker, Proceed(w) PROVE GInv'
  BY <1>6, IssueStep, RedeemStep, RecordStep, WriteBackStep, TakeStep, RenewStep
  DEF Proceed
<1>7. ASSUME NEW w \in Worker, Crash(w) PROVE GInv'
  BY <1>7, RemovalStep DEF Crash
<1>8. ASSUME NEW t \in tokens, Revoke(t) PROVE GInv'
  BY <1>8, RemovalStep DEF Revoke
<1>9. ASSUME NEW u \in User, NEW k \in Client, Logout(u, k) PROVE GInv'
  <2>1. tokens' \subseteq tokens
    BY <1>9 DEF Logout
  <2> QED
    BY <1>9, <2>1, RemovalStep DEF Logout
<1>10. CASE UNCHANGED vars
  BY <1>10, RemovalStep DEF vars
<1> QED
  BY <1>1, <1>2, <1>3, <1>4, <1>5, <1>6, <1>7, <1>8, <1>9, <1>10 DEF Next

(* What tokens can do is always backed by entries and requests that hold   *)
(* what was granted (cache and request_validator).                         *)
THEOREM GrantInvariance == Spec => []GInv
<1> QED
  BY GInvInit, GInvStep, PTL DEF Spec

(* However requests overlap, fail and are killed, and however often tokens *)
(* are renewed: no token exceeds its grant (_prep_refresh_token,           *)
(* _prep_access_token, confirm_or_deny_device_code).                       *)
THEOREM WithinGrantHolds == Spec => []WithinGrant
<1>1. GInv => WithinGrant
  BY DEF GInv
<1> QED
  BY <1>1, GrantInvariance, PTL

(* A chain of silent authorizations never adds a scope that the user was   *)
(* not asked for (validate_silent_authorization).                          *)
THEOREM SilentWithinConsentHolds == Spec => []SilentWithinConsent
<1>1. GInv => SilentWithinConsent
  <2> SUFFICES ASSUME GInv, NEW t \in tokens
               PROVE  t.scopes \subseteq Consented(t.user)
    BY DEF SilentWithinConsent, Consented
  <2> QED
    BY TokensConsented
<1> QED
  BY <1>1, GrantInvariance, PTL

(* Once only.  What a code or a device has given tokens for was granted,   *)
(* and its entry is gone; of a device's entry that holds where requests of *)
(* one credential do not overlap, for a poll writes the entry back.        *)
SpentGranted == \A s \in spent : \E g \in granted : g.from = s

SpentGone ==
    /\ \A c \in Code : c \in spent => codes[c] = None
    /\ ~setting.overlap => \A d \in Device : d \in spent => devices[d] = None

CodesNamed == \A c \in Code : codes[c] # None => codes[c].from = c

TokensSpent == \A t \in tokens : t.from \in spent

(* A request: what its grant is of... *)
Named(r) ==
    /\ {"credential", "again"} \subseteq DOMAIN r
    /\ r.credential \in Source
    /\ r.grant.from = r.credential

OfSource(r) ==
    /\ r.step \in {"exchange", "take", "issue"} => Named(r)
    /\ r.step = "exchange" => r.credential \in Code
    /\ r.step \in {"poll", "answer", "take"} => r.credential \in Device

(* ... that its entry is gone when it issues tokens... *)
EntryGone(r) ==
    r.step = "issue" =>
        /\ r.credential \in Code => codes[r.credential] = None
        /\ ~setting.overlap /\ r.credential \in Device =>
              devices[r.credential] = None

(* ... that nothing was issued for it before... *)
First(r) ==
    /\ r.step \in {"exchange", "poll", "take", "issue"} /\ r.again =>
         r.credential \in Device /\ setting.overlap
    /\ r.step # "refresh" /\ ~setting.overlap => r.credential \notin spent

(* ... and that a token which is used is the only one of its grant. *)
OnlyRefresh(r) ==
    r.step = "refresh" =>
        /\ r.credential.from \in spent
        /\ ~setting.overlap => \A t \in RefreshTokens :
              t.from = r.credential.from => t = r.credential

Once(r) == OfSource(r) /\ EntryGone(r) /\ First(r) /\ OnlyRefresh(r)

RequestsOnce == \A w \in Worker : ~Idle(w) => Once(request[w])

(* Two requests at a time are of different credentials and grants. *)
Separate(q, r) ==
    ~setting.overlap =>
        /\ q.credential # r.credential
        /\ q.step = "refresh" /\ r.step = "refresh" =>
              q.credential.from # r.credential.from

RequestsSeparate ==
    \A v, w \in Worker :
        v # w /\ ~Idle(v) /\ ~Idle(w) => Separate(request[v], request[w])

SInv ==
    /\ SpentGranted
    /\ SpentGone
    /\ CodesNamed
    /\ TokensSpent
    /\ OneRefreshToken
    /\ RequestsOnce
    /\ RequestsSeparate

LEMMA SInvInit == Init => SInv
BY DEF Init, SInv, SpentGranted, SpentGone, CodesNamed, TokensSpent,
       OneRefreshToken, RefreshTokens, RequestsOnce, RequestsSeparate, Idle

(* What other requests rely on stays, and what this one does is all right. *)
LEMMA OnceKept ==
    ASSUME GInv, SInv, UNCHANGED setting, NEW w \in Worker, NEW r, Start(w, r),
           \A v \in Worker \ {w} : \A q :
              q = request[v] /\ q # None => Once(q)',
           r # None => Once(r)',
           \A v \in Worker \ {w} : \A q :
              q = request[v] /\ q # None /\ r # None =>
                  Separate(q, r) /\ Separate(r, q)
    PROVE  RequestsOnce' /\ RequestsSeparate'
<1>1. /\ request'[w] = r
      /\ \A v \in Worker \ {w} : request'[v] = request[v]
  BY StartEffect DEF GInv
<1>2. ASSUME NEW v \in Worker, NEW q, q = request'[v], q # None PROVE Once(q)'
  BY <1>1, <1>2
<1>3. ASSUME NEW u \in Worker, NEW v \in Worker, u # v,
             NEW p, p = request'[u], p # None, NEW q, q = request'[v], q # None
      PROVE  Separate(p, q)'
  <2>1. Separate(p, q)
    BY <1>1, <1>3 DEF SInv, RequestsSeparate, Idle
  <2> QED
    BY <2>1 DEF Separate
<1>4. RequestsOnce'
  BY <1>2 DEF RequestsOnce, Idle
<1>5. RequestsSeparate'
  BY <1>3 DEF RequestsSeparate, Idle
<1> QED
  BY <1>4, <1>5

LEMMA OnceSame ==
    ASSUME GInv, SInv, UNCHANGED <<setting, request>>,
           \A v \in Worker : \A q : q = request[v] /\ q # None => Once(q)'
    PROVE  RequestsOnce' /\ RequestsSeparate'
<1>1. RequestsSeparate'
  BY DEF SInv, RequestsSeparate, Separate, Idle
<1> QED
  BY <1>1 DEF RequestsOnce, Idle

(* Fewer entries, fewer tokens. *)
LEMMA OnceLess ==
    ASSUME UNCHANGED <<setting, spent>>,
           \A c \in Code : codes[c] = None => codes'[c] = None,
           \A d \in Device : devices[d] = None => devices'[d] = None,
           tokens' \subseteq tokens,
           NEW q, Once(q)
    PROVE  Once(q)'
<1>1. OfSource(q)'
  BY DEF Once, OfSource, Named
<1>2. EntryGone(q)'
  BY DEF Once, EntryGone
<1>3. First(q)'
  BY DEF Once, First
<1>4. OnlyRefresh(q)'
  BY DEF Once, OnlyRefresh, RefreshTokens
<1> QED
  BY <1>1, <1>2, <1>3, <1>4 DEF Once

(* The parts of SInv that are not about requests, in steps that only take  *)
(* entries and tokens away.                                                *)
Shrinks ==
    /\ UNCHANGED <<setting, spent>>
    /\ granted \subseteq granted'
    /\ \A c \in Code : codes'[c] \in {None, codes[c]}
    /\ \A d \in Device : devices'[d] \in {None, devices[d]}
    /\ tokens' \subseteq tokens

LEMMA PartsShrink ==
    ASSUME SInv, Shrinks
    PROVE  /\ SpentGranted' /\ SpentGone' /\ CodesNamed'
           /\ TokensSpent' /\ OneRefreshToken'
           /\ \A q : Once(q) => Once(q)'
<1>1. SpentGranted' /\ SpentGone'
  BY DEF SInv, Shrinks, SpentGranted, SpentGone
<1>2. CodesNamed' /\ TokensSpent'
  BY DEF SInv, Shrinks, CodesNamed, TokensSpent
<1>3. OneRefreshToken'
  BY DEF SInv, Shrinks, OneRefreshToken, RefreshTokens
<1>4. ASSUME NEW q, Once(q) PROVE Once(q)'
  BY <1>4, OnceLess DEF Shrinks
<1> QED
  BY <1>1, <1>2, <1>3, <1>4

LEMMA HeldOnce ==
    ASSUME SInv, NEW v \in Worker, NEW q, q = request[v], q # None
    PROVE  Once(q)
BY DEF SInv, RequestsOnce, Idle

(* A request goes on to do r, or it ends. *)
LEMMA ShrinkingStep ==
    ASSUME GInv, SInv, Shrinks, NEW w \in Worker, NEW r, Start(w, r),
           r # None => Once(r)',
           \A v \in Worker \ {w} : \A q :
              q = request[v] /\ q # None /\ r # None =>
                  Separate(q, r) /\ Separate(r, q)
    PROVE  SInv'
<1>1. \A v \in Worker \ {w} : \A q : q = request[v] /\ q # None => Once(q)'
  BY HeldOnce, PartsShrink
<1>2. RequestsOnce' /\ RequestsSeparate'
  BY <1>1, OnceKept DEF Shrinks
<1> QED
  BY <1>2, PartsShrink DEF SInv

LEMMA EndingStep ==
    ASSUME GInv, SInv, Shrinks, NEW w \in Worker, Finish(w)
    PROVE  SInv'
<1>1. Start(w, None)
  BY DEF Start, Finish
<1> QED
  BY <1>1, ShrinkingStep

LEMMA IdleStep ==
    ASSUME GInv, SInv, Shrinks, UNCHANGED request
    PROVE  SInv'
<1>1. \A v \in Worker : \A q : q = request[v] /\ q # None => Once(q)'
  BY HeldOnce, PartsShrink
<1>2. RequestsOnce' /\ RequestsSeparate'
  BY <1>1, OnceSame DEF Shrinks
<1> QED
  BY <1>2, PartsShrink DEF SInv

(* A request goes on with its credential. *)
LEMMA ContinuingStep ==
    ASSUME GInv, SInv, Shrinks, NEW w \in Worker, request[w] # None,
           request[w].step # "refresh",
           NEW r, Start(w, r), r.credential = request[w].credential,
           r.step # "refresh", Once(r)'
    PROVE  SInv'
<1>1. ASSUME NEW v \in Worker \ {w}, NEW q, q = request[v], q # None
      PROVE  Separate(q, r) /\ Separate(r, q)
  <2>1. Separate(q, request[w]) /\ Separate(request[w], q)
    BY <1>1 DEF SInv, RequestsSeparate, Idle
  <2> QED
    BY <2>1 DEF Separate
<1> QED
  BY <1>1, ShrinkingStep

(* A new request of a credential that no other request works on.           *)
LEMMA StartingStep ==
    ASSUME GInv, SInv, Shrinks, NEW w \in Worker, NEW r, Start(w, r),
           MayStart(w, r.credential), r.step # "refresh", Once(r)
    PROVE  SInv'
<1>1. ASSUME NEW v \in Worker \ {w}, NEW q, q = request[v], q # None
      PROVE  Separate(q, r) /\ Separate(r, q)
  BY <1>1 DEF MayStart, Busy, Idle, Separate
<1>2. Once(r)'
  BY PartsShrink
<1> QED
  BY <1>1, <1>2, ShrinkingStep

LEMMA ExchangeOnce ==
    ASSUME GInv, SInv, NEW w \in Worker, NEW k, NEW c \in Code, NEW asked,
           Exchange(w, k, c, asked)
    PROVE  SInv'
<1>1. PICK r : r = [step |-> "exchange", credential |-> c, asked |-> asked,
                    grant |-> codes[c], again |-> c \in spent]
  OBVIOUS
<1>2. Start(w, r) /\ MayStart(w, r.credential) /\ Shrinks
  BY <1>1 DEF Exchange, Shrinks
<1>3. c \notin spent /\ codes[c].from = c
  BY DEF Exchange, SInv, SpentGone, CodesNamed
<1>4. Once(r)
  BY <1>1, <1>3 DEF Once, OfSource, Named, Source, EntryGone, First, OnlyRefresh
<1> QED
  BY <1>1, <1>2, <1>4, StartingStep

LEMMA AnswerOnce ==
    ASSUME GInv, SInv, NEW w \in Worker, NEW u, NEW d \in Device, NEW answer,
           Answer(w, u, d, answer)
    PROVE  SInv'
<1>1. PICK r : r = [step |-> "answer", credential |-> d,
                    data |-> Answered(d, u, answer)]
  OBVIOUS
<1>2. Start(w, r) /\ MayStart(w, r.credential) /\ Shrinks
  BY <1>1 DEF Answer, Shrinks
<1>3. ~setting.overlap => d \notin spent
  BY DEF Answer, Unanswered, SInv, SpentGone
<1>4. Once(r)
  BY <1>1, <1>3 DEF Once, OfSource, EntryGone, First, OnlyRefresh
<1> QED
  BY <1>1, <1>2, <1>4, StartingStep

LEMMA PollOnce ==
    ASSUME GInv, SInv, NEW w \in Worker, NEW k, NEW d \in Device, NEW asked,
           Poll(w, k, d, asked)
    PROVE  SInv'
<1>1. PICK r : r = [step |-> "poll", credential |-> d, asked |-> asked,
                    data |-> devices[d], again |-> d \in spent]
  OBVIOUS
<1>2. Start(w, r) /\ MayStart(w, r.credential) /\ Shrinks
  BY <1>1 DEF Poll, Shrinks
<1>3. ~setting.overlap => d \notin spent
  BY DEF Poll, SInv, SpentGone
<1>4. r.again => setting.overlap
  BY <1>1, <1>3
<1>5. Once(r)
  BY <1>1, <1>3, <1>4 DEF Once, OfSource, EntryGone, First, OnlyRefresh
<1> QED
  BY <1>1, <1>2, <1>5, StartingStep

LEMMA RefreshOnce ==
    ASSUME GInv, SInv, NEW w \in Worker, NEW k, NEW t \in RefreshTokens,
           NEW asked, Refresh(w, k, t, asked)
    PROVE  SInv'
<1>1. PICK scopes : Start(w, [step |-> "refresh", credential |-> t,
                              asked |-> asked, scopes |-> scopes])
  BY DEF Refresh
<1>2. PICK r : r = [step |-> "refresh", credential |-> t, asked |-> asked,
                    scopes |-> scopes]
  OBVIOUS
<1>3. Start(w, r) /\ MayStart(w, t) /\ Shrinks
  BY <1>1, <1>2 DEF Refresh, Shrinks
<1>4. t.from \in spent
  BY DEF SInv, TokensSpent, RefreshTokens
<1>5. ~setting.overlap => \A s \in RefreshTokens : s.from = t.from => s = t
  BY DEF SInv, OneRefreshToken
<1>6. OnlyRefresh(r)
  BY <1>2, <1>4, <1>5 DEF OnlyRefresh
<1>7. Once(r)
  BY <1>2, <1>6 DEF Once, OfSource, EntryGone, First
<1>8. ASSUME NEW v \in Worker \ {w}, NEW q, q = request[v], q # None
      PROVE  Separate(q, r) /\ Separate(r, q)
  <2>1. ~setting.overlap => q.credential # t
    BY <1>3, <1>8 DEF MayStart, Busy, Idle
  <2>2. OnlyRefresh(q)
    BY <1>8, HeldOnce DEF Once
  <2>3. ~setting.overlap /\ q.step = "refresh" => q.credential.from # t.from
    BY <2>1, <2>2 DEF OnlyRefresh
  <2> QED
    BY <1>2, <2>1, <2>3 DEF Separate
<1>9. Once(r)'
  BY <1>3, <1>7, PartsShrink
<1> QED
  BY <1>3, <1>8, <1>9, ShrinkingStep

LEMMA RedeemOnce ==
    ASSUME GInv, SInv, NEW w \in Worker, Redeem(w)
    PROVE  SInv'
<1>1. PICK q : q = request[w] /\ q # None /\ q.step = "exchange"
  BY DEF Redeem, Idle
<1>2. Once(q) /\ {"step", "grant", "asked"} \subseteq DOMAIN q
  BY <1>1, HeldOnce DEF GInv, RequestsGranted, RequestGranted, HoldsGrant, Idle
<1>3. Shrinks
  BY DEF Redeem, Shrinks, Invalidated, Fail, GInv, Domains
<1>4. CASE Within(q.asked, q.grant.resources)
  <2>1. PICK r : r = [q EXCEPT !.step = "issue"]
    OBVIOUS
  <2>2. /\ r.step = "issue" /\ r.credential = q.credential
        /\ r.grant = q.grant /\ r.again = q.again /\ DOMAIN r = DOMAIN q
    BY <1>1, <1>2, <2>1 DEF Once, OfSource, Named
  <2>3. Start(w, r) /\ Invalidated(q.credential) /\ q.credential \in Code
    BY <1>1, <1>2, <1>4, <2>1 DEF Redeem, Once, OfSource
  <2>4. OfSource(r)' /\ OnlyRefresh(r)'
    BY <1>1, <1>2, <2>2 DEF Once, OfSource, Named, OnlyRefresh
  <2>5. EntryGone(r)'
    BY <2>2, <2>3, SourceAssumption DEF EntryGone, Invalidated, GInv, Domains
  <2>6. First(r)'
    BY <1>1, <1>2, <1>3, <2>2 DEF Once, First, Shrinks
  <2> QED
    BY <1>1, <1>3, <2>2, <2>3, <2>4, <2>5, <2>6, ContinuingStep DEF Once
<1>5. CASE ~Within(q.asked, q.grant.resources)
  BY <1>1, <1>3, <1>5, EndingStep DEF Redeem, Fail
<1> QED
  BY <1>4, <1>5

LEMMA TakeOnce ==
    ASSUME GInv, SInv, NEW w \in Worker, Take(w)
    PROVE  SInv'
<1>1. PICK q : q = request[w] /\ q # None /\ q.step = "take"
  BY DEF Take, Idle
<1>2. Once(q) /\ {"step", "grant", "asked"} \subseteq DOMAIN q
  BY <1>1, HeldOnce DEF GInv, RequestsGranted, RequestGranted, HoldsGrant, Idle
<1>3. Shrinks
  BY DEF Take, Shrinks, GInv, Domains
<1>4. CASE Within(q.asked, q.grant.resources)
  <2>1. PICK r : r = [q EXCEPT !.step = "issue"]
    OBVIOUS
  <2>2. /\ r.step = "issue" /\ r.credential = q.credential
        /\ r.grant = q.grant /\ r.again = q.again /\ DOMAIN r = DOMAIN q
    BY <1>1, <1>2, <2>1 DEF Once, OfSource, Named
  <2>3. Start(w, r) /\ q.credential \in Device
        /\ devices' = [devices EXCEPT ![q.credential] = None]
    BY <1>1, <1>2, <1>4, <2>1 DEF Take, Once, OfSource
  <2>4. OfSource(r)' /\ OnlyRefresh(r)'
    BY <1>1, <1>2, <2>2 DEF Once, OfSource, Named, OnlyRefresh
  <2>5. EntryGone(r)'
    BY <2>2, <2>3, SourceAssumption DEF EntryGone, GInv, Domains
  <2>6. First(r)'
    BY <1>1, <1>2, <1>3, <2>2 DEF Once, First, Shrinks
  <2> QED
    BY <1>1, <1>3, <2>2, <2>3, <2>4, <2>5, <2>6, ContinuingStep DEF Once
<1>5. CASE ~Within(q.asked, q.grant.resources)
  BY <1>1, <1>3, <1>5, EndingStep DEF Take, Fail
<1> QED
  BY <1>4, <1>5

(* An entry is written back by the only request of its device, or else     *)
(* nothing is claimed of devices.                                          *)
LEMMA StoredOnce ==
    ASSUME GInv, SInv, UNCHANGED <<setting, codes, tokens, spent>>,
           granted \subseteq granted',
           NEW w \in Worker, NEW q, q = request[w], q # None,
           q.step \in {"poll", "answer"},
           NEW data, Stored(q.credential, data)
    PROVE  /\ SpentGranted' /\ SpentGone' /\ CodesNamed'
           /\ TokensSpent' /\ OneRefreshToken'
           /\ \A v \in Worker \ {w} : \A p :
                p = request[v] /\ p # None => Once(p)'
<1>1. \A d \in Device : d # q.credential => devices'[d] = devices[d]
  BY DEF Stored, GInv, Domains
<1>2. Once(q)
  BY HeldOnce
<1>3. ~setting.overlap => q.credential \notin spent
  BY <1>2 DEF Once, First
<1>4. SpentGranted' /\ SpentGone'
  BY <1>1, <1>3 DEF SInv, SpentGranted, SpentGone
<1>5. CodesNamed' /\ TokensSpent' /\ OneRefreshToken'
  BY DEF SInv, CodesNamed, TokensSpent, OneRefreshToken, RefreshTokens
<1>6. ASSUME NEW v \in Worker \ {w}, NEW p, p = request[v], p # None
      PROVE  Once(p)'
  <2>1. Once(p)
    BY <1>6, HeldOnce
  <2>2. ~setting.overlap => p.credential # q.credential
    BY <1>6 DEF SInv, RequestsSeparate, Separate, Idle
  <2>3. EntryGone(p)'
    BY <1>1, <2>1, <2>2 DEF Once, EntryGone
  <2>4. OfSource(p)' /\ First(p)' /\ OnlyRefresh(p)'
    BY <2>1 DEF Once, OfSource, Named, First, OnlyRefresh, RefreshTokens
  <2> QED
    BY <2>3, <2>4 DEF Once
<1> QED
  BY <1>4, <1>5, <1>6

LEMMA WriteBackOnce ==
    ASSUME GInv, SInv, NEW w \in Worker, WriteBack(w)
    PROVE  SInv'
<1>1. PICK q, data : /\ q = request[w] /\ q # None /\ q.step = "poll"
                     /\ data = q.data
  BY DEF WriteBack, Idle
<1>2. /\ Stored(q.credential, data)
      /\ UNCHANGED <<setting, codes, tokens, granted, spent>>
  BY <1>1 DEF WriteBack
<1>3. /\ SpentGranted' /\ SpentGone' /\ CodesNamed'
      /\ TokensSpent' /\ OneRefreshToken'
      /\ \A v \in Worker \ {w} : \A p : p = request[v] /\ p # None => Once(p)'
  BY <1>1, <1>2, StoredOnce
<1>4. CASE data.answer = "confirm"
  <2>1. PICK r : r = [step |-> "take", credential |-> q.credential,
                      asked |-> q.asked, again |-> q.again,
                      grant |-> GrantOf(q.credential, data)]
    OBVIOUS
  <2>2. Start(w, r)
    BY <1>1, <1>4, <2>1 DEF WriteBack
  <2>3. Once(q)
    BY <1>1, HeldOnce
  <2>4. r.grant.from = q.credential
    BY <2>1 DEF GrantOf
  <2>5. OfSource(r)'
    BY <1>1, <2>1, <2>3, <2>4 DEF Once, OfSource, Named, Source
  <2>6. First(r)'
    BY <1>1, <1>2, <2>1, <2>3 DEF Once, First
  <2>7. EntryGone(r)' /\ OnlyRefresh(r)'
    BY <2>1 DEF EntryGone, OnlyRefresh
  <2>8. ASSUME NEW v \in Worker \ {w}, NEW p, p = request[v], p # None
        PROVE  Separate(p, r) /\ Separate(r, p)
    <3>1. Separate(p, q) /\ Separate(q, p)
      BY <1>1, <2>8 DEF SInv, RequestsSeparate, Idle
    <3> QED
      BY <2>1, <3>1 DEF Separate
  <2>9. RequestsOnce' /\ RequestsSeparate'
    BY <1>2, <1>3, <2>2, <2>5, <2>6, <2>7, <2>8, OnceKept DEF Once
  <2> QED
    BY <1>3, <2>9 DEF SInv
<1>5. CASE data.answer # "confirm"
  <2>1. Start(w, None)
    BY <1>1, <1>5 DEF WriteBack, Finish, Start
  <2>2. RequestsOnce' /\ RequestsSeparate'
    BY <1>2, <1>3, <2>1, OnceKept
  <2> QED
    BY <1>3, <2>2 DEF SInv
<1> QED
  BY <1>4, <1>5

LEMMA RecordOnce ==
    ASSUME GInv, SInv, NEW w \in Worker, Record(w)
    PROVE  SInv'
<1>1. PICK q, data : /\ q = request[w] /\ q # None /\ q.step = "answer"
                     /\ data = q.data
  BY DEF Record, Idle
<1>2. /\ Stored(q.credential, data) /\ granted \subseteq granted'
      /\ UNCHANGED <<setting, codes, tokens, spent>>
  BY <1>1 DEF Record
<1>3. /\ SpentGranted' /\ SpentGone' /\ CodesNamed'
      /\ TokensSpent' /\ OneRefreshToken'
      /\ \A v \in Worker \ {w} : \A p : p = request[v] /\ p # None => Once(p)'
  BY <1>1, <1>2, StoredOnce
<1>4. Start(w, None)
  BY DEF Record, Finish, Start
<1>5. RequestsOnce' /\ RequestsSeparate'
  BY <1>2, <1>3, <1>4, OnceKept
<1> QED
  BY <1>3, <1>5 DEF SInv

(* A code is made that was never granted, so that nothing knows it. *)
LEMMA IssuedOnce ==
    ASSUME GInv, SInv, NEW c \in Code, NEW g, New(c), g.from = c, Issued(c, g)
    PROVE  SInv'
<1>1. /\ granted' = granted \cup {g}
      /\ codes' = [codes EXCEPT ![c] = g]
      /\ UNCHANGED <<setting, devices, tokens, request, spent>>
  BY DEF Issued
<1>2. c \notin spent
  BY DEF New, SInv, SpentGranted
<1>3. SpentGranted' /\ SpentGone' /\ CodesNamed'
  BY <1>1, <1>2
  DEF GInv, Domains, SInv, SpentGranted, SpentGone, CodesNamed
<1>4. TokensSpent' /\ OneRefreshToken'
  BY <1>1 DEF SInv, TokensSpent, OneRefreshToken, RefreshTokens
<1>5. ASSUME NEW v \in Worker, NEW q, q = request[v], q # None
      PROVE  Once(q)'
  <2>1. Once(q)
    BY <1>5, HeldOnce
  <2>2. q.step = "issue" => q.credential # c
    BY <1>5, <2>1 DEF GInv, RequestsGranted, RequestGranted, HoldsGrant, Idle,
                      Once, OfSource, Named, New
  <2>3. EntryGone(q)'
    BY <1>1, <2>1, <2>2 DEF Once, EntryGone, GInv, Domains
  <2>4. OfSource(q)' /\ First(q)' /\ OnlyRefresh(q)'
    BY <1>1, <2>1 DEF Once, OfSource, Named, First, OnlyRefresh, RefreshTokens
  <2> QED
    BY <2>3, <2>4 DEF Once
<1>6. RequestsOnce' /\ RequestsSeparate'
  BY <1>1, <1>5, OnceSame
<1> QED
  BY <1>3, <1>4, <1>6 DEF SInv

LEMMA AuthorizeOnce ==
    ASSUME GInv, SInv, NEW u, NEW k, NEW c \in Code,
           Authorize(u, k, c) \/ AuthorizeSilently(u, k, c)
    PROVE  SInv'
<1>1. PICK g : g.from = c /\ Issued(c, g)
  <2>1. CASE Authorize(u, k, c)
    <3>1. PICK wish \in Wish :
            Issued(c, [from |-> c, user |-> u, client |-> k,
                       scopes |-> wish.scopes, resources |-> wish.resources,
                       silent |-> FALSE])
      BY <2>1 DEF Authorize
    <3> QED
      BY <3>1
  <2>2. CASE AuthorizeSilently(u, k, c)
    <3>1. PICK wish \in Wish :
            Issued(c, [from |-> c, user |-> u, client |-> k,
                       scopes |-> wish.scopes, resources |-> {},
                       silent |-> TRUE])
      BY <2>2 DEF AuthorizeSilently
    <3> QED
      BY <3>1
  <2> QED
    BY <2>1, <2>2
<1>2. New(c)
  BY DEF Authorize, AuthorizeSilently
<1> QED
  BY <1>1, <1>2, IssuedOnce

LEMMA RequestDeviceOnce ==
    ASSUME GInv, SInv, NEW k, NEW d \in Device, RequestDevice(k, d)
    PROVE  SInv'
<1>1. /\ UNCHANGED <<setting, codes, tokens, request, granted, spent>>
      /\ \A e \in Device : e # d => devices'[e] = devices[e]
  BY DEF RequestDevice, GInv, Domains
<1>2. d \notin spent
  BY DEF RequestDevice, New, SInv, SpentGranted
<1>3. SpentGranted' /\ SpentGone' /\ CodesNamed'
  BY <1>1, <1>2 DEF SInv, SpentGranted, SpentGone, CodesNamed
<1>4. TokensSpent' /\ OneRefreshToken'
  BY <1>1 DEF SInv, TokensSpent, OneRefreshToken, RefreshTokens
<1>5. ASSUME NEW v \in Worker, NEW q, q = request[v], q # None
      PROVE  Once(q)'
  <2>1. Once(q)
    BY <1>5, HeldOnce
  <2>2. q.step = "issue" => q.credential # d
    BY <1>5, <2>1 DEF GInv, RequestsGranted, RequestGranted, HoldsGrant, Idle,
                      Once, OfSource, Named, New, RequestDevice
  <2>3. EntryGone(q)'
    BY <1>1, <2>1, <2>2 DEF Once, EntryGone
  <2>4. OfSource(q)' /\ First(q)' /\ OnlyRefresh(q)'
    BY <1>1, <2>1 DEF Once, OfSource, Named, First, OnlyRefresh, RefreshTokens
  <2> QED
    BY <2>3, <2>4 DEF Once
<1>6. RequestsOnce' /\ RequestsSeparate'
  BY <1>1, <1>5, OnceSame
<1> QED
  BY <1>3, <1>4, <1>6 DEF SInv

(* A pair has one refresh token. *)
LEMMA PairTokens ==
    ASSUME NEW g, NEW scopes, NEW asked
    PROVE  /\ Access(g, scopes, asked).from = g.from
           /\ Access(g, scopes, asked).kind # "refresh"
           /\ \A t \in Pair(g, scopes, asked) : t.from = g.from
           /\ \A s, t \in Pair(g, scopes, asked) :
                s.kind = "refresh" /\ t.kind = "refresh" => s = t
BY DEF Pair, Access, Token

LEMMA IssueOnce ==
    ASSUME GInv, SInv, NEW w \in Worker, Issue(w)
    PROVE  SInv'
<1>1. PICK q, g, c : /\ q = request[w] /\ q # None /\ q.step = "issue"
                     /\ g = q.grant /\ c = g.from
  BY DEF Issue, Idle
<1>2. PICK new : new = Pair(g, g.scopes, q.asked)
  OBVIOUS
<1>3. /\ tokens' = tokens \cup new /\ spent' = spent \cup {c}
      /\ UNCHANGED <<setting, codes, devices, granted>>
      /\ Start(w, None)
  BY <1>1, <1>2 DEF Issue, Finish, Start
<1>4. /\ \A t \in new : t.from = c
      /\ \A s, t \in new : s.kind = "refresh" /\ t.kind = "refresh" => s = t
  BY <1>1, <1>2, PairTokens
<1>5. Once(q) /\ c = q.credential /\ g \in granted
  BY <1>1, HeldOnce DEF Once, OfSource, Named,
     GInv, RequestsGranted, RequestGranted, HoldsGrant, Idle
<1>6. SpentGranted' /\ SpentGone'
  BY <1>1, <1>3, <1>5 DEF SInv, SpentGranted, SpentGone, Once, EntryGone
<1>7. CodesNamed' /\ TokensSpent'
  BY <1>3, <1>4 DEF SInv, CodesNamed, TokensSpent
<1>8. ~setting.overlap => c \notin spent
  BY <1>1, <1>5 DEF Once, First
<1>9. OneRefreshToken'
  BY <1>3, <1>4, <1>8 DEF SInv, OneRefreshToken, RefreshTokens, TokensSpent
<1>10. ASSUME NEW v \in Worker \ {w}, NEW p, p = request[v], p # None
       PROVE  Once(p)'
  <2>1. Once(p)
    BY <1>10, HeldOnce
  <2>2. ~setting.overlap => p.credential # c
    BY <1>1, <1>5, <1>10 DEF SInv, RequestsSeparate, Separate, Idle
  <2>3. First(p)'
    BY <1>3, <2>1, <2>2 DEF Once, First
  <2>4. OnlyRefresh(p)'
    BY <1>3, <1>4, <1>8, <2>1 DEF Once, OnlyRefresh, RefreshTokens
  <2>5. OfSource(p)' /\ EntryGone(p)'
    BY <1>3, <2>1 DEF Once, OfSource, Named, EntryGone
  <2> QED
    BY <2>3, <2>4, <2>5 DEF Once
<1>11. RequestsOnce' /\ RequestsSeparate'
  BY <1>3, <1>10, OnceKept
<1> QED
  BY <1>6, <1>7, <1>9, <1>11 DEF SInv

LEMMA RenewOnce ==
    ASSUME GInv, SInv, NEW w \in Worker, Renew(w)
    PROVE  SInv'
<1>1. PICK q, t : /\ q = request[w] /\ q # None /\ q.step = "refresh"
                  /\ t = q.credential
  BY DEF Renew, Idle
<1>2. /\ UNCHANGED <<setting, codes, devices, granted, spent>>
      /\ Start(w, None)
  BY DEF Renew, Finish, Start
<1>3. PICK pair, access : /\ pair = Pair(t, q.scopes, q.asked)
                          /\ access = Access(t, q.scopes, q.asked)
  OBVIOUS
<1>4. /\ access.from = t.from /\ access.kind # "refresh"
      /\ \A n \in pair : n.from = t.from
      /\ \A m, n \in pair : m.kind = "refresh" /\ n.kind = "refresh" => m = n
  BY <1>3, PairTokens
<1>5. \/ tokens' = (tokens \ {t}) \cup pair
      \/ tokens' = tokens \ {t}
      \/ tokens' = tokens \cup {access}
      \/ tokens' = tokens
  BY <1>1, <1>3 DEF Renew, OldDropped
<1>6. Once(q)
  BY <1>1, HeldOnce
<1>7. /\ t.from \in spent
      /\ ~setting.overlap => \A s \in RefreshTokens : s.from = t.from => s = t
  BY <1>1, <1>6 DEF Once, OnlyRefresh
<1>8. SpentGranted' /\ SpentGone' /\ CodesNamed'
  BY <1>2 DEF SInv, SpentGranted, SpentGone, CodesNamed
<1>9. TokensSpent'
  BY <1>2, <1>4, <1>5, <1>7 DEF SInv, TokensSpent
<1>10. OneRefreshToken'
  BY <1>2, <1>4, <1>5, <1>7 DEF SInv, OneRefreshToken, RefreshTokens
<1>11. ASSUME NEW v \in Worker \ {w}, NEW p, p = request[v], p # None
       PROVE  Once(p)'
  <2>1. Once(p)
    BY <1>11, HeldOnce
  <2>2. ~setting.overlap /\ p.step = "refresh" => p.credential.from # t.from
    BY <1>1, <1>11 DEF SInv, RequestsSeparate, Separate, Idle
  <2>3. OnlyRefresh(p)'
    BY <1>2, <1>4, <1>5, <2>1, <2>2 DEF Once, OnlyRefresh, RefreshTokens
  <2>4. OfSource(p)' /\ EntryGone(p)' /\ First(p)'
    BY <1>2, <2>1 DEF Once, OfSource, Named, EntryGone, First
  <2> QED
    BY <2>3, <2>4 DEF Once
<1>12. RequestsOnce' /\ RequestsSeparate'
  BY <1>2, <1>11, OnceKept
<1> QED
  BY <1>8, <1>9, <1>10, <1>12 DEF SInv

LEMMA SInvStep == GInv /\ SInv /\ [Next]_vars => SInv'
<1> SUFFICES ASSUME GInv, SInv, [Next]_vars PROVE SInv'
  OBVIOUS
<1>1. ASSUME NEW u \in User, NEW k \in Client, NEW c \in Code,
             Authorize(u, k, c) \/ AuthorizeSilently(u, k, c)
      PROVE  SInv'
  BY <1>1, AuthorizeOnce
<1>2. ASSUME NEW s \in Source, Lapse(s) PROVE SInv'
  <2>1. Shrinks
    BY <1>2 DEF Lapse, Shrinks
  <2> QED
    BY <1>2, <2>1, IdleStep DEF Lapse
<1>3. ASSUME NEW k \in Client, NEW d \in Device, RequestDevice(k, d) PROVE SInv'
  BY <1>3, RequestDeviceOnce
<1>4. ASSUME NEW w \in Worker, NEW k \in Client, NEW asked \in Target,
             \/ \E c \in Code : Exchange(w, k, c, asked)
             \/ \E d \in Device : Poll(w, k, d, asked)
             \/ \E t \in RefreshTokens : Refresh(w, k, t, asked)
      PROVE  SInv'
  BY <1>4, ExchangeOnce, PollOnce, RefreshOnce
<1>5. ASSUME NEW w \in Worker, NEW u \in User, NEW d \in Device,
             NEW answer \in {"confirm", "deny"}, Answer(w, u, d, answer)
      PROVE  SInv'
  BY <1>5, AnswerOnce
<1>6. ASSUME NEW w \in Worker, Proceed(w) PROVE SInv'
  BY <1>6, IssueOnce, RedeemOnce, RecordOnce, WriteBackOnce, TakeOnce, RenewOnce
  DEF Proceed
<1>7. ASSUME NEW w \in Worker, Crash(w) PROVE SInv'
  BY <1>7, EndingStep DEF Crash, Shrinks
<1>8. ASSUME NEW t \in tokens, Revoke(t) PROVE SInv'
  BY <1>8, IdleStep DEF Revoke, Shrinks
<1>9. ASSUME NEW u \in User, NEW k \in Client, Logout(u, k) PROVE SInv'
  <2>1. Shrinks
    BY <1>9 DEF Logout, Shrinks
  <2> QED
    BY <1>9, <2>1, IdleStep DEF Logout
<1>10. CASE UNCHANGED vars
  BY <1>10, IdleStep DEF vars, Shrinks
<1> QED
  BY <1>1, <1>2, <1>3, <1>4, <1>5, <1>6, <1>7, <1>8, <1>9, <1>10 DEF Next

(* A spent credential has no entry, and a request holds one that was not   *)
(* spent when it was read.                                                 *)
THEOREM OnceInvariance == Spec => []SInv
<1> QED
  BY GInvInit, GInvStep, SInvInit, SInvStep, PTL DEF Spec

(* An authorization code gives no tokens to a request that comes after     *)
(* some were made, though requests overlap and are killed; neither does a  *)
(* device code, unless they overlap (invalidate, poll_device_code).        *)
THEOREM SpentStaysSpentHolds == Spec => []SpentStaysSpent
<1>1. SInv => SpentStaysSpent
  BY DEF SInv, RequestsOnce, Once, First, SpentStaysSpent
<1> QED
  BY <1>1, OnceInvariance, PTL

(* Rotations, revocations and failures never leave a grant with a second   *)
(* refresh token, unless requests overlap (_prep_refresh_token).           *)
THEOREM OneRefreshTokenHolds == Spec => []OneRefreshToken
<1>1. SInv => OneRefreshToken
  BY DEF SInv
<1> QED
  BY <1>1, OnceInvariance, PTL

(* Answers.  Where requests of one device do not overlap, a poll holds the *)
(* entry as it is, and an answer one that has none; an entry that went     *)
(* meanwhile has expired, so that the device's code is not used anew.      *)
Current(r) ==
    ~setting.overlap /\ r.step \in {"poll", "answer"} =>
        LET d == r.credential
        IN  /\ devices[d] = None => d \in lapsed
            /\ r.step = "poll" => devices[d] \in {None, r.data}
            /\ r.step = "answer" /\ devices[d] # None => devices[d].answer = None

RequestsCurrent == \A w \in Worker : ~Idle(w) => Current(request[w])

LEMMA CurrentInit == Init => RequestsCurrent
BY DEF Init, RequestsCurrent, Idle

(* A request starts, goes on or ends, and those that hold a device that    *)
(* changes are none of the others.                                         *)
LEMMA CurrentKept ==
    ASSUME GInv, RequestsCurrent, UNCHANGED setting, lapsed \subseteq lapsed',
           NEW w \in Worker, NEW r, Start(w, r), r # None => Current(r)',
           \A v \in Worker \ {w} : \A q :
              q = request[v] /\ q # None /\ q.step \in {"poll", "answer"}
                /\ ~setting.overlap =>
                  devices'[q.credential] = devices[q.credential]
    PROVE  RequestsCurrent'
<1>1. /\ request'[w] = r
      /\ \A v \in Worker \ {w} : request'[v] = request[v]
  BY StartEffect DEF GInv
<1>2. ASSUME NEW v \in Worker, NEW q, q = request'[v], q # None
      PROVE  Current(q)'
  <2>1. CASE v = w
    BY <1>1, <1>2, <2>1
  <2>2. CASE v # w
    <3>1. Current(q) /\ q = request[v]
      BY <1>1, <1>2, <2>2 DEF RequestsCurrent, Idle
    <3> QED
      BY <1>2, <2>2, <3>1 DEF Current
  <2> QED
    BY <2>1, <2>2
<1> QED
  BY <1>2 DEF RequestsCurrent, Idle

(* The device that a request of its own changes. *)
LEMMA OthersElsewhere ==
    ASSUME SInv, NEW w \in Worker, request[w] # None,
           \A d \in Device : d # request[w].credential => devices'[d] = devices[d]
    PROVE  \A v \in Worker \ {w} : \A q :
             q = request[v] /\ q # None /\ q.step \in {"poll", "answer"}
               /\ ~setting.overlap =>
                 devices'[q.credential] = devices[q.credential]
<1> SUFFICES ASSUME NEW v \in Worker \ {w}, NEW q, q = request[v], q # None,
                    q.step \in {"poll", "answer"}, ~setting.overlap
             PROVE  devices'[q.credential] = devices[q.credential]
  OBVIOUS
<1>1. q.credential \in Device
  BY HeldOnce DEF Once, OfSource
<1>2. q.credential # request[w].credential
  BY DEF SInv, RequestsSeparate, Separate, Idle
<1> QED
  BY <1>1, <1>2

LEMMA CurrentQuiet ==
    ASSUME GInv, RequestsCurrent, UNCHANGED <<setting, devices, lapsed>>,
           \/ UNCHANGED request
           \/ \E w \in Worker : Finish(w)
           \/ \E w \in Worker : \E r :
                Start(w, r) /\ r.step \notin {"poll", "answer"}
    PROVE  RequestsCurrent'
<1>1. CASE UNCHANGED request
  BY <1>1 DEF RequestsCurrent, Current, Idle
<1>2. CASE \E w \in Worker : Finish(w)
  <2>1. PICK w \in Worker : Start(w, None)
    BY <1>2 DEF Finish, Start
  <2> QED
    BY <2>1, CurrentKept
<1>3. CASE \E w \in Worker : \E r :
             Start(w, r) /\ r.step \notin {"poll", "answer"}
  <2>1. PICK w \in Worker :
          \E r : Start(w, r) /\ r.step \notin {"poll", "answer"}
    BY <1>3
  <2> PICK r : Start(w, r) /\ r.step \notin {"poll", "answer"}
    BY <2>1
  <2>2. Current(r)'
    BY DEF Current
  <2> QED
    BY <2>2, CurrentKept
<1> QED
  BY <1>1, <1>2, <1>3

LEMMA CurrentStep ==
    GInv /\ SInv /\ RequestsCurrent /\ [Next]_vars => RequestsCurrent'
<1> SUFFICES ASSUME GInv, SInv, RequestsCurrent, [Next]_vars
             PROVE  RequestsCurrent'
  OBVIOUS
<1>1. ASSUME NEW u \in User, NEW k \in Client, NEW c \in Code,
             Authorize(u, k, c) \/ AuthorizeSilently(u, k, c)
      PROVE  RequestsCurrent'
  <2>1. UNCHANGED <<setting, devices, lapsed, request>>
    BY <1>1 DEF Authorize, AuthorizeSilently, Issued
  <2> QED
    BY <2>1, CurrentQuiet
<1>2. ASSUME NEW s \in Source, Lapse(s) PROVE RequestsCurrent'
  <2>1. /\ UNCHANGED <<setting, request>> /\ lapsed' = lapsed \cup {s}
        /\ \A d \in Device : devices'[d] = IF d = s THEN None ELSE devices[d]
    BY <1>2 DEF Lapse
  <2>2. ASSUME NEW w \in Worker, NEW q, q = request[w], q # None
        PROVE  Current(q)'
    <3>1. Current(q) /\ Once(q)
      BY <2>2, HeldOnce DEF RequestsCurrent, Idle
    <3> QED
      BY <2>1, <3>1 DEF Current, Once, OfSource
  <2> QED
    BY <2>1, <2>2 DEF RequestsCurrent, Idle
<1>3. ASSUME NEW k \in Client, NEW d \in Device, RequestDevice(k, d)
      PROVE  RequestsCurrent'
  <2>1. /\ UNCHANGED <<setting, request, lapsed>>
        /\ devices[d] = None /\ d \notin lapsed
        /\ \A e \in Device : e # d => devices'[e] = devices[e]
    BY <1>3 DEF RequestDevice, New, GInv, Domains
  <2>2. ASSUME NEW w \in Worker, NEW q, q = request[w], q # None
        PROVE  Current(q)'
    <3>1. Current(q) /\ Once(q)
      BY <2>2, HeldOnce DEF RequestsCurrent, Idle
    <3> QED
      BY <2>1, <3>1 DEF Current, Once, OfSource
  <2> QED
    BY <2>1, <2>2 DEF RequestsCurrent, Idle
<1>4. ASSUME NEW w \in Worker, NEW k \in Client, NEW asked \in Target
      PROVE  /\ \A c \in Code : Exchange(w, k, c, asked) => RequestsCurrent'
             /\ \A t \in RefreshTokens : Refresh(w, k, t, asked) => RequestsCurrent'
  <2>1. ASSUME NEW c \in Code, Exchange(w, k, c, asked)
        PROVE  RequestsCurrent'
    <3>1. PICK r : r = [step |-> "exchange", credential |-> c, asked |-> asked,
                        grant |-> codes[c], again |-> c \in spent]
      OBVIOUS
    <3>2. /\ Start(w, r) /\ r.step \notin {"poll", "answer"}
          /\ UNCHANGED <<setting, devices, lapsed>>
      BY <2>1, <3>1 DEF Exchange
    <3> QED
      BY <3>2, CurrentQuiet
  <2>2. ASSUME NEW t \in RefreshTokens, Refresh(w, k, t, asked)
        PROVE  RequestsCurrent'
    <3>1. PICK scopes : Start(w, [step |-> "refresh", credential |-> t,
                                  asked |-> asked, scopes |-> scopes])
      BY <2>2 DEF Refresh
    <3>2. PICK r : r = [step |-> "refresh", credential |-> t, asked |-> asked,
                        scopes |-> scopes]
      OBVIOUS
    <3>3. /\ Start(w, r) /\ r.step \notin {"poll", "answer"}
          /\ UNCHANGED <<setting, devices, lapsed>>
      BY <2>2, <3>1, <3>2 DEF Refresh
    <3> QED
      BY <3>3, CurrentQuiet
  <2> QED
    BY <2>1, <2>2
<1>5. ASSUME NEW w \in Worker, NEW k \in Client, NEW d \in Device,
             NEW asked \in Target, Poll(w, k, d, asked)
      PROVE  RequestsCurrent'
  <2>1. PICK r : r = [step |-> "poll", credential |-> d, asked |-> asked,
                      data |-> devices[d], again |-> d \in spent]
    OBVIOUS
  <2>2. Start(w, r) /\ UNCHANGED <<setting, devices, lapsed>> /\ devices[d] # None
    BY <1>5, <2>1 DEF Poll
  <2>3. Current(r)'
    BY <2>1, <2>2 DEF Current
  <2> QED
    BY <2>2, <2>3, CurrentKept
<1>6. ASSUME NEW w \in Worker, NEW u \in User, NEW d \in Device,
             NEW answer \in {"confirm", "deny"}, Answer(w, u, d, answer)
      PROVE  RequestsCurrent'
  <2>1. PICK r : r = [step |-> "answer", credential |-> d,
                      data |-> Answered(d, u, answer)]
    OBVIOUS
  <2>2. /\ Start(w, r) /\ UNCHANGED <<setting, devices, lapsed>>
        /\ devices[d] # None /\ devices[d].answer = None
    BY <1>6, <2>1 DEF Answer, Unanswered
  <2>3. Current(r)'
    BY <2>1, <2>2 DEF Current
  <2> QED
    BY <2>2, <2>3, CurrentKept
<1>7. ASSUME NEW w \in Worker, Issue(w) \/ Renew(w) \/ Crash(w)
      PROVE  RequestsCurrent'
  <2>1. UNCHANGED <<setting, devices, lapsed>> /\ Finish(w)
    BY <1>7 DEF Issue, Renew, Crash
  <2> QED
    BY <2>1, CurrentQuiet
<1>8. ASSUME NEW w \in Worker, NEW r, Start(w, r), request[w] # None,
             UNCHANGED <<setting, lapsed>>,
             r = None \/ r.step \notin {"poll", "answer"},
             \A d \in Device : d # request[w].credential => devices'[d] = devices[d]
      PROVE  RequestsCurrent'
  <2>1. r # None => Current(r)'
    BY <1>8 DEF Current
  <2> QED
    BY <1>8, <2>1, OthersElsewhere, CurrentKept
<1>9. ASSUME NEW w \in Worker, Redeem(w) \/ Record(w) \/ WriteBack(w) \/ Take(w)
      PROVE  RequestsCurrent'
  <2>1. PICK q : q = request[w] /\ q # None
    BY <1>9 DEF Redeem, Record, WriteBack, Take, Idle
  <2>2. /\ UNCHANGED <<setting, lapsed>>
        /\ \A d \in Device : d # q.credential => devices'[d] = devices[d]
    BY <1>9, <2>1 DEF Redeem, Record, WriteBack, Take, Stored, GInv, Domains
  <2>3. \E r : Start(w, r) /\ (r = None \/ r.step \notin {"poll", "answer"})
    <3>1. CASE Finish(w)
      BY <3>1 DEF Finish, Start
    <3>2. CASE WriteBack(w) /\ ~Finish(w)
      <4>1. PICK r : r = [step |-> "take", credential |-> request[w].credential,
                          asked |-> request[w].asked, again |-> request[w].again,
                          grant |-> GrantOf(request[w].credential,
                                            request[w].data)]
        OBVIOUS
      <4>2. Start(w, r)
        BY <3>2, <4>1 DEF WriteBack
      <4> QED
        BY <4>1, <4>2
    <3>3. CASE (Redeem(w) \/ Take(w)) /\ ~Finish(w)
      <4>1. PICK r : r = [q EXCEPT !.step = "issue"]
        OBVIOUS
      <4>2. Start(w, r)
        BY <2>1, <3>3, <4>1 DEF Redeem, Take, Fail
      <4>3. "step" \in DOMAIN q
        BY <2>1, <3>3 DEF Redeem, Take, GInv, RequestsGranted, RequestGranted,
                          HoldsGrant, Idle
      <4> QED
        BY <4>1, <4>2, <4>3
    <3> QED
      BY <1>9, <3>1, <3>2, <3>3 DEF Record
  <2> QED
    BY <1>8, <2>1, <2>2, <2>3
<1>10. ASSUME \/ \E t \in tokens : Revoke(t)
              \/ \E u \in User, k \in Client : Logout(u, k)
              \/ UNCHANGED vars
       PROVE  RequestsCurrent'
  <2>1. UNCHANGED <<setting, devices, lapsed, request>>
    BY <1>10 DEF Revoke, Logout, vars
  <2> QED
    BY <2>1, CurrentQuiet
<1> QED
  BY <1>1, <1>2, <1>3, <1>4, <1>5, <1>6, <1>7, <1>9, <1>10 DEF Next, Proceed

(* Whoever polls and whoever answers again, and whatever expires: what the *)
(* user answered stays, unless requests overlap (update_device_state).     *)
THEOREM AnswerFinalHolds == Spec => AnswerFinal
<1>1. ASSUME GInv, SInv, RequestsCurrent, [Next]_vars,
             NEW d \in Device, ~setting.overlap, devices[d] # None,
             devices[d].answer # None
      PROVE  devices'[d] \in {None, devices[d]}
  <2>1. CASE UNCHANGED devices
    BY <2>1
  <2>2. ASSUME NEW s \in Source, Lapse(s) PROVE devices'[d] \in {None, devices[d]}
    BY <2>2 DEF Lapse
  <2>3. ASSUME NEW k \in Client, NEW e \in Device, RequestDevice(k, e)
        PROVE  devices'[d] \in {None, devices[d]}
    BY <1>1, <2>3 DEF RequestDevice, GInv, Domains
  <2>4. ASSUME NEW w \in Worker, Take(w) PROVE devices'[d] \in {None, devices[d]}
    BY <2>4 DEF Take, GInv, Domains
  <2>5. ASSUME NEW w \in Worker, Record(w) \/ WriteBack(w)
        PROVE  devices'[d] \in {None, devices[d]}
    <3>1. PICK q : /\ q = request[w] /\ q # None
                   /\ q.step \in {"poll", "answer"}
                   /\ Stored(q.credential, q.data)
      BY <2>5 DEF Record, WriteBack, Idle
    <3>2. Current(q)
      BY <1>1, <3>1 DEF RequestsCurrent, Idle
    <3>3. CASE d # q.credential
      BY <1>1, <3>1, <3>3 DEF Stored, GInv, Domains
    <3>4. CASE d = q.credential
      BY <1>1, <3>1, <3>2, <3>4 DEF Current, Stored, GInv, Domains
    <3> QED
      BY <3>3, <3>4
  <2>6. \/ UNCHANGED devices
        \/ \E s \in Source : Lapse(s)
        \/ \E k \in Client, e \in Device : RequestDevice(k, e)
        \/ \E w \in Worker : Take(w) \/ Record(w) \/ WriteBack(w)
    BY <1>1 DEF Next, vars, Authorize, AuthorizeSilently, Issued, Exchange, Poll,
       Refresh, Answer, Proceed, Issue, Redeem, Renew, Crash, Revoke, Logout
  <2> QED
    BY <2>1, <2>2, <2>3, <2>4, <2>5, <2>6
<1>2. GInv /\ SInv /\ RequestsCurrent /\ [Next]_vars =>
        [\A d \in Device :
            ~setting.overlap /\ devices[d] # None /\ devices[d].answer # None =>
                devices'[d] \in {None, devices[d]}]_vars
  BY <1>1
<1>3. Spec => []RequestsCurrent
  BY CurrentInit, CurrentStep, GInvInit, GInvStep, SInvInit, SInvStep, PTL DEF Spec
<1> QED
  BY <1>2, <1>3, GrantInvariance, OnceInvariance, PTL DEF Spec, AnswerFinal
=============================================================================
