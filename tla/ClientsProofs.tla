--------------------------- MODULE ClientsProofs ---------------------------
(***************************************************************************)
(* Whatever the timeouts, the documents and the number of workers: clients *)
(* that are used are recent, and browsers are sent where a client is at    *)
(* home.                                                                   *)
(*                                                                         *)
(* The first rests on ages.  updated_at is set after the document was      *)
(* served, by no more than LongestFetch, and from then on both ages go up  *)
(* together, in a worker's hands as in the row, until the row is outdated. *)
(* The second rests on what the form and a request that was answered have, *)
(* and on clean(), which every client has passed whose stars match.        *)
(***************************************************************************)
EXTENDS Clients, TLAPS

(* The document is no older than the row says, and one fetch. *)
Honest(r) ==
    /\ r.age \in Nat /\ r.seen \in Nat
    /\ r.age <= OldRow
    /\ r.age <= CacheTimeout => r.seen <= r.age + LongestFetch

Row(r) ==
    /\ r = [client |-> r.client, age |-> r.age, seen |-> r.seen]
    /\ Honest(r)

Fetching(r) ==
    /\ r = [step |-> "fetching", client |-> r.client, took |-> r.took]
    /\ r.took \in Nat /\ r.took <= LongestFetch

Delivered(r) ==
    /\ r = [step |-> "delivered", client |-> r.client, took |-> r.took,
            document |-> r.document, seen |-> r.seen]
    /\ r.took \in Nat /\ r.seen \in Nat
    /\ r.seen <= r.took /\ r.took <= LongestFetch

Validated(r) ==
    /\ r = [step |-> "validated", client |-> r.client, document |-> r.document,
            age |-> r.age, seen |-> r.seen, since |-> r.since]
    /\ Honest(r)
    /\ r.since <= CacheTimeout + LongestFetch

InStep(r) ==
    /\ r.step = "fetching" => Fetching(r)
    /\ r.step = "delivered" => Delivered(r)
    /\ r.step = "validated" => Validated(r)
    /\ r.step = "found" => r.since <= CacheTimeout + LongestFetch

Ages ==
    /\ row # None => Row(row)
    /\ DOMAIN request = Worker /\ request = [w \in Worker |-> request[w]]
    /\ \A w \in Worker : InStep(request[w])

(* A worker that goes on to something allowed leaves the others alone. *)
LEMMA StartKeeps ==
    ASSUME Ages, NEW w \in Worker, NEW r, Start(w, r), InStep(r)
    PROVE  /\ DOMAIN request' = Worker /\ request' = [v \in Worker |-> request'[v]]
           /\ \A v \in Worker : InStep(request'[v])
<1>1. request' = [v \in Worker |-> IF v = w THEN r ELSE request[v]]
  BY DEF Start, Ages
<1>2. \A v \in Worker : request'[v] = r \/ request'[v] = request[v]
  BY <1>1
<1>. QED
  BY <1>1, <1>2 DEF Ages

(* The steps that change neither the row nor anybody else's request. *)
LEMMA StartKeepsAges ==
    ASSUME Ages, NEW w \in Worker, NEW r, Start(w, r), InStep(r), UNCHANGED row
    PROVE  Ages'
BY StartKeeps DEF Ages, Row, Honest, OldRow

LEMMA FallBackKeepsAges ==
    ASSUME Ages, NEW w \in Worker, FallBack(w), UNCHANGED row
    PROVE  Ages'
<1>1. InStep(Idle)
  BY DEF InStep, Idle
<1>2. InStep(Found("document", request[w].client, 0))
  BY TimeAssumption DEF InStep, Found
<1>3. Start(w, Idle) \/ Start(w, Found("document", request[w].client, 0))
  BY DEF FallBack
<1>. QED
  BY <1>1, <1>2, <1>3, StartKeepsAges

(* A tick, for one request and for the row. *)
LEMMA OlderIsHonest ==
    ASSUME NEW age \in Nat, NEW seen \in Nat, NEW older \in Nat, NEW oldest \in Nat,
           age <= OldRow,
           age <= CacheTimeout => seen <= age + LongestFetch,
           older = Older(age, OldRow), oldest = Older(seen, OldDocument)
    PROVE  /\ older <= OldRow
           /\ older <= CacheTimeout => oldest <= older + LongestFetch
BY TimeAssumption DEF Older, OldRow, OldDocument

LEMMA OlderIsNat ==
    ASSUME NEW age \in Nat, NEW limit
    PROVE  Older(age, limit) \in Nat
BY DEF Older

LEMMA RowAges ==
    ASSUME NEW r, Row(r), NEW s,
           s = [r EXCEPT !.age = Older(@, OldRow), !.seen = Older(@, OldDocument)]
    PROVE  Row(s)
<1>1. s = [client |-> r.client, age |-> Older(r.age, OldRow),
           seen |-> Older(r.seen, OldDocument)]
  BY DEF Row
<1>2. /\ s = [client |-> s.client, age |-> s.age, seen |-> s.seen]
      /\ s.age = Older(r.age, OldRow) /\ s.seen = Older(r.seen, OldDocument)
  BY <1>1
<1>3. s.age \in Nat /\ s.seen \in Nat
  BY <1>2, OlderIsNat DEF Row, Honest
<1>4. Honest(s)
  BY <1>2, <1>3, OlderIsHonest, TimeAssumption DEF Row, Honest
<1>. QED
  BY <1>2, <1>4 DEF Row

(* Both ages of a validated request change at once. *)
LEMMA WithAges ==
    ASSUME NEW r, NEW age, NEW seen,
           r = [step |-> r.step, client |-> r.client, document |-> r.document,
                age |-> r.age, seen |-> r.seen, since |-> r.since]
    PROVE  [r EXCEPT !.age = age, !.seen = seen]
             = [step |-> r.step, client |-> r.client, document |-> r.document,
                age |-> age, seen |-> seen, since |-> r.since]
<1>. DEFINE s == [step |-> r.step, client |-> r.client, document |-> r.document,
                  age |-> age, seen |-> r.seen, since |-> r.since]
<1>1. [r EXCEPT !.age = age] = s
  OBVIOUS
<1>2. [r EXCEPT !.age = age, !.seen = seen]
        = [[r EXCEPT !.age = age] EXCEPT !.seen = seen]
  OBVIOUS
<1>3. [s EXCEPT !.seen = seen]
        = [step |-> r.step, client |-> r.client, document |-> r.document,
           age |-> age, seen |-> seen, since |-> r.since]
  OBVIOUS
<1>. QED
  BY <1>1, <1>2, <1>3

LEMMA RequestAges ==
    ASSUME NEW r, InStep(r),
           r.step = "fetching" \/ r.step = "delivered" => r.took < LongestFetch
    PROVE  InStep(Aged(r))
<1>1. CASE r.step = "fetching"
  <2>1. Fetching(r)
    BY <1>1 DEF InStep
  <2>2. Aged(r) = [step |-> "fetching", client |-> r.client, took |-> r.took + 1]
    BY <1>1, <2>1 DEF Aged, Fetching
  <2>. QED
    BY <1>1, <2>1, <2>2, TimeAssumption DEF InStep, Fetching
<1>2. CASE r.step = "delivered"
  <2>1. Delivered(r)
    BY <1>2 DEF InStep
  <2>2. Aged(r) = [step |-> "delivered", client |-> r.client, took |-> r.took + 1,
                   document |-> r.document, seen |-> r.seen + 1]
    BY <1>2, <2>1 DEF Aged, Delivered
  <2>. QED
    BY <1>2, <2>1, <2>2, TimeAssumption DEF InStep, Delivered
<1>3. CASE r.step = "validated"
  <2>1. Validated(r)
    BY <1>3 DEF InStep
  <2>2. Aged(r) = [r EXCEPT !.age = Older(@, OldRow), !.seen = Older(@, OldDocument)]
    BY <1>3 DEF Aged
  <2>3. [r EXCEPT !.age = Older(@, OldRow), !.seen = Older(@, OldDocument)]
          = [step |-> "validated", client |-> r.client,
             document |-> r.document, age |-> Older(r.age, OldRow),
             seen |-> Older(r.seen, OldDocument), since |-> r.since]
    <3>1. r = [step |-> r.step, client |-> r.client, document |-> r.document,
               age |-> r.age, seen |-> r.seen, since |-> r.since]
      BY <1>3, <2>1 DEF Validated
    <3>2. [r EXCEPT !.age = Older(r.age, OldRow),
                    !.seen = Older(r.seen, OldDocument)]
            = [step |-> r.step, client |-> r.client, document |-> r.document,
               age |-> Older(r.age, OldRow),
               seen |-> Older(r.seen, OldDocument), since |-> r.since]
      BY <3>1, WithAges
    <3>. QED
      BY <1>3, <3>2
  <2>4. /\ Aged(r).age = Older(r.age, OldRow)
        /\ Aged(r).seen = Older(r.seen, OldDocument)
        /\ Aged(r).since = r.since
        /\ Aged(r).step = "validated"
        /\ Aged(r) = [step |-> "validated", client |-> Aged(r).client,
                      document |-> Aged(r).document, age |-> Aged(r).age,
                      seen |-> Aged(r).seen, since |-> Aged(r).since]
    BY <2>2, <2>3
  <2>5. Aged(r).age \in Nat /\ Aged(r).seen \in Nat
    BY <2>1, <2>4, OlderIsNat DEF Validated, Honest
  <2>6. Honest(Aged(r))
    BY <2>1, <2>4, <2>5, OlderIsHonest, TimeAssumption DEF Validated, Honest
  <2>. QED
    BY <2>1, <2>4, <2>6 DEF InStep, Validated
<1>4. CASE r.step \notin {"fetching", "delivered", "validated"}
  <2>1. Aged(r) = r
    BY <1>4 DEF Aged
  <2>. QED
    BY <2>1
<1>. QED
  BY <1>1, <1>2, <1>3, <1>4

LEMMA LookupKeepsAges ==
    ASSUME Ages, NEW w \in Worker, Lookup(w)
    PROVE  Ages'
<1>1. CASE row # None /\ ~Outdated(row)
  <2>1. Start(w, Found("document", row.client, row.seen))
    BY <1>1 DEF Lookup
  <2>2. InStep(Found("document", row.client, row.seen))
    BY <1>1, TimeAssumption DEF InStep, Found, Ages, Row, Honest, Outdated
  <2>. QED
    BY <2>1, <2>2, StartKeepsAges DEF Lookup
<1>2. CASE ~(row # None /\ ~Outdated(row))
  <2>. DEFINE r == [step |-> "outdated",
                    client |-> IF row = None THEN None ELSE row.client]
  <2>1. Start(w, r)
    BY <1>2 DEF Lookup
  <2>2. InStep(r)
    BY DEF InStep
  <2>. QED
    BY <2>1, <2>2, StartKeepsAges DEF Lookup
<1>. QED
  BY <1>1, <1>2

LEMMA FetchKeepsAges ==
    ASSUME Ages, NEW w \in Worker, Fetch(w) \/ Deliver(w) \/ Validate(w)
    PROVE  Ages'
<1>1. CASE Fetch(w)
  <2>. DEFINE r == [step |-> "fetching", client |-> request[w].client, took |-> 0]
  <2>1. InStep(r)
    BY TimeAssumption DEF InStep, Fetching
  <2>. QED
    BY <1>1, <2>1, StartKeepsAges DEF Fetch
<1>2. CASE Deliver(w)
  <2>. DEFINE r == [step |-> "delivered", client |-> request[w].client,
                    took |-> request[w].took, document |-> served, seen |-> 0]
  <2>1. Fetching(request[w])
    BY <1>2 DEF Deliver, At, Ages, InStep
  <2>2. InStep(r)
    BY <2>1, TimeAssumption DEF InStep, Fetching, Delivered
  <2>. QED
    BY <1>2, <2>2, StartKeepsAges DEF Deliver
<1>3. CASE Validate(w)
  <2>. DEFINE r == [step |-> "validated", client |-> request[w].client,
                    document |-> request[w].document, age |-> 0,
                    seen |-> request[w].seen, since |-> request[w].seen]
  <2>1. Delivered(request[w])
    BY <1>3 DEF Validate, At, Ages, InStep
  <2>2. InStep(r)
    BY <2>1, TimeAssumption DEF InStep, Delivered, Validated, Honest, OldRow
  <2>. QED
    BY <1>3, <2>2, StartKeepsAges DEF Validate
<1>. QED
  BY <1>1, <1>2, <1>3

LEMMA SaveKeepsAges ==
    ASSUME Ages, NEW w \in Worker, Save(w)
    PROVE  Ages'
<1>. DEFINE found == Found("document", Client(request[w].document, FALSE),
                           request[w].since)
<1>1. Validated(request[w])
  BY DEF Save, At, Ages, InStep
<1>2. CASE request[w].client = None /\ row # None
  <2>1. InStep(Idle)
    BY DEF InStep, Idle
  <2>. QED
    BY <1>2, <2>1, StartKeepsAges DEF Save
<1>3. CASE ~(request[w].client = None /\ row # None)
  <2>1. Start(w, found) /\ row' = Stamped(request[w])
    BY <1>3 DEF Save
  <2>2. InStep(found)
    BY <1>1 DEF Validated, InStep, Found
  <2>3. Row(row')
    BY <1>1, <2>1 DEF Stamped, Row, Validated, Honest
  <2>. QED
    BY <2>1, <2>2, <2>3, StartKeeps DEF Ages
<1>. QED
  BY <1>2, <1>3

LEMMA TickKeepsAges ==
    ASSUME Ages, Tick
    PROVE  Ages'
<1>1. row' # None => Row(row')
  <2>1. CASE row = None
    BY <2>1 DEF Tick
  <2>2. CASE row # None
    <3>1. Row(row)
      BY <2>2 DEF Ages
    <3>2. row' = [row EXCEPT !.age = Older(@, OldRow), !.seen = Older(@, OldDocument)]
      BY <2>2 DEF Tick
    <3>. QED
      BY <3>1, <3>2, RowAges
  <2>. QED
    BY <2>1, <2>2
<1>2. request' = [w \in Worker |-> Aged(request[w])]
  BY DEF Tick
<1>3. ASSUME NEW w \in Worker PROVE InStep(request'[w])
  <2>1. InStep(request[w])
    BY DEF Ages
  <2>2. request[w].step = "fetching" \/ request[w].step = "delivered" =>
          request[w].took < LongestFetch
    BY DEF Tick, At
  <2>3. request'[w] = Aged(request[w])
    BY <1>2
  <2>. QED
    BY <2>1, <2>2, <2>3, RequestAges
<1>. QED
  BY <1>1, <1>2, <1>3 DEF Ages

LEMMA EditKeepsAges ==
    ASSUME Ages, Edit
    PROVE  Ages'
<1>1. row' \in {row, None} \/ (row # None /\ row' = [row EXCEPT !.client.wild = TRUE])
  BY DEF Edit
<1>2. request' = request
  BY DEF Edit
<1>3. CASE row' \in {row, None}
  BY <1>2, <1>3 DEF Ages, Row, Honest, OldRow
<1>4. CASE row # None /\ row' = [row EXCEPT !.client.wild = TRUE]
  <2>1. Row(row)
    BY <1>4 DEF Ages
  <2>2. row' = [client |-> [row.client EXCEPT !.wild = TRUE], age |-> row.age,
                seen |-> row.seen]
    BY <1>4, <2>1 DEF Row
  <2>3. Row(row')
    BY <2>1, <2>2 DEF Row, Honest
  <2>. QED
    BY <1>2, <2>3 DEF Ages
<1>. QED
  BY <1>1, <1>3, <1>4

(* What sends browsers on gives a request nothing that has an age. *)
LEMMA AnswerKeepsAges ==
    ASSUME Ages, NEW w \in Worker,
           \/ Grant(w) \/ Deny(w) \/ Finish(w) \/ Crash(w)
           \/ \E uri \in Uri :
                ShowForm(w, uri) \/ AnswerAtOnce(w, uri) \/ Logout(w, uri)
    PROVE  Ages'
<1>1. UNCHANGED row
  BY DEF Grant, Deny, Finish, Crash, ShowForm, AnswerAtOnce, Logout
<1>2. InStep(Idle)
  BY DEF InStep, Idle
<1>3. \A id, client, uri :
        InStep([step |-> "answered", id |-> id, client |-> client, uri |-> uri])
  BY DEF InStep
<1>4. \/ Start(w, Idle)
      \/ \E id, client, uri : Answer(w, id, client, uri)
  BY DEF Grant, Deny, Finish, Crash, ShowForm, AnswerAtOnce, Logout
<1>5. CASE Start(w, Idle)
  BY <1>1, <1>2, <1>5, StartKeepsAges
<1>6. CASE \E id, client, uri : Answer(w, id, client, uri)
  BY <1>1, <1>3, <1>6, StartKeepsAges DEF Answer
<1>. QED
  BY <1>4, <1>5, <1>6

(* The ages are right to begin with, and every step keeps them so. *)
THEOREM AgesInvariant == Spec => []Ages
<1>1. Init => Ages
  BY DEF Init, Ages, InStep, Idle
<1>2. Ages /\ [Next]_vars => Ages'
  <2>. SUFFICES ASSUME Ages, [Next]_vars PROVE Ages'
    OBVIOUS
  <2>1. ASSUME NEW w \in Worker, Lookup(w) PROVE Ages'
    BY <2>1, LookupKeepsAges
  <2>2. ASSUME NEW w \in Worker, LookupRegistered(w) PROVE Ages'
    <3>1. InStep(Found("registered", registered, 0))
      BY TimeAssumption DEF InStep, Found
    <3>. QED
      BY <2>2, <3>1, StartKeepsAges DEF LookupRegistered
  <2>3. ASSUME NEW w \in Worker, Proceed(w) PROVE Ages'
    <3>1. CASE MayNotFetch(w)
      BY <3>1, FallBackKeepsAges DEF MayNotFetch
    <3>2. CASE Fetch(w) \/ Deliver(w) \/ Validate(w)
      BY <3>2, FetchKeepsAges
    <3>3. CASE FetchFails(w)
      BY <3>3, FallBackKeepsAges DEF FetchFails
    <3>4. CASE Save(w)
      BY <3>4, SaveKeepsAges
    <3>5. CASE Finish(w)
      BY <3>5, AnswerKeepsAges
    <3>. QED
      BY <2>3, <3>1, <3>2, <3>3, <3>4, <3>5 DEF Proceed
  <2>4. ASSUME NEW w \in Worker,
               \/ Grant(w) \/ Deny(w) \/ Crash(w)
               \/ \E uri \in Uri :
                    ShowForm(w, uri) \/ AnswerAtOnce(w, uri) \/ Logout(w, uri)
        PROVE  Ages'
    BY <2>4, AnswerKeepsAges
  <2>5. CASE Publish \/ Register \/ UNCHANGED vars
    <3>1. row' = row /\ request' = request
      BY <2>5 DEF Publish, Register, vars
    <3>. QED
      BY <3>1 DEF Ages, Row, Honest, OldRow
  <2>6. CASE Edit
    BY <2>6, EditKeepsAges
  <2>7. CASE Tick
    BY <2>7, TickKeepsAges
  <2>. QED
    BY <2>1, <2>2, <2>3, <2>4, <2>5, <2>6, <2>7 DEF Next
<1>. QED
  BY <1>1, <1>2, PTL DEF Spec

(* A client that is used, unless it could not be refreshed, is as its       *)
(* document was no longer ago than CIMD_CACHE_TIMEOUT and one fetch.        *)
THEOREM UsedIsRecentHolds == Spec => []UsedIsRecent
<1>1. Ages => UsedIsRecent
  BY DEF Ages, InStep, UsedIsRecent, At
<1>. QED
  BY <1>1, AgesInvariant, PTL

----------------------------------------------------------------------------

(* clean() has seen a client whose stars match. *)
CleanClient(client) == client.wild => CleanUris(client)

LEMMA FetchedIsClean ==
    ASSUME NEW source, NEW confidential
    PROVE  CleanClient(Client(source, confidential))
BY DEF CleanClient, Client

(* Where a host is the same but for stars, those are what differs. *)
LEMMA SameHostIsHome ==
    ASSUME NEW uri, NEW client, CleanClient(client),
           NEW own, SameHost(uri, own, client.wild)
    PROVE  SameButForStars(uri, own, client)
<1>1. CASE client.wild /\ HasStar(own.host)
  <2>1. Matches(uri.host, own.host)
    BY <1>1 DEF SameHost
  <2>2. \A i \in Others(uri.host, own.host) : i \in DOMAIN own.host /\ own.host[i] = "*"
    BY <2>1 DEF Matches, Others
  <2>3. ASSUME own \in client.uris
        PROVE  \A i, j \in Others(uri.host, own.host) : i = j
    <3>1. OneStar(own.host)
      BY <1>1, <2>3 DEF CleanClient, CleanUris
    <3>. QED
      BY <2>2, <3>1 DEF OneStar
  <2>. QED
    BY <1>1, <2>1, <2>2, <2>3 DEF SameButForStars, Matches
<1>2. CASE ~(client.wild /\ HasStar(own.host))
  <2>1. uri.host = own.host
    BY <1>2 DEF SameHost
  <2>2. Others(uri.host, own.host) = {}
    BY <2>1 DEF Others
  <2>. QED
    BY <2>1, <2>2 DEF SameButForStars
<1>. QED
  BY <1>1, <1>2

(* What is allowed is at home. *)
LEMMA RedirectIsHome ==
    ASSUME NEW uri, NEW client, CleanClient(client),
           NEW uris, uris \subseteq client.uris \cup client.after,
           RedirectAllowedFrom(uri, uris, client.wild)
    PROVE  AtHome(uri, client)
<1>1. PICK own \in uris : /\ SameHost(uri, own, client.wild)
                          /\ IsLoopback(own) \/ SamePort(uri, own)
  BY DEF RedirectAllowedFrom
<1>2. uri.scheme = own.scheme
  BY <1>1 DEF SameHost
<1>3. CASE SamePort(uri, own)
  <2>1. SameButForStars(uri, own, client)
    BY <1>1, SameHostIsHome
  <2>. QED
    BY <1>1, <1>2, <1>3, <2>1 DEF AtHome, SamePort
<1>4. CASE IsLoopback(own)
  <2>1. own.host = <<"loopback">>
    BY <1>4 DEF IsLoopback
  <2>2. ~HasStar(own.host)
    BY <2>1 DEF HasStar
  <2>3. uri.host = own.host
    BY <1>1, <2>2 DEF SameHost
  <2>. QED
    BY <1>1, <1>2, <1>4, <2>3 DEF AtHome
<1>. QED
  BY <1>1, <1>3, <1>4

LEMMA OriginIsHome ==
    ASSUME NEW uri, NEW client, CleanClient(client), OriginAllowed(uri, client)
    PROVE  AtHome(uri, client)
<1>1. PICK own \in client.uris : /\ SameHost(uri, own, client.wild)
                                 /\ SamePort(uri, own)
  BY DEF OriginAllowed
<1>2. uri.scheme = own.scheme /\ uri.port = own.port
  BY <1>1 DEF SameHost, SamePort
<1>3. SameButForStars(uri, own, client)
  BY <1>1, SameHostIsHome
<1>. QED
  BY <1>1, <1>2, <1>3 DEF AtHome

LEMMA AfterLogoutIsHome ==
    ASSUME NEW uri, NEW client, CleanClient(client), AfterLogoutAllowed(uri, client)
    PROVE  AtHome(uri, client)
<1>1. CASE client.after # {}
  <2>1. RedirectAllowedFrom(uri, client.after, client.wild)
    BY <1>1 DEF AfterLogoutAllowed
  <2>. QED
    BY <2>1, RedirectIsHome
<1>2. CASE client.after = {} /\ uri.scheme \in {"http", "https"}
  BY <1>2, OriginIsHome DEF AfterLogoutAllowed
<1>3. CASE client.after = {} /\ uri.scheme \notin {"http", "https"}
  <2>1. PICK own \in client.uris \cup client.after : uri.scheme = own.scheme
    BY <1>3 DEF AfterLogoutAllowed, SchemesOf
  <2>. QED
    BY <1>3, <2>1 DEF AtHome
<1>. QED
  BY <1>1, <1>2, <1>3

(* A client in use is clean, a form was allowed when it was made, and what  *)
(* was answered is at home.                                                 *)
GoodRow(r) == r # None => CleanClient(r.client)
GoodRegistered(client) == client # None => CleanClient(client)

GoodForm(f) ==
    f # None => CleanClient(f.client) /\ RedirectAllowed(f.uri, f.client)

GoodRequest(r) ==
    /\ r.step \in {"outdated", "fetching", "delivered", "validated"} =>
         r.client = None \/ CleanClient(r.client)
    /\ r.step \in {"found", "answered"} => CleanClient(r.client)
    /\ r.step = "answered" => AtHome(r.uri, r.client)

Homes ==
    /\ GoodRow(row) /\ GoodRegistered(registered) /\ GoodForm(form)
    /\ request = [w \in Worker |-> request[w]]
    /\ \A w \in Worker : GoodRequest(request[w])

LEMMA IdleIsGood == GoodRequest(Idle)
BY DEF GoodRequest, Idle

LEMMA FoundIsGood ==
    ASSUME NEW id, NEW client, NEW since, CleanClient(client)
    PROVE  GoodRequest(Found(id, client, since))
BY DEF GoodRequest, Found

LEMMA StartKeepsHomes ==
    ASSUME Homes, NEW w \in Worker, NEW r, Start(w, r), GoodRequest(r),
           GoodRow(row'), registered' = registered, GoodForm(form')
    PROVE  Homes'
<1>1. request' = [v \in Worker |-> IF v = w THEN r ELSE request[v]]
  BY DEF Start, Homes
<1>2. request' = [v \in Worker |-> request'[v]]
  BY <1>1
<1>3. \A v \in Worker : request'[v] = r \/ request'[v] = request[v]
  BY <1>1
<1>4. \A v \in Worker : GoodRequest(request'[v])
  BY <1>3 DEF Homes
<1>5. GoodRegistered(registered')
  BY DEF Homes
<1>. QED
  BY <1>2, <1>4, <1>5 DEF Homes

LEMMA FallBackKeepsHomes ==
    ASSUME Homes, NEW w \in Worker, At(w, "outdated") \/ At(w, "fetching"),
           FallBack(w), UNCHANGED <<row, registered, form>>
    PROVE  Homes'
<1>. DEFINE found == Found("document", request[w].client, 0)
<1>1. CASE request[w].client = None
  BY <1>1, IdleIsGood, StartKeepsHomes DEF FallBack, Homes
<1>2. CASE request[w].client # None
  <2>1. CleanClient(request[w].client)
    BY <1>2 DEF Homes, GoodRequest, At
  <2>2. GoodRequest(found)
    BY <2>1, FoundIsGood
  <2>3. Start(w, found)
    BY <1>2 DEF FallBack
  <2>. QED
    BY <2>2, <2>3, StartKeepsHomes DEF Homes
<1>. QED
  BY <1>1, <1>2

LEMMA LookupKeepsHomes ==
    ASSUME Homes, NEW w \in Worker, Lookup(w) \/ LookupRegistered(w)
    PROVE  Homes'
<1>1. UNCHANGED <<row, registered, form>>
  BY DEF Lookup, LookupRegistered
<1>2. CASE LookupRegistered(w)
  <2>1. GoodRequest(Found("registered", registered, 0))
    BY <1>2, FoundIsGood DEF LookupRegistered, Homes, GoodRegistered
  <2>. QED
    BY <1>1, <1>2, <2>1, StartKeepsHomes DEF LookupRegistered, Homes
<1>3. CASE Lookup(w) /\ row # None /\ ~Outdated(row)
  <2>1. GoodRequest(Found("document", row.client, row.seen))
    BY <1>3, FoundIsGood DEF Homes, GoodRow
  <2>. QED
    BY <1>1, <1>3, <2>1, StartKeepsHomes DEF Lookup, Homes
<1>4. CASE Lookup(w) /\ ~(row # None /\ ~Outdated(row))
  <2>. DEFINE r == [step |-> "outdated",
                    client |-> IF row = None THEN None ELSE row.client]
  <2>1. Start(w, r)
    BY <1>4 DEF Lookup
  <2>2. GoodRequest(r)
    BY DEF GoodRequest, Homes, GoodRow
  <2>. QED
    BY <1>1, <2>1, <2>2, StartKeepsHomes DEF Homes
<1>. QED
  BY <1>2, <1>3, <1>4

LEMMA FetchKeepsHomes ==
    ASSUME Homes, NEW w \in Worker, Fetch(w) \/ Deliver(w) \/ Validate(w)
    PROVE  Homes'
<1>1. UNCHANGED <<row, registered, form>>
  BY DEF Fetch, Deliver, Validate
<1>2. request[w].client = None \/ CleanClient(request[w].client)
  BY DEF Fetch, Deliver, Validate, At, Homes, GoodRequest
<1>3. PICK r : /\ Start(w, r) /\ r.client = request[w].client
               /\ r.step \in {"fetching", "delivered", "validated"}
  BY DEF Fetch, Deliver, Validate
<1>4. GoodRequest(r)
  BY <1>2, <1>3 DEF GoodRequest
<1>. QED
  BY <1>1, <1>3, <1>4, StartKeepsHomes DEF Homes

LEMMA SaveKeepsHomes ==
    ASSUME Homes, NEW w \in Worker, Save(w)
    PROVE  Homes'
<1>. DEFINE saved == Client(request[w].document, FALSE)
            found == Found("document", saved, request[w].since)
<1>1. CASE request[w].client = None /\ row # None
  BY <1>1, IdleIsGood, StartKeepsHomes DEF Save, Homes
<1>2. CASE ~(request[w].client = None /\ row # None)
  <2>1. Start(w, found) /\ row' = Stamped(request[w])
    BY <1>2 DEF Save
  <2>2. CleanClient(saved)
    BY FetchedIsClean
  <2>3. GoodRequest(found)
    BY <2>2, FoundIsGood
  <2>4. GoodRow(row')
    BY <2>1, <2>2 DEF Stamped, GoodRow
  <2>5. registered' = registered /\ GoodForm(form')
    BY DEF Save, Homes
  <2>. QED
    BY <2>1, <2>3, <2>4, <2>5, StartKeepsHomes
<1>. QED
  BY <1>1, <1>2

LEMMA ProceedKeepsHomes ==
    ASSUME Homes, NEW w \in Worker, Proceed(w) \/ Crash(w)
    PROVE  Homes'
<1>1. CASE MayNotFetch(w) \/ FetchFails(w)
  BY <1>1, FallBackKeepsHomes DEF MayNotFetch, FetchFails
<1>2. CASE Fetch(w) \/ Deliver(w) \/ Validate(w)
  BY <1>2, FetchKeepsHomes
<1>3. CASE Save(w)
  BY <1>3, SaveKeepsHomes
<1>4. CASE Finish(w) \/ Crash(w)
  BY <1>4, IdleIsGood, StartKeepsHomes DEF Finish, Crash, Homes
<1>. QED
  BY <1>1, <1>2, <1>3, <1>4 DEF Proceed

LEMMA AnswerKeepsHomes ==
    ASSUME Homes, NEW w \in Worker,
           \/ Grant(w) \/ Deny(w)
           \/ \E uri \in Uri : AnswerAtOnce(w, uri) \/ Logout(w, uri)
    PROVE  Homes'
<1>1. UNCHANGED <<row, registered, form>>
  BY DEF Grant, Deny, AnswerAtOnce, Logout
<1>2. \A uri, client :
        CleanClient(client) /\ RedirectAllowed(uri, client) => AtHome(uri, client)
  BY RedirectIsHome DEF RedirectAllowed
<1>3. At(w, "found") => CleanClient(request[w].client)
  BY DEF At, Homes, GoodRequest
<1>4. \E id, client, uri :
        Answer(w, id, client, uri) /\ CleanClient(client) /\ AtHome(uri, client)
  <2>1. CASE Grant(w)
    BY <1>2, <1>3, <2>1 DEF Grant, StillAllowed
  <2>2. CASE Deny(w)
    BY <1>2, <2>2 DEF Deny, Homes, GoodForm
  <2>3. ASSUME NEW uri \in Uri, AnswerAtOnce(w, uri)
        PROVE  /\ Answer(w, request[w].id, request[w].client, uri)
               /\ CleanClient(request[w].client) /\ AtHome(uri, request[w].client)
    BY <1>2, <1>3, <2>3 DEF AnswerAtOnce
  <2>4. ASSUME NEW uri \in Uri, Logout(w, uri)
        PROVE  /\ Answer(w, request[w].id, request[w].client, uri)
               /\ CleanClient(request[w].client) /\ AtHome(uri, request[w].client)
    BY <1>3, <2>4, AfterLogoutIsHome DEF Logout
  <2>. QED
    BY <2>1, <2>2, <2>3, <2>4
<1>5. PICK id, client, uri :
        Answer(w, id, client, uri) /\ CleanClient(client) /\ AtHome(uri, client)
  BY <1>4
<1>. DEFINE r == [step |-> "answered", id |-> id, client |-> client, uri |-> uri]
<1>6. Start(w, r)
  BY <1>5 DEF Answer
<1>7. GoodRequest(r)
  BY <1>5 DEF GoodRequest
<1>. QED
  BY <1>1, <1>6, <1>7, StartKeepsHomes DEF Homes

LEMMA FormKeepsHomes ==
    ASSUME Homes, NEW w \in Worker, NEW uri \in Uri, ShowForm(w, uri)
    PROVE  Homes'
<1>1. Start(w, Idle) /\ UNCHANGED <<row, registered>>
  BY DEF ShowForm
<1>2. CleanClient(request[w].client)
  BY DEF ShowForm, At, Homes, GoodRequest
<1>3. GoodForm(form')
  BY <1>2 DEF ShowForm, GoodForm
<1>. QED
  BY <1>1, <1>3, IdleIsGood, StartKeepsHomes DEF Homes

LEMMA AroundKeepsHomes ==
    ASSUME Homes, Ages, Register \/ Edit
    PROVE  Homes'
<1>1. UNCHANGED <<form, request>>
  BY DEF Register, Edit
<1>2. GoodRow(row')
  BY DEF Register, Edit, Homes, GoodRow, CleanClient
<1>3. GoodRegistered(registered')
  <2>1. CASE Register
    BY <2>1, FetchedIsClean DEF Register, GoodRegistered
  <2>2. CASE Edit
    BY <2>2 DEF Edit, Homes, GoodRegistered, CleanClient
  <2>. QED
    BY <2>1, <2>2
<1>. QED
  BY <1>1, <1>2, <1>3 DEF Homes

(* Time makes nobody another client. *)
LEMMA TickKeepsHomes ==
    ASSUME Homes, Ages, Tick
    PROVE  Homes'
<1>1. /\ UNCHANGED <<registered, form>>
      /\ request' = [w \in Worker |-> Aged(request[w])]
  BY DEF Tick
<1>2. GoodRow(row')
  <2>1. CASE row = None
    BY <2>1 DEF Tick, GoodRow
  <2>2. CASE row # None
    <3>1. row = [client |-> row.client, age |-> row.age, seen |-> row.seen]
      BY <2>2 DEF Ages, Row
    <3>2. row'.client = row.client
      BY <2>2, <3>1 DEF Tick
    <3>. QED
      BY <2>2, <3>2 DEF Homes, GoodRow
  <2>. QED
    BY <2>1, <2>2
<1>3. ASSUME NEW w \in Worker PROVE GoodRequest(request'[w])
  <2>. DEFINE r == request[w]
  <2>1. request'[w] = Aged(r) /\ GoodRequest(r) /\ InStep(r)
    BY <1>1 DEF Homes, Ages
  <2>. HIDE DEF r
  <2>2. CASE r.step \in {"fetching", "delivered", "validated"}
    <3>1. Aged(r).step = r.step /\ Aged(r).client = r.client
      BY <2>1, <2>2 DEF Aged, InStep, Fetching, Delivered, Validated
    <3>. QED
      BY <2>1, <2>2, <3>1 DEF GoodRequest
  <2>3. CASE r.step \notin {"fetching", "delivered", "validated"}
    BY <2>1, <2>3 DEF Aged
  <2>. QED
    BY <2>2, <2>3
<1>. QED
  BY <1>1, <1>2, <1>3 DEF Homes

(* Every browser that is sent on goes to a host and port of its client, but *)
(* for the labels that the client left open, to an app on the user's own    *)
(* machine that the client named, or to one that the client's scheme opens. *)
THEOREM SentHomeHolds == Spec => []SentHome
<1>1. Init => Homes
  <2>. SUFFICES ASSUME Init PROVE Homes
    OBVIOUS
  <2>1. \A w \in Worker : GoodRequest(request[w])
    BY IdleIsGood DEF Init
  <2>. QED
    BY <2>1 DEF Init, Homes, GoodRow, GoodRegistered, GoodForm
<1>2. Homes /\ Ages /\ [Next]_vars => Homes'
  <2>. SUFFICES ASSUME Homes, Ages, [Next]_vars PROVE Homes'
    OBVIOUS
  <2>1. ASSUME NEW w \in Worker, Lookup(w) \/ LookupRegistered(w)
        PROVE  Homes'
    BY <2>1, LookupKeepsHomes
  <2>2. ASSUME NEW w \in Worker, Proceed(w) \/ Crash(w)
        PROVE  Homes'
    BY <2>2, ProceedKeepsHomes
  <2>3. ASSUME NEW w \in Worker,
               \/ Grant(w) \/ Deny(w)
               \/ \E uri \in Uri : AnswerAtOnce(w, uri) \/ Logout(w, uri)
        PROVE  Homes'
    BY <2>3, AnswerKeepsHomes
  <2>4. ASSUME NEW w \in Worker, NEW uri \in Uri, ShowForm(w, uri)
        PROVE  Homes'
    BY <2>4, FormKeepsHomes
  <2>5. CASE Publish \/ UNCHANGED vars
    <3>1. UNCHANGED <<row, registered, form, request>>
      BY <2>5 DEF Publish, vars
    <3>. QED
      BY <3>1 DEF Homes
  <2>6. CASE Register \/ Edit
    BY <2>6, AroundKeepsHomes
  <2>7. CASE Tick
    BY <2>7, TickKeepsHomes
  <2>. QED
    BY <2>1, <2>2, <2>3, <2>4, <2>5, <2>6, <2>7 DEF Next
<1>3. Homes => SentHome
  BY DEF Homes, GoodRequest, SentHome, At
<1>. QED
  BY <1>1, <1>2, <1>3, AgesInvariant, PTL DEF Spec
=============================================================================
