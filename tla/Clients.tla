------------------------------ MODULE Clients ------------------------------
(***************************************************************************)
(* The clients of the OpenID Connect provider: one whose id is the URL of  *)
(* a metadata document, allauth/idp/oidc/internal/cimd.py, and one that    *)
(* registered itself, allauth/idp/oidc/views.py.  Requests look a client   *)
(* up, fetch its document when the row is missing or outdated, and then    *)
(* send the browser to a URI of the client's choice, or to none.           *)
(*                                                                         *)
(* Abstractions.  Time passes in ticks, and a row, a document in hand and  *)
(* a lock have ages that stop counting when they no longer matter.  A      *)
(* document that cannot be fetched or is refused is None.  The rate limit  *)
(* is an answer that may be no.  Of a URI there are scheme, labels of the  *)
(* host, port, path and query, and a star is a whole label; of a client,   *)
(* there is what decides about URIs.                                       *)
(***************************************************************************)
EXTENDS Integers

CONSTANTS
    Document,       \* the documents that may be found at the URL
    Registration,   \* what clients register themselves with
    Uri,            \* where requests ask to be sent
    Worker, None,
    Settings,       \* of AllSettings
    CacheTimeout,   \* CIMD_CACHE_TIMEOUT, in ticks
    LongestFetch,   \* the ticks from the lock to the validated document
    LockTimeout,    \* FETCH_TIMEOUT + 5, in ticks
    MaxEdits,       \* bound on changes that an administrator makes
    MaxCrashes      \* bound on workers that are killed

(* That a fetch ends within LongestFetch is an assumption: FETCH_TIMEOUT is *)
(* for each read, so a slow server may even take longer than LockTimeout.   *)
ASSUME TimeAssumption ==
    /\ {CacheTimeout, LongestFetch, LockTimeout, MaxEdits, MaxCrashes}
         \subseteq Nat
    /\ 0 < LongestFetch

ASSUME ClientAssumption ==
    /\ Document \subseteq [uris : SUBSET Uri, after : SUBSET Uri]
    /\ Registration \subseteq
         [uris : SUBSET Uri, after : SUBSET Uri, confidential : BOOLEAN]

(* The workers, and whether their answers are looked at or only what they   *)
(* do to the row; what an administrator does counts in both.                *)
AllSettings == [workers : SUBSET Worker, answers : BOOLEAN]

ASSUME SettingAssumption == Settings \subseteq AllSettings

VARIABLES
    setting,
    served,     \* what is found at the URL
    row,        \* the client of the URL: None, or what it is and its ages
    lock,       \* what remains of the fetch lock
    registered, \* the client that registered itself
    form,       \* the consent form in the user's browser
    request,    \* what each worker is doing
    edits, crashes

vars == <<setting, served, row, lock, registered, form, request, edits, crashes>>

OldRow == CacheTimeout + 1
OldDocument == CacheTimeout + LongestFetch + 1

(* A client, from its document or its registration. *)
Client(source, confidential) ==
    [uris |-> source.uris, after |-> source.after, wild |-> FALSE,
     confidential |-> confidential]

Idle == [step |-> "idle"]
Start(w, r) == request' = [request EXCEPT ![w] = r]
At(w, step) == request[w].step = step

(* The client is known, and how long ago its document was served. *)
Found(id, client, since) ==
    [step |-> "found", id |-> id, client |-> client, since |-> since]

Init ==
    /\ setting \in Settings
    /\ served \in Document \cup {None}
    /\ row = None /\ registered = None /\ form = None
    /\ lock = 0 /\ edits = 0 /\ crashes = 0
    /\ request = [w \in Worker |-> Idle]

----------------------------------------------------------------------------

(* Which URIs a client may ask for *)

IsLoopback(uri) == uri.scheme = "http" /\ uri.host = <<"loopback">>

HasStar(host) == \E i \in DOMAIN host : host[i] = "*"

(* Mutant: of the labels, only their number is compared. *)
MatchesLength(host, allowed) == DOMAIN host = DOMAIN allowed

(* A star stands for one label. *)
Matches(host, allowed) ==
    /\ DOMAIN host = DOMAIN allowed
    /\ \A i \in DOMAIN host : allowed[i] \in {"*", host[i]}

SameHost(uri, allowed, wild) ==
    /\ uri.scheme = allowed.scheme
    /\ IF wild /\ HasStar(allowed.host) THEN Matches(uri.host, allowed.host)
                                        ELSE uri.host = allowed.host

SamePort(uri, allowed) == uri.port = allowed.port

RedirectAllowedFrom(uri, uris, wild) ==
    \E allowed \in uris :
        /\ SameHost(uri, allowed, wild)
        /\ uri.path = allowed.path
        /\ IsLoopback(allowed) \/ SamePort(uri, allowed)
        /\ allowed.query \subseteq uri.query

RedirectAllowed(uri, client) ==
    RedirectAllowedFrom(uri, client.uris, client.wild)

OriginAllowed(uri, client) ==
    \E allowed \in client.uris :
        SameHost(uri, allowed, client.wild) /\ SamePort(uri, allowed)

SchemesOf(client) == {uri.scheme : uri \in client.uris \cup client.after}

AfterLogoutAllowed(uri, client) ==
    /\ \/ uri.scheme \in {"https"} \cup SchemesOf(client)
       \/ uri.scheme = "http" /\ client.confidential
    /\ IF client.after # {}
         THEN RedirectAllowedFrom(uri, client.after, client.wild)
         ELSE uri.scheme \in {"http", "https"} => OriginAllowed(uri, client)

----------------------------------------------------------------------------

(* Looking up a client *)

LookupRegistered(w) ==
    /\ At(w, "idle") /\ w \in setting.workers
    /\ registered # None /\ setting.answers
    /\ Start(w, Found("registered", registered, 0))
    /\ UNCHANGED <<setting, served, row, lock, registered, form, edits, crashes>>

Outdated(r) == r.age > CacheTimeout

Lookup(w) ==
    /\ At(w, "idle") /\ w \in setting.workers
    /\ IF row # None /\ ~Outdated(row)
         THEN Start(w, Found("document", row.client, row.seen))
         ELSE Start(w, [step |-> "outdated",
                        client |-> IF row = None THEN None ELSE row.client])
    /\ UNCHANGED <<setting, served, row, lock, registered, form, edits, crashes>>

(* The client as it was, if there was one. *)
FallBack(w) ==
    Start(w, IF request[w].client = None THEN Idle
             ELSE Found("document", request[w].client, 0))

(* The rate limit says no, or somebody else has the lock. *)
MayNotFetch(w) ==
    /\ At(w, "outdated")
    /\ FallBack(w)
    /\ UNCHANGED <<setting, served, row, lock, registered, form, edits, crashes>>

(* cache.add *)
LockAdded == lock = 0 /\ lock' = LockTimeout

Fetch(w) ==
    /\ At(w, "outdated")
    /\ LockAdded
    /\ Start(w, [step |-> "fetching", client |-> request[w].client, took |-> 0])
    /\ UNCHANGED <<setting, served, row, registered, form, edits, crashes>>

Deliver(w) ==
    /\ At(w, "fetching") /\ served # None
    /\ Start(w, [step |-> "delivered", client |-> request[w].client,
                 took |-> request[w].took, document |-> served, seen |-> 0])
    /\ UNCHANGED <<setting, served, row, lock, registered, form, edits, crashes>>

(* The lock is deleted in any case, whoever has it. *)
FetchFails(w) ==
    /\ At(w, "fetching")
    /\ lock' = 0
    /\ FallBack(w)
    /\ UNCHANGED <<setting, served, row, registered, form, edits, crashes>>

(* updated_at is the time of the validation. *)
Validate(w) ==
    /\ At(w, "delivered")
    /\ lock' = 0
    /\ Start(w, [step |-> "validated", client |-> request[w].client,
                 document |-> request[w].document, age |-> 0,
                 seen |-> request[w].seen, since |-> request[w].seen])
    /\ UNCHANGED <<setting, served, row, registered, form, edits, crashes>>

(* Mutant: updated_at is the time of the save. *)
StampedNow(r) ==
    [client |-> Client(r.document, FALSE), age |-> 0, seen |-> r.seen]

Stamped(r) ==
    [client |-> Client(r.document, FALSE), age |-> r.age, seen |-> r.seen]

(* A first fetch inserts a row; another one's is an IntegrityError.  Every  *)
(* other fetch updates the row, or brings one back that was deleted.        *)
Save(w) ==
    /\ At(w, "validated")
    /\ IF request[w].client = None /\ row # None
         THEN Start(w, Idle) /\ UNCHANGED row
         ELSE /\ row' = Stamped(request[w])
              /\ Start(w, Found("document", Client(request[w].document, FALSE),
                                request[w].since))
    /\ UNCHANGED <<setting, served, lock, registered, form, edits, crashes>>

----------------------------------------------------------------------------

(* Sending the browser on *)

Answer(w, id, client, uri) ==
    Start(w, [step |-> "answered", id |-> id, client |-> client, uri |-> uri])

(* The consent form carries the signed request, and does not expire. *)
ShowForm(w, uri) ==
    /\ setting.answers
    /\ At(w, "found") /\ RedirectAllowed(uri, request[w].client)
    /\ form' = [id |-> request[w].id, client |-> request[w].client, uri |-> uri]
    /\ Start(w, Idle)
    /\ UNCHANGED <<setting, served, row, lock, registered, edits, crashes>>

(* No consent is needed, or an error of the request goes to the client. *)
AnswerAtOnce(w, uri) ==
    /\ setting.answers
    /\ At(w, "found") /\ RedirectAllowed(uri, request[w].client)
    /\ Answer(w, request[w].id, request[w].client, uri)
    /\ UNCHANGED <<setting, served, row, lock, registered, form, edits, crashes>>

(* Mutant: what was signed is not looked at again. *)
StillAsSigned(client) == TRUE

(* oauthlib validates the signed request once more. *)
StillAllowed(client) == RedirectAllowed(form.uri, client)

Grant(w) ==
    /\ At(w, "found") /\ form # None
    /\ form.id = request[w].id
    /\ StillAllowed(request[w].client)
    /\ Answer(w, form.id, request[w].client, form.uri)
    /\ UNCHANGED <<setting, served, row, lock, registered, form, edits, crashes>>

(* access_denied goes to the signed URI, whatever became of the client. *)
Deny(w) ==
    /\ At(w, "idle") /\ w \in setting.workers /\ form # None
    /\ Answer(w, form.id, form.client, form.uri)
    /\ UNCHANGED <<setting, served, row, lock, registered, form, edits, crashes>>

Logout(w, uri) ==
    /\ setting.answers
    /\ At(w, "found") /\ AfterLogoutAllowed(uri, request[w].client)
    /\ Answer(w, request[w].id, request[w].client, uri)
    /\ UNCHANGED <<setting, served, row, lock, registered, form, edits, crashes>>

(* An error page, or an answer that the browser has followed. *)
Finish(w) ==
    /\ At(w, "found") \/ At(w, "answered")
    /\ Start(w, Idle)
    /\ UNCHANGED <<setting, served, row, lock, registered, form, edits, crashes>>

----------------------------------------------------------------------------

(* What happens around the requests *)

Publish ==
    /\ served' \in (Document \cup {None}) \ {served}
    /\ UNCHANGED <<setting, row, lock, registered, form, request, edits, crashes>>

Register ==
    /\ registered = None /\ setting.answers
    /\ \E r \in Registration : registered' = Client(r, r.confidential)
    /\ UNCHANGED <<setting, served, row, lock, form, request, edits, crashes>>

(* Client.clean: stars need the flag, and at most one goes into a URI. *)
OneStar(host) ==
    \A i, j \in DOMAIN host : host[i] = "*" /\ host[j] = "*" => i = j
CleanUris(client) ==
    \A uri \in client.uris : HasStar(uri.host) => client.wild /\ OneStar(uri.host)

(* An administrator deletes a client, or lets stars in its URIs match. *)
Edit ==
    /\ edits < MaxEdits /\ setting.answers
    /\ edits' = edits + 1
    /\ \/ row # None /\ row' = None /\ UNCHANGED registered
       \/ registered # None /\ registered' = None /\ UNCHANGED row
       \/ /\ row # None
          /\ row' = [row EXCEPT !.client.wild = TRUE]
          /\ CleanUris(row'.client)
          /\ UNCHANGED registered
       \/ /\ registered # None
          /\ registered' = [registered EXCEPT !.wild = TRUE]
          /\ CleanUris(registered')
          /\ UNCHANGED row
    /\ UNCHANGED <<setting, served, lock, form, request, crashes>>

(* A lock outlives the worker that took it. *)
Crash(w) ==
    /\ ~At(w, "idle") /\ crashes < MaxCrashes /\ ~setting.answers
    /\ crashes' = crashes + 1
    /\ Start(w, Idle)
    /\ UNCHANGED <<setting, served, row, lock, registered, form, edits>>

(* Mutant: the lock has no timeout. *)
LockKept == lock

LockLeft == IF lock = 0 THEN 0 ELSE lock - 1

Older(age, limit) == IF age < limit THEN age + 1 ELSE age

Aged(r) ==
    IF r.step = "fetching" THEN [r EXCEPT !.took = @ + 1]
    ELSE IF r.step = "delivered" THEN [r EXCEPT !.took = @ + 1, !.seen = @ + 1]
    ELSE IF r.step = "validated"
         THEN [r EXCEPT !.age = Older(@, OldRow), !.seen = Older(@, OldDocument)]
    ELSE r

Tick ==
    /\ \A w \in Worker :
         At(w, "fetching") \/ At(w, "delivered") => request[w].took < LongestFetch
    /\ lock' = LockLeft
    /\ row' = IF row = None THEN None
              ELSE [row EXCEPT !.age = Older(@, OldRow),
                               !.seen = Older(@, OldDocument)]
    /\ request' = [w \in Worker |-> Aged(request[w])]
    /\ UNCHANGED <<setting, served, registered, form, edits, crashes>>

Proceed(w) ==
    \/ MayNotFetch(w) \/ Fetch(w) \/ Deliver(w) \/ FetchFails(w)
    \/ Validate(w) \/ Save(w) \/ Finish(w)

Next ==
    \/ \E w \in Worker :
         \/ Lookup(w) \/ LookupRegistered(w) \/ Proceed(w) \/ Grant(w)
         \/ Deny(w) \/ Crash(w)
         \/ \E uri \in Uri :
              ShowForm(w, uri) \/ AnswerAtOnce(w, uri) \/ Logout(w, uri)
    \/ Publish \/ Register \/ Edit \/ Tick

(* Requests end, and new ones keep coming; time passes.  The rate limit is  *)
(* of a sliding window, so it does not say no for ever, and a document that *)
(* stays where it is does not fail to arrive for ever.                      *)
Fairness ==
    /\ \A w \in Worker : WF_vars(Proceed(w))
    /\ SF_vars(\E w \in Worker : Lookup(w))
    /\ SF_vars(\E w \in Worker : Fetch(w))
    /\ SF_vars(\E w \in Worker : Deliver(w))
    /\ SF_vars(Tick)

Spec == Init /\ [][Next]_vars /\ Fairness

----------------------------------------------------------------------------

(* A client that is used, unless it is one that could not be refreshed, is  *)
(* as its document was no longer ago than the cache timeout and one fetch:  *)
(* a worker that comes late with an old document does not make it new.      *)
UsedIsRecent ==
    \A w \in Worker :
        At(w, "found") => request[w].since <= CacheTimeout + LongestFetch

Others(host, own) == {i \in DOMAIN own : host[i] # own[i]}

(* The same host as the client's, but for labels that the client has left   *)
(* open; of the URIs that clean() looks at, for one label at most.          *)
SameButForStars(uri, own, client) ==
    /\ DOMAIN uri.host = DOMAIN own.host
    /\ \A i \in Others(uri.host, own.host) : client.wild /\ own.host[i] = "*"
    /\ own \in client.uris =>
         \A i, j \in Others(uri.host, own.host) : i = j

(* A host of the client at its port, or at any on the user's machine; or an *)
(* app that the client's own scheme opens.                                  *)
AtHome(uri, client) ==
    \E own \in client.uris \cup client.after :
        /\ uri.scheme = own.scheme
        /\ \/ SameButForStars(uri, own, client) /\ uri.port = own.port
           \/ IsLoopback(own) /\ uri.host = own.host
           \/ uri.scheme \notin {"http", "https"}

(* The browser only goes where the client is at home, with a code, with an  *)
(* error and after a logout, though the client may have become another      *)
(* while the user was looking at the form.                                  *)
SentHome ==
    \A w \in Worker :
        At(w, "answered") => AtHome(request[w].uri, request[w].client)

(* A document that stays where it is ends up as the client, and no worker   *)
(* that is late with an older one replaces it for good.                     *)
Refreshed ==
    \A d \in Document :
        <>[](served = d) =>
            <>[](row # None /\ row.client.uris = d.uris
                            /\ row.client.after = d.after)
============================================================================
