--------------------------- MODULE OidcProvider ---------------------------
(***************************************************************************)
(* The token endpoint of the OpenID Connect provider, allauth/idp/oidc:    *)
(* authorization codes and device codes in the cache, tokens in the        *)
(* database, and the requests that turn one into the other.  A request is  *)
(* cut where it reads or writes the cache and where its transaction ends.  *)
(*                                                                         *)
(* Abstractions.  Codes and token values are never guessed nor made twice. *)
(* A client that authenticates is who it says; oauthlib looks at grant     *)
(* types, redirect URIs and PKCE before these steps.  A device polls no    *)
(* faster than its interval, or nothing but an answer comes of it.         *)
(***************************************************************************)
EXTENDS Integers, FiniteSets

CONSTANTS
    User, Client,
    Setting,        \* the configurations, of AllSettings
    Code,           \* authorization codes
    Device,         \* device codes
    Wish,           \* what clients ask to be granted: scopes and resources
    Target,         \* sets of resources that a token request can name
    Worker,         \* who serves the requests
    None,           \* nothing in the cache, no request, no answer, nobody
    MaxTokens,      \* bound: tokens, where a device code may come back
    MaxRefreshes,   \* bound on refresh requests
    MaxCrashes      \* bound on workers that are killed

ASSUME BoundAssumption == {MaxTokens, MaxRefreshes, MaxCrashes} \subseteq Nat

(* ROTATE_REFRESH_TOKEN, the grant types of the clients, and whether        *)
(* requests that use the same credential overlap.                          *)
AllSettings ==
    [rotate : BOOLEAN, grants : SUBSET {"code", "device"}, overlap : BOOLEAN]

ASSUME SettingAssumption == Setting \subseteq AllSettings

ASSUME SourceAssumption == Code \cap Device = {}

ASSUME AnswerAssumption == None \notin {"confirm", "deny"}

ASSUME WishAssumption ==
    \A wish \in Wish : wish.scopes # {}

VARIABLES
    setting,
    codes,      \* the cache entry of each authorization code
    devices,    \* the cache entry of each device code
    lapsed,     \* the codes and devices that have expired
    tokens,     \* the rows of Token
    request,    \* what each worker is doing
    refreshes, crashes,
    granted,    \* history variable: what users agreed to, or their tokens did
    spent       \* history variable: the codes and devices that gave tokens

vars == <<setting, codes, devices, lapsed, tokens, request, refreshes,
          crashes, granted, spent>>

Source == Code \cup Device
Grant == [from : Source, user : User, client : Client,
          scopes : {wish.scopes : wish \in Wish},
          resources : {wish.resources : wish \in Wish} \cup {{}},
          silent : BOOLEAN]

Start(w, r) == request' = [request EXCEPT ![w] = r]
Finish(w) == request' = [request EXCEPT ![w] = None]
Idle(w) == request[w] = None

(* A credential that a request is working on. *)
Busy(credential) ==
    \E w \in Worker : ~Idle(w) /\ request[w].credential = credential

MayStart(w, credential) ==
    /\ Idle(w)
    /\ setting.overlap \/ ~Busy(credential)

Init ==
    /\ setting \in Setting
    /\ codes = [c \in Code |-> None]
    /\ devices = [d \in Device |-> None]
    /\ request = [w \in Worker |-> None]
    /\ lapsed = {} /\ tokens = {} /\ granted = {} /\ spent = {}
    /\ refreshes = 0 /\ crashes = 0

----------------------------------------------------------------------------

(* Authorization codes: the user agrees to a client's wish. *)

New(source) ==
    /\ source \notin lapsed
    /\ \A g \in granted : g.from # source

Issued(c, g) ==
    /\ codes' = [codes EXCEPT ![c] = g]
    /\ granted' = granted \cup {g}
    /\ UNCHANGED <<setting, devices, lapsed, tokens, request, refreshes,
                   crashes, spent>>

Authorize(u, k, c) ==
    /\ "code" \in setting.grants
    /\ New(c)
    /\ \E wish \in Wish :
         Issued(c, [from |-> c, user |-> u, client |-> k,
                    scopes |-> wish.scopes, resources |-> wish.resources,
                    silent |-> FALSE])

TokensOf(u) == {t \in tokens : t.user = u}

(* Mutant: a user with a token has agreed to everything. *)
AgreedToAll(u, scopes) == TokensOf(u) # {}

(* What the user's tokens allow, whichever client has them. *)
Agreed(u, scopes) == scopes \subseteq UNION {t.scopes : t \in TokensOf(u)}

(* prompt=none: the resources of the request are not kept. *)
AuthorizeSilently(u, k, c) ==
    /\ "code" \in setting.grants
    /\ New(c)
    /\ \E wish \in Wish :
         /\ Agreed(u, wish.scopes)
         /\ Issued(c, [from |-> c, user |-> u, client |-> k,
                       scopes |-> wish.scopes, resources |-> {},
                       silent |-> TRUE])

(* An entry of the cache expires, in the cache or in a worker's hands. *)
Lapse(source) ==
    /\ source \notin lapsed
    /\ \/ source \in Code /\ codes[source] # None
       \/ source \in Device /\ (devices[source] # None \/ Busy(source))
    /\ lapsed' = lapsed \cup {source}
    /\ codes' = [c \in Code |-> IF c = source THEN None ELSE codes[c]]
    /\ devices' = [d \in Device |-> IF d = source THEN None ELSE devices[d]]
    /\ UNCHANGED <<setting, tokens, request, refreshes, crashes, granted,
                   spent>>

----------------------------------------------------------------------------

(* Issuing tokens *)

Within(asked, allowed) == allowed = {} \/ asked \subseteq allowed

FreeId == CHOOSE i \in 1..Cardinality(tokens) + 1 : \A t \in tokens : t.id # i

Token(id, kind, g, scopes, resources) ==
    [id |-> id, kind |-> kind, user |-> g.user, client |-> g.client,
     scopes |-> scopes, resources |-> resources, from |-> g.from]

Access(g, scopes, asked) ==
    Token(0, "access", g, scopes, IF asked # {} THEN asked ELSE g.resources)

(* Mutant: the refresh token is good for what was asked for this time. *)
PairOfAsked(g, scopes, asked) ==
    {Token(FreeId, "refresh", g, scopes, asked), Access(g, scopes, asked)}

(* A refresh token keeps all that was granted, the access token what was   *)
(* asked for this time.                                                    *)
Pair(g, scopes, asked) ==
    {Token(FreeId, "refresh", g, scopes, g.resources), Access(g, scopes, asked)}

(* The transaction of an exchange or a poll ends with a pair of tokens. *)
Issue(w) ==
    /\ ~Idle(w) /\ request[w].step = "issue"
    /\ LET g == request[w].grant
       IN  /\ tokens' = tokens \cup Pair(g, g.scopes, request[w].asked)
           /\ spent' = spent \cup {g.from}
    /\ Finish(w)
    /\ UNCHANGED <<setting, codes, devices, lapsed, refreshes, crashes,
                   granted>>

(* InvalidTargetError: no token is made, and the transaction is committed. *)
Fail(w) == Finish(w)

----------------------------------------------------------------------------

(* grant_type=authorization_code *)

Room == setting.overlap => Cardinality(tokens) < MaxTokens

Exchange(w, k, c, asked) ==
    /\ MayStart(w, c) /\ Room
    /\ codes[c] # None /\ codes[c].client = k
    /\ Start(w, [step |-> "exchange", credential |-> c, asked |-> asked,
                 grant |-> codes[c], again |-> c \in spent])
    /\ UNCHANGED <<setting, codes, devices, lapsed, tokens, refreshes, crashes,
                   granted, spent>>

(* Mutant: the code stays. *)
NotInvalidated(c) == UNCHANGED codes

Invalidated(c) == codes' = [codes EXCEPT ![c] = None]

Redeem(w) ==
    /\ ~Idle(w) /\ request[w].step = "exchange"
    /\ IF Within(request[w].asked, request[w].grant.resources)
         THEN /\ Invalidated(request[w].credential)
              /\ Start(w, [request[w] EXCEPT !.step = "issue"])
         ELSE Fail(w) /\ UNCHANGED codes
    /\ UNCHANGED <<setting, devices, lapsed, tokens, refreshes, crashes,
                   granted, spent>>

----------------------------------------------------------------------------

(* The device flow *)

RequestDevice(k, d) ==
    /\ "device" \in setting.grants
    /\ New(d) /\ devices[d] = None
    /\ \E wish \in Wish :
         devices' = [devices EXCEPT ![d] =
                       [client |-> k, scopes |-> wish.scopes,
                        resources |-> wish.resources, answer |-> None,
                        user |-> None]]
    /\ UNCHANGED <<setting, codes, lapsed, tokens, request, refreshes, crashes,
                   granted, spent>>

(* Mutant: an answer may be changed. *)
HasEntry(d) == devices[d] # None

Unanswered(d) == devices[d] # None /\ devices[d].answer = None

Answered(d, u, answer) == [devices[d] EXCEPT !.answer = answer, !.user = u]

(* The user enters the device's code and confirms or denies. *)
Answer(w, u, d, answer) ==
    /\ MayStart(w, d)
    /\ Unanswered(d)
    /\ Start(w, [step |-> "answer", credential |-> d,
                 data |-> Answered(d, u, answer)])
    /\ UNCHANGED <<setting, codes, devices, lapsed, tokens, refreshes, crashes,
                   granted, spent>>

(* An entry that has expired is not written again. *)
Stored(d, data) ==
    devices' = IF d \in lapsed THEN devices ELSE [devices EXCEPT ![d] = data]

GrantOf(d, data) ==
    [from |-> d, user |-> data.user, client |-> data.client,
     scopes |-> data.scopes, resources |-> data.resources, silent |-> FALSE]

Record(w) ==
    /\ ~Idle(w) /\ request[w].step = "answer"
    /\ LET d == request[w].credential
           data == request[w].data
       IN  /\ Stored(d, data)
           /\ granted' = IF data.answer = "confirm"
                           THEN granted \cup {GrantOf(d, data)}
                           ELSE granted
    /\ Finish(w)
    /\ UNCHANGED <<setting, codes, lapsed, tokens, refreshes, crashes, spent>>

(* grant_type=device_code *)
Poll(w, k, d, asked) ==
    /\ MayStart(w, d) /\ Room
    /\ devices[d] # None /\ devices[d].client = k
    /\ Start(w, [step |-> "poll", credential |-> d, asked |-> asked,
                 data |-> devices[d], again |-> d \in spent])
    /\ UNCHANGED <<setting, codes, devices, lapsed, tokens, refreshes, crashes,
                   granted, spent>>

(* The time of the poll is written back, with all that was read before. *)
WriteBack(w) ==
    /\ ~Idle(w) /\ request[w].step = "poll"
    /\ Stored(request[w].credential, request[w].data)
    /\ IF request[w].data.answer = "confirm"
         THEN Start(w, [step |-> "take", credential |-> request[w].credential,
                        asked |-> request[w].asked, again |-> request[w].again,
                        grant |-> GrantOf(request[w].credential,
                                          request[w].data)])
         ELSE Finish(w)
    /\ UNCHANGED <<setting, codes, lapsed, tokens, refreshes, crashes, granted,
                   spent>>

(* The entry is deleted before the tokens can be refused. *)
Take(w) ==
    /\ ~Idle(w) /\ request[w].step = "take"
    /\ devices' = [devices EXCEPT ![request[w].credential] = None]
    /\ IF Within(request[w].asked, request[w].grant.resources)
         THEN Start(w, [request[w] EXCEPT !.step = "issue"])
         ELSE Fail(w)
    /\ UNCHANGED <<setting, codes, lapsed, tokens, refreshes, crashes, granted,
                   spent>>

----------------------------------------------------------------------------

(* grant_type=refresh_token *)

RefreshTokens == {t \in tokens : t.kind = "refresh"}

Refresh(w, k, t, asked) ==
    /\ MayStart(w, t) /\ Room
    /\ refreshes < MaxRefreshes
    /\ t.client = k
    /\ \E scopes \in {wish.scopes : wish \in Wish} :
         /\ scopes \subseteq t.scopes
         /\ Start(w, [step |-> "refresh", credential |-> t, asked |-> asked,
                      scopes |-> scopes])
    /\ refreshes' = refreshes + 1
    /\ UNCHANGED <<setting, codes, devices, lapsed, tokens, crashes, granted,
                   spent>>

(* Mutant: the token that was used stays beside its successor. *)
OldKept(w) == tokens

(* The row that was read is deleted, if it is still there. *)
OldDropped(w) == tokens \ {request[w].credential}

(* With a rotation, the deletion of the old token is also committed when   *)
(* the resources are refused.  The new one has the scopes asked for.       *)
Renew(w) ==
    /\ ~Idle(w) /\ request[w].step = "refresh"
    /\ LET t == request[w].credential
           allowed == Within(request[w].asked, t.resources)
       IN  tokens' =
             CASE setting.rotate /\ allowed ->
                    OldDropped(w) \cup
                      Pair(t, request[w].scopes, request[w].asked)
               [] setting.rotate /\ ~allowed -> OldDropped(w)
               [] ~setting.rotate /\ allowed ->
                    tokens \cup {Access(t, request[w].scopes, request[w].asked)}
               [] OTHER -> tokens
    /\ Finish(w)
    /\ UNCHANGED <<setting, codes, devices, lapsed, refreshes, crashes,
                   granted, spent>>

----------------------------------------------------------------------------

(* A token expires, or somebody who holds it revokes it. *)
Revoke(t) ==
    /\ tokens' = tokens \ {t}
    /\ UNCHANGED <<setting, codes, devices, lapsed, request, refreshes,
                   crashes, granted, spent>>

(* The user logs out at a client: its codes are left. *)
Logout(u, k) ==
    /\ \E t \in TokensOf(u) : t.client = k
    /\ tokens' = {t \in tokens : <<t.user, t.client>> # <<u, k>>}
    /\ UNCHANGED <<setting, codes, devices, lapsed, request, refreshes,
                   crashes, granted, spent>>

(* A worker is killed: an open transaction is rolled back. *)
Crash(w) ==
    /\ ~Idle(w) /\ crashes < MaxCrashes
    /\ crashes' = crashes + 1
    /\ Finish(w)
    /\ UNCHANGED <<setting, codes, devices, lapsed, tokens, refreshes, granted,
                   spent>>

Proceed(w) == Issue(w) \/ Redeem(w) \/ Record(w) \/ WriteBack(w) \/ Take(w)
              \/ Renew(w)

Next ==
    \/ \E u \in User, k \in Client, c \in Code :
         Authorize(u, k, c) \/ AuthorizeSilently(u, k, c)
    \/ \E s \in Source : Lapse(s)
    \/ \E k \in Client, d \in Device : RequestDevice(k, d)
    \/ \E w \in Worker :
         \/ \E k \in Client, asked \in Target :
              \/ \E c \in Code : Exchange(w, k, c, asked)
              \/ \E d \in Device : Poll(w, k, d, asked)
              \/ \E t \in RefreshTokens : Refresh(w, k, t, asked)
         \/ \E u \in User, d \in Device, answer \in {"confirm", "deny"} :
              Answer(w, u, d, answer)
         \/ Proceed(w)
         \/ Crash(w)
    \/ \E t \in tokens : Revoke(t)
    \/ \E u \in User, k \in Client : Logout(u, k)

Spec == Init /\ [][Next]_vars

----------------------------------------------------------------------------

Entry == [client : Client, scopes : {wish.scopes : wish \in Wish},
          resources : {wish.resources : wish \in Wish},
          answer : {None, "confirm", "deny"}, user : User \cup {None}]

(* The rows, the entries of the cache and the requests are well-formed: a  *)
(* device has an answer when it has a user, and tokens have a user who     *)
(* can be looked up.                                                       *)
TypeOK ==
    /\ setting \in Setting
    /\ codes \in [Code -> Grant \cup {None}]
    /\ devices \in [Device -> Entry \cup {None}]
    /\ \A d \in Device : devices[d] # None =>
         (devices[d].answer = None <=> devices[d].user = None)
    /\ lapsed \subseteq Source /\ spent \subseteq Source
    /\ \A t \in tokens : t.kind \in {"refresh", "access"} /\ t.from \in Source
    /\ granted \subseteq Grant
    /\ refreshes \in 0..MaxRefreshes /\ crashes \in 0..MaxCrashes
    /\ \A w \in Worker : ~Idle(w) =>
         request[w].step \in {"exchange", "issue", "answer", "poll", "take",
                             "refresh"}

(* WITHIN GRANT.  Whoever overlaps with whom and however often a token was *)
(* renewed: a token belongs to a user and a client that some grant names,  *)
(* has no other scopes than it, and no other resources if it named any     *)
(* (_prep_refresh_token, _prep_access_token, confirm_or_deny_device_code). *)
Covers(g, t) ==
    /\ <<g.from, g.user, g.client>> = <<t.from, t.user, t.client>>
    /\ t.scopes \subseteq g.scopes
    /\ g.resources # {} => t.resources # {} /\ t.resources \subseteq g.resources

WithinGrant == \A t \in tokens : \E g \in granted : Covers(g, t)

(* SILENCE ADDS NOTHING.  Where the user was not asked, the scopes are     *)
(* such as the user has agreed to when asked, for whichever client         *)
(* (validate_silent_authorization).                                        *)
SilentWithinConsent ==
    \A t \in tokens :
        t.scopes \subseteq
            UNION {g.scopes : g \in {h \in granted : ~h.silent /\ h.user = t.user}}

(* SPENT STAYS SPENT.  Once a code has given tokens, no request that comes *)
(* later gets tokens for it; of a device code this holds if its polls and  *)
(* its user's answer do not overlap (invalidate, poll_device_code).        *)
SpentStaysSpent ==
    \A w \in Worker :
        ~Idle(w) /\ request[w].step = "issue" /\ request[w].again =>
            request[w].credential \in Device /\ setting.overlap

(* ONE REFRESH TOKEN.  A grant has one refresh token at a time, unless     *)
(* requests of one code, device or token overlap (_prep_refresh_token).    *)
OneRefreshToken ==
    ~setting.overlap =>
        \A s, t \in RefreshTokens : s.from = t.from => s = t

(* ANSWER FINAL.  What a user answered for a device stays until the entry  *)
(* is gone: no poll and no second answer takes it back, unless they        *)
(* overlap with it (update_device_state).                                  *)
AnswerFinal ==
    [][\A d \in Device :
        ~setting.overlap /\ devices[d] # None /\ devices[d].answer # None =>
            devices'[d] \in {None, devices[d]}]_vars

(* SCOPE KEPT.  "If a new refresh token is issued, the refresh token scope *)
(* MUST be identical to that of the refresh token included by the client   *)
(* in the request" (docstring of save_bearer_token).                       *)
ScopeKept ==
    [][\A old \in RefreshTokens \ tokens', new \in RefreshTokens' \ tokens :
        new.scopes = old.scopes]_vars
=============================================================================
