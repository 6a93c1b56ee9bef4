# Verification of django-allauth

TLA+ specifications, TLC runs and TLAPS proofs for `allauth/`. Paths below are
relative to `allauth/`.

## Inventory

django-allauth is a set of Django apps. It has no process of its own: web
workers run its views, and everything that outlives a request is in one of four
places.

* **The database**: users, email addresses, phone numbers, authenticators,
  social accounts, tokens. Steps of a request are separate statements unless
  the code opens a transaction or locks a row.
* **The session**: read when a request first uses it, saved as a whole when the
  response is finished. Two requests of one session each work on their own copy
  and the last one to finish wins.
* **The cache**: shared by the workers, without transactions. Rate limits, used
  TOTP codes, device codes, authorization codes.
* **Signed values**: email confirmation keys, password reset keys, trusted
  browser cookies, JWT access tokens. They carry state that nobody stores.

| Component | State | Operations | What makes it correct |
|---|---|---|---|
| Rate limits, `core/internal/ratelimit.py` | cache: history and lock per key | consume, dry run, rollback, clear | no window holds more hits than its rate; no hit lost; every request ends |
| Login pipeline, `account/stages.py`, `account/internal/stagekit.py`, `account/internal/flows/login.py`, the stages of `mfa` | session: the stashed login (user, stage state, start time), authentication records | log in, run/exit/abort a stage, resume, time out, log out | nobody is logged in with a stage left open; the current stage is the first open one |
| Code verification, `account/internal/flows/code_verification.py` and its four uses (login, email, phone, password reset) | session: code, start time, failed attempts, resends | initiate, verify, resend, abort | at most N wrong codes; no code accepted late, after an abort, or replaced by a newer one |
| TOTP, `mfa/totp` | database: secret; cache: used codes | activate, validate | a code is accepted once |
| Recovery codes, `mfa/recovery_codes` | database: seed and bit mask of used codes | generate, view, validate, delete dangling | a code is accepted once, whatever is saved at the same time |
| WebAuthn, `mfa/webauthn` | database: credentials; session: challenge | register, authenticate, passwordless login, passkey signup | a challenge is used once; the last passkey's removal removes recovery codes |
| Trusted browsers, `mfa/internal/flows/trust.py` | signed cookie with a fingerprint of password and authenticators | trust, check | trust ends with a change of password or authenticators |
| Email addresses, `account/models.py`, `account/internal/flows/manage_email.py`, `email_verification.py` | database: address, verified, primary | add, remove, set primary, change, verify | one primary per user, an address verified for one user only |
| Phone numbers, `account/internal/flows/phone_verification.py` | adapter-defined number and verified flag; session: code | verify, change, resend | as code verification |
| Password reset, `account/internal/flows/password_reset*.py` | signed key, or code in session | request, verify, set password | a key works once; sessions of the old password end |
| Signup, `account/internal/flows/signup.py` | database: user; session: sociallogin | sign up, prevent enumeration | no account is taken over |
| Reauthentication, `account/internal/flows/reauthentication.py` | session: authentication records, suspended request | require, resume | a sensitive action has a fresh record |
| Social accounts, `socialaccount` core | database: account, token, app; session: states of pending redirects | redirect, callback, login, connect, disconnect, sign up | a state is used once; an account belongs to one user; no user is left without a way in |
| Providers, `socialaccount/providers/*` | session: states of pending redirects, request tokens; a cookie for what is posted | redirect, callback, exchange, fetch and translate a profile | a uid stands for one person; an address counts as verified only if somebody vouched for it; an answer goes with its own redirect |
| User sessions, `usersessions` | database: one row per session | record, track, list, purge, end | a session ended is gone; a session that lives can be listed |
| Password change and logout, `account/internal/flows/password_change.py`, `logout.py` | database: password; session: its hash | change, set, log out | a password that was replaced does not return; its sessions end, but for those that stay logged in |
| Headless API, `headless` | session behind a token, JWT refresh map | the same flows as JSON, refresh | a rotated refresh token is not accepted, a new one is |
| OpenID Connect provider: tokens, `idp/oidc` | database: token; cache: codes, device codes | authorize, exchange, refresh, revoke, device flow | a code is exchanged once; a device gets tokens only if its user granted them |
| OpenID Connect provider: clients, `idp/oidc/internal/cimd.py`, `clientkit.py` | database: client; cache: fetch lock | look up, fetch a metadata document, register, edit, redirect, log out | a client is used as it was recently; browsers are sent where it is at home |

**Interactions.** A login (by password, code, social account, passkey, signup,
password reset or email confirmation) always goes through `flows.login`, which
stashes it in the session and runs the stages; each stage that has something to
ask redirects to a view, whose form goes back to `stagekit`. Code verification
keeps its own state inside the stashed login or beside it in the session. The
stages read what other components own: authentication records of the session,
email and phone records, authenticators, the trust cookie. Every form consumes
rate limits, some of them before the work and with a rollback after it. Signals
(`user_logged_in`, `password_changed`, ...) connect `account` to `usersessions`
and `mfa`.

**What is hard here.** Requests of several workers meet in the cache and the
database, requests of one session meet in the session's last-write-wins save; a
worker may die between two statements; multi-step flows may be left, resumed,
restarted from another entry point or outlive their timeout; the records a later
step reads may belong to an earlier, abandoned flow; and what a user owns
(authenticators, addresses) may change while a login is pending.
`PROJECT.json` lists these hazards at their lines.


## The modules

Modules are parameterised by constants; an `MC...` module extends each of them
with the values that TLC uses, and the `.cfg` files choose among those. Nothing
in a `.cfg` replaces a definition. A definition whose comment begins with
"Mutant:" is a plausible mistake in the definition that follows it;
`PROJECT.json` says which property it breaks, and no specification uses it.

Where requests overlap, a request is cut where its effect can be seen by
another one: after each statement that writes to the database (autocommit) or
after each transaction, and around each access to the cache. A *crash* is a
worker that dies between two of these steps. The session is read when the
request starts and written when it ends.

### Rate limits: `Rates`, `SlidingWindow`, `RateLimit`

`Rates` has what a rate is and when it allows a hit (`apply_rate`).
`SlidingWindow` is the abstract specification: per key a log of hits, to which a
hit is added only while the window has room, and from which hits are taken back.
`RateLimit` is the code: workers with a program counter go through the keys of a
request, add the lock entry with `cache.add`, retry or give up, read the history,
write it back, delete the lock entry (whoever's it is), keep the usage and
perhaps roll it back; `clear` writes without having read. A worker may be killed
anywhere. `granted` is a history variable: the hits that were admitted and not
taken back. The refinement maps `SlidingWindow!hits` to it.

*Assumption.* `PromptHolders`: the entry of a living holder does not lapse
before it is released, as the comment in `cache_lock` asks for. The entry of a
killed one does.

### Logins: `LoginPipeline`

One browser, its session (`stash`, `process`, `last`, `passkey`, `auth`), its
trust cookie and what it shows or is redirected to (`page`). `Handle` is
`LoginStageController.handle` with what `resume_login` does after it, `Needed` the
conditions of the six stages, `Begun`, `GivesUp` and `Limited` what a stage does
when it stops a login. An action per form: logging in by password, passkey,
account at a provider or code, signing up (and a signup that only pretends to,
to hide that an address is taken), each stage's form, failing, logging out.
`Follow` is the browser that follows a redirect, with the redirects of
`login_stage_required`, of `RedirectAuthenticatedUserMixin` and of the stages'
pages. Somebody else may change the account meanwhile (`Elsewhere`).

### Codes: `CodeVerification`

The process of `code_verification.py` and its six uses: login by mail or SMS,
email address, phone number of a login, phone number of an account, password
reset. Requests load the session into `copy`, edit the copy in place, and answer:
`Saved`, `NotModified` or `ServerError` decide what is stored. That is where the
uses differ, and where overlapping requests and `SESSION_SAVE_EVERY_REQUEST`
matter. A code is its number; `sent`, `accepted` and `refused` are history
variables.

### Second factors: `Authenticators`

The rows of one user, the cache of used TOTP codes, and requests that enter a
TOTP or recovery code, view or generate recovery codes, activate TOTP, add,
rename and remove (`MfaInit`, `MfaNext`). `Apart` names the pairs of requests
that are taken not to overlap: what is claimed holds for all overlaps but these,
and each of them breaks a property (see *Findings* and *Known departures*).
`RecoveryCodesRace.cfg` takes the restriction away.

### OpenID Connect provider: `OidcProvider`

Authorization codes and device codes in the cache, tokens in the database, and
two workers that exchange, poll, answer, refresh, revoke and log out. `granted`
records what users agreed to. `setting.overlap` says whether requests that use
the same credential overlap; properties that need them apart say so. Access and
refresh tokens of one grant carry its `from`.

### Email addresses: `EmailAddresses`

The rows of several users, the address in the user's own row (`mail`), and
requests as sequences of writes (`AddressInit`, `AddressNext`): `todo` is
computed by the action that starts the request from what it reads then, as the
code does. An address that somebody else verifies meanwhile ends a request with
an `IntegrityError`. A user has one request at a time; where two of them
overlap, nothing in the code holds them apart and the properties fail.

### Social accounts: `SocialAccounts`

Browsers with a session each are redirected to the provider (`Redirect`, which
leaves a state) and come back (`Callback`, which uses it up). `lookup` finds the
account's row and saves it again (`Touch`), or an address. Then the code either
connects (`DoConnect`), which may be suspended in the session until a password
is given again (`Reauthenticate`), or logs in, which may wipe the password, or
signs up, with the form (`PostSignup`) or without. `SetupUserEmail` has the
algorithm of `cleanup_email_addresses`. Django logs out a session whose password
is not the user's any more (`Loaded`).

### Sessions: `Sessions`

`store` has the sessions by key, `rows` the rows of `usersessions`, `users` each
user's password and last login as version numbers. A request loads a session
into `copy` (and the user's row into `me`), works on that, and saves it when it
ends, if its key is still stored: a session that was deleted does not come back
under its key, but `cycle_key` stores a copy under a new one at once, and that
is where a slow request can outlive the end of its session. Nobody else has a
new key before the response that hands it out (`Handed`). Logging in, listing,
ending, changing and setting a password, resetting by link, connecting an
account (whose save of the whole user row is why it is here), refreshing a
token, posting what needs a proof and giving the proof are requests that are cut
after each statement that others can see. `RacingPairs` are the operations that
are taken not to overlap: each of these pairs does break a property (see *Known
departures*). All other pairs overlap freely.

### Providers: `ProviderProfiles`, `Providers`, `ProviderLogin`

`ProviderProfiles` and `Providers` are the 124 providers as data: what each makes
a uid of, whether an address may be missing and counts as verified, what it does
with a response that is not 200, with a token response without a token, with a
part that is missing, and by which handshake it works. `ProviderLogin` is the
handshakes and a browser of two tabs: `Redirect` stashes a state,
`RedirectForToken` and `RequestToken` do so for OAuth 1.0 before the token is
asked for, `Decide` is what happens at the provider, and the callbacks take the
state of the answer, or the last one where the protocol carries none.
`PostAnswer`, `PostToken` and `Unsolicited` are SAML's and Apple's two-step
callbacks. Then the code or token is exchanged, the profile fetched, and the
answer may be anything of `Answers`: a profile with or without an address, a
refusal with a body, garbage, no connection. The request has loaded its session
before and saves it after, while the other tab goes on. `Restart` gives Python's
`hash` another seed, `Rename` swaps two people's names. What a login does with
the account that it finds is `SocialAccounts`.

### Clients: `Clients`

A client whose id is the URL of a metadata document is a row with two ages: `age`
since it was stamped, `seen` since its document was served. `Lookup`, `Fetch`,
`Deliver`, `Validate`, `Save` and `FallBack` are `cimd.lookup_client`, cut at
the cache, the network and the database. `Publish` changes the document, `Tick`
is time, `Crash` kills a worker (the lock stays until it lapses). A client that
registered itself is `registered`. `ShowForm`, `Grant`, `Deny`, `AnswerAtOnce` and
`Logout` send a browser on, by the rules of `clientkit`: stars for labels of a host
(whole ones; `app-*` and user information are left out), loopback ports, private
schemes, queries that may have more. `SentHome` says, without those rules, where a
client is at home: its own host, of which only labels that it left open may differ,
and only one in a URI that `Client.clean` looks at (`SameButForStars`); post-logout
URIs it does not look at. A match of the length alone (`MatchesLength`) or a form
that is not validated again (`StillAsSigned`) violates it. The consent form
carries what was signed when it was shown, and may be sent after the client was
edited, deleted or fetched again.

## The runs

| Run | Instance | What it shows |
|---|---|---|
| `rate_limit` | 2 workers, 2 keys with rates of 2 per 3 and 1 per 2 ticks, 4 ticks, 1 crash | no window exceeds its rate, no hit is lost, one worker at a time, every request is answered, the sliding window is implemented |
| `code_verification` | 6 uses, 2 addresses; 3 attempts one request at a time, or 1 attempt with 2 overlapping requests | attempts, resends and changes are bounded, only a code that was sent is accepted, once |
| `code_attempts_api` (violation) | phone verification of a login, by the API | see Findings |
| `login_pipeline` | 1 user with every stage, timeouts and changes elsewhere; 2 users who share a browser with codes by email | who is logged in has passed every stage in time, pretended logins never are; redirects end |
| `authenticators` | 2 requests at a time, 4 rows, 1 recovery code, period 2 | codes once, what was asked for, no dangling codes |
| `recovery_codes_race` (violation) | the same, all pairs overlapping | see Findings |
| `oidc_tokens` | 2 users, 2 clients, 2 codes or 1 device, 2 workers, 1 refresh, 1 crash | tokens stay within grants, answers and spent codes are final |
| `oidc_clients` | 2 workers for the row, or 1 that also answers; 2 documents, 3 registrations, 9 URIs; cache, fetch and lock of 1 tick; 1 edit, 1 crash | who is used is recent, what stays published is found, browsers go where the client is at home |
| `email_addresses` | 2 users, 3 addresses, 4 rows, 1 crash, 5 configurations | primary, verified and last address stay consistent |
| `social_accounts` | 2 browsers, 1 account, 2 users of whom one is to sign up, 5 configurations, 1 crash in all but the largest | accounts stay with their users, connections are for who asked, there is a way in |
| `sessions` | 5 settings of 2 to 5 operations; 2 workers, 3 keys, 2 or 3 passwords, 3 tokens, 2 links; for proofs 2 users and 1 worker | ended sessions and replaced passwords are gone, sessions can be listed, refresh tokens are exact, what waited runs for who asked |
| `provider_login` | 124 providers, 2 tabs, 2 people, 2 redirects, 1 restart, 1 renaming | uids are people, verified addresses are vouched for, answers go with their redirects, logins stay |

*Why these bounds are enough.* Two of everything that can interfere: two workers
for one lock, two requests of one session, two users for one address or browser,
two tabs for one list of states. A third worker repeats what a second one does,
since the interference is through one history, session, row or entry. Rates of 1
and 2 with different durations have a full, a partly full and an expired window.
Three attempts with one resend and one change let the resend or change fall
before, between and after the attempts. Three keys of sessions are one that is
ended, one that continues it and one that is somebody else's. A cache timeout
and a fetch of one tick each put a document before, at and after either border; a
lock of one tick may lapse before a fetch ends. The URIs differ from the clients' in
a port, in a label that a star stands for and in one that it does not.
A crash is allowed once, at every step: after it nothing remembers it but the
state that it left. Time passes in units of what the code compares it with (a
rate's duration, a timeout, a TOTP period). `MAX_STATES` is 1 in `provider_login`,
which keeps the oldest two, as the code keeps one more than it says.

*Fairness.* Safety runs need none. `RateLimit!Spec` has weak fairness of each
worker's own steps (a thread that is not killed runs on; it does not have to get
the lock). `LoginPipeline!FairSpec` has weak fairness of `Follow` alone: a browser
follows the redirect it was sent; it need not submit anything. `Clients!Spec` has
weak fairness of what a worker does with a request that it has, and strong
fairness, of any worker, of a lookup (requests keep coming), of a fetch that is
allowed (the rate limit is a sliding window, which has room again) and of a
delivery (a document that stays where it is arrives at some time), and of time.
Where deadlock is not checked, all actors may stop, because users do, and because
the bounds end the runs. What must not stop is stated as `Answered`,
`RedirectsEnd` and `Refreshed`.

*What the properties leave out.* Several are weaker where requests of one
session or user overlap (`overlap`, `Apart`), because nothing in the code orders
them; each one says so. `RedirectsEnd` says nothing of codes by email and by phone
together (the process of one and the stage of the other may be two logins'), nor
of accounts changed by others: when the last authenticator is removed while a
login waits for it, `AuthenticateView` and the login page redirect to each other.
`UidsArePeople` is about providers that have an ID to make a uid of (`Dependable`),
`OwnAnswer` about handshakes that carry a state. `UsedIsRecent` leaves out a
client that could not be refreshed, which is used as it was for as long as
fetches fail.

## What is proved

`RateLimitProofs`, for all workers, keys, rates, bounds and crashes:

* `TypeCorrect`: the variables keep their types. No assumption but those of the
  constants.
* `Invariance`, assuming `PromptHolders`: `IInv` is invariant. Its parts are the
  type invariant; `LockOwned` (who is between read and release owns the lock);
  `SeenCurrent` (its copy is the cached history); `StampsPast` (recorded hits are
  before now, so that a new one is new); `RequestShape` (a usage has a time stamp
  for each key that the request went through, so that a rollback takes back the
  right hits); and the two properties themselves. `WindowBound` is not inductive
  alone: a worker writes back a copy that it read earlier, which is only safe
  because the copy is still the history, which is only so because nobody else
  holds the lock, which is only so because a release, though it deletes whatever
  entry is there, is made by the owner.
* `WindowBoundHolds`, `HistoryExactHolds`, `MutualExclusionHolds` follow from it.
* `Refinement`: `Spec => Promise!Spec`, step by step, with `granted` for `hits`.

`OidcProofs`, for all users, clients, codes, devices, wishes, token targets, workers
and bounds, assuming that codes are not devices and that `None` is no answer:

* `GrantInvariance`: `GInv` is invariant. `WithinGrant` is not inductive alone: a
  token is as good as the request that makes it, whose grant comes from the
  cache entry that it read. So `GInv` adds that authorization codes
  (`CodesGranted`) and confirmed device codes (`DevicesGranted`) hold grants, that
  requests hold a grant or a token that one covers, with the resources compared
  before tokens are issued (`RequestsGranted`), and that silent grants add no scope
  (`GrantsConsented`). Grants are never taken back, which is why a request may act
  on what it read though the entry, the token or the login is gone by then.
* `WithinGrantHolds` and `SilentWithinConsentHolds` follow from it.
* `OnceInvariance`: with `GInv`, `SInv` is invariant. What has given tokens has no
  entry (`SpentGone`) and is never issued again (`SpentGranted`); a request that
  issues tokens has removed its entry (`EntryGone`), read it before it was spent
  (`First`), or holds the only refresh token of its grant (`OnlyRefresh`); and two
  requests at a time have different credentials and grants (`Separate`). For
  authorization codes nothing needs `~overlap`, since no request ever writes a
  code's entry again; for devices it does, since a poll writes back what it read.
* `SpentStaysSpentHolds` and `OneRefreshTokenHolds` follow from it.
* `AnswerFinalHolds`, by a third invariant, `RequestsCurrent`: apart from others of
  its device, a poll holds the entry as it is, or the entry has expired and is not
  written again.

`ClientsProofs`, for all documents, URIs, registrations, workers, timeouts and
bounds, assuming that a fetch ends within `LongestFetch` (`TimeAssumption`), whether
its lock has lapsed by then or not:

* `AgesInvariant`: `Ages` is invariant. `UsedIsRecent` is about a worker that has
  found a client; what it found was a row, or a document of its own. So `Ages` says
  of the row, and of a document on its way to it, that the document was served no
  longer before the stamp than a fetch takes (`Honest`). Time keeps it so, because
  both ages go up together until the row is outdated; a save keeps it so, because
  the stamp is the time of the validation and not of the save.
* `UsedIsRecentHolds` follows from it.
* `SentHomeHolds`, by `Homes`: a form holds a URI that was allowed to the client
  that it holds, whatever became of that client since, and every client whose stars
  match, in the database, in a form or in a worker's hands, has passed `clean()`
  (`CleanClient`). That an allowed URI is at home is `RedirectIsHome`, `OriginIsHome`
  and `AfterLogoutIsHome`, by cases: a host that is the same but for stars
  (`SameHostIsHome`), a loopback port, a private scheme.

`ProviderLoginProofs`, for all choices of providers, people, tabs, configurations and
bounds, assuming that each provider reads a response in one of the five ways that
`Providers` lists (`ChoiceAssumption`):

* `VouchedHolds` and `UidsArePeopleHolds`. Both rest on `StepCompletes`: whatever the
  step, what is completed was made of an answer that this provider may give.
  `UidsArePeople` follows from `IdsOnly`: of a dependable provider, every uid that was
  ever logged in with is the ID of who approved, since an answer without one ends in
  an error (`UidIsId`).
* `OwnAnswerHolds`, by `OwnStates`: a tab that holds a state holds that of its own
  redirect, and so does what was posted to a first view.
* `LoginStaysHolds`, by `Coherent`. A request writes back a session that it loaded
  earlier, which is harmless only if Django finds that it has another key by now. So
  `Keys` says of all copies, saved or about to be, that those with the same key agree on
  whether somebody is logged in, that a key which is the number of a redirect is that of
  its login, and that no number is yet to come. A step writes back a copy (`GoesOn`),
  numbers a redirect (`Begins`), or gives the session a key that no copy has (`Renews`).

`CodeVerificationProofs`, for all users, addresses, settings and bounds:

* `AcceptedWasSentHolds` and `OnceOnlyHolds`, by `Sendings`: whoever holds a process (the
  session, or a request that read it earlier), the code in it was sent to the address in
  it, and codes are new each time. That a process is dropped before its code is acted on
  gives the rest.
* `LastSentWorksHolds`, by `Alone`: with requests of the session one at a time, the one
  that runs has what is stored.
* `AttemptsBoundedHolds`, by `Counted`, assuming that each setting allows an attempt and
  that none verifies a phone number through the API. Without the second it is false: see
  `code_attempts_api` under Findings.

`SocialAccountsProofs`, for all users, accounts, profiles, browsers, configurations and
bounds, with requests that overlap and workers that die:

* `AccountStaysHolds` and `ConnectedByAskerHolds`, by `Kept`, which follows a login
  through all the places where it waits: a request, the suspended login of a session, the
  session's states. Wherever it is, a login whose account was found points to the user
  of that account (`LoginOk`), who asked for it is nobody or the user of the session that
  holds it (`SessionOk`), and what a request has left to do is one of the plans of
  `SocialLogin` (`RequestOk`). A user who logs out takes what waits along, which is why
  the next one finds nothing of it.
* `WayInHolds`, by `OpenInvariant`, where requests do not overlap and whoever is there at
  first has a password (`HomesOpen`). `WayIn` is not inductive: a disconnection or a
  wiped password is only harmless because of what the request has looked at some writes
  before. `Open` says that there is one request (`Alone`); that what it found out is
  still so when it writes (`Promises`): the user's row is as it was read (`Current`), who
  was found by an address can be found by it again (`Reachable`), nobody has the address
  that is signed up with (`FreeMail`), an account that goes is not the last way in
  (`Spare`); and that who has an address has a row of it once the signup is over, and a
  way in (`Entered`). A signup that a worker's death cut short is not over.

`SessionsProofs`, for all users, workers, settings and bounds:

* `RunsForAskerHolds`. What waits for a proof was asked for by who is logged in, or before
  anybody was (`AskOk`), in every copy of a session that a request holds and in every
  row. No request needs to be apart from another.
* `ReplacedForGoodHolds`, assuming that a request which connects an account does not
  overlap with one that changes or resets a password (`WholeRowsApart`): whoever is about
  to save the whole row of a user then has the password that there is (`RowsCurrent`). The
  run keeps more requests apart, for its other properties; this one does not need it.
* `BaseInvariance`, with no request apart: the keys, passwords and logins that a request
  or a stored session mentions were made (`Known`), nobody else has a key that is not
  handed out, and what a request loaded of a session is what is stored, but for what may
  be edited (`Agreed`). Each action is one of a few turns of one worker (`Turn`: it goes
  on, begins, stores a session under another key, makes, saves or ends one), so that the
  three invariants below look at turns and not at actions.
* `EndedIsGoneHolds`, if a password change is apart from another one, from ending
  sessions and from logging out (`EndsApart`). That an ended session is gone says nothing
  of a request that holds a copy and is about to store it under a new key. `Origins`
  says that a login has one key at a time, counting those of requests that bear it on
  (`OneKey`), and that an ended login has none, and no request about to give it one
  (`EndedOut`).
* `ListableHolds`, if logins and resets are apart from each other and from lists
  (`ListsApart`), with `WholeRowsApart`: they purge the rows of sessions that they do not
  find. `Rows` says that each session that is handed out has its row (`HasRow`); that one
  which is not gets it before its request saves it (`Rowed`); and that a session whose
  password is being changed has the hash of an older one until then (`Outdated`), so that
  nobody could be logged in by it.
* `TokensExactHolds`, if refreshing is apart from other refreshes, logins, posts and
  proofs (`TokensApart`). `Tokens` adds that a request which will save has loaded the
  tokens that the session has now (`SameTokens`), and that a token which is being
  refreshed is of the session that the request loaded (`Refreshes`).

`LoginPipelineProofs`, for all users, accounts, settings and bounds, assuming that who
has an account has an email address and who has none has no authenticator
(`AccountsFit`), and that where codes verify both email addresses and phone numbers one
user has the browser (`CodesApart`, see Known departures):

* `AddressesCheckedHolds`, `SecondFactorCheckedHolds` and `CodeCheckedHolds`. A stage that
  is handled is not looked at again, so that the invariant says what each still stands
  for (`Checked`): what is verified stays so, a code or a second factor is in what was
  given, and an account that got its authenticator since is marked. A stage that lets a
  trusted browser pass leaves nothing behind, and the trust may end while the login
  waits; so `CodePassed` and `MfaPassed` show that a login which passes by trust waits
  nowhere, except to register the passkey of a signup. That rests on `TrustsOk`: who
  is trusted has been through the stages. A login that only pretends has a stage before
  it that nobody can finish (`Pretends`). `Own` ties the process of an email code, which
  is the session's, to the login that waits.

`LoginPipelineProofs` goes on with `Authenticators`, for all workers, codes, periods and
bounds:

* `MfaTypeCorrect`, for all overlaps.
* `TotpOnceHolds`, for all overlaps, where codes of no other period are tolerated
  (`Tolerance = 0`, the default; with more it is false, see Known departures). What was
  accepted is in the cache until its period is over (`Spent`), and a request that holds a
  code holds that of this period and has to add it there first.
* `RecoveryCodeOnceHolds`, if showing the codes is apart from using one (`ShowsApart`; else
  it is false, see `recovery_codes_race`). Accepted codes are among the used ones of
  their row, and whoever is about to save a row that it loaded has the uses that
  the row has (`Current`).
* `AsAskedHolds`, if a removal is apart from additions and renamings (`AddsApart`). A
  passkey that a request is about to insert or save is there (`KeyInv`), and a removal
  wipes the codes only when no key is left.
* `NoDanglingCodesHolds`, if a removal is apart from the making of codes too
  (`GeneratesApart`). Codes without a key have a removal that has yet to see to them
  (`Cleans`): it looks for other keys after its own is gone, and nothing is added until
  it is done.

`CodeVerificationProofs` goes on with `EmailAddresses`, for all users, addresses, servers,
configurations and bounds, with requests that collide or are killed between any two
writes. It assumes no more than that each user starts with an address (`HomeAssumption`):

* `ManagedInvariant`. None of the three properties is inductive, since a request writes in
  several steps: a removal deletes the row and then corrects the user, a promotion
  demotes one row, saves another and then the user, and a verified address that replaces
  the others plans their removal last. So `Managed` says of each request that the steps
  it has left lead where they should (`Ready`), whatever the rows are in between: each
  step is about its user's rows (`Written`); a row to be made is made first and is nothing
  special (`Fresh`); before the first login a new row only takes the place of the old one
  (`Joining`); a removal leaves a row to who logs in by email (`Leaving`), and so does a
  replacement, since the row that it keeps is there by then (`Keeping`); what becomes
  primary is verified, or nothing is (`Worthy`); and the user's own row and the primary
  one end with the same address (`EndsWith`). Between requests that is so (`Sound`), and
  always rows are unique (`Tidy`) and each user has one request (`Apiece`). Each step
  makes ready steps of ready steps (`SaveDone`, `DeleteDone`, `ReplaceDone`, ...), and each
  request begins with such steps (`PromotionBegins`, `ReplaceBegins`, ...).
* `MailIsPrimaryHolds`, `LastAddressStaysHolds` and `PrimaryWorthyHolds` follow from it. A
  request that broke off takes `Sound` from its user and nothing else, so that the
  last two hold wherever it broke.

*Only model-checked:* the liveness properties (`Answered`, `RedirectsEnd`,
`Refreshed`), which need fairness and ENABLED; and what `FoldLeft` or a sequence
operator computes for every input, which would need induction over data. All other
properties of the passing runs are theorems.

## Findings

`PROJECT.json` quotes the lines that these contradict.

* `code_attempts_api`: through the API, the phone verification of a login accepts
  any number of attempts: `PhoneVerificationStageProcess.abort` does nothing and
  only the page's view ends the stage.
* `recovery_codes_race`: `mark_as_viewed` saves the row as it was loaded, so that
  a code used in between can be used again.

### Known departures without a run

Met while modelling: the models have the code's behaviour, and the properties
name the exception.

* `account/stages.py`: with codes by email, an account without an address is
  stopped for a code that nobody sent; its page and the login page redirect to
  each other. `WithEmail` leaves such accounts out of `login_pipeline`.
* `account/internal/flows/email_verification_by_code.py:97`: the process of an email
  code is the session's and not the login's. Where codes verify phone numbers too, and
  two users follow each other in a session, a login that gets to its email stage while
  sending is limited waits there with the process of the login before it, and that
  code ends the stage. `AloneOrShared` has two users only where no code verifies a phone
  number, and `CodesApart` is the assumption of the proofs.
* `idp/oidc/internal/oauthlib/request_validator.py:265`: refreshing with fewer
  scopes narrows the rotated refresh token; tokens never grow (`WithinGrant`).
* `mfa`: the pairs in `MCAuthenticators!RacingPairs`. A removal's clean-up and an
  addition do not see each other; a renaming saves the whole row and so inserts a
  removed passkey again. Two first views both show the codes, though they are to
  be shown once (`MFA_RECOVERY_CODES_SHOW_ONCE`); what they save is the same.
* `mfa/totp/internal/auth.py:114`: a used code is remembered for one period. With
  `MFA_TOTP_TOLERANCE` it is tolerated for longer, and accepted again; the run and the
  proof have the default of 0.
* `account/internal/flows/code_verification.py`: a resend leaves the start time
  as it is; `login_by_code.py:86` asserts when a resent code has nowhere to go.
* `core/internal/ratelimit.py:168`: the cache key has what a rate is per but not
  the rate: two rates of an action that are per the same thing share one history,
  and each request counts twice.
* `account/managers.py:20`: the maximum number of addresses is checked for the
  page and not for addresses that are changed by code in several sessions;
  `get_new` (line 32) may pick a row that the sync made.
* `idp/oidc/internal/oauthlib/device_codes.py`: line 90 truncates the remaining
  time, and an entry in its last second is stored without being kept; line 124
  deletes the entry before tokens are made, so a refusal after it loses the code.
* `idp/oidc/views.py:379` ignores whether the answer was stored. Silent
  authorization (161-186) drops the resources that were asked for. Logging out
  leaves codes that were issued before.
* `idp/oidc/internal/oauthlib/request_validator.py:315`: a request that is refused
  for its resources has lost its refresh token, and so has a client that did not
  get the response with the new one.
* `socialaccount/models.py:352`: `lookup` saves the row it found; where it was
  disconnected in between, it is inserted again. Line 311 saves the whole row of
  the user as the request loaded it, with an older password perhaps. A signup
  whose account was connected meanwhile leaves a user without it
  (`SocialAccounts!unfinished`).

* `usersessions/models.py:104`: a login or a list elsewhere purges the row of a
  session that is between its login and its save, or between two keys; it lives
  on and its user cannot see it (`{"login"}`, `{"login", "list"}`).
* `account/internal/flows/password_change.py:51`: a password change or logout that
  overlaps the end of its session goes on under a new key (`{"change", "end"}`,
  `{"change", "logout"}`), and two changes of one session store it under two keys, of
  which ending one leaves the other (`{"change"}`).
* `headless/tokens/strategies/jwt/strategy.py:78`: two refreshes, or a refresh and
  another request that saves the session, lose each other's tokens, or bring one
  back that was rotated out (`{"refresh"}`, `{"refresh", "reauthenticate"}`,
  `{"refresh", "login"}`, `{"post", "refresh"}`).
* `socialaccount/models.py:311`: connecting saves the user's row as it was loaded,
  with the password that was changed or reset meanwhile (`{"connect", "change"}`,
  `{"connect", "reset"}`); two resets, or a reset and a login, each save what they
  loaded (`{"reset"}`, `{"login", "reset"}`). A list purges the row of a reset that
  logs in (`{"list", "reset"}`).
* `account/internal/flows/reauthentication.py:45`: what an anonymous visitor posted
  runs for whoever logs in later and proves who they are.
* `socialaccount/providers`: `agave` makes a uid of the time that an account was
  made, and reads a refusal as a profile, as `dwolla`, `jupyterhub` and others do;
  `drip`'s uid is Python's hash, another one after each restart; `bitbucket_oauth2`,
  `bitly`, `edx`, `exist`, `hubic`, `jupyterhub`, `pocket`, `reddit` and `tumblr` use
  names or addresses that can change hands. OAuth 1.0, `openid`, `steam` and
  `draugiem` take the last state: two tabs swap their processes, an expired state is
  taken too, and a redirect that failed leaves its state on top.
  `oauth/views.py:84` catches only `OAuthError`, so that other failures are a 500.
  `statekit.gc_states` keeps one state more than `MAX_STATES`. A second answer that
  is posted replaces the first one's cookie (`saml`, `apple`).
* `idp/oidc/internal/cimd.py`: an older document may be saved over a newer one, and
  stays until it is outdated; two first lookups end in an `IntegrityError`; a save
  resets owner, secret, `skip_consent`, `allow_uri_wildcards` and `created_at`, and
  brings back a row that was deleted meanwhile. The timeout of `requests` is per
  read, so that a slow fetch may outlast its lock and then delete another's, as it
  may in the model; that it ends within `LongestFetch` is assumed.
* `idp/oidc/views.py:254`: denying redirects to the URI that was signed, at any
  time later, whatever became of the client.

## What is not modelled

* Templates, translations, template tags and administration pages, which keep no
  state but through the models that are here.
* Validation of form fields, the contents of messages, responses of the API as
  JSON: the flows behind them are modelled, the formats are not. These are most
  of `account/forms.py`, `account/adapter.py` and `headless/*/response.py`.
* Key material, ID tokens, JWT encoding, claims, PKCE, nonces, the fido2 and SAML
  libraries: what they verify is an outcome in the models.
* Of a provider: other fields of the profile, scopes, discovery, endpoints.
* `SOCIALACCOUNT_ONLY`: sites without passwords, where a last account stays.
* Of clients: the initial access token, `id_token_hint`, user information in URIs.
* Of password reset and signup: what only pretends, beyond that it logs nobody in.
* Isolation below autocommit: a statement is atomic, as are `transaction.atomic`
  blocks with `select_for_update`.

Signals and adapters are taken at their defaults.

## Plan

1. **Composition** of `CodeVerification` with `SlidingWindow`, so that "limited" is
   no choice but the limiter's answer.
2. **More of the session**: tokens of the API that are session keys, and the WebAuthn
   challenge that a session holds.
3. **Two requests of one user** in `EmailAddresses`: which pairs keep which property, as
   `Sessions` and `Authenticators` say it of theirs.
