--------------------------- MODULE ProviderLogin ---------------------------
(***************************************************************************)
(* The handshake with a provider, allauth/socialaccount/providers/base,    *)
(* oauth, oauth2 and those with a protocol of their own: tabs of a browser *)
(* are redirected, somebody approves or declines there, and comes back     *)
(* with an answer.  A request that asks the provider something has loaded  *)
(* its session before, saves it after, and may overlap others.  Workers    *)
(* restart, states expire, and a name at the provider may change hands.    *)
(*                                                                         *)
(* Abstractions.  What complete_social_login() does with a social login is *)
(* SocialAccounts: here a login logs in, a connection needs somebody who   *)
(* is logged in, and each remembers the uid.  A session's key changes with *)
(* each login, and a request that loaded it under another key cannot save. *)
(* Left out: the next parameter, scopes, PKCE, CSRF checks, the retry for  *)
(* strict cookies, and signed tokens that do not verify, which are errors. *)
(***************************************************************************)
EXTENDS Providers, Naturals, Sequences, SequencesExt, FiniteSets

CONSTANTS
    Choice,         \* the providers to choose from
    Tab,
    People,         \* who has an account at the provider
    Setting,        \* the configurations, of AllSettings
    None,
    MaxStates,      \* MAX_STATES of statekit
    MaxSerial,      \* bound: redirects and tokens that are posted
    MaxRestarts     \* bound: restarts of the workers

(* Whether VERIFIED_EMAIL or an adapter vouches for the provider's         *)
(* addresses, and reject_idp_initiated_sso.                                *)
AllSettings == [vouched : BOOLEAN, rejects : BOOLEAN]

ASSUME SettingAssumption == Setting \subseteq AllSettings

ASSUME ChoiceAssumption ==
    /\ Choice \subseteq AllProviders
    /\ \A p \in Choice :
         p.fetch.status \in {"raises", "query", "ignored", "token", "signed"}

ASSUME BoundAssumption ==
    {MaxStates, MaxSerial, MaxRestarts} \subseteq Nat /\ MaxStates # 0

VARIABLES
    provider,
    setting,
    serial,     \* numbers what follows one another in the browser
    session,    \* as it is stored
    tab,        \* where each tab is
    posted,     \* what was posted to a first view, in a cookie of its own
    seed,       \* of Python's hash, new with each restart
    swapped,    \* whether names have changed hands
    accounts,   \* the uids that were logged in with, and who that was
    done        \* history variable: what the last step completed

vars == <<provider, setting, serial, session, tab, posted, seed, swapped,
          accounts, done>>

(* A stashed state; id numbers its redirect. *)
State == [id : 1..MaxSerial, process : {"login", "connect"}, old : BOOLEAN]

(* user: whether somebody is logged in.  token: the OAuth 1.0 request      *)
(* token, by the redirect that asked for it.                               *)
Session ==
    [key : 0..MaxSerial, user : BOOLEAN, states : Seq(State), token : 0..MaxSerial]

NewSession == [key |-> 0, user |-> FALSE, states |-> <<>>, token |-> 0]

(* id: its redirect.  who: who approved, or None who declined.  copy, and  *)
(* state: of the request that it waits for.                                *)
Places ==
    {"idle", "asking", "away", "back", "posted", "exchange", "profile"}

IdleTab ==
    [at |-> "idle", id |-> 0, who |-> None, copy |-> NewSession, state |-> None]

(* The uid of a social account: what it is, and which one. *)
Uid == [by : {"id", "name", "time", "hash", "text"}, of : People \cup {0},
        seed : 0..MaxRestarts]

TypeOK ==
    /\ provider \in Choice
    /\ setting \in Setting
    /\ serial \in 0..MaxSerial
    /\ session \in Session
    /\ \A t \in Tab : /\ tab[t].at \in Places
                      /\ tab[t].id \in 0..serial
                      /\ tab[t].who \in People \cup {None}
                      /\ tab[t].copy \in Session
    /\ posted = None \/ posted.who \in People \cup {None}
    /\ seed \in 0..MaxRestarts
    /\ swapped \in BOOLEAN
    /\ accounts \subseteq [uid : Uid, who : People]

Init ==
    /\ provider \in Choice
    /\ setting \in Setting
    /\ serial = 0
    /\ session = NewSession
    /\ tab = [t \in Tab |-> IdleTab]
    /\ posted = None
    /\ seed = 0
    /\ swapped = FALSE
    /\ accounts = {}
    /\ done = None

----------------------------------------------------------------------------
(* statekit *)

(* gc_states(): the expired ones are dropped, and the oldest one if there  *)
(* are still more than MAX_STATES.                                         *)
GcStates(states) ==
    LET live == SelectSeq(states, LAMBDA s : ~s.old)
    IN  IF Len(live) > MaxStates THEN Tail(live) ELSE live

(* stash_state() *)
Stashed(s, id, process) ==
    [s EXCEPT !.states =
        Append(GcStates(@), [id |-> id, process |-> process, old |-> FALSE])]

Without(s, id) == [s EXCEPT !.states = SelectSeq(@, LAMBDA x : x.id # id)]

(* Mutant: the code that was brought goes with the newest state. *)
UnstashedNewest(s, id) == IF s.states = <<>> THEN None ELSE Last(s.states)

(* unstash_state(): what is found under the id, unless it has expired.     *)
Unstashed(s, id) ==
    LET found == {x \in ToSet(s.states) : x.id = id /\ ~x.old}
    IN  IF found = {} THEN None ELSE CHOOSE x \in found : TRUE

(* unstash_last_state(): the newest, expired or not. *)
UnstashedLast(s) == IF s.states = <<>> THEN None ELSE Last(s.states)

(* Django: a session that has been given another key cannot be saved under *)
(* the old one.                                                            *)
Save(copy) == session' = IF copy.key = session.key THEN copy ELSE session

(* Mutant: the key of an anonymous session is kept. *)
KeyKept(copy, key) == [copy EXCEPT !.user = TRUE]

(* Django's login() gives an anonymous session another key.  A user who is *)
(* logged in already is logged out first, which empties the session.       *)
LoggedIn(copy, key) ==
    [key |-> key, user |-> TRUE,
     states |-> IF copy.user THEN <<>> ELSE copy.states,
     token |-> IF copy.user THEN 0 ELSE copy.token]

Goto(t, place) == tab' = [tab EXCEPT ![t].at = place]
Leave(t) == tab' = [tab EXCEPT ![t] = IdleTab]

(* A server error: nothing is saved. *)
Crash(t) == Leave(t) /\ UNCHANGED session

(* The error page, of a request that has changed its session. *)
ErrorPage(t, copy) == Leave(t) /\ Save(copy)
----------------------------------------------------------------------------
(* What an answer makes of a social login *)

Refusal == {"refused", "garbage", "down"}

(* An answer is a profile, with an address or without one and with what    *)
(* the provider says of it, or a refusal: a response that is not 200 with  *)
(* an error in JSON, one that is not JSON, or none.                        *)
Profiles == [kind : {"profile"}, email : BOOLEAN, claim : BOOLEAN, mails : BOOLEAN]

Refusals == [kind : Refusal, email : {FALSE}, claim : {FALSE}, mails : {FALSE}]

Answers(fetch) ==
    IF fetch.status \in {"token", "signed"} THEN Profiles ELSE Profiles \cup Refusals

(* Mutant: a response is read without a look at its status. *)
ReadAnyway(channel, fetch, answer) ==
    IF answer.kind = "profile" THEN "profile"
    ELSE IF answer.kind = "refused" THEN "empty" ELSE "error"

(* complete_login() of the adapter: what it takes for the profile. The     *)
(* callback view of OAuth 1.0 catches OAuthError only.                     *)
Read(channel, fetch, answer) ==
    IF answer.kind = "profile"
      THEN IF "mails" \in fetch.also /\ ~answer.mails THEN "error" ELSE "profile"
    ELSE IF answer.kind \in {"garbage", "down"} \/ fetch.status = "raises"
      THEN IF channel = "token" THEN "crash" ELSE "error"
    ELSE IF fetch.status = "query" \/ "body" \in fetch.also THEN "error"
    ELSE IF fetch.root = "part" THEN "crash" ELSE "empty"

(* What the provider calls somebody, now. *)
NameOf(who) ==
    IF swapped THEN CHOOSE p \in People : p # who ELSE who

(* extract_uid(), of a profile *)
UidOfProfile(person, who) ==
    IF person.uid = "hash" THEN [by |-> "hash", of |-> who, seed |-> seed]
    ELSE IF person.by = "id" THEN [by |-> "id", of |-> who, seed |-> 0]
    ELSE IF person.by = "name" THEN [by |-> "name", of |-> NameOf(who), seed |-> 0]
    ELSE [by |-> "time", of |-> 0, seed |-> 0]

(* ... and of what has no uid *)
UidOf(person, body, who) ==
    IF body # "empty" THEN UidOfProfile(person, who)
    ELSE [by |-> IF person.uid = "text" THEN "text"
                 ELSE IF person.uid = "checked" THEN "error" ELSE "crash",
          of |-> 0, seed |-> 0]

(* Mutant: the text false is true. *)
AnyText(person, claim) ==
    \/ person.verified \in {"text", "always"}
    \/ person.verified = "claim" /\ claim

Verified(person, claim) ==
    \/ person.verified = "always"
    \/ person.verified \in {"claim", "text"} /\ claim

(* extract_email_addresses() and cleanup_email_addresses(): the address,   *)
(* if there is one, and whether it counts as verified.                     *)
AddressOf(p, answer) ==
    LET given == /\ answer.email
                 /\ p.person.email # "none"
                 /\ "mails?" \in p.fetch.also => answer.mails
                 /\ p.person.email = "confirmed" => answer.claim
    IN  [given |-> given,
         verified |-> given /\ (Verified(p.person, answer.claim) \/ setting.vouched)]

(* sociallogin_from_response() *)
SocialLogin(p, answer, who) ==
    LET body == Read(p.channel, p.fetch, answer)
        uid == UidOf(p.person, body, who)
        fails == p.person.email = "must" /\ (body = "empty" \/ ~answer.email)
    IN  [kind |-> IF body \in {"error", "crash"} THEN body
                  ELSE IF uid.by \in {"error", "crash"} THEN uid.by
                  ELSE IF fails THEN "crash" ELSE "login",
         uid |-> uid, address |-> AddressOf(p, answer)]
----------------------------------------------------------------------------
(* The browser and the provider *)

Unseen == done' = None

Posts == provider.keeps \/ provider.channel = "posted"

(* redirect() of OAuth 2.0 and of the protocols of their own: the state is *)
(* stashed, and saved with the response.                                   *)
Redirect(t, process) ==
    LET id == serial + 1
    IN  /\ tab[t].at = "idle" /\ serial < MaxSerial
        /\ provider.channel # "token"
        /\ serial' = id
        /\ tab' = [tab EXCEPT ![t] = [IdleTab EXCEPT !.at = "away", !.id = id]]
        /\ session' = Stashed(session, id, process)
        /\ Unseen
        /\ UNCHANGED <<provider, setting, posted, seed, swapped, accounts>>

(* redirect() of OAuth 1.0: the state is stashed, and then a request token *)
(* asked for.                                                              *)
RedirectForToken(t, process) ==
    LET id == serial + 1
        s == Stashed(session, id, process)
    IN  /\ tab[t].at = "idle" /\ serial < MaxSerial
        /\ provider.channel = "token"
        /\ serial' = id
        /\ tab' = [tab EXCEPT ![t] =
                      [IdleTab EXCEPT !.at = "asking", !.id = id, !.copy = s]]
        /\ Unseen
        /\ UNCHANGED <<provider, setting, session, posted, seed, swapped, accounts>>

(* _get_request_token(): there is one, or it is refused, or no answer that *)
(* can be read.                                                            *)
RequestToken(t) ==
    LET copy == tab[t].copy
    IN  /\ tab[t].at = "asking"
        /\ \/ /\ Save([copy EXCEPT !.token = tab[t].id])
              /\ tab' = [tab EXCEPT ![t].at = "away", ![t].copy = NewSession]
           \/ ErrorPage(t, copy)
           \/ Crash(t)
        /\ Unseen
        /\ UNCHANGED <<provider, setting, serial, posted, seed, swapped, accounts>>

(* Somebody approves, or declines, or never comes back. *)
Decide(t) ==
    /\ tab[t].at = "away"
    /\ \/ \E who \in People \cup {None} :
             tab' = [tab EXCEPT ![t].at = "back", ![t].who = who]
       \/ Leave(t)
    /\ Unseen
    /\ UNCHANGED <<provider, setting, serial, session, posted, seed, swapped,
                   accounts>>

Keep(t) ==
    /\ tab[t].at = "back"
    /\ posted' = [id |-> tab[t].id, who |-> tab[t].who, state |-> None]
    /\ Goto(t, "posted")
    /\ Unseen
    /\ UNCHANGED <<provider, setting, serial, session, seed, swapped, accounts>>

(* ACSView: the answer is kept in a cookie of its own, and the browser     *)
(* redirected.                                                             *)
PostAnswer(t) == provider.channel = "posted" /\ Keep(t)

(* apple_post_callback(): so is an ID token; the code goes with the URL.   *)
PostToken(t) == provider.keeps /\ Keep(t)

(* The identity provider sends an answer that nobody asked for. *)
Unsolicited(t, who) ==
    LET id == serial + 1
        login == [id |-> id, process |-> "login", old |-> FALSE]
    IN  /\ tab[t].at = "idle" /\ serial < MaxSerial
        /\ provider.channel = "posted"
        /\ serial' = id
        /\ posted' = [id |-> id, who |-> who, state |-> login]
        /\ tab' = [tab EXCEPT ![t] = [IdleTab EXCEPT !.at = "posted", !.id = id]]
        /\ Unseen
        /\ UNCHANGED <<provider, setting, session, seed, swapped, accounts>>
----------------------------------------------------------------------------
(* The callback views *)

Arrived(t) == tab[t].at = IF Posts THEN "posted" ELSE "back"

Waits(t, place, copy, state) ==
    tab' = [tab EXCEPT ![t].at = place, ![t].copy = copy, ![t].state = state]

(* OAuth2CallbackView, until it exchanges the code. *)
CallbackWithCode(t) ==
    LET state == Unstashed(session, tab[t].id)
        copy == Without(session, tab[t].id)
    IN  /\ Arrived(t) /\ provider.channel = "code"
        /\ IF state = None \/ tab[t].who = None
             THEN ErrorPage(t, copy)
             ELSE Waits(t, "exchange", copy, state) /\ UNCHANGED session
        /\ Unseen
        /\ UNCHANGED <<provider, setting, serial, posted, seed, swapped, accounts>>

(* OAuthCallbackView, until it exchanges the request token. *)
CallbackWithToken(t) ==
    /\ Arrived(t) /\ provider.channel = "token"
    /\ IF session.token = 0 THEN Leave(t) ELSE Waits(t, "exchange", session, None)
    /\ Unseen
    /\ UNCHANGED <<provider, setting, serial, session, posted, seed, swapped,
                   accounts>>

(* OpenIDCallbackView, telegram's CallbackView, draugiem's callback() *)
CallbackSigned(t) ==
    /\ Arrived(t) /\ provider.channel = "signed"
    /\ IF tab[t].who = None THEN Leave(t) ELSE Waits(t, "profile", session, None)
    /\ Unseen
    /\ UNCHANGED <<provider, setting, serial, session, posted, seed, swapped,
                   accounts>>

(* FinishACSView: what was posted last is taken. *)
CallbackPosted(t) ==
    /\ Arrived(t) /\ provider.channel = "posted"
    /\ posted' = None
    /\ IF \/ posted = None
          \/ posted # None /\ posted.who = None
          \/ posted # None /\ posted.state # None /\ setting.rejects
         THEN Leave(t)
         ELSE tab' = [tab EXCEPT ![t] =
                         [at |-> "profile", id |-> posted.id, who |-> posted.who,
                          copy |-> session, state |-> posted.state]]
    /\ Unseen
    /\ UNCHANGED <<provider, setting, serial, session, seed, swapped, accounts>>

(* get_access_token() of OAuth 2.0.  Apple's ID token comes with the       *)
(* access token, or else is the one that was posted last.                  *)
ExchangeCode(t) ==
    LET copy == tab[t].copy
        odd == IF provider.client.odd = "crash" THEN Crash(t) ELSE ErrorPage(t, copy)
    IN  /\ tab[t].at = "exchange" /\ provider.channel = "code"
        /\ \/ Goto(t, "profile") /\ UNCHANGED session
           \/ /\ provider.keeps /\ posted # None /\ posted.who # None
              /\ tab' = [tab EXCEPT ![t].at = "profile", ![t].id = posted.id,
                                    ![t].who = posted.who]
              /\ UNCHANGED session
           \/ ErrorPage(t, copy)
           \/ odd
        /\ Unseen
        /\ UNCHANGED <<provider, setting, serial, posted, seed, swapped, accounts>>

(* get_access_token() of OAuth 1.0: the provider exchanges the request     *)
(* token of the session if it is the one that was approved.                *)
ExchangeToken(t) ==
    /\ tab[t].at = "exchange" /\ provider.channel = "token"
    /\ \/ /\ tab[t].copy.token = tab[t].id /\ tab[t].who # None
          /\ Goto(t, "profile")
       \/ Leave(t)
    /\ Unseen
    /\ UNCHANGED <<provider, setting, serial, session, posted, seed, swapped,
                   accounts>>

(* The state that a social login is completed with. *)
StateFor(t) ==
    IF tab[t].state # None THEN tab[t].state
    ELSE IF provider.state = "last" THEN UnstashedLast(tab[t].copy)
    ELSE Unstashed(tab[t].copy, tab[t].id)

(* complete_social_login() *)
Complete(t, id, who, login, state, copy, claim) ==
    /\ Leave(t)
    /\ IF state.process = "connect" /\ ~copy.user
         THEN Save(copy) /\ Unseen /\ UNCHANGED accounts
         ELSE /\ IF state.process = "login" THEN session' = LoggedIn(copy, id)
                                            ELSE Save(copy)
              /\ accounts' = accounts \cup {[uid |-> login.uid, who |-> who]}
              /\ done' = [state |-> state.id, answer |-> id,
                          address |-> login.address, claim |-> claim]

(* The profile is asked for, and there is an answer. *)
Answer(t, answer) ==
    LET copy == tab[t].copy
        login == SocialLogin(provider, answer, tab[t].who)
        state == StateFor(t)
        left == IF state = None THEN Without(copy, tab[t].id) ELSE Without(copy, state.id)
        modified == provider.channel \in {"code", "token"}
    IN  /\ tab[t].at = "profile"
        /\ answer \in Answers(provider.fetch)
        /\ \/ login.kind = "crash" /\ Crash(t) /\ Unseen /\ UNCHANGED accounts
           \/ /\ login.kind = "error"
              /\ IF modified THEN ErrorPage(t, copy) ELSE Crash(t)
              /\ Unseen /\ UNCHANGED accounts
           \/ /\ login.kind = "login" /\ state = None
              /\ IF modified \/ left # copy THEN ErrorPage(t, left) ELSE Crash(t)
              /\ Unseen /\ UNCHANGED accounts
           \/ /\ login.kind = "login" /\ state # None
              /\ Complete(t, tab[t].id, tab[t].who, login, state, left, answer.claim)
        /\ posted' = IF provider.keeps THEN None ELSE posted
        /\ UNCHANGED <<provider, setting, serial, seed, swapped>>

(* verify_token(): an app posts a token that it got of the provider. *)
TokenLogin(t, who, answer) ==
    LET id == serial + 1
        login == SocialLogin(provider, answer, who)
        state == [id |-> id, process |-> "login", old |-> FALSE]
    IN  /\ tab[t].at = "idle" /\ serial < MaxSerial
        /\ provider.tokens
        /\ answer \in Answers(provider.fetch) /\ login.kind = "login"
        /\ serial' = id
        /\ Complete(t, id, who, login, state, session, answer.claim)
        /\ UNCHANGED <<provider, setting, posted, seed, swapped>>
----------------------------------------------------------------------------
(* SLSView: the identity provider logs out. *)
SignOut ==
    /\ provider.channel = "posted"
    /\ session.user /\ serial < MaxSerial
    /\ serial' = serial + 1
    /\ session' = [NewSession EXCEPT !.key = serial + 1]
    /\ Unseen
    /\ UNCHANGED <<provider, setting, tab, posted, seed, swapped, accounts>>

Aged(s) ==
    [s EXCEPT !.states = [i \in DOMAIN @ |-> [@[i] EXCEPT !.old = TRUE]]]

(* STATE_TTL passes. *)
TimePasses ==
    /\ \E s \in ToSet(session.states) : ~s.old
    /\ session' = Aged(session)
    /\ tab' = [t \in Tab |-> [tab[t] EXCEPT !.copy = Aged(@)]]
    /\ Unseen
    /\ UNCHANGED <<provider, setting, serial, posted, seed, swapped, accounts>>

Restart ==
    /\ seed < MaxRestarts
    /\ seed' = seed + 1
    /\ tab' = [t \in Tab |->
                  IF tab[t].at \in {"asking", "exchange", "profile"} THEN IdleTab
                                                                     ELSE tab[t]]
    /\ Unseen
    /\ UNCHANGED <<provider, setting, serial, session, posted, swapped, accounts>>

(* Somebody gives up a name at the provider, and another takes it. *)
Rename ==
    /\ provider.person.by = "name" /\ ~swapped
    /\ swapped' = TRUE
    /\ Unseen
    /\ UNCHANGED <<provider, setting, serial, session, tab, posted, seed, accounts>>

Next ==
    \/ \E t \in Tab, process \in {"login", "connect"} : Redirect(t, process)
    \/ \E t \in Tab, process \in {"login", "connect"} : RedirectForToken(t, process)
    \/ \E t \in Tab : RequestToken(t)
    \/ \E t \in Tab : Decide(t)
    \/ \E t \in Tab : PostAnswer(t)
    \/ \E t \in Tab : PostToken(t)
    \/ \E t \in Tab, who \in People : Unsolicited(t, who)
    \/ \E t \in Tab : CallbackWithCode(t)
    \/ \E t \in Tab : CallbackWithToken(t)
    \/ \E t \in Tab : CallbackSigned(t)
    \/ \E t \in Tab : CallbackPosted(t)
    \/ \E t \in Tab : ExchangeCode(t)
    \/ \E t \in Tab : ExchangeToken(t)
    \/ \E t \in Tab, answer \in Profiles \cup Refusals : Answer(t, answer)
    \/ \E t \in Tab, who \in People, answer \in Profiles \cup Refusals :
          TokenLogin(t, who, answer)
    \/ SignOut
    \/ TimePasses
    \/ Restart
    \/ Rename

Spec == Init /\ [][Next]_vars
----------------------------------------------------------------------------
(* extract_uid() is to return "the unique user ID".  It is one, where it   *)
(* is the provider's ID of an account and a refused answer has none.       *)
Dependable(p) ==
    /\ p.person.by = "id" /\ p.person.uid # "hash"
    /\ p.person.uid = "text" => \/ p.fetch.status # "ignored"
                                \/ p.fetch.root = "part"
                                \/ "body" \in p.fetch.also

(* Two people never log in as one another, and one is always recognized:   *)
(* whatever the provider answers, and whatever restarts or is renamed in   *)
(* between, a uid stands for one person and a person for one uid.          *)
UidsArePeople ==
    Dependable(provider) =>
        \A a, b \in accounts : a.uid = b.uid <=> a.who = b.who

(* A login is completed with the state of the redirect that its own answer *)
(* came of, however many tabs there are: what was to connect an account is *)
(* not a login, nor the other way round.  Providers that take the last     *)
(* state do not promise it, nor an ID token that was posted.               *)
OwnAnswer ==
    done # None /\ provider.state = "id" /\ ~provider.keeps =>
        done.state = done.answer

(* An address counts as verified only if the provider said so, or if it or *)
(* the site's configuration is trusted to verify all of them.              *)
Vouched ==
    done # None /\ done.address.verified =>
        done.claim \/ setting.vouched \/ provider.person.verified = "always"

(* Nobody is logged out by what another tab has begun before the login.    *)
LoginStays ==
    [][session.user => session'.user \/ SignOut]_vars
=============================================================================
