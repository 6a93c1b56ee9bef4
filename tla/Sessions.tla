------------------------------ MODULE Sessions ------------------------------
(* User sessions (usersessions), the password that keeps them alive (password *)
(* change, reset by link), refresh tokens of the headless API, and requests   *)
(* that wait for a reauthentication.                                          *)
(*                                                                            *)
(* A session is saved as a whole when its request ends, and only if its key   *)
(* is still stored (force_update); cycle_key stores a copy under a new key at *)
(* once. A user's row is loaded when the request begins. A request is cut     *)
(* after each statement that another request can see.                         *)
EXTENDS Naturals, FiniteSets

CONSTANTS
    Users, Nobody, \* Nobody: the user of an anonymous session
    None,          \* no suspended request
    Workers,
    Settings,      \* [ops, apart, track, logoutOnChange, jwt, loginOnReset,
                   \* crash, users, workers, keys, passwords, logins]
    Apart,         \* sets of operations that are taken not to overlap
    Timeout,       \* REAUTHENTICATION_TIMEOUT
    MaxKeys, MaxTokens, MaxPasswords, MaxLogins, MaxLinks, MaxNow

ASSUME Bounds == {Timeout, MaxKeys, MaxTokens, MaxPasswords, MaxLogins, MaxLinks, MaxNow} \subseteq Nat
ASSUME ActorsKnown == \A s \in Settings : s.users \subseteq Users /\ s.workers \subseteq Workers
ASSUME KeysFit == \A s \in Settings : s.keys \in 0 .. MaxKeys
ASSUME NamesApart == Nobody \notin Users /\ None \notin Users \cup {Nobody}

VARIABLES
    setting,
    users,    \* rows of the users: [password, lastLogin], each a version
    store,    \* the stored sessions, by key; Gone if there is none
    rows,     \* usersessions: key -> user, Nobody if there is no row
    req,      \* what each worker is doing
    keys,     \* session keys made so far: 1 .. keys
    issued,   \* sequence number of a refresh token -> its [sid, sub]
    links,    \* reset links that were sent: [user, password, lastLogin]
    versions, \* passwords made so far
    now,
    \* History:
    ended,    \* sessions, by origin, that their user ended
    rotated,  \* refresh tokens that were exchanged for new ones
    ran       \* the last protected request that ran: [asker, runner]

vars == <<setting, users, store, rows, req, keys, issued, links, versions, now, ended, rotated, ran>>
history == <<ended, rotated, ran>>

Keys == 1 .. MaxKeys
Owner == Users \cup {Nobody}

Gone == [user |-> None]

\* What a session says: its user with the hash of the password, the refresh
\* tokens, when something was proved last (0: never), who asked for what waits
\* for a proof. `origin` is history: the key of the login it descends from.
Session == [user : Owner, hash : Nat, tokens : SUBSET (1 .. MaxTokens), proof : Nat,
            held : Owner \cup {None}, origin : Nat]
Blank == [user |-> Nobody, hash |-> 0, tokens |-> {}, proof |-> 0, held |-> None, origin |-> 0]

Stored(k) == k \in Keys /\ store[k] # Gone

\* get_user: the hash of the session must be that of the user's password.
Authentic(s) == s # Gone /\ s.user \in Users /\ s.hash = users[s.user].password

(***************************************************************************)
(* The requests                                                            *)
(***************************************************************************)
Idle == [op |-> "none", at |-> "idle", key |-> 0, copy |-> Blank, who |-> Nobody,
         me |-> [password |-> 0, lastLogin |-> 0], todo |-> {}, token |-> 0, link |-> None, new |-> FALSE]

\* Two operations that must not overlap, of the same user or session.
Free(w, op) == \A v \in Workers \ {w} : req[v].at # "idle" =>
                   ~setting.apart \/ {op, req[v].op} \notin Apart

Goto(w, r) == req' = [req EXCEPT ![w] = r]
\* The request goes on at `at`.
Onward(w, at) == [req[w] EXCEPT !.at = at]

\* flush(): the stored session goes, the request has a new one without a key.
Flushed(r) == [r EXCEPT !.copy = Blank, !.key = 0]
Drop(k) == IF k \in Keys THEN [store EXCEPT ![k] = Gone] ELSE store
\* cycle_key(): what was loaded or edited is stored under a new key at once.
CanCycle == keys < setting.keys
Cycled(r) == [Drop(r.key) EXCEPT ![keys + 1] = r.copy]

\* The key of a session is handed out when the request that made it has answered.
Handed(k) == \A w \in Workers : req[w].new => req[w].key # k

\* A request of the session k (0: none) begins: the user is looked up in it, and
\* a session with another password's hash is flushed. u is who logs in or whose
\* link it is, otherwise Nobody.
Begin(w, op, k, u) ==
    /\ req[w].at = "idle" /\ op \in setting.ops /\ Free(w, op)
    /\ k = 0 \/ (Stored(k) /\ Handed(k))
    /\ LET dead == k # 0 /\ store[k].user # Nobody /\ ~Authentic(store[k])
           copy == IF k = 0 \/ dead THEN Blank ELSE store[k]
           who  == IF u # Nobody THEN u ELSE copy.user
       IN  /\ op \notin {"login", "reset", "post"} => copy.user # Nobody
           /\ store' = IF dead THEN Drop(k) ELSE store
           /\ Goto(w, [Idle EXCEPT !.op = op, !.key = IF dead THEN 0 ELSE k, !.copy = copy, !.who = who,
                          !.me = IF who = Nobody THEN @ ELSE users[who],
                          !.at = IF setting.track /\ copy.user # Nobody THEN "track" ELSE "work"])
    /\ UNCHANGED <<setting, users, rows, keys, issued, links, versions, now, history>>

\* Mutant: a changed password does not make a row for the new key.
ListedOnLogin(r, k) == IF r.op = "change" THEN rows ELSE [rows EXCEPT ![k] = r.copy.user]
\* get_or_create() and save() of the row of this session.
Listed(r, k) == [rows EXCEPT ![k] = r.copy.user]

\* UserSessionsMiddleware
Track(w) ==
    /\ req[w].at = "track"
    /\ rows' = Listed(req[w], req[w].key)
    /\ Goto(w, Onward(w, "work"))
    /\ UNCHANGED <<setting, users, store, keys, issued, links, versions, now, history>>

\* The response is finished: the session is saved under its key, but not if that
\* is gone meanwhile (SessionInterrupted). Requests that edit nothing end without.
\* A login's response of the API has a refresh token.
Save(w) ==
    LET r == req[w]
        new == r.key = 0 /\ r.copy # Blank
        token == Cardinality(DOMAIN issued) + 1
        expose == r.new /\ r.op = "login" /\ setting.jwt /\ token <= MaxTokens
        copy == IF expose THEN [r.copy EXCEPT !.tokens = @ \cup {token}] ELSE r.copy
    IN  /\ r.at = "save"
        /\ new => CanCycle
        /\ keys' = IF new THEN keys + 1 ELSE keys
        /\ store' = IF new THEN [store EXCEPT ![keys + 1] = copy]
                    ELSE IF Stored(r.key) THEN [store EXCEPT ![r.key] = copy] ELSE store
        /\ issued' = IF expose THEN [t \in DOMAIN issued \cup {token} |->
                                        IF t = token THEN [sid |-> r.key, sub |-> copy.user] ELSE issued[t]]
                     ELSE issued
        /\ Goto(w, Idle)
        /\ UNCHANGED <<setting, users, rows, links, versions, now, history>>

(***************************************************************************)
(* Logging in and out                                                      *)
(***************************************************************************)

\* Mutant: the row is saved as it was loaded.
RowAsLoaded(r) == [r.me EXCEPT !.lastLogin = users[r.who].lastLogin + 1]
\* Django's login(): a session of another user or password is flushed (and the
\* records with it), an anonymous one gets a new key, one's own is kept. Only
\* last_login is written to the user's row.
LoggedIn(r) == [r.copy EXCEPT !.user = r.who, !.hash = r.me.password, !.proof = now]
RowOnLogin(r) == [users[r.who] EXCEPT !.lastLogin = @ + 1]

DoLogin(w) ==
    LET r == req[w]
        other == r.copy.user # Nobody /\ (r.copy.user # r.who \/ r.copy.hash # r.me.password)
        fresh == [Blank EXCEPT !.user = r.who, !.hash = r.me.password]
    IN  /\ r.at = "work" /\ r.op = "login"
        /\ users[r.who].lastLogin < setting.logins /\ CanCycle
        /\ users' = [users EXCEPT ![r.who] = RowOnLogin(r)]
        /\ \/ /\ other
              /\ store' = Drop(r.key)
              /\ keys' = keys
              /\ Goto(w, [Flushed(r) EXCEPT !.copy = fresh, !.at = "list", !.new = TRUE])
           \/ /\ r.copy.user = Nobody
              /\ store' = Cycled(r)
              /\ keys' = keys + 1
              /\ Goto(w, [r EXCEPT !.copy = [LoggedIn(r) EXCEPT !.origin = keys + 1], !.key = keys + 1, !.at = "list",
                                   !.new = TRUE])
           \/ /\ ~other /\ r.copy.user = r.who
              /\ UNCHANGED <<store, keys>>
              /\ Goto(w, [r EXCEPT !.copy = LoggedIn(r), !.at = "list"])
        /\ UNCHANGED <<setting, rows, issued, links, versions, now, history>>

\* After the last of some rows a list or an end has answered, a login goes on.
After(r) == IF r.op \in {"list", "end"} THEN Idle ELSE [r EXCEPT !.at = "record"]
Todo(r, ks, at) == IF ks = {} THEN After(r) ELSE [r EXCEPT !.todo = ks, !.at = at]
Did(r, k) == IF r.todo = {k} THEN After([r EXCEPT !.todo = {}]) ELSE [r EXCEPT !.todo = @ \ {k}]

\* purge_and_list(): the rows of the user, which are then looked at one by one.
List(w) ==
    LET r == req[w]
    IN  /\ r.at = "list" \/ (r.at = "work" /\ r.op = "list")
        /\ Goto(w, Todo(r, {k \in Keys : rows[k] = r.who}, "purging"))
        /\ UNCHANGED <<setting, users, store, rows, keys, issued, links, versions, now, history>>

\* A row goes unless its session has a user. Looking flushes a session whose
\* hash is wrong.
Purge(w, k) ==
    /\ req[w].at = "purging" /\ k \in req[w].todo
    /\ store' = IF Stored(k) /\ store[k].user # Nobody /\ ~Authentic(store[k]) THEN Drop(k) ELSE store
    /\ rows' = IF Authentic(store[k]) THEN rows ELSE [rows EXCEPT ![k] = Nobody]
    /\ Goto(w, Did(req[w], k))
    /\ UNCHANGED <<setting, users, keys, issued, links, versions, now, history>>

\* create_from_request() for a login or a changed password. A session without a key is stored to get one.
Record(w) ==
    LET r == req[w]
        new == r.key = 0
        k == IF new THEN keys + 1 ELSE r.key
        copy == IF new THEN [r.copy EXCEPT !.origin = k] ELSE r.copy
    IN  /\ r.at = "record"
        /\ new => CanCycle
        /\ keys' = IF new THEN k ELSE keys
        /\ store' = IF new THEN [store EXCEPT ![k] = copy] ELSE store
        /\ rows' = Listed(r, k)
        /\ Goto(w, [r EXCEPT !.key = k, !.copy = copy, !.at = "save"])
        /\ UNCHANGED <<setting, users, issued, links, versions, now, history>>

\* Mutant: only the user is forgotten.
LogsUserOut(r) == [r EXCEPT !.key = 0, !.copy = [Blank EXCEPT !.held = r.copy.held], !.at = "save"]
\* flows.logout: the session and all it holds is flushed.
LogsOut(r) == [Flushed(r) EXCEPT !.at = "save"]

Logout(w) ==
    /\ req[w].at = "work" /\ req[w].op = "logout"
    /\ store' = Drop(req[w].key)
    /\ ended' = ended \cup {req[w].copy.origin}
    /\ Goto(w, LogsOut(req[w]))
    /\ UNCHANGED <<setting, users, rows, keys, issued, links, versions, now, rotated, ran>>

(***************************************************************************)
(* Ending sessions                                                         *)
(***************************************************************************)
\* The page ends all but the current session, the API those that were chosen.
End(w, chosen) ==
    LET r == req[w]
        mine == {k \in Keys : rows[k] = r.who}
    IN  /\ r.at = "work" /\ r.op = "end"
        /\ chosen \subseteq mine /\ chosen # {}
        /\ Goto(w, Todo(r, chosen, "ending"))
        /\ UNCHANGED <<setting, users, store, rows, keys, issued, links, versions, now, history>>

\* Mutant: the session is only looked up.
KeepsStored(k) == store
\* delete() of the session's store
EndStored(k) == Drop(k)

\* end() deletes the stored session and then its row. Who ends the current
\* session too has none left to save.
EndOne(w, k) ==
    /\ req[w].at = "ending" /\ k \in req[w].todo
    /\ \/ /\ Stored(k)
          /\ store' = EndStored(k)
          /\ ended' = ended \cup {store[k].origin}
          /\ UNCHANGED <<rows, req>>
       \/ /\ ~Stored(k)
          /\ rows' = [rows EXCEPT ![k] = Nobody]
          /\ Goto(w, Did(req[w], k))
          /\ UNCHANGED <<store, ended>>
    /\ UNCHANGED <<setting, users, keys, issued, links, versions, now, rotated, ran>>

(***************************************************************************)
(* Passwords                                                               *)
(***************************************************************************)
CanChange == versions < setting.passwords

\* set_password() and save(): the whole row, as it was loaded but for the password.
NewRow(r) == [r.me EXCEPT !.password = versions + 1]

\* PasswordChangeView, PasswordSetView and their like of the API
Change(w) ==
    LET r == req[w]
    IN  /\ r.at = "work" /\ r.op = "change" /\ CanChange
        /\ users' = [users EXCEPT ![r.who] = NewRow(r)]
        /\ versions' = versions + 1
        /\ Goto(w, [r EXCEPT !.me = NewRow(r), !.at = "changed"])
        /\ UNCHANGED <<setting, store, rows, keys, issued, links, now, history>>

\* logout_on_password_change(): either the session goes too, or it gets a new key
\* and the new hash; the copy under the new key has the old one until it is saved.
Rehash(r) == [r.copy EXCEPT !.hash = r.me.password]

Changed(w) ==
    LET r == req[w]
    IN  /\ r.at = "changed"
        /\ \/ /\ setting.logoutOnChange
              /\ store' = Drop(r.key)
              /\ keys' = keys
              /\ Goto(w, LogsOut(r))
           \/ /\ ~setting.logoutOnChange /\ CanCycle
              /\ store' = Cycled(r)
              /\ keys' = keys + 1
              /\ Goto(w, [r EXCEPT !.copy = Rehash(r), !.key = keys + 1, !.at = "record", !.new = TRUE])
        /\ UNCHANGED <<setting, users, rows, issued, links, versions, now, history>>

\* Connecting an account of a provider saves the user as the request loaded it.
Connect(w) ==
    /\ req[w].at = "work" /\ req[w].op = "connect"
    /\ users' = [users EXCEPT ![req[w].who] = req[w].me]
    /\ Goto(w, Idle)
    /\ UNCHANGED <<setting, store, rows, keys, issued, links, versions, now, history>>

\* make_token(): a link says which password and last login it is for.
SendLink(u) ==
    /\ "reset" \in setting.ops /\ Cardinality(links) < MaxLinks
    /\ links' = links \cup {[user |-> u, row |-> users[u]]}
    /\ UNCHANGED <<setting, users, store, rows, req, keys, issued, versions, now, history>>

\* check_token()
ValidLink(l) == l.row = users[l.user]

\* The form of a valid link is posted, from the page, which logs out another
\* user, or through the API.
PostLink(w, l) ==
    LET r == req[w]
    IN  /\ r.at = "work" /\ r.op = "reset" /\ r.who = l.user
        /\ \/ /\ ValidLink(l)
              /\ \/ /\ r.copy.user \in Users \ {l.user}
                    /\ store' = Drop(r.key)
                    /\ Goto(w, [Flushed(r) EXCEPT !.me = users[l.user], !.at = "resetting", !.link = l.row])
                 \/ /\ store' = store
                    /\ Goto(w, [r EXCEPT !.me = users[l.user], !.at = "resetting", !.link = l.row])
           \/ /\ ~ValidLink(l)
              /\ store' = store
              /\ Goto(w, Idle)
        /\ UNCHANGED <<setting, users, rows, keys, issued, links, versions, now, history>>

\* reset_password() and finalize_password_reset(), which may log the user in.
Reset(w) ==
    LET r == req[w]
    IN  /\ r.at = "resetting" /\ CanChange
        /\ users' = [users EXCEPT ![r.who] = NewRow(r)]
        /\ versions' = versions + 1
        /\ Goto(w, IF setting.loginOnReset
                   THEN [r EXCEPT !.me = NewRow(r), !.op = "login", !.at = "work", !.link = None]
                   ELSE Idle)
        /\ UNCHANGED <<setting, store, rows, keys, issued, links, now, ended, rotated, ran>>

(***************************************************************************)
(* Refresh tokens                                                          *)
(***************************************************************************)

\* validate_refresh_token(): the token's session has it, and its user.
Accepted(t) ==
    LET s == store[issued[t].sid]
    IN  Authentic(s) /\ s.user = issued[t].sub /\ t \in s.tokens

BeginRefresh(w, t) ==
    LET k == issued[t].sid
    IN  /\ req[w].at = "idle" /\ "refresh" \in setting.ops /\ Free(w, "refresh")
        /\ Stored(k) /\ Accepted(t)
        /\ Goto(w, [Idle EXCEPT !.op = "refresh", !.at = "refreshing", !.key = k, !.copy = store[k],
                                !.who = store[k].user, !.token = t])
        /\ UNCHANGED <<setting, users, store, rows, keys, issued, links, versions, now, history>>

\* Mutant: the old token stays.
Added(r, new) == [r.copy EXCEPT !.tokens = @ \cup {new}]
\* Rotation takes the old token out of the session that was loaded and adds one.
Rotated(r, new) == [r.copy EXCEPT !.tokens = (@ \ {r.token}) \cup {new}]

\* The session is saved, unless it is gone: then there is no answer.
Refresh(w) ==
    LET r == req[w]
        new == Cardinality(DOMAIN issued) + 1
    IN  /\ r.at = "refreshing" /\ new <= MaxTokens
        /\ \/ /\ Stored(r.key)
              /\ store' = [store EXCEPT ![r.key] = Rotated(r, new)]
              /\ issued' = [t \in DOMAIN issued \cup {new} |->
                                IF t = new THEN [sid |-> r.key, sub |-> r.who] ELSE issued[t]]
              /\ rotated' = rotated \cup {r.token}
           \/ /\ ~Stored(r.key)
              /\ UNCHANGED <<store, issued, rotated>>
        /\ Goto(w, Idle)
        /\ UNCHANGED <<setting, users, rows, keys, links, versions, now, ended, ran>>

(***************************************************************************)
(* Reauthentication                                                        *)
(***************************************************************************)
\* did_recently_authenticate(), for users that have a way to.
Recent(s) == s.user # Nobody /\ s.proof # 0 /\ now - s.proof < Timeout

\* A protected form is posted: it runs, or waits in the session.
Post(w) ==
    LET r == req[w]
    IN  /\ r.at = "work" /\ r.op = "post"
        /\ \/ /\ Recent(r.copy)
              /\ ran' = [asker |-> r.copy.user, runner |-> r.copy.user]
              /\ Goto(w, Idle)
           \/ /\ ~Recent(r.copy)
              /\ ran' = ran
              /\ Goto(w, [r EXCEPT !.copy.held = r.copy.user, !.at = "save"])
        /\ UNCHANGED <<setting, users, store, rows, keys, issued, links, versions, now, ended, rotated>>

\* The user proves who they are, and what waits runs if it is the page that they
\* were sent from; it is dropped if not.
Reauthenticate(w, back) ==
    LET r == req[w]
        runs == back /\ r.copy.held # None
    IN  /\ r.at = "work" /\ r.op = "reauthenticate"
        /\ ran' = IF runs THEN [asker |-> r.copy.held, runner |-> r.copy.user] ELSE ran
        /\ Goto(w, [r EXCEPT !.copy.proof = now, !.copy.held = None, !.at = "save"])
        /\ UNCHANGED <<setting, users, store, rows, keys, issued, links, versions, now, ended, rotated>>

Tick ==
    /\ "post" \in setting.ops /\ now < MaxNow
    /\ now' = now + 1
    /\ UNCHANGED <<setting, users, store, rows, req, keys, issued, links, versions, history>>

\* A worker is killed.
Die(w) ==
    /\ setting.crash /\ req[w].at # "idle"
    /\ Goto(w, Idle)
    /\ UNCHANGED <<setting, users, store, rows, keys, issued, links, versions, now, history>>

-----------------------------------------------------------------------------
Init ==
    /\ setting \in Settings
    /\ users = [u \in Users |-> [password |-> 1, lastLogin |-> 0]]
    /\ store = [k \in Keys |-> Gone]
    /\ rows = [k \in Keys |-> Nobody]
    /\ req = [w \in Workers |-> Idle]
    /\ keys = 0 /\ issued = [t \in {} |-> 0] /\ links = {}
    /\ versions = 1 /\ now = 1
    /\ ended = {} /\ rotated = {} /\ ran = None

Step(w) ==
    \/ \E op \in {"logout", "change", "list", "end", "connect", "post", "reauthenticate"}, k \in 0 .. MaxKeys :
           Begin(w, op, k, Nobody)
    \/ \E op \in {"login", "reset"}, k \in 0 .. MaxKeys, u \in setting.users : Begin(w, op, k, u)
    \/ Track(w) \/ DoLogin(w) \/ List(w) \/ Record(w) \/ Save(w) \/ Logout(w)
    \/ \E k \in Keys : Purge(w, k) \/ EndOne(w, k)
    \/ \E chosen \in SUBSET Keys : End(w, chosen)
    \/ Change(w) \/ Changed(w) \/ Connect(w) \/ Reset(w)
    \/ \E l \in links : PostLink(w, l)
    \/ \E t \in DOMAIN issued : BeginRefresh(w, t)
    \/ Refresh(w) \/ Post(w) \/ Die(w)
    \/ \E back \in BOOLEAN : Reauthenticate(w, back)

Next ==
    \/ \E w \in setting.workers : Step(w)
    \/ \E u \in setting.users : SendLink(u)
    \/ Tick

Spec == Init /\ [][Next]_vars

-----------------------------------------------------------------------------
(* Properties. Each of them holds of requests that overlap in any way but     *)
(* those of `Apart`.                                                          *)

\* The variables have their types.
TypeOK ==
    /\ users \in [Users -> [password : 1 .. MaxPasswords, lastLogin : 0 .. MaxLogins]]
    /\ store \in [Keys -> Session \cup {Gone}]
    /\ rows \in [Keys -> Owner]
    /\ keys \in 0 .. MaxKeys /\ now \in 1 .. MaxNow /\ versions \in 1 .. MaxPasswords
    /\ \A t \in DOMAIN issued : issued[t] \in [sid : Keys, sub : Users]

\* A session that its user ended, here or elsewhere, is gone for good, under any
\* key that it is continued with: no slow request brings it back.
EndedIsGone ==
    \A k \in Keys : ~(Authentic(store[k]) /\ store[k].origin \in ended)

\* Every session that is logged in has a row of its user from when its key is
\* handed out: users can list it, and so end it.
Listable ==
    \A k \in Keys : Authentic(store[k]) /\ Handed(k) => rows[k] = store[k].user

\* A password that was replaced is never the user's again, so that its sessions
\* and links stay invalid.
ReplacedForGood == [][\A u \in Users : users'[u].password >= users[u].password]_users

\* While a session lasts, its refresh tokens are those that were handed out and
\* not exchanged since: an exchanged one is refused, and no answer was in vain.
TokensExact ==
    \A t \in DOMAIN issued :
        LET s == store[issued[t].sid]
        IN  Authentic(s) /\ s.user = issued[t].sub => (Accepted(t) <=> t \notin rotated)

\* A form that waited for a proof runs for whom posted it, or was posted by nobody
\* who is known.
RunsForAsker == ran # None => ran.asker \in {Nobody, ran.runner}
=============================================================================
