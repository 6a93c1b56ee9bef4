----------------------- MODULE SocialAccountsProofs -----------------------
(***************************************************************************)
(* For all users, accounts, profiles, browsers, configurations and bounds, *)
(* with requests that overlap and workers that die: an account stays with  *)
(* its user, and a connection is for who asked for it.  Where requests do  *)
(* not overlap, each user keeps a way in.                                  *)
(***************************************************************************)
EXTENDS SocialAccounts, SequenceTheorems, FiniteSetTheorems, TLAPS

(* What requests have left to do *)
Lookups == {<<"lookup">>, <<"touch">>, <<"decide">>}
Connections ==
    {<<"user", "account", "end">>, <<"account", "end">>, <<"end">>}
Signups ==
    {<<"user", "account", "addresses", "login">>,
     <<"account", "addresses", "login">>, <<"addresses", "login">>}
Logins ==
    {<<"wipe", "user", "account", "login">>, <<"user", "account", "login">>,
     <<"account", "login">>, <<"wipe", "login">>, <<"login">>}
Plan == Lookups \cup Connections \cup Signups \cup Logins \cup {<<"delete">>}

LEMMA LookupOrder ==
    ASSUME NEW t \in Plan
    PROVE  /\ Head(t) = "lookup" <=> t = <<"lookup">>
           /\ Head(t) = "touch" <=> t = <<"touch">>
           /\ Head(t) = "decide" <=> t = <<"decide">>
           /\ Head(t) = "login" <=> t = <<"login">>
BY DEF Plan, Lookups, Connections, Signups, Logins

LEMMA Tails ==
    ASSUME NEW a, NEW b, NEW c, NEW d
    PROVE  /\ Tail(<<a, b>>) = <<b>>
           /\ Tail(<<a, b, c>>) = <<b, c>>
           /\ Tail(<<a, b, c, d>>) = <<b, c, d>>
OBVIOUS

LEMMA Order ==
    ASSUME NEW t \in Plan, Head(t) \in {"user", "account", "wipe", "addresses"}
    PROVE  /\ t \in Connections \cup Signups \cup Logins
           /\ t \in Connections => Tail(t) \in Connections
           /\ t \notin Connections => Tail(t) \in Signups \cup Logins
<1>1. t \in {<<"user", "account", "end">>, <<"account", "end">>}
               \cup Signups \cup (Logins \ {<<"login">>})
  BY DEF Plan, Lookups, Connections, Signups, Logins
<1>2. /\ Tail(<<"user", "account", "end">>) = <<"account", "end">>
      /\ Tail(<<"account", "end">>) = <<"end">>
  BY Tails
<1>3. /\ Tail(<<"user", "account", "addresses", "login">>)
            = <<"account", "addresses", "login">>
      /\ Tail(<<"account", "addresses", "login">>) = <<"addresses", "login">>
      /\ Tail(<<"addresses", "login">>) = <<"login">>
  BY Tails
<1>4. /\ Tail(<<"wipe", "user", "account", "login">>)
            = <<"user", "account", "login">>
      /\ Tail(<<"user", "account", "login">>) = <<"account", "login">>
      /\ Tail(<<"account", "login">>) = <<"login">>
      /\ Tail(<<"wipe", "login">>) = <<"login">>
  BY Tails
<1>5. Connections \cap (Signups \cup Logins) = {}
  BY DEF Connections, Signups, Logins
<1>6. CASE t \in {<<"user", "account", "end">>, <<"account", "end">>}
  <2>1. t \in Connections /\ Tail(t) \in Connections
    BY <1>6, <1>2, Zenon DEF Connections
  <2>. QED
    BY <2>1, Zenon
<1>7. CASE t \in Signups
  <2>1. Tail(t) \in Signups \cup Logins
    BY <1>7, <1>3, Zenon DEF Signups, Logins
  <2>. QED
    BY <2>1, <1>5, <1>7, Zenon
<1>8. CASE t \in Logins \ {<<"login">>}
  <2>1. Tail(t) \in Logins
    BY <1>8, <1>4, Zenon DEF Logins
  <2>. QED
    BY <2>1, <1>5, <1>8, Zenon
<1>. QED
  BY <1>1, <1>6, <1>7, <1>8

----------------------------------------------------------------------------

(* What a login becomes that is edited *)

Log(uid, addresses, process, asker, user, row, found, resumed, matched) ==
    [uid |-> uid, addresses |-> addresses, process |-> process, asker |-> asker,
     user |-> user, row |-> row, found |-> found, resumed |-> resumed,
     matched |-> matched]

IsLog(l) ==
    l = Log(l.uid, l.addresses, l.process, l.asker, l.user, l.row, l.found,
            l.resumed, l.matched)

(* A login with these fields, whatever it has in the others *)
Points(l, process, asker, user, found) ==
    /\ IsLog(l)
    /\ l.process = process /\ l.asker = asker /\ l.user = user /\ l.found = found

LEMMA LogPoints ==
    ASSUME NEW uid, NEW addresses, NEW process, NEW asker, NEW user, NEW row,
           NEW found, NEW resumed, NEW matched, NEW l,
           l = Log(uid, addresses, process, asker, user, row, found, resumed, matched)
    PROVE  Points(l, process, asker, user, found)
BY DEF Log, IsLog, Points

LEMMA UserSet ==
    ASSUME NEW l, IsLog(l), NEW x
    PROVE  Points([l EXCEPT !.user = x], l.process, l.asker, x, l.found)
<1>1. [l EXCEPT !.user = x]
        = Log(l.uid, l.addresses, l.process, l.asker, x, l.row, l.found,
              l.resumed, l.matched)
  BY DEF IsLog, Log
<1>. QED
  BY <1>1, LogPoints

LEMMA RowSet ==
    ASSUME NEW l, IsLog(l), NEW x
    PROVE  Points([l EXCEPT !.row = x], l.process, l.asker, l.user, l.found)
<1>1. [l EXCEPT !.row = x]
        = Log(l.uid, l.addresses, l.process, l.asker, l.user, x, l.found,
              l.resumed, l.matched)
  BY DEF IsLog, Log
<1>. QED
  BY <1>1, LogPoints

LEMMA FoundSet ==
    ASSUME NEW l, IsLog(l), NEW x
    PROVE  Points([l EXCEPT !.found = x], l.process, l.asker, l.user, x)
<1>1. [l EXCEPT !.found = x]
        = Log(l.uid, l.addresses, l.process, l.asker, l.user, l.row, x,
              l.resumed, l.matched)
  BY DEF IsLog, Log
<1>. QED
  BY <1>1, LogPoints

LEMMA ResumedSet ==
    ASSUME NEW l, IsLog(l), NEW x
    PROVE  Points([l EXCEPT !.resumed = x], l.process, l.asker, l.user, l.found)
<1>1. [l EXCEPT !.resumed = x]
        = Log(l.uid, l.addresses, l.process, l.asker, l.user, l.row, l.found, x,
              l.matched)
  BY DEF IsLog, Log
<1>. QED
  BY <1>1, LogPoints

LEMMA MatchedSet ==
    ASSUME NEW l, IsLog(l), NEW x
    PROVE  Points([l EXCEPT !.matched = x], l.process, l.asker, l.user, l.found)
<1>1. [l EXCEPT !.matched = x]
        = Log(l.uid, l.addresses, l.process, l.asker, l.user, l.row, l.found,
              l.resumed, x)
  BY DEF IsLog, Log
<1>. QED
  BY <1>1, LogPoints

(* The three edits of several fields: an account is found, an address is   *)
(* matched, a connection is suspended.                                     *)
LEMMA AccountFound ==
    ASSUME NEW l, IsLog(l), NEW x, NEW y
    PROVE  Points([l EXCEPT !.user = x, !.found = x, !.row = y],
                  l.process, l.asker, x, x)
<1>. DEFINE d == [l EXCEPT !.user = x]
            e == [d EXCEPT !.found = x]
<1>1. Points(d, l.process, l.asker, x, l.found)
  BY UserSet
<1>2. [l EXCEPT !.user = x, !.found = x, !.row = y] = [e EXCEPT !.row = y]
  OBVIOUS
<1>. HIDE DEF d
<1>3. Points(e, l.process, l.asker, x, x)
  BY <1>1, FoundSet DEF Points
<1>. HIDE DEF e
<1>. QED
  BY <1>2, <1>3, RowSet DEF Points

LEMMA AddressMatched ==
    ASSUME NEW l, IsLog(l), NEW x, NEW y, NEW z
    PROVE  Points([l EXCEPT !.user = x, !.matched = y, !.row = z],
                  l.process, l.asker, x, l.found)
<1>. DEFINE d == [l EXCEPT !.user = x]
            e == [d EXCEPT !.matched = y]
<1>1. Points(d, l.process, l.asker, x, l.found)
  BY UserSet
<1>2. [l EXCEPT !.user = x, !.matched = y, !.row = z] = [e EXCEPT !.row = z]
  OBVIOUS
<1>. HIDE DEF d
<1>3. Points(e, l.process, l.asker, x, l.found)
  BY <1>1, MatchedSet DEF Points
<1>. HIDE DEF e
<1>. QED
  BY <1>2, <1>3, RowSet DEF Points

LEMMA ConnectionSuspended ==
    ASSUME NEW l, IsLog(l), NEW x, NEW y
    PROVE  Points([l EXCEPT !.resumed = x, !.row = y],
                  l.process, l.asker, l.user, l.found)
<1>. DEFINE d == [l EXCEPT !.resumed = x]
<1>1. Points(d, l.process, l.asker, l.user, l.found)
  BY ResumedSet
<1>2. [l EXCEPT !.resumed = x, !.row = y] = [d EXCEPT !.row = y]
  OBVIOUS
<1>. HIDE DEF d
<1>. QED
  BY <1>1, <1>2, RowSet DEF Points

----------------------------------------------------------------------------

(* What a session becomes that is edited *)

Sess(user, hash, fresh, states, pending, suspended) ==
    [user |-> user, hash |-> hash, fresh |-> fresh, states |-> states,
     pending |-> pending, suspended |-> suspended]

IsSess(s) == s = Sess(s.user, s.hash, s.fresh, s.states, s.pending, s.suspended)

Holds(s, user, states, pending, suspended) ==
    /\ IsSess(s)
    /\ s.user = user /\ s.states = states
    /\ s.pending = pending /\ s.suspended = suspended

LEMMA SessHolds ==
    ASSUME NEW user, NEW hash, NEW fresh, NEW states, NEW pending, NEW suspended,
           NEW s, s = Sess(user, hash, fresh, states, pending, suspended)
    PROVE  Holds(s, user, states, pending, suspended)
BY DEF Sess, IsSess, Holds

LEMMA OwnerSet ==
    ASSUME NEW s, IsSess(s), NEW x
    PROVE  Holds([s EXCEPT !.user = x], x, s.states, s.pending, s.suspended)
<1>1. [s EXCEPT !.user = x]
        = Sess(x, s.hash, s.fresh, s.states, s.pending, s.suspended)
  BY DEF IsSess, Sess
<1>. QED
  BY <1>1, SessHolds

LEMMA HashSet ==
    ASSUME NEW s, IsSess(s), NEW x
    PROVE  Holds([s EXCEPT !.hash = x], s.user, s.states, s.pending, s.suspended)
<1>1. [s EXCEPT !.hash = x]
        = Sess(s.user, x, s.fresh, s.states, s.pending, s.suspended)
  BY DEF IsSess, Sess
<1>. QED
  BY <1>1, SessHolds

LEMMA FreshSet ==
    ASSUME NEW s, IsSess(s), NEW x
    PROVE  Holds([s EXCEPT !.fresh = x], s.user, s.states, s.pending, s.suspended)
<1>1. [s EXCEPT !.fresh = x]
        = Sess(s.user, s.hash, x, s.states, s.pending, s.suspended)
  BY DEF IsSess, Sess
<1>. QED
  BY <1>1, SessHolds

LEMMA StatesSet ==
    ASSUME NEW s, IsSess(s), NEW x
    PROVE  Holds([s EXCEPT !.states = x], s.user, x, s.pending, s.suspended)
<1>1. [s EXCEPT !.states = x]
        = Sess(s.user, s.hash, s.fresh, x, s.pending, s.suspended)
  BY DEF IsSess, Sess
<1>. QED
  BY <1>1, SessHolds

LEMMA PendingSet ==
    ASSUME NEW s, IsSess(s), NEW x
    PROVE  Holds([s EXCEPT !.pending = x], s.user, s.states, x, s.suspended)
<1>1. [s EXCEPT !.pending = x]
        = Sess(s.user, s.hash, s.fresh, s.states, x, s.suspended)
  BY DEF IsSess, Sess
<1>. QED
  BY <1>1, SessHolds

LEMMA SuspendedSet ==
    ASSUME NEW s, IsSess(s), NEW x
    PROVE  Holds([s EXCEPT !.suspended = x], s.user, s.states, s.pending, x)
<1>1. [s EXCEPT !.suspended = x]
        = Sess(s.user, s.hash, s.fresh, s.states, s.pending, x)
  BY DEF IsSess, Sess
<1>. QED
  BY <1>1, SessHolds

LEMMA LoggedInHolds ==
    ASSUME NEW s, IsSess(s), NEW u, NEW version
    PROVE  Holds(LoggedIn(s, u, version), u, s.states, s.pending, s.suspended)
<1>. DEFINE d == [s EXCEPT !.user = u]
            e == [d EXCEPT !.hash = version]
<1>1. Holds(d, u, s.states, s.pending, s.suspended)
  BY OwnerSet
<1>2. LoggedIn(s, u, version) = [e EXCEPT !.fresh = TRUE]
  BY DEF LoggedIn
<1>. HIDE DEF d
<1>3. Holds(e, u, s.states, s.pending, s.suspended)
  BY <1>1, HashSet DEF Holds
<1>. HIDE DEF e
<1>. QED
  BY <1>2, <1>3, FreshSet DEF Holds

LEMMA ResumedHolds ==
    ASSUME NEW s, IsSess(s), NEW x, NEW y
    PROVE  Holds([s EXCEPT !.fresh = x, !.suspended = y],
                 s.user, s.states, s.pending, y)
<1>. DEFINE d == [s EXCEPT !.fresh = x]
<1>1. Holds(d, s.user, s.states, s.pending, s.suspended)
  BY FreshSet
<1>2. [s EXCEPT !.fresh = x, !.suspended = y] = [d EXCEPT !.suspended = y]
  OBVIOUS
<1>. HIDE DEF d
<1>. QED
  BY <1>1, <1>2, SuspendedSet DEF Holds

----------------------------------------------------------------------------
(* The invariant *)

(* Whose account was found is whom the login points to: nobody else is, by *)
(* the time that the account's row is written.                             *)
LoginOk(l) == IsLog(l) /\ (l.found # None => l.user = l.found)

(* Who asked for what a session holds is still who is logged in to it, or  *)
(* nobody was.                                                             *)
SessionOk(s) ==
    /\ IsSess(s)
    /\ \A state \in s.states : state.asker \in {None, s.user}
    /\ s.pending # None => LoginOk(s.pending) /\ s.pending.process # "connect"
    /\ s.suspended # None =>
         LoginOk(s.suspended) /\ s.suspended.asker \in {None, s.user}

(* A request with this copy of the session, this login and this to do: it  *)
(* connects the account for who is logged in, and logs in when nobody is.  *)
RequestOk(copy, login, todo) ==
    /\ SessionOk(copy) /\ LoginOk(login) /\ todo \in Plan
    /\ todo = <<"lookup">> => login.found = None
    /\ todo \in Lookups /\ login.process = "connect" =>
         login.asker \in {None, copy.user}
    /\ todo \in Connections =>
         /\ login.asker \in {None, copy.user}
         /\ login.user = copy.user /\ login.user # None
    /\ todo \in Signups \cup Logins =>
         copy.user = None /\ login.process # "connect"

Browsers ==
    /\ session = [b \in Browser |-> session[b]]
    /\ request = [b \in Browser |-> request[b]]
    /\ \A b \in Browser :
         /\ SessionOk(session[b])
         /\ request[b] # None =>
              RequestOk(request[b].copy, request[b].login, request[b].todo)

Accounts == accounts = [uid \in Uid |-> accounts[uid]]

(* What AccountStays says of a step *)
Stays ==
    \A uid \in Uid : accounts[uid] # None => accounts'[uid] \in {accounts[uid], None}

LEMMA EmptyOk == SessionOk(Empty)
BY SessHolds DEF Empty, Sess, Holds, SessionOk

LEMMA LoadedOk ==
    ASSUME Browsers, NEW b \in Browser
    PROVE  SessionOk(Loaded(b))
BY EmptyOk DEF Browsers, Loaded

(* How requests begin, go on and end *)

LEMMA SavedKeeps ==
    ASSUME Browsers, NEW b \in Browser, NEW s, SessionOk(s),
           session' = [session EXCEPT ![b] = s], UNCHANGED request
    PROVE  Browsers'
BY DEF Browsers

LEMMA EndsKeeps ==
    ASSUME Browsers, NEW b \in Browser, NEW s, SessionOk(s), Ends(b, s)
    PROVE  Browsers'
<1>1. /\ request' = [request EXCEPT ![b] = None]
      /\ session' = [session EXCEPT ![b] = s]
  BY DEF Ends
<1>. QED
  BY <1>1 DEF Browsers

LEMMA ErrorKeeps ==
    ASSUME Browsers, NEW b \in Browser, ServerError(b)
    PROVE  Browsers'
BY DEF Browsers, ServerError

LEMMA LeftKeeps ==
    ASSUME Browsers, NEW b \in Browser, NEW copy, NEW login, NEW todo,
           RequestOk(copy, login, todo), Left(b, copy, login, todo)
    PROVE  Browsers'
<1>. DEFINE r == [copy |-> copy, login |-> login, todo |-> todo]
            s == IF session[b].user = copy.user THEN session[b] ELSE copy
<1>1. /\ request' = [request EXCEPT ![b] = r]
      /\ session' = [session EXCEPT ![b] = s]
  BY DEF Left, Browsers
<1>2. SessionOk(s)
  BY DEF RequestOk, Browsers
<1>3. r.copy = copy /\ r.login = login /\ r.todo = todo
  OBVIOUS
<1>. HIDE DEF r, s
<1>4. /\ session' = [c \in Browser |-> session'[c]]
      /\ request' = [c \in Browser |-> request'[c]]
  BY <1>1 DEF Browsers
<1>5. ASSUME NEW c \in Browser
      PROVE  /\ SessionOk(session'[c])
             /\ request'[c] # None =>
                  RequestOk(request'[c].copy, request'[c].login, request'[c].todo)
  <2>1. CASE c = b
    <3>1. session'[c] = s /\ request'[c] = r
      BY <2>1, <1>1 DEF Browsers
    <3>. QED
      BY <3>1, <1>2, <1>3
  <2>2. CASE c # b
    <3>1. session'[c] = session[c] /\ request'[c] = request[c]
      BY <2>2, <1>1 DEF Browsers
    <3>. QED
      BY <3>1 DEF Browsers
  <2>. QED
    BY <2>1, <2>2
<1>. QED
  BY <1>4, <1>5 DEF Browsers

----------------------------------------------------------------------------
(* The steps of the invariant *)

LEMMA RedirectKeeps ==
    ASSUME Browsers, NEW b \in Browser, NEW process, Redirect(b, process)
    PROVE  Browsers' /\ UNCHANGED accounts
<1>. DEFINE s == Loaded(b)
            state == [process |-> process,
                      asker |-> IF process = "connect" THEN s.user ELSE None]
            x == s.states \cup {state}
<1>1. SessionOk(s)
  BY LoadedOk
<1>2. state.asker \in {None, s.user}
  OBVIOUS
<1>3. Saved(b, [s EXCEPT !.states = x])
  BY DEF Redirect
<1>. HIDE DEF s, state
<1>4. Holds([s EXCEPT !.states = x], s.user, x, s.pending, s.suspended)
  BY <1>1, StatesSet DEF SessionOk
<1>. DEFINE t == [s EXCEPT !.states = x]
<1>5. Saved(b, t) /\ Holds(t, s.user, x, s.pending, s.suspended)
  BY <1>3, <1>4
<1>. HIDE DEF t
<1>6. SessionOk(t)
  BY <1>1, <1>2, <1>5 DEF SessionOk, Holds
<1>. QED
  BY <1>5, <1>6, SavedKeeps DEF Saved, database

LEMMA PasswordLoginKeeps ==
    ASSUME Browsers, NEW b \in Browser, NEW u, PasswordLogin(b, u)
    PROVE  Browsers' /\ UNCHANGED accounts
<1>. DEFINE s == Loaded(b)
            t == LoggedIn(s, u, users[u].version)
<1>1. SessionOk(s)
  BY LoadedOk
<1>2. s.user = None /\ Saved(b, t)
  BY DEF PasswordLogin
<1>. HIDE DEF s
<1>3. Holds(t, u, s.states, s.pending, s.suspended)
  BY <1>1, LoggedInHolds DEF SessionOk
<1>. HIDE DEF t
<1>4. SessionOk(t)
  BY <1>1, <1>2, <1>3 DEF SessionOk, Holds
<1>. QED
  BY <1>2, <1>4, SavedKeeps DEF Saved, database

LEMMA LogoutKeeps ==
    ASSUME Browsers, NEW b \in Browser, Logout(b)
    PROVE  Browsers' /\ UNCHANGED accounts
BY SavedKeeps, EmptyOk DEF Logout, LoggedOut, Saved, database

LEMMA StaleKeeps ==
    ASSUME Browsers, NEW b \in Browser, Stale(b)
    PROVE  Browsers' /\ UNCHANGED accounts
<1>. DEFINE s == session[b]
            t == [s EXCEPT !.fresh = FALSE]
<1>1. SessionOk(s) /\ Saved(b, t)
  BY DEF Stale, Browsers
<1>. HIDE DEF s
<1>2. Holds(t, s.user, s.states, s.pending, s.suspended)
  BY <1>1, FreshSet DEF SessionOk
<1>. HIDE DEF t
<1>3. SessionOk(t)
  BY <1>1, <1>2 DEF SessionOk, Holds
<1>. QED
  BY <1>1, <1>3, SavedKeeps DEF Saved, database

LEMMA ChangePasswordKeeps ==
    ASSUME Browsers, NEW b \in Browser, ChangePassword(b)
    PROVE  Browsers' /\ UNCHANGED accounts
<1>. DEFINE s == session[b]
            u == Loaded(b).user
            t == [s EXCEPT !.hash = users[u].version + 1]
<1>1. /\ SessionOk(s)
      /\ session' = [session EXCEPT ![b] = t] /\ UNCHANGED <<request, accounts>>
  BY DEF ChangePassword, Browsers
<1>. HIDE DEF s, u
<1>2. Holds(t, s.user, s.states, s.pending, s.suspended)
  BY <1>1, HashSet DEF SessionOk
<1>. HIDE DEF t
<1>3. SessionOk(t)
  BY <1>1, <1>2 DEF SessionOk, Holds
<1>. QED
  BY <1>1, <1>3, SavedKeeps

LEMMA CallbackKeeps ==
    ASSUME Browsers, NEW b \in Browser, NEW state, NEW uid, NEW profile,
           Callback(b, state, uid, profile)
    PROVE  Browsers' /\ UNCHANGED accounts
<1>. DEFINE s == Loaded(b)
            x == s.states \ {state}
            t == [s EXCEPT !.states = x]
            row == IF s.user = None THEN NewRow ELSE users[s.user]
            login == Log(uid, profile, state.process, state.asker, None, row, None,
                         FALSE, None)
<1>1. SessionOk(s)
  BY LoadedOk
<1>2. /\ state \in s.states /\ Left(b, t, login, <<"lookup">>)
      /\ UNCHANGED accounts
  BY DEF Callback, Log, database
<1>. HIDE DEF s, row
<1>3. Holds(t, s.user, x, s.pending, s.suspended)
  BY <1>1, StatesSet DEF SessionOk
<1>4. Points(login, state.process, state.asker, None, None)
  BY LogPoints
<1>. HIDE DEF t, login
<1>5. SessionOk(t)
  BY <1>1, <1>3 DEF SessionOk, Holds
<1>6. LoginOk(login)
  BY <1>4 DEF Points, LoginOk
<1>7. login.asker \in {None, t.user} /\ login.found = None
  BY <1>1, <1>2, <1>3, <1>4 DEF SessionOk, Holds, Points
<1>8. /\ <<"lookup">> \in Lookups /\ <<"lookup">> \in Plan
      /\ <<"lookup">> \notin Connections \cup Signups \cup Logins
  BY DEF Lookups, Plan, Connections, Signups, Logins
<1>9. RequestOk(t, login, <<"lookup">>)
  BY <1>5, <1>6, <1>7, <1>8 DEF RequestOk
<1>. QED
  BY <1>2, <1>9, LeftKeeps

LEMMA DisconnectKeeps ==
    ASSUME Browsers, NEW b \in Browser, NEW uid, Disconnect(b, uid)
    PROVE  Browsers' /\ UNCHANGED accounts
<1>. DEFINE s == Loaded(b)
            login == Log(uid, <<>>, "connect", s.user, s.user, users[s.user], s.user,
                         FALSE, None)
<1>1. SessionOk(s)
  BY LoadedOk
<1>2. Left(b, s, login, <<"delete">>) /\ UNCHANGED accounts
  BY DEF Disconnect, Log, database
<1>. HIDE DEF s
<1>3. Points(login, "connect", s.user, s.user, s.user)
  BY LogPoints
<1>. HIDE DEF login
<1>4. LoginOk(login)
  BY <1>3 DEF Points, LoginOk
<1>5. /\ <<"delete">> \in Plan /\ <<"delete">> # <<"lookup">>
      /\ <<"delete">> \notin Lookups \cup Connections \cup Signups \cup Logins
  BY DEF Lookups, Plan, Connections, Signups, Logins
<1>6. RequestOk(s, login, <<"delete">>)
  BY <1>1, <1>4, <1>5 DEF RequestOk
<1>. QED
  BY <1>2, <1>6, LeftKeeps

(* A connection is for who is logged in, whom the login points to if its   *)
(* account was found.                                                      *)
LEMMA DoConnectKeeps ==
    ASSUME Browsers, NEW b \in Browser, NEW s, SessionOk(s), NEW login,
           LoginOk(login), login.asker \in {None, s.user}, DoConnect(b, s, login)
    PROVE  Browsers'
<1>. DEFINE suspended == [login EXCEPT !.resumed = TRUE, !.row = NewRow]
            t == [s EXCEPT !.suspended = suspended]
            mine == [login EXCEPT !.user = s.user]
            todo == <<"user", "account", "end">>
<1>1. \/ Ends(b, s)
      \/ Ends(b, t)
      \/ /\ s.user # None /\ ~ConnectedOther(login, s.user)
         /\ Left(b, s, mine, todo)
  BY DEF DoConnect
<1>2. Points(suspended, login.process, login.asker, login.user, login.found)
  BY ConnectionSuspended DEF LoginOk
<1>3. Points(mine, login.process, login.asker, s.user, login.found)
  BY UserSet DEF LoginOk
<1>. HIDE DEF suspended, mine
<1>4. Holds(t, s.user, s.states, s.pending, suspended)
  BY SuspendedSet DEF SessionOk
<1>. HIDE DEF t
<1>5. SessionOk(t)
  BY <1>2, <1>4 DEF SessionOk, Holds, Points, LoginOk
<1>6. ASSUME s.user # None, ~ConnectedOther(login, s.user)
      PROVE  RequestOk(s, mine, todo)
  <2>1. login.found # None => login.found = s.user
    BY <1>6 DEF ConnectedOther, LoginOk
  <2>2. LoginOk(mine)
    BY <2>1, <1>3 DEF LoginOk, Points
  <2>3. /\ todo \in Connections /\ todo \in Plan /\ todo # <<"lookup">>
        /\ todo \notin Lookups \cup Signups \cup Logins
    BY DEF Lookups, Plan, Connections, Signups, Logins
  <2>. HIDE DEF todo
  <2>. QED
    BY <2>2, <2>3, <1>3, <1>6 DEF RequestOk, Points
<1>. QED
  BY <1>1, <1>5, <1>6, EndsKeeps, LeftKeeps

LEMMA ReauthenticateKeeps ==
    ASSUME Browsers, NEW b \in Browser, Reauthenticate(b)
    PROVE  Browsers' /\ UNCHANGED accounts
<1>. DEFINE s == Loaded(b)
            t == [s EXCEPT !.fresh = TRUE, !.suspended = None]
            login == s.suspended
            row == users[t.user]
            resumed == [login EXCEPT !.row = row]
<1>1. SessionOk(s)
  BY LoadedOk
<1>2. /\ \/ Ends(b, t)
         \/ login # None /\ DoConnect(b, t, resumed)
      /\ UNCHANGED accounts
  BY DEF Reauthenticate, database
<1>. HIDE DEF s, row
<1>3. Holds(t, s.user, s.states, s.pending, None)
  BY <1>1, ResumedHolds DEF SessionOk
<1>. HIDE DEF t
<1>4. SessionOk(t)
  BY <1>1, <1>3 DEF SessionOk, Holds
<1>5. ASSUME login # None
      PROVE  LoginOk(resumed) /\ resumed.asker \in {None, t.user}
  <2>1. Points(resumed, login.process, login.asker, login.user, login.found)
    BY <1>1, <1>5, RowSet DEF SessionOk, LoginOk
  <2>. HIDE DEF resumed
  <2>2. LoginOk(login) /\ login.asker \in {None, s.user}
    BY <1>1, <1>5 DEF SessionOk
  <2>. HIDE DEF login
  <2>. QED
    BY <2>1, <2>2, <1>3 DEF Points, LoginOk, Holds
<1>. QED
  BY <1>2, <1>4, <1>5, EndsKeeps, DoConnectKeeps

(* What a signup and a login have to do is not part of a connection. *)
LEMMA SignupPlan ==
    ASSUME NEW todo \in Signups \cup Logins
    PROVE  /\ todo \in Plan /\ todo # <<"lookup">>
           /\ todo \notin Lookups \cup Connections
BY DEF Lookups, Plan, Connections, Signups, Logins

LEMMA LoginGoesOn ==
    ASSUME NEW copy, SessionOk(copy), copy.user = None,
           NEW login, LoginOk(login), login.process # "connect",
           NEW todo \in Signups \cup Logins
    PROVE  RequestOk(copy, login, todo)
BY SignupPlan DEF RequestOk

LEMMA ProcessSignupKeeps ==
    ASSUME Browsers, NEW b \in Browser, NEW s, SessionOk(s), s.user = None,
           NEW login, LoginOk(login), login.process # "connect",
           ProcessSignup(b, s, login)
    PROVE  Browsers'
<1>. DEFINE row == [version |-> 1, password |-> FALSE,
                    mail |-> login.addresses[1].email]
            new == [login EXCEPT !.row = row]
            waiting == [login EXCEPT !.row = NewRow]
            t == [s EXCEPT !.pending = waiting]
            todo == <<"user", "account", "addresses", "login">>
<1>1. \/ Ends(b, s)
      \/ Left(b, s, new, todo)
      \/ Ends(b, t)
  BY DEF ProcessSignup
<1>. HIDE DEF row
<1>2. Points(new, login.process, login.asker, login.user, login.found)
  BY RowSet DEF LoginOk
<1>3. Points(waiting, login.process, login.asker, login.user, login.found)
  BY RowSet DEF LoginOk
<1>. HIDE DEF new, waiting
<1>4. Holds(t, s.user, s.states, waiting, s.suspended)
  BY PendingSet DEF SessionOk
<1>. HIDE DEF t
<1>5. SessionOk(t)
  BY <1>3, <1>4 DEF SessionOk, Holds, Points, LoginOk
<1>6. LoginOk(new) /\ new.process # "connect"
  BY <1>2 DEF Points, LoginOk
<1>7. todo \in Signups \cup Logins
  BY DEF Signups
<1>. HIDE DEF todo
<1>8. RequestOk(s, new, todo)
  BY <1>6, <1>7, LoginGoesOn
<1>. QED
  BY <1>1, <1>5, <1>8, EndsKeeps, LeftKeeps

LEMMA Appended ==
    ASSUME NEW S, NEW s \in Seq(S), NEW e \in S, NEW t \in Seq(S),
           Len(t) = Len(s) + 1, t[Len(s) + 1] = e, \A i \in 1..Len(s) : t[i] = s[i]
    PROVE  s \o <<e>> = t
<1>1. /\ Append(s, e) \in Seq(S) /\ Len(Append(s, e)) = Len(s) + 1
      /\ \A i \in 1..Len(s) : Append(s, e)[i] = s[i]
      /\ Append(s, e)[Len(s) + 1] = e
  BY AppendProperties
<1>2. Append(s, e) = s \o <<e>>
  BY AppendIsConcat
<1>3. Append(s, e) = t
  <2>1. \A i \in 1..Len(Append(s, e)) : Append(s, e)[i] = t[i]
    BY <1>1
  <2>. QED
    BY <1>1, <2>1, SeqEqual
<1>. QED
  BY <1>2, <1>3

LEMMA Concatenations ==
    ASSUME NEW a, NEW b, NEW c, NEW d
    PROVE  /\ <<>> \o <<>> = <<>> /\ <<>> \o <<a>> = <<a>>
           /\ <<>> \o <<a, b>> = <<a, b>> /\ <<a>> \o <<>> = <<a>>
           /\ <<a>> \o <<b>> = <<a, b>> /\ <<a>> \o <<b, c>> = <<a, b, c>>
           /\ <<a, b>> \o <<c>> = <<a, b, c>>
           /\ <<a, b, c>> \o <<d>> = <<a, b, c, d>>
<1>. DEFINE S == {a, b, c, d}
<1>1. /\ <<>> \in Seq(S) /\ <<a>> \in Seq(S) /\ <<b>> \in Seq(S)
      /\ <<c>> \in Seq(S) /\ <<a, b>> \in Seq(S) /\ <<a, b, c>> \in Seq(S)
      /\ a \in S /\ b \in S /\ c \in S /\ d \in S
  OBVIOUS
<1>2. /\ <<b, c>> \in Seq(S) /\ <<a, b, c>> \in Seq(S)
      /\ <<a, b, c, d>> \in Seq(S)
  OBVIOUS
<1>. HIDE DEF S
<1>3. /\ <<>> \o <<>> = <<>> /\ <<>> \o <<a>> = <<a>>
      /\ <<>> \o <<a, b>> = <<a, b>> /\ <<a>> \o <<>> = <<a>>
  BY <1>1, ConcatEmptySeq, Zenon
<1>4. <<a>> \o <<b>> = <<a, b>>
  <2>. DEFINE s == <<a>>
              t == <<a, b>>
  <2>1. /\ Len(t) = Len(s) + 1 /\ t[Len(s) + 1] = b
        /\ \A i \in 1..Len(s) : t[i] = s[i]
    OBVIOUS
  <2>2. s \in Seq(S) /\ t \in Seq(S)
    BY <1>1, <1>2
  <2>. HIDE DEF s, t
  <2>3. s \o <<b>> = t
    BY <2>1, <2>2, <1>1, Appended
  <2>. QED
    BY <2>3 DEF s, t
<1>5. <<b>> \o <<c>> = <<b, c>>
  <2>. DEFINE s == <<b>>
              t == <<b, c>>
  <2>1. /\ Len(t) = Len(s) + 1 /\ t[Len(s) + 1] = c
        /\ \A i \in 1..Len(s) : t[i] = s[i]
    OBVIOUS
  <2>2. s \in Seq(S) /\ t \in Seq(S)
    BY <1>1, <1>2
  <2>. HIDE DEF s, t
  <2>3. s \o <<c>> = t
    BY <2>1, <2>2, <1>1, Appended
  <2>. QED
    BY <2>3 DEF s, t
<1>6. <<a, b>> \o <<c>> = <<a, b, c>>
  <2>. DEFINE s == <<a, b>>
              t == <<a, b, c>>
  <2>1. /\ Len(t) = Len(s) + 1 /\ t[Len(s) + 1] = c
        /\ \A i \in 1..Len(s) : t[i] = s[i]
    OBVIOUS
  <2>2. s \in Seq(S) /\ t \in Seq(S)
    BY <1>1, <1>2
  <2>. HIDE DEF s, t
  <2>3. s \o <<c>> = t
    BY <2>1, <2>2, <1>1, Appended
  <2>. QED
    BY <2>3 DEF s, t
<1>7. <<a, b, c>> \o <<d>> = <<a, b, c, d>>
  <2>. DEFINE s == <<a, b, c>>
              t == <<a, b, c, d>>
  <2>1. /\ Len(t) = Len(s) + 1 /\ t[Len(s) + 1] = d
        /\ \A i \in 1..Len(s) : t[i] = s[i]
    OBVIOUS
  <2>2. s \in Seq(S) /\ t \in Seq(S)
    BY <1>1, <1>2
  <2>. HIDE DEF s, t
  <2>3. s \o <<d>> = t
    BY <2>1, <2>2, <1>1, Appended
  <2>. QED
    BY <2>3 DEF s, t
<1>8. (<<a>> \o <<b>>) \o <<c>> = <<a>> \o (<<b>> \o <<c>>)
  BY <1>1, ConcatAssociative
<1>9. <<a>> \o <<b, c>> = <<a, b, c>>
  BY <1>4, <1>5, <1>6, <1>8, Zenon
<1>. QED
  BY <1>3, <1>4, <1>6, <1>7, <1>9, Zenon

LEMMA Joined ==
    /\ (<<>> \o <<>>) \o <<"login">> \in Logins
    /\ (<<"wipe">> \o <<>>) \o <<"login">> \in Logins
    /\ (<<>> \o <<"user", "account">>) \o <<"login">> \in Logins
    /\ (<<"wipe">> \o <<"user", "account">>) \o <<"login">> \in Logins
<1>1. /\ <<>> \o <<>> = <<>>
      /\ <<>> \o <<"login">> = <<"login">>
  BY Concatenations, Zenon
<1>2. /\ <<"wipe">> \o <<>> = <<"wipe">>
      /\ <<"wipe">> \o <<"login">> = <<"wipe", "login">>
  BY Concatenations, Zenon
<1>3. /\ <<>> \o <<"user", "account">> = <<"user", "account">>
      /\ <<"user", "account">> \o <<"login">> = <<"user", "account", "login">>
  BY Concatenations, Zenon
<1>4. /\ <<"wipe">> \o <<"user", "account">> = <<"wipe", "user", "account">>
      /\ <<"wipe", "user", "account">> \o <<"login">>
            = <<"wipe", "user", "account", "login">>
  BY Concatenations, Zenon
<1>. QED
  BY <1>1, <1>2, <1>3, <1>4, Zenon DEF Logins

LEMMA AuthenticateKeeps ==
    ASSUME Browsers, NEW b \in Browser, SessionOk(Copy(b)),
           NEW login, LoginOk(login), login.process # "connect",
           Authenticate(b, login)
    PROVE  Browsers'
<1>. DEFINE s == IF Copy(b).user = None THEN Copy(b) ELSE LoggedOut(Copy(b))
            wipe == IF MustWipe(login) THEN <<"wipe">> ELSE <<>>
            connect == IF login.matched # None /\ setting.byEmail = "connect"
                         THEN <<"user", "account">> ELSE <<>>
            todo == wipe \o connect \o <<"login">>
<1>1. \/ ProcessSignup(b, s, login)
      \/ Left(b, s, login, todo)
  BY DEF Authenticate
<1>2. SessionOk(s) /\ s.user = None
  BY EmptyOk DEF LoggedOut, Empty
<1>3. todo \in Logins
  BY Joined
<1>. HIDE DEF s, todo
<1>4. RequestOk(s, login, todo)
  BY <1>2, <1>3, LoginGoesOn
<1>. QED
  BY <1>1, <1>2, <1>4, LeftKeeps, ProcessSignupKeeps

LEMMA PostSignupKeeps ==
    ASSUME Browsers, NEW b \in Browser, NEW e, PostSignup(b, e)
    PROVE  Browsers' /\ UNCHANGED accounts
<1>. DEFINE s == Loaded(b)
            t == [s EXCEPT !.pending = None]
            login == s.pending
            row == [version |-> 1, password |-> FALSE, mail |-> e]
            new == [login EXCEPT !.row = row]
            todo == <<"user", "account", "addresses", "login">>
<1>1. SessionOk(s)
  BY LoadedOk
<1>2. /\ s.user = None /\ login # None
      /\ Ends(b, t) \/ Left(b, t, new, todo)
      /\ UNCHANGED accounts
  BY DEF PostSignup, database
<1>. HIDE DEF s, row
<1>3. Holds(t, s.user, s.states, None, s.suspended)
  BY <1>1, PendingSet DEF SessionOk
<1>. HIDE DEF t
<1>4. SessionOk(t) /\ t.user = None
  BY <1>1, <1>2, <1>3 DEF SessionOk, Holds
<1>5. LoginOk(login) /\ login.process # "connect"
  BY <1>1, <1>2 DEF SessionOk
<1>. HIDE DEF login
<1>6. Points(new, login.process, login.asker, login.user, login.found)
  BY <1>5, RowSet DEF LoginOk
<1>. HIDE DEF new
<1>7. LoginOk(new) /\ new.process # "connect"
  BY <1>5, <1>6 DEF Points, LoginOk
<1>8. todo \in Signups \cup Logins
  BY DEF Signups
<1>. HIDE DEF todo
<1>9. RequestOk(t, new, todo)
  BY <1>4, <1>7, <1>8, LoginGoesOn
<1>. QED
  BY <1>2, <1>4, <1>9, EndsKeeps, LeftKeeps

LEMMA AtStep ==
    ASSUME Browsers, NEW b \in Browser, NEW step, At(b, step)
    PROVE  /\ RequestOk(Copy(b), SocialLoginOf(b), request[b].todo)
           /\ Head(request[b].todo) = step
BY DEF Browsers, At, Idle, Copy, SocialLoginOf

LEMMA LookupPlan ==
    ASSUME NEW todo \in {<<"touch">>, <<"decide">>}
    PROVE  /\ todo \in Lookups /\ todo \in Plan /\ todo # <<"lookup">>
           /\ todo \notin Connections \cup Signups \cup Logins
BY DEF Lookups, Plan, Connections, Signups, Logins

LEMMA LookupGoesOn ==
    ASSUME NEW copy, SessionOk(copy), NEW login, LoginOk(login),
           login.process = "connect" => login.asker \in {None, copy.user},
           NEW todo \in {<<"touch">>, <<"decide">>}
    PROVE  RequestOk(copy, login, todo)
BY LookupPlan DEF RequestOk

LEMMA LookUpKeeps ==
    ASSUME Browsers, NEW b \in Browser, LookUp(b)
    PROVE  Browsers' /\ UNCHANGED accounts
<1>. DEFINE copy == Copy(b)
            login == SocialLoginOf(b)
            s == [copy EXCEPT !.pending = None]
            found(u, row) == [login EXCEPT !.user = u, !.found = u, !.row = row]
            matched(u, e, row) == [login EXCEPT !.user = u, !.matched = e, !.row = row]
            OneOf(l, todo) == /\ todo \in {<<"touch">>, <<"decide">>}
                              /\ \/ l = login
                                 \/ \E u, row : l = found(u, row)
                                 \/ \E u, e, row : l = matched(u, e, row)
<1>1. At(b, "lookup") /\ UNCHANGED accounts
  BY DEF LookUp, database
<1>2. \E l, todo : OneOf(l, todo) /\ Left(b, s, l, todo)
  BY DEF LookUp
<1>3. RequestOk(copy, login, request[b].todo) /\ request[b].todo = <<"lookup">>
  BY <1>1, AtStep, LookupOrder DEF RequestOk
<1>. HIDE DEF copy, login
<1>4. /\ SessionOk(copy) /\ LoginOk(login) /\ login.found = None
      /\ login.process = "connect" => login.asker \in {None, copy.user}
  BY <1>3 DEF RequestOk, Lookups
<1>5. Holds(s, copy.user, copy.states, None, copy.suspended)
  BY <1>4, PendingSet DEF SessionOk
<1>. HIDE DEF s
<1>6. SessionOk(s) /\ s.user = copy.user
  BY <1>4, <1>5 DEF SessionOk, Holds
<1>7. ASSUME NEW u, NEW row
      PROVE  /\ LoginOk(found(u, row))
             /\ found(u, row).process = login.process
             /\ found(u, row).asker = login.asker
  <2>1. Points(found(u, row), login.process, login.asker, u, u)
    BY <1>4, AccountFound DEF LoginOk
  <2>. HIDE DEF found
  <2>. QED
    BY <2>1 DEF Points, LoginOk
<1>8. ASSUME NEW u, NEW e, NEW row
      PROVE  /\ LoginOk(matched(u, e, row))
             /\ matched(u, e, row).process = login.process
             /\ matched(u, e, row).asker = login.asker
  <2>1. Points(matched(u, e, row), login.process, login.asker, u, login.found)
    BY <1>4, AddressMatched DEF LoginOk
  <2>. HIDE DEF matched
  <2>. QED
    BY <2>1, <1>4 DEF Points, LoginOk
<1>9. ASSUME NEW l, NEW todo, OneOf(l, todo)
      PROVE  RequestOk(s, l, todo)
  <2>1. LoginOk(l) /\ l.process = login.process /\ l.asker = login.asker
    <3>. HIDE DEF found, matched
    <3>. QED
      BY <1>4, <1>7, <1>8, <1>9
  <2>2. todo \in {<<"touch">>, <<"decide">>}
    BY <1>9
  <2>. QED
    BY <2>1, <2>2, <1>4, <1>6, LookupGoesOn
<1>. HIDE DEF OneOf
<1>. QED
  BY <1>1, <1>2, <1>9, LeftKeeps

LEMMA TouchKeeps ==
    ASSUME Browsers, Accounts, NEW b \in Browser, Touch(b)
    PROVE  Browsers' /\ Accounts' /\ Stays
<1>. DEFINE login == SocialLoginOf(b)
<1>1. /\ At(b, "touch")
      /\ \/ /\ accounts[login.uid] \in {None, login.found}
            /\ accounts' = [accounts EXCEPT ![login.uid] = login.found]
            /\ Left(b, Copy(b), login, <<"decide">>)
         \/ ServerError(b) /\ UNCHANGED accounts
  BY DEF Touch
<1>2. RequestOk(Copy(b), login, <<"touch">>)
  BY <1>1, AtStep, LookupOrder DEF RequestOk
<1>. HIDE DEF login
<1>3. /\ SessionOk(Copy(b)) /\ LoginOk(login)
      /\ login.process = "connect" => login.asker \in {None, Copy(b).user}
  BY <1>2 DEF RequestOk, Lookups
<1>4. RequestOk(Copy(b), login, <<"decide">>)
  BY <1>3, LookupGoesOn
<1>5. Browsers'
  BY <1>1, <1>4, LeftKeeps, ErrorKeeps
<1>6. Accounts' /\ Stays
  BY <1>1 DEF Accounts, Stays
<1>. QED
  BY <1>5, <1>6

LEMMA DecideKeeps ==
    ASSUME Browsers, NEW b \in Browser, Decide(b)
    PROVE  Browsers' /\ UNCHANGED accounts
<1>. DEFINE login == SocialLoginOf(b)
<1>1. /\ At(b, "decide") /\ UNCHANGED accounts
      /\ \/ login.process = "connect" /\ DoConnect(b, Copy(b), login)
         \/ login.process # "connect" /\ Authenticate(b, login)
  BY DEF Decide, database
<1>2. RequestOk(Copy(b), login, <<"decide">>)
  BY <1>1, AtStep, LookupOrder DEF RequestOk
<1>. HIDE DEF login
<1>3. /\ SessionOk(Copy(b)) /\ LoginOk(login)
      /\ login.process = "connect" => login.asker \in {None, Copy(b).user}
  BY <1>2 DEF RequestOk, Lookups
<1>. QED
  BY <1>1, <1>3, DoConnectKeeps, AuthenticateKeeps

(* A request that has a user, an account, an address or a password to      *)
(* write goes on with the same plan, unless what it does then changes.     *)
LEMMA GoesOn ==
    ASSUME Browsers, NEW b \in Browser,
           NEW step \in {"user", "account", "wipe", "addresses"}, At(b, step),
           NEW login, LoginOk(login), login.process = SocialLoginOf(b).process,
           login.asker = SocialLoginOf(b).asker,
           SocialLoginOf(b).user # None => login.user = SocialLoginOf(b).user
    PROVE  RequestOk(Copy(b), login, Then(b))
<1>. DEFINE todo == request[b].todo
            old == SocialLoginOf(b)
<1>1. RequestOk(Copy(b), old, todo) /\ Head(todo) = step /\ Then(b) = Tail(todo)
  BY AtStep DEF Then
<1>. HIDE DEF todo, old
<1>2. todo \in Plan
  BY <1>1 DEF RequestOk
<1>3. CASE todo \in Connections
  <2>1. Tail(todo) \in Connections
    BY <1>1, <1>2, <1>3, Order
  <2>2. /\ Tail(todo) \in Plan /\ Tail(todo) # <<"lookup">>
        /\ Tail(todo) \notin Lookups \cup Signups \cup Logins
    BY <2>1 DEF Lookups, Plan, Connections, Signups, Logins
  <2>. QED
    BY <1>1, <1>3, <2>1, <2>2 DEF RequestOk, old
<1>4. CASE todo \notin Connections
  <2>1. todo \in Signups \cup Logins /\ Tail(todo) \in Signups \cup Logins
    BY <1>1, <1>2, <1>4, Order
  <2>2. /\ SessionOk(Copy(b)) /\ Copy(b).user = None
        /\ old.process # "connect"
    BY <1>1, <2>1 DEF RequestOk
  <2>. QED
    BY <1>1, <2>1, <2>2, LoginGoesOn DEF old
<1>. QED
  BY <1>3, <1>4

LEMMA WipeKeeps ==
    ASSUME Browsers, NEW b \in Browser, Wipe(b)
    PROVE  Browsers' /\ UNCHANGED accounts
<1>. DEFINE login == SocialLoginOf(b)
<1>1. PICK row : /\ At(b, "wipe") /\ UNCHANGED accounts
                 /\ Left(b, Copy(b), [login EXCEPT !.row = row], Then(b))
  BY DEF Wipe, database
<1>2. LoginOk(login)
  BY <1>1, AtStep DEF RequestOk
<1>. HIDE DEF login
<1>3. Points([login EXCEPT !.row = row],
             login.process, login.asker, login.user, login.found)
  BY <1>2, RowSet DEF LoginOk
<1>. DEFINE new == [login EXCEPT !.row = row]
<1>. HIDE DEF new
<1>4. /\ LoginOk(new) /\ new.process = login.process
      /\ new.asker = login.asker /\ new.user = login.user
  BY <1>2, <1>3 DEF Points, LoginOk, new
<1>5. RequestOk(Copy(b), new, Then(b))
  BY <1>1, <1>4, GoesOn DEF login
<1>. QED
  BY <1>1, <1>5, LeftKeeps DEF new

LEMMA SaveUserKeeps ==
    ASSUME Browsers, NEW b \in Browser, SaveUser(b)
    PROVE  Browsers' /\ UNCHANGED accounts
<1>. DEFINE login == SocialLoginOf(b)
<1>1. PICK u : /\ At(b, "user") /\ UNCHANGED accounts
               /\ login.user # None => u = login.user
               /\ Left(b, Copy(b), [login EXCEPT !.user = u], Then(b))
  BY DEF SaveUser
<1>2. LoginOk(login)
  BY <1>1, AtStep DEF RequestOk
<1>. HIDE DEF login
<1>3. Points([login EXCEPT !.user = u], login.process, login.asker, u, login.found)
  BY <1>2, UserSet DEF LoginOk
<1>. DEFINE new == [login EXCEPT !.user = u]
<1>. HIDE DEF new
<1>4. /\ LoginOk(new) /\ new.process = login.process
      /\ new.asker = login.asker /\ (login.user # None => new.user = login.user)
  BY <1>1, <1>2, <1>3 DEF Points, LoginOk, new
<1>5. RequestOk(Copy(b), new, Then(b))
  <2>1. At(b, "user")
    BY <1>1
  <2>2. /\ LoginOk(new) /\ new.process = SocialLoginOf(b).process
        /\ new.asker = SocialLoginOf(b).asker
        /\ SocialLoginOf(b).user # None => new.user = SocialLoginOf(b).user
    BY <1>4 DEF login
  <2>. QED
    BY <2>1, <2>2, GoesOn
<1>. QED
  BY <1>1, <1>5, LeftKeeps DEF new

(* The row is written for whose it was found to be, or was not there. *)
LEMMA SaveAccountKeeps ==
    ASSUME Browsers, Accounts, NEW b \in Browser, SaveAccount(b)
    PROVE  Browsers' /\ Accounts' /\ Stays
<1>. DEFINE login == SocialLoginOf(b)
<1>1. /\ At(b, "account")
      /\ \/ /\ accounts[login.uid] \in {None, login.found}
            /\ accounts' = [accounts EXCEPT ![login.uid] = login.user]
            /\ Left(b, Copy(b), login, Then(b))
         \/ ServerError(b) /\ UNCHANGED accounts
  BY DEF SaveAccount
<1>2. LoginOk(login)
  BY <1>1, AtStep DEF RequestOk
<1>3. RequestOk(Copy(b), login, Then(b))
  BY <1>1, <1>2, GoesOn
<1>. HIDE DEF login
<1>4. Browsers'
  BY <1>1, <1>3, LeftKeeps, ErrorKeeps
<1>5. Accounts' /\ Stays
  BY <1>1, <1>2 DEF Accounts, Stays, LoginOk
<1>. QED
  BY <1>4, <1>5

LEMMA SetupUserEmailKeeps ==
    ASSUME Browsers, NEW b \in Browser, SetupUserEmail(b)
    PROVE  Browsers' /\ UNCHANGED accounts
<1>. DEFINE login == SocialLoginOf(b)
<1>1. PICK row : /\ At(b, "addresses") /\ UNCHANGED accounts
                 /\ Left(b, Copy(b), [login EXCEPT !.row = row], Then(b))
  BY DEF SetupUserEmail, database
<1>2. LoginOk(login)
  BY <1>1, AtStep DEF RequestOk
<1>. HIDE DEF login
<1>3. Points([login EXCEPT !.row = row],
             login.process, login.asker, login.user, login.found)
  BY <1>2, RowSet DEF LoginOk
<1>. DEFINE new == [login EXCEPT !.row = row]
<1>. HIDE DEF new
<1>4. /\ LoginOk(new) /\ new.process = login.process
      /\ new.asker = login.asker /\ new.user = login.user
  BY <1>2, <1>3 DEF Points, LoginOk, new
<1>5. RequestOk(Copy(b), new, Then(b))
  BY <1>1, <1>4, GoesOn DEF login
<1>. QED
  BY <1>1, <1>5, LeftKeeps DEF new

LEMMA DeleteAccountKeeps ==
    ASSUME Browsers, Accounts, NEW b \in Browser, DeleteAccount(b)
    PROVE  Browsers' /\ Accounts' /\ Stays
<1>1. At(b, "delete") /\ Ends(b, Copy(b))
  BY DEF DeleteAccount
<1>2. Browsers'
  BY <1>1, AtStep, EndsKeeps DEF RequestOk
<1>3. PICK uid, v : accounts' = [accounts EXCEPT ![uid] = v] /\ v \in {accounts[uid], None}
  BY DEF DeleteAccount
<1>. QED
  BY <1>2, <1>3 DEF Accounts, Stays

(* Nobody is logged in to the session that a login is written to. *)
LEMMA FinishKeeps ==
    ASSUME Browsers, NEW b \in Browser, Finish(b)
    PROVE  Browsers' /\ UNCHANGED accounts
<1>. DEFINE copy == Copy(b)
            login == SocialLoginOf(b)
            t == LoggedIn(copy, login.user, login.row.version)
<1>1. /\ UNCHANGED accounts
      /\ \/ At(b, "end") /\ Ends(b, copy)
         \/ At(b, "login") /\ Ends(b, copy)
         \/ At(b, "login") /\ Ends(b, t)
  BY DEF Finish, database
<1>2. \/ At(b, "end") \/ At(b, "login")
  BY <1>1
<1>3. RequestOk(copy, login, request[b].todo)
  BY <1>2, AtStep
<1>4. SessionOk(copy)
  BY <1>3 DEF RequestOk
<1>5. ASSUME At(b, "login")
      PROVE  SessionOk(t)
  <2>1. request[b].todo = <<"login">>
    BY <1>3, <1>5, AtStep, LookupOrder DEF RequestOk
  <2>2. copy.user = None
    BY <1>3, <2>1 DEF RequestOk, Logins
  <2>. HIDE DEF copy
  <2>3. Holds(t, login.user, copy.states, copy.pending, copy.suspended)
    BY <1>4, LoggedInHolds DEF SessionOk
  <2>. HIDE DEF t
  <2>. QED
    BY <1>4, <2>2, <2>3 DEF SessionOk, Holds
<1>. HIDE DEF copy, t
<1>. QED
  BY <1>1, <1>4, <1>5, EndsKeeps

----------------------------------------------------------------------------

(* What accounts and browsers are about, in the states that there are *)
Kept == Browsers /\ Accounts

LEMMA KeptInit == Init => Kept
<1>. SUFFICES ASSUME Init
              PROVE  Kept
  OBVIOUS
<1>1. /\ session = [b \in Browser |-> Empty]
      /\ request = [b \in Browser |-> None]
      /\ accounts = [uid \in Uid |-> None]
  BY DEF Init
<1>2. Browsers
  BY <1>1, EmptyOk DEF Browsers
<1>. QED
  BY <1>1, <1>2 DEF Kept, Accounts

LEMMA KeptStep ==
    ASSUME Kept, [Next]_vars
    PROVE  Kept' /\ Stays
<1>. USE DEF Kept
<1>1. ASSUME Browsers', UNCHANGED accounts
      PROVE  Kept' /\ Stays
  BY <1>1 DEF Accounts, Stays
<1>2. CASE UNCHANGED vars
  <2>1. UNCHANGED <<session, request, accounts>>
    BY <1>2 DEF vars
  <2>2. Browsers'
    BY <2>1 DEF Browsers
  <2>. QED
    BY <2>1, <2>2, <1>1
<1>3. CASE Next
  <2>1. PICK b \in Browser :
           \/ \E process \in {"login", "connect"} : Redirect(b, process)
           \/ \E u \in User : PasswordLogin(b, u)
           \/ \E state \in State, uid \in Uid, profile \in Profile :
                 Callback(b, state, uid, profile)
           \/ \E e \in Email : PostSignup(b, e)
           \/ \E uid \in Uid : Disconnect(b, uid)
           \/ Logout(b) \/ Stale(b) \/ ChangePassword(b) \/ Reauthenticate(b)
           \/ LookUp(b) \/ Touch(b) \/ Decide(b) \/ Wipe(b) \/ SaveUser(b)
           \/ SaveAccount(b) \/ SetupUserEmail(b) \/ DeleteAccount(b) \/ Finish(b)
           \/ Crash(b)
    BY <1>3 DEF Next
  <2>2. CASE \E process \in {"login", "connect"} : Redirect(b, process)
    BY <2>2, <1>1, RedirectKeeps
  <2>3. CASE \E u \in User : PasswordLogin(b, u)
    BY <2>3, <1>1, PasswordLoginKeeps
  <2>4. CASE \E state \in State, uid \in Uid, profile \in Profile :
               Callback(b, state, uid, profile)
    BY <2>4, <1>1, CallbackKeeps
  <2>5. CASE \E e \in Email : PostSignup(b, e)
    BY <2>5, <1>1, PostSignupKeeps
  <2>6. CASE \E uid \in Uid : Disconnect(b, uid)
    BY <2>6, <1>1, DisconnectKeeps
  <2>7. CASE Logout(b) \/ Stale(b) \/ ChangePassword(b) \/ Reauthenticate(b)
    BY <2>7, <1>1, LogoutKeeps, StaleKeeps, ChangePasswordKeeps, ReauthenticateKeeps
  <2>8. CASE LookUp(b) \/ Decide(b) \/ Wipe(b) \/ SaveUser(b)
    BY <2>8, <1>1, LookUpKeeps, DecideKeeps, WipeKeeps, SaveUserKeeps
  <2>9. CASE Touch(b) \/ SaveAccount(b) \/ DeleteAccount(b)
    BY <2>9, TouchKeeps, SaveAccountKeeps, DeleteAccountKeeps
  <2>10. CASE SetupUserEmail(b) \/ Finish(b)
    BY <2>10, <1>1, SetupUserEmailKeeps, FinishKeeps
  <2>11. CASE Crash(b)
    <3>1. ServerError(b) /\ UNCHANGED accounts
      BY <2>11 DEF Crash, database
    <3>. QED
      BY <3>1, <1>1, ErrorKeeps
  <2>. QED
    BY <2>1, <2>2, <2>3, <2>4, <2>5, <2>6, <2>7, <2>8, <2>9, <2>10, <2>11
<1>. QED
  BY <1>2, <1>3

(* Wherever a login waits, its account is its user's, and it was asked for  *)
(* by nobody or the user of its session (SocialLogin, statekit).           *)
THEOREM KeptInvariant == Spec => []Kept
<1>1. Init => Kept
  BY KeptInit
<1>2. Kept /\ [Next]_vars => Kept'
  BY KeptStep
<1>. QED
  BY <1>1, <1>2, PTL DEF Spec

(* An account never passes from one user to another, with any number of    *)
(* browsers, though requests overlap and logins wait in sessions that      *)
(* others use meanwhile (do_connect).                                      *)
THEOREM AccountStaysHolds == Spec => AccountStays
<1>1. Kept /\ [Next]_vars =>
         [\A uid \in Uid : accounts[uid] # None => accounts'[uid] \in {accounts[uid], None}]_vars
  BY KeptStep DEF Stays
<1>. QED
  BY <1>1, KeptInvariant, PTL DEF Spec, AccountStays

(* A connection is made for who asked for it, if somebody was logged in    *)
(* then, whatever is done in the browser before it is made (statekit,      *)
(* resume_connect).                                                        *)
THEOREM ConnectedByAskerHolds == Spec => []ConnectedByAsker
<1>1. Kept => ConnectedByAsker
  <2>. SUFFICES ASSUME Kept, NEW b \in Browser, At(b, "account"),
                       SocialLoginOf(b).process = "connect"
                PROVE  SocialLoginOf(b).asker \in {None, SocialLoginOf(b).user}
    BY DEF ConnectedByAsker
  <2>. DEFINE login == SocialLoginOf(b)
              todo == request[b].todo
  <2>1. RequestOk(Copy(b), login, todo) /\ Head(todo) = "account"
    BY AtStep DEF Kept
  <2>. HIDE DEF login, todo
  <2>2. todo \in Connections
    <3>1. todo \in Plan
      BY <2>1 DEF RequestOk
    <3>2. todo \in Connections \cup Signups \cup Logins
      BY <2>1, <3>1, Order
    <3>3. todo \notin Signups \cup Logins
      BY <2>1 DEF RequestOk, login
    <3>. QED
      BY <3>2, <3>3
  <2>3. login.asker \in {None, Copy(b).user} /\ login.user = Copy(b).user
    BY <2>1, <2>2 DEF RequestOk
  <2>. QED
    BY <2>3 DEF login
<1>. QED
  BY <1>1, KeptInvariant, PTL

----------------------------------------------------------------------------
(* Where requests do not overlap: a way in *)

(* What a row of a user has *)
IsRow(r) == {"version", "password", "mail"} \subseteq DOMAIN r

HasRow(R, u) == \E r \in R : r.user = u

(* A user, with these rows in the database, has a way in. *)
Enters(S, U, A, R, N, u) ==
    \/ U[u].version = 0 \/ u \in N
    \/ U[u].password
    \/ \E uid \in Uid : A[uid] = u
    \/ S.byEmail # "no" /\ HasRow(R, u)

(* Who has an address has a row of it, once the signup is over. *)
Entered(S, U, A, R, N) ==
    /\ U = [u \in User |-> U[u]]
    /\ \A u \in User :
         /\ IsRow(U[u])
         /\ U[u].mail = None \/ HasRow(R, u) \/ u \in N
         /\ Enters(S, U, A, R, N, u)

(* What the provider said *)
Given(l) == l.uid \in Uid /\ l.addresses \in Seq(Address)

(* A login that waits for the signup form is nobody's yet. *)
Waits(s) == s.pending # None => Given(s.pending) /\ s.pending.user = None

(* The row of the user is the one in the database still. *)
Current(U, l) == l.user \in User => l.row = U[l.user]

(* Who was found by an address can be found by it again. *)
Reachable(S, R, N, l) ==
    l.matched # None =>
       S.byEmail # "no" /\ (l.user \in User => HasRow(R, l.user) \/ l.user \in N)

(* Nobody has the address that is signed up with, where that matters. *)
FreeMail(S, R, l) == S.hide # "strict" => \A r \in R : r.email # l.row.mail

(* One account is not the last way in of its user. *)
Spare(U, A, l) ==
    l.user \in User =>
       U[l.user].password \/ \E uid \in Uid \ {l.uid} : A[uid] = l.user

(* The logins that have something to write before *)
Rewrites == Logins \ {<<"login">>}

(* What a request has found out holds as long as no other one runs. *)
Promised(S, U, A, R, N, copy, l, todo) ==
    /\ todo \in Lookups \cup Signups => Given(l)
    /\ todo = <<"lookup">> => l.user = None /\ l.matched = None
    /\ todo \in Lookups /\ l.process = "connect" /\ copy.user \in User =>
         l.row = U[copy.user]
    /\ todo \in Lookups /\ l.process # "connect" /\ l.user # None =>
         Current(U, l) /\ Reachable(S, R, N, l)
    /\ todo \in Connections => Current(U, l)
    /\ todo \in Rewrites =>
         l.user # None /\ Current(U, l) /\ Reachable(S, R, N, l)
    /\ Head(todo) = "wipe" => l.matched # None
    /\ todo \in Signups => IsRow(l.row) /\ FreeMail(S, R, l)
    /\ todo = <<"user", "account", "addresses", "login">> => l.user = None
    /\ todo = <<"addresses", "login">> => A[l.uid] = l.user
    /\ todo = <<"delete">> => Spare(U, A, l)

Alone ==
    \A b, c \in Browser : request[b] # None /\ request[c] # None => b = c

Promises ==
    \A b \in Browser :
        /\ Waits(session[b])
        /\ request[b] # None =>
             /\ Waits(request[b].copy)
             /\ Promised(setting, users, accounts, rows, unfinished,
                         request[b].copy, request[b].login, request[b].todo)

(* The invariant, where requests do not overlap *)
Opens == Alone /\ Promises /\ Entered(setting, users, accounts, rows, unfinished)

Open == ~setting.overlap => Opens

----------------------------------------------------------------------------
(* What is left to do is of one kind *)

LEMMA LookupKind ==
    ASSUME NEW t \in Lookups
    PROVE  /\ t \notin Connections \cup Signups \cup Rewrites
           /\ Head(t) # "wipe" /\ t # <<"addresses", "login">>
           /\ t # <<"user", "account", "addresses", "login">> /\ t # <<"delete">>
BY DEF Lookups, Connections, Signups, Logins, Rewrites

LEMMA ConnectionKind ==
    ASSUME NEW t \in Connections
    PROVE  /\ t \notin Lookups \cup Signups \cup Rewrites /\ t # <<"lookup">>
           /\ Head(t) # "wipe" /\ t # <<"addresses", "login">>
           /\ t # <<"user", "account", "addresses", "login">> /\ t # <<"delete">>
BY DEF Lookups, Connections, Signups, Logins, Rewrites

LEMMA SignupKind ==
    ASSUME NEW t \in Signups
    PROVE  /\ t \notin Lookups \cup Connections \cup Rewrites /\ t # <<"lookup">>
           /\ Head(t) # "wipe" /\ t # <<"delete">>
BY DEF Lookups, Connections, Signups, Logins, Rewrites

LEMMA LoginKind ==
    ASSUME NEW t \in Logins
    PROVE  /\ t \notin Lookups \cup Connections \cup Signups /\ t # <<"lookup">>
           /\ t # <<"addresses", "login">> /\ t # <<"delete">>
           /\ t # <<"user", "account", "addresses", "login">>
BY DEF Lookups, Connections, Signups, Logins

LEMMA DeleteKind ==
    /\ <<"delete">> \notin Lookups \cup Connections \cup Signups \cup Rewrites
    /\ <<"delete">> # <<"lookup">> /\ Head(<<"delete">>) # "wipe"
    /\ <<"delete">> # <<"addresses", "login">>
    /\ <<"delete">> # <<"user", "account", "addresses", "login">>
BY DEF Lookups, Connections, Signups, Logins, Rewrites

LEMMA UserNext ==
    ASSUME NEW t \in Plan, Head(t) = "user"
    PROVE  \/ t \in Connections /\ Tail(t) \in Connections
           \/ /\ t = <<"user", "account", "addresses", "login">>
              /\ Tail(t) = <<"account", "addresses", "login">>
           \/ t \in Rewrites /\ Tail(t) \in Rewrites /\ Head(Tail(t)) # "wipe"
<1>1. t \in {<<"user", "account", "end">>, <<"user", "account", "login">>,
             <<"user", "account", "addresses", "login">>}
  BY DEF Plan, Lookups, Connections, Signups, Logins
<1>2. /\ Tail(<<"user", "account", "end">>) = <<"account", "end">>
      /\ Tail(<<"user", "account", "login">>) = <<"account", "login">>
      /\ Tail(<<"user", "account", "addresses", "login">>)
            = <<"account", "addresses", "login">>
  BY Tails
<1>3. /\ <<"user", "account", "end">> \in Connections
      /\ <<"account", "end">> \in Connections
      /\ <<"user", "account", "login">> \in Rewrites
      /\ <<"account", "login">> \in Rewrites /\ Head(<<"account", "login">>) # "wipe"
  BY DEF Connections, Logins, Rewrites
<1>. QED
  BY <1>1, <1>2, <1>3, Zenon

LEMMA AccountNext ==
    ASSUME NEW t \in Plan, Head(t) = "account"
    PROVE  \/ t \in Connections /\ Tail(t) \in Connections
           \/ /\ t = <<"account", "addresses", "login">>
              /\ Tail(t) = <<"addresses", "login">>
           \/ Tail(t) = <<"login">>
<1>1. t \in {<<"account", "end">>, <<"account", "login">>,
             <<"account", "addresses", "login">>}
  BY DEF Plan, Lookups, Connections, Signups, Logins
<1>2. /\ Tail(<<"account", "end">>) = <<"end">>
      /\ Tail(<<"account", "login">>) = <<"login">>
      /\ Tail(<<"account", "addresses", "login">>) = <<"addresses", "login">>
  BY Tails
<1>3. <<"account", "end">> \in Connections /\ <<"end">> \in Connections
  BY DEF Connections
<1>. QED
  BY <1>1, <1>2, <1>3, Zenon

LEMMA WipeNext ==
    ASSUME NEW t \in Plan, Head(t) = "wipe"
    PROVE  /\ t \in Rewrites /\ Tail(t) \in Logins
           /\ Head(Tail(t)) # "wipe"
<1>1. t \in {<<"wipe", "user", "account", "login">>, <<"wipe", "login">>}
  BY DEF Plan, Lookups, Connections, Signups, Logins
<1>2. /\ Tail(<<"wipe", "user", "account", "login">>) = <<"user", "account", "login">>
      /\ Tail(<<"wipe", "login">>) = <<"login">>
  BY Tails
<1>3. /\ <<"wipe", "user", "account", "login">> \in Rewrites
      /\ <<"wipe", "login">> \in Rewrites
      /\ <<"user", "account", "login">> \in Logins /\ <<"login">> \in Logins
      /\ Head(<<"user", "account", "login">>) # "wipe" /\ Head(<<"login">>) # "wipe"
  BY DEF Logins, Rewrites
<1>. QED
  BY <1>1, <1>2, <1>3, Zenon

LEMMA AddressesNext ==
    ASSUME NEW t \in Plan, Head(t) = "addresses"
    PROVE  t = <<"addresses", "login">> /\ Tail(t) = <<"login">>
<1>1. t = <<"addresses", "login">>
  BY DEF Plan, Lookups, Connections, Signups, Logins
<1>. QED
  BY <1>1, Tails

LEMMA LoginLast ==
    /\ <<"login">> \notin Lookups \cup Connections \cup Signups \cup Rewrites
    /\ <<"login">> # <<"lookup">> /\ Head(<<"login">>) # "wipe"
    /\ <<"login">> # <<"addresses", "login">> /\ <<"login">> # <<"delete">>
    /\ <<"login">> # <<"user", "account", "addresses", "login">>
BY DEF Lookups, Connections, Signups, Logins, Rewrites

(* A wiped password is wiped first. *)
LEMMA JoinedHeads ==
    /\ Head((<<>> \o <<>>) \o <<"login">>) # "wipe"
    /\ Head((<<>> \o <<"user", "account">>) \o <<"login">>) # "wipe"
<1>1. /\ <<>> \o <<>> = <<>>
      /\ <<>> \o <<"login">> = <<"login">>
  BY Concatenations, Zenon
<1>2. /\ <<>> \o <<"user", "account">> = <<"user", "account">>
      /\ <<"user", "account">> \o <<"login">> = <<"user", "account", "login">>
  BY Concatenations, Zenon
<1>3. Head(<<"login">>) # "wipe" /\ Head(<<"user", "account", "login">>) # "wipe"
  OBVIOUS
<1>. QED
  BY <1>1, <1>2, <1>3, Zenon

----------------------------------------------------------------------------
(* All fields of a login that is edited *)

LEMMA LogFields ==
    ASSUME NEW uid, NEW addresses, NEW process, NEW asker, NEW user, NEW row,
           NEW found, NEW resumed, NEW matched, NEW l,
           l = Log(uid, addresses, process, asker, user, row, found, resumed, matched)
    PROVE  /\ IsLog(l)
           /\ l.uid = uid /\ l.addresses = addresses /\ l.process = process
           /\ l.user = user /\ l.row = row /\ l.found = found
           /\ l.matched = matched
BY DEF Log, IsLog

LEMMA UserEdit ==
    ASSUME NEW l, IsLog(l), NEW x
    PROVE  [l EXCEPT !.user = x]
             = Log(l.uid, l.addresses, l.process, l.asker, x, l.row, l.found,
                   l.resumed, l.matched)
BY DEF IsLog, Log

LEMMA RowEdit ==
    ASSUME NEW l, IsLog(l), NEW x
    PROVE  [l EXCEPT !.row = x]
             = Log(l.uid, l.addresses, l.process, l.asker, l.user, x, l.found,
                   l.resumed, l.matched)
BY DEF IsLog, Log

LEMMA FoundEdit ==
    ASSUME NEW l, IsLog(l), NEW x, NEW y
    PROVE  [l EXCEPT !.user = x, !.found = x, !.row = y]
             = Log(l.uid, l.addresses, l.process, l.asker, x, y, x,
                   l.resumed, l.matched)
<1>. DEFINE d == [l EXCEPT !.user = x]
            e == [d EXCEPT !.found = x]
<1>1. d = Log(l.uid, l.addresses, l.process, l.asker, x, l.row, l.found,
              l.resumed, l.matched)
  BY UserEdit
<1>2. [l EXCEPT !.user = x, !.found = x, !.row = y] = [e EXCEPT !.row = y]
  OBVIOUS
<1>. HIDE DEF d
<1>3. e = Log(l.uid, l.addresses, l.process, l.asker, x, l.row, x, l.resumed,
              l.matched)
  BY <1>1 DEF Log
<1>. HIDE DEF e
<1>4. [e EXCEPT !.row = y]
        = Log(l.uid, l.addresses, l.process, l.asker, x, y, x, l.resumed, l.matched)
  BY <1>3 DEF Log
<1>. QED
  BY <1>2, <1>4

LEMMA MatchedEdit ==
    ASSUME NEW l, IsLog(l), NEW x, NEW y, NEW z, NEW m,
           m = [l EXCEPT !.user = x, !.matched = y, !.row = z]
    PROVE  m = Log(l.uid, l.addresses, l.process, l.asker, x, z, l.found,
                   l.resumed, y)
<1>. DEFINE d == [l EXCEPT !.user = x]
            e == [d EXCEPT !.matched = y]
<1>1. d = Log(l.uid, l.addresses, l.process, l.asker, x, l.row, l.found,
              l.resumed, l.matched)
  BY UserEdit
<1>2. [l EXCEPT !.user = x, !.matched = y, !.row = z] = [e EXCEPT !.row = z]
  OBVIOUS
<1>. HIDE DEF d
<1>3. e = Log(l.uid, l.addresses, l.process, l.asker, x, l.row, l.found,
              l.resumed, y)
  BY <1>1 DEF Log
<1>. HIDE DEF e
<1>4. [e EXCEPT !.row = z]
        = Log(l.uid, l.addresses, l.process, l.asker, x, z, l.found, l.resumed, y)
  BY <1>3 DEF Log
<1>. QED
  BY <1>2, <1>4

----------------------------------------------------------------------------
(* How a request that is alone begins, goes on and ends *)

Sole(b) == \A c \in Browser : c # b => request[c] = None

LEMMA StartSole ==
    ASSUME ~setting.overlap, NEW b \in Browser, MayStart(b)
    PROVE  Sole(b) /\ request[b] = None
BY DEF MayStart, Idle, Sole

LEMMA StepSole ==
    ASSUME Opens, NEW b \in Browser, ~Idle(b)
    PROVE  Sole(b)
BY DEF Opens, Alone, Idle, Sole

LEMMA LoadedWaits ==
    ASSUME Promises, NEW b \in Browser
    PROVE  Waits(Loaded(b))
<1>1. Waits(Empty)
  BY DEF Waits, Empty
<1>. QED
  BY <1>1 DEF Promises, Loaded

LEMMA AtPromise ==
    ASSUME Promises, NEW b \in Browser, NEW step, At(b, step)
    PROVE  /\ Waits(Copy(b))
           /\ Promised(setting, users, accounts, rows, unfinished,
                       Copy(b), SocialLoginOf(b), request[b].todo)
BY DEF Promises, At, Idle, Copy, SocialLoginOf

LEMMA SoleStops ==
    ASSUME Browsers, Promises, NEW b \in Browser, Sole(b), NEW s, Waits(s),
           session' = [session EXCEPT ![b] = s],
           request' = [request EXCEPT ![b] = None]
    PROVE  Alone' /\ Promises'
<1>1. \A c \in Browser : request'[c] = None
  BY DEF Sole, Browsers
<1>2. \A c \in Browser : Waits(session'[c])
  BY DEF Browsers, Promises
<1>. QED
  BY <1>1, <1>2 DEF Alone, Promises

LEMMA SoleSaved ==
    ASSUME Browsers, Promises, NEW b \in Browser, Sole(b), request[b] = None,
           NEW s, Waits(s), session' = [session EXCEPT ![b] = s], UNCHANGED request
    PROVE  Alone' /\ Promises'
<1>1. \A c \in Browser : request'[c] = None
  BY DEF Sole, Browsers
<1>2. \A c \in Browser : Waits(session'[c])
  BY DEF Browsers, Promises
<1>. QED
  BY <1>1, <1>2 DEF Alone, Promises

LEMMA SoleFails ==
    ASSUME Browsers, Promises, NEW b \in Browser, Sole(b), ServerError(b)
    PROVE  Alone' /\ Promises'
<1>1. \A c \in Browser : request'[c] = None
  BY DEF Sole, Browsers, ServerError
<1>2. \A c \in Browser : Waits(session'[c])
  BY DEF Promises, ServerError
<1>. QED
  BY <1>1, <1>2 DEF Alone, Promises

LEMMA SoleLeft ==
    ASSUME Browsers, Promises, NEW b \in Browser, Sole(b),
           NEW copy, NEW l, NEW todo, Left(b, copy, l, todo), Waits(copy),
           Promised(setting', users', accounts', rows', unfinished', copy, l, todo)
    PROVE  Alone' /\ Promises'
<1>. DEFINE r == [copy |-> copy, login |-> l, todo |-> todo]
            s == IF session[b].user = copy.user THEN session[b] ELSE copy
<1>1. /\ request' = [request EXCEPT ![b] = r]
      /\ session' = [session EXCEPT ![b] = s]
  BY DEF Left, Browsers
<1>2. Waits(s)
  BY DEF Promises
<1>3. r.copy = copy /\ r.login = l /\ r.todo = todo
  OBVIOUS
<1>. HIDE DEF r, s
<1>4. request'[b] = r /\ \A c \in Browser : c # b => request'[c] = None
  BY <1>1 DEF Sole, Browsers
<1>5. \A c \in Browser : Waits(session'[c])
  BY <1>1, <1>2 DEF Browsers, Promises
<1>6. Alone'
  BY <1>4 DEF Alone
<1>7. ASSUME NEW c \in Browser, request'[c] # None
      PROVE  /\ Waits(request'[c].copy)
             /\ Promised(setting', users', accounts', rows', unfinished',
                         request'[c].copy, request'[c].login, request'[c].todo)
  <2>1. request'[c] = r
    BY <1>4, <1>7
  <2>. QED
    BY <2>1, <1>3
<1>. QED
  BY <1>5, <1>6, <1>7 DEF Promises

----------------------------------------------------------------------------
(* The database, as requests leave it *)

LEMMA EnteredSame ==
    ASSUME Opens, UNCHANGED <<setting, users, accounts, rows, unfinished>>
    PROVE  Entered(setting', users', accounts', rows', unfinished')
BY DEF Opens

LEMMA EnteredMore ==
    ASSUME NEW S, NEW U, NEW A, NEW R, NEW N, Entered(S, U, A, R, N), NEW B,
           \A u \in User : (\E uid \in Uid : A[uid] = u) => \E uid \in Uid : B[uid] = u
    PROVE  Entered(S, U, B, R, N)
BY DEF Entered, Enters

(* Requests that write their session alone *)
LEMMA SavedOpens ==
    ASSUME Browsers, Opens, ~setting.overlap, NEW b \in Browser, MayStart(b),
           NEW s, Waits(s), Saved(b, s)
    PROVE  Opens'
<1>1. Sole(b) /\ request[b] = None
  BY StartSole
<1>2. /\ session' = [session EXCEPT ![b] = s]
      /\ UNCHANGED <<setting, users, accounts, rows, unfinished, request>>
  BY DEF Saved, database
<1>3. Alone' /\ Promises'
  BY <1>1, <1>2, SoleSaved DEF Opens
<1>. QED
  BY <1>2, <1>3, EnteredSame DEF Opens

LEMMA SavesOpen ==
    ASSUME Browsers, Opens, ~setting.overlap, NEW b \in Browser,
           \/ \E process \in {"login", "connect"} : Redirect(b, process)
           \/ \E u \in User : PasswordLogin(b, u)
           \/ Logout(b) \/ Stale(b)
    PROVE  Opens'
<1>1. Waits(Loaded(b)) /\ SessionOk(Loaded(b)) /\ MayStart(b)
  BY LoadedWaits, LoadedOk
     DEF Opens, Redirect, PasswordLogin, Logout, Stale
<1>2. ASSUME NEW process, Redirect(b, process)
      PROVE  \E s : Waits(s) /\ Saved(b, s)
  <2>. DEFINE s == Loaded(b)
              x == s.states \cup {[process |-> process,
                      asker |-> IF process = "connect" THEN s.user ELSE None]}
              t == [s EXCEPT !.states = x]
  <2>1. Saved(b, t)
    BY <1>2 DEF Redirect
  <2>. HIDE DEF s, x
  <2>2. Holds(t, s.user, x, s.pending, s.suspended)
    BY <1>1, StatesSet DEF SessionOk, s
  <2>. HIDE DEF t
  <2>3. Waits(t)
    BY <1>1, <2>2 DEF Holds, Waits, s
  <2>. QED
    BY <2>1, <2>3
<1>3. ASSUME NEW u, PasswordLogin(b, u)
      PROVE  \E s : Waits(s) /\ Saved(b, s)
  <2>. DEFINE s == Loaded(b)
              t == LoggedIn(s, u, users[u].version)
  <2>1. Saved(b, t)
    BY <1>3 DEF PasswordLogin
  <2>. HIDE DEF s
  <2>2. Holds(t, u, s.states, s.pending, s.suspended)
    BY <1>1, LoggedInHolds DEF SessionOk, s
  <2>. HIDE DEF t
  <2>3. Waits(t)
    BY <1>1, <2>2 DEF Holds, Waits, s
  <2>. QED
    BY <2>1, <2>3
<1>4. CASE Logout(b)
  <2>1. Waits(Empty) /\ Saved(b, Empty)
    BY <1>4 DEF Logout, LoggedOut, Waits, Empty
  <2>. QED
    BY <2>1, <1>1, SavedOpens
<1>5. CASE Stale(b)
  <2>. DEFINE s == session[b]
              t == [s EXCEPT !.fresh = FALSE]
  <2>1. Saved(b, t) /\ SessionOk(s) /\ Waits(s)
    BY <1>5 DEF Stale, Browsers, Opens, Promises
  <2>. HIDE DEF s
  <2>2. Holds(t, s.user, s.states, s.pending, s.suspended)
    BY <2>1, FreshSet DEF SessionOk
  <2>. HIDE DEF t
  <2>3. Waits(t)
    BY <2>1, <2>2 DEF Holds, Waits
  <2>. QED
    BY <2>1, <2>3, <1>1, SavedOpens
<1>. QED
  BY <1>1, <1>2, <1>3, <1>4, <1>5, SavedOpens

(* A password is a way in. *)
LEMMA ChangePasswordOpens ==
    ASSUME Browsers, Opens, ~setting.overlap, NEW b \in Browser, ChangePassword(b)
    PROVE  Opens'
<1>. DEFINE s == session[b]
            v == Loaded(b).user
            version == users[v].version + 1
            t == [s EXCEPT !.hash = version]
            row == [users[v] EXCEPT !.password = TRUE, !.version = version]
<1>1. /\ MayStart(b) /\ UNCHANGED <<setting, accounts, rows, request, unfinished>>
      /\ session' = [session EXCEPT ![b] = t]
      /\ users' = [users EXCEPT ![v] = row]
      /\ SessionOk(s) /\ Waits(s)
  BY DEF ChangePassword, Browsers, Opens, Promises
<1>2. Sole(b) /\ request[b] = None
  BY <1>1, StartSole
<1>. HIDE DEF s, version
<1>3. Holds(t, s.user, s.states, s.pending, s.suspended)
  BY <1>1, HashSet DEF SessionOk
<1>. HIDE DEF t
<1>4. Waits(t)
  BY <1>1, <1>3 DEF Holds, Waits
<1>5. Alone' /\ Promises'
  BY <1>1, <1>2, <1>4, SoleSaved DEF Opens
<1>6. ASSUME v \in User
      PROVE  IsRow(row) /\ row.password /\ row.mail = users[v].mail
  <2>1. IsRow(users[v])
    BY <1>6 DEF Opens, Entered
  <2>. HIDE DEF v, version
  <2>. QED
    BY <2>1 DEF IsRow
<1>. HIDE DEF row, v
<1>7. Entered(setting, users', accounts, rows, unfinished)
  BY <1>1, <1>6 DEF Opens, Entered, Enters
<1>. QED
  BY <1>1, <1>5, <1>7 DEF Opens

LEMMA CallbackOpens ==
    ASSUME Browsers, Opens, ~setting.overlap, NEW b \in Browser,
           NEW state, NEW uid \in Uid, NEW profile \in Profile,
           Callback(b, state, uid, profile)
    PROVE  Opens'
<1>. DEFINE s == Loaded(b)
            x == s.states \ {state}
            t == [s EXCEPT !.states = x]
            row == IF s.user = None THEN NewRow ELSE users[s.user]
            l == Log(uid, profile, state.process, state.asker, None, row, None,
                     FALSE, None)
            todo == <<"lookup">>
<1>1. /\ MayStart(b) /\ Left(b, t, l, todo)
      /\ UNCHANGED <<setting, users, accounts, rows, unfinished>>
  BY DEF Callback, Log, database
<1>2. Sole(b) /\ SessionOk(s) /\ Waits(s)
  BY <1>1, StartSole, LoadedOk, LoadedWaits DEF Opens
<1>3. s.user \in User => row = users[s.user]
  BY NoneAssumption
<1>. HIDE DEF s, row
<1>4. Holds(t, s.user, x, s.pending, s.suspended)
  BY <1>2, StatesSet DEF SessionOk
<1>. HIDE DEF t
<1>5. /\ l.uid = uid /\ l.addresses = profile /\ l.process = state.process
      /\ l.user = None /\ l.row = row /\ l.matched = None
  BY DEF Log
<1>. HIDE DEF l
<1>6. Waits(t) /\ t.user = s.user
  BY <1>2, <1>4 DEF Holds, Waits
<1>7. Given(l)
  BY <1>5, ProfileAssumption DEF Given
<1>8. todo \in Lookups
  BY DEF Lookups
<1>9. Promised(setting, users, accounts, rows, unfinished, t, l, todo)
  BY <1>3, <1>5, <1>6, <1>7, <1>8, LookupKind DEF Promised
<1>. HIDE DEF todo
<1>10. Alone' /\ Promises'
  BY <1>1, <1>2, <1>6, <1>9, SoleLeft DEF Opens
<1>. QED
  BY <1>1, <1>10, EnteredSame DEF Opens

(* Another account or a password remains when the one is deleted. *)
LEMMA DisconnectOpens ==
    ASSUME Browsers, Opens, ~setting.overlap, NEW b \in Browser, NEW uid \in Uid,
           Disconnect(b, uid)
    PROVE  Opens'
<1>. DEFINE s == Loaded(b)
            l == Log(uid, <<>>, "connect", s.user, s.user, users[s.user], s.user,
                     FALSE, None)
            todo == <<"delete">>
<1>1. /\ MayStart(b) /\ Left(b, s, l, todo)
      /\ IsLast(uid, s.user) => users[s.user].password
      /\ UNCHANGED <<setting, users, accounts, rows, unfinished>>
  BY DEF Disconnect, Log, database
<1>2. Sole(b) /\ Waits(s)
  BY <1>1, StartSole, LoadedWaits DEF Opens
<1>. HIDE DEF s
<1>3. l.uid = uid /\ l.user = s.user
  BY DEF Log
<1>. HIDE DEF l
<1>4. Spare(users, accounts, l)
  BY <1>1, <1>3 DEF Spare, IsLast, AccountsOf
<1>5. Promised(setting, users, accounts, rows, unfinished, s, l, todo)
  BY <1>4, DeleteKind DEF Promised
<1>. HIDE DEF todo
<1>6. Alone' /\ Promises'
  BY <1>1, <1>2, <1>5, SoleLeft DEF Opens
<1>. QED
  BY <1>1, <1>6, EnteredSame DEF Opens

(* The row that a connection saves is the one that there is. *)
LEMMA DoConnectOpens ==
    ASSUME Browsers, Opens, NEW b \in Browser, Sole(b),
           UNCHANGED <<setting, users, accounts, rows, unfinished>>,
           NEW s, SessionOk(s), Waits(s), NEW login, IsLog(login),
           s.user \in User => login.row = users[s.user],
           DoConnect(b, s, login)
    PROVE  Opens'
<1>. DEFINE suspended == [login EXCEPT !.resumed = TRUE, !.row = NewRow]
            t == [s EXCEPT !.suspended = suspended]
            mine == [login EXCEPT !.user = s.user]
            todo == <<"user", "account", "end">>
<1>1. \/ Ends(b, s) \/ Ends(b, t)
      \/ Left(b, s, mine, todo)
  BY DEF DoConnect
<1>. HIDE DEF suspended
<1>2. Holds(t, s.user, s.states, s.pending, suspended)
  BY SuspendedSet DEF SessionOk
<1>3. mine.user = s.user /\ mine.row = login.row
  BY DEF IsLog, Log
<1>. HIDE DEF t, mine
<1>4. Waits(t)
  BY <1>2 DEF Holds, Waits
<1>5. Current(users, mine)
  BY <1>3 DEF Current
<1>6. todo \in Connections
  BY DEF Connections
<1>. HIDE DEF todo
<1>7. Promised(setting, users, accounts, rows, unfinished, s, mine, todo)
  BY <1>5, <1>6, ConnectionKind DEF Promised
<1>8. Alone' /\ Promises'
  BY <1>1, <1>4, <1>7, SoleLeft, SoleStops DEF Opens, Ends
<1>. QED
  BY <1>8, EnteredSame DEF Opens

LEMMA ReauthenticateOpens ==
    ASSUME Browsers, Opens, ~setting.overlap, NEW b \in Browser, Reauthenticate(b)
    PROVE  Opens'
<1>. DEFINE s == Loaded(b)
            t == [s EXCEPT !.fresh = TRUE, !.suspended = None]
            login == s.suspended
            row == users[t.user]
            resumed == [login EXCEPT !.row = row]
<1>1. /\ MayStart(b)
      /\ Ends(b, t) \/ (login # None /\ DoConnect(b, t, resumed))
      /\ UNCHANGED <<setting, users, accounts, rows, unfinished>>
  BY DEF Reauthenticate, database
<1>2. Sole(b) /\ SessionOk(s) /\ Waits(s)
  BY <1>1, StartSole, LoadedOk, LoadedWaits DEF Opens
<1>. HIDE DEF s, row
<1>3. Holds(t, s.user, s.states, s.pending, None)
  BY <1>2, ResumedHolds DEF SessionOk
<1>. HIDE DEF t
<1>4. SessionOk(t) /\ Waits(t)
  BY <1>2, <1>3 DEF SessionOk, Holds, Waits
<1>5. CASE Ends(b, t)
  <2>1. Alone' /\ Promises'
    BY <1>2, <1>4, <1>5, SoleStops DEF Opens, Ends
  <2>. QED
    BY <1>1, <2>1, EnteredSame DEF Opens
<1>6. CASE login # None /\ DoConnect(b, t, resumed)
  <2>1. IsLog(login)
    BY <1>2, <1>6 DEF SessionOk, LoginOk
  <2>. HIDE DEF login
  <2>2. IsLog(resumed) /\ resumed.row = row
    BY <2>1, RowEdit, LogFields
  <2>. HIDE DEF resumed
  <2>3. t.user \in User => resumed.row = users[t.user]
    BY <2>2 DEF row
  <2>. QED
    BY <1>1, <1>2, <1>4, <1>6, <2>2, <2>3, DoConnectOpens
<1>. QED
  BY <1>1, <1>5, <1>6

(* A signup begins with an address that nobody has, where that matters. *)
LEMMA SignupPromise ==
    ASSUME NEW l, IsLog(l), Given(l), l.user = None, NEW e, Assess(e) = "unique",
           NEW copy
    PROVE  Promised(setting, users, accounts, rows, unfinished, copy,
                    [l EXCEPT !.row = [version |-> 1, password |-> FALSE, mail |-> e]],
                    <<"user", "account", "addresses", "login">>)
<1>. DEFINE row == [version |-> 1, password |-> FALSE, mail |-> e]
            new == [l EXCEPT !.row = row]
            todo == <<"user", "account", "addresses", "login">>
<1>1. IsRow(row) /\ row.mail = e
  BY DEF IsRow
<1>2. UsersWith(e) = {} \/ setting.hide = "strict"
  BY DEF Assess
<1>. HIDE DEF row
<1>3. /\ new.row = row /\ new.user = None /\ new.uid = l.uid
      /\ new.addresses = l.addresses
  BY RowEdit, LogFields
<1>. HIDE DEF new
<1>4. FreeMail(setting, rows, new)
  BY <1>1, <1>2, <1>3 DEF FreeMail, UsersWith
<1>5. todo \in Signups /\ todo # <<"addresses", "login">>
  BY DEF Signups
<1>6. Given(new)
  BY <1>3 DEF Given
<1>. HIDE DEF todo
<1>7. Promised(setting, users, accounts, rows, unfinished, copy, new, todo)
  BY <1>1, <1>3, <1>4, <1>5, <1>6, SignupKind DEF Promised
<1>. QED
  BY <1>7 DEF row, new, todo

LEMMA ProcessSignupOpens ==
    ASSUME Browsers, Opens, NEW b \in Browser, Sole(b),
           UNCHANGED <<setting, users, accounts, rows, unfinished>>,
           NEW s, SessionOk(s), Waits(s), NEW login, IsLog(login), Given(login),
           login.user = None, ProcessSignup(b, s, login)
    PROVE  Opens'
<1>. DEFINE e == login.addresses[1].email
            row == [version |-> 1, password |-> FALSE, mail |-> e]
            new == [login EXCEPT !.row = row]
            waiting == [login EXCEPT !.row = NewRow]
            t == [s EXCEPT !.pending = waiting]
            todo == <<"user", "account", "addresses", "login">>
<1>1. \/ Ends(b, s)
      \/ Assess(e) = "unique" /\ Left(b, s, new, todo)
      \/ Ends(b, t)
  BY DEF ProcessSignup
<1>2. /\ waiting.uid = login.uid /\ waiting.user = None
      /\ waiting.addresses = login.addresses
  BY RowEdit, LogFields
<1>. HIDE DEF waiting
<1>3. Holds(t, s.user, s.states, waiting, s.suspended)
  BY PendingSet DEF SessionOk
<1>. HIDE DEF t
<1>4. Waits(t)
  BY <1>2, <1>3 DEF Holds, Waits, Given
<1>5. CASE Ends(b, s) \/ Ends(b, t)
  BY <1>4, <1>5, SoleStops, EnteredSame DEF Opens, Ends
<1>6. CASE Assess(e) = "unique" /\ Left(b, s, new, todo)
  <2>1. Promised(setting, users, accounts, rows, unfinished, s, new, todo)
    BY <1>6, SignupPromise
  <2>. HIDE DEF new, todo
  <2>2. Alone' /\ Promises'
    BY <1>6, <2>1, SoleLeft DEF Opens
  <2>. QED
    BY <2>2, EnteredSame DEF Opens
<1>. QED
  BY <1>1, <1>5, <1>6

LEMMA PostSignupOpens ==
    ASSUME Browsers, Opens, ~setting.overlap, NEW b \in Browser, NEW e,
           PostSignup(b, e)
    PROVE  Opens'
<1>. DEFINE s == Loaded(b)
            t == [s EXCEPT !.pending = None]
            login == s.pending
            row == [version |-> 1, password |-> FALSE, mail |-> e]
            new == [login EXCEPT !.row = row]
            todo == <<"user", "account", "addresses", "login">>
<1>1. /\ MayStart(b) /\ login # None
      /\ \/ Ends(b, t)
         \/ Assess(e) = "unique" /\ Left(b, t, new, todo)
      /\ UNCHANGED <<setting, users, accounts, rows, unfinished>>
  BY DEF PostSignup, database
<1>2. Sole(b) /\ SessionOk(s) /\ Waits(s)
  BY <1>1, StartSole, LoadedOk, LoadedWaits DEF Opens
<1>3. IsLog(login) /\ Given(login) /\ login.user = None
  BY <1>1, <1>2 DEF SessionOk, LoginOk, Waits
<1>. HIDE DEF s
<1>4. Holds(t, s.user, s.states, None, s.suspended)
  BY <1>2, PendingSet DEF SessionOk
<1>. HIDE DEF t, login
<1>5. Waits(t)
  BY <1>4 DEF Holds, Waits
<1>6. CASE Ends(b, t)
  BY <1>1, <1>2, <1>5, <1>6, SoleStops, EnteredSame DEF Opens, Ends
<1>7. CASE Assess(e) = "unique" /\ Left(b, t, new, todo)
  <2>1. Promised(setting, users, accounts, rows, unfinished, t, new, todo)
    BY <1>3, <1>7, SignupPromise
  <2>. HIDE DEF new, todo
  <2>2. Alone' /\ Promises'
    BY <1>1, <1>2, <1>5, <1>7, <2>1, SoleLeft DEF Opens
  <2>. QED
    BY <1>1, <2>2, EnteredSame DEF Opens
<1>. QED
  BY <1>1, <1>6, <1>7

LEMMA AuthenticateOpens ==
    ASSUME Browsers, Opens, NEW b \in Browser, Sole(b),
           UNCHANGED <<setting, users, accounts, rows, unfinished>>,
           SessionOk(Copy(b)), Waits(Copy(b)), NEW login, IsLog(login), Given(login),
           login.user # None => /\ Current(users, login)
                                /\ Reachable(setting, rows, unfinished, login),
           Authenticate(b, login)
    PROVE  Opens'
<1>. DEFINE s == IF Copy(b).user = None THEN Copy(b) ELSE LoggedOut(Copy(b))
            wipe == IF MustWipe(login) THEN <<"wipe">> ELSE <<>>
            connect == IF login.matched # None /\ setting.byEmail = "connect"
                         THEN <<"user", "account">> ELSE <<>>
            todo == wipe \o connect \o <<"login">>
<1>1. \/ login.user = None /\ ProcessSignup(b, s, login)
      \/ login.user # None /\ Left(b, s, login, todo)
  BY DEF Authenticate
<1>2. SessionOk(s) /\ Waits(s)
  BY EmptyOk DEF LoggedOut, Empty, Waits
<1>3. todo \in Logins
  BY Joined
<1>4. Head(todo) = "wipe" => login.matched # None
  BY JoinedHeads DEF MustWipe
<1>. HIDE DEF s, todo
<1>5. CASE login.user = None /\ ProcessSignup(b, s, login)
  BY <1>2, <1>5, ProcessSignupOpens
<1>6. CASE login.user # None /\ Left(b, s, login, todo)
  <2>1. Promised(setting, users, accounts, rows, unfinished, s, login, todo)
    BY <1>3, <1>4, <1>6, LoginKind DEF Promised
  <2>2. Alone' /\ Promises'
    BY <1>2, <1>6, <2>1, SoleLeft DEF Opens
  <2>. QED
    BY <2>2, EnteredSame DEF Opens
<1>. QED
  BY <1>1, <1>5, <1>6

(* What is known of a request at its next step *)
LEMMA StepFacts ==
    ASSUME Browsers, Opens, NEW b \in Browser, NEW step, At(b, step)
    PROVE  /\ Sole(b)
           /\ SessionOk(Copy(b)) /\ Waits(Copy(b))
           /\ LoginOk(SocialLoginOf(b)) /\ IsLog(SocialLoginOf(b))
           /\ request[b].todo \in Plan /\ Head(request[b].todo) = step
           /\ Promised(setting, users, accounts, rows, unfinished,
                       Copy(b), SocialLoginOf(b), request[b].todo)
BY AtStep, AtPromise, StepSole DEF Opens, At, RequestOk, LoginOk

LEMMA DecideOpens ==
    ASSUME Browsers, Opens, NEW b \in Browser, Decide(b)
    PROVE  Opens'
<1>. DEFINE login == SocialLoginOf(b)
            todo == <<"decide">>
<1>1. /\ At(b, "decide")
      /\ UNCHANGED <<setting, users, accounts, rows, unfinished>>
      /\ \/ login.process = "connect" /\ DoConnect(b, Copy(b), login)
         \/ login.process # "connect" /\ Authenticate(b, login)
  BY DEF Decide, database
<1>2. /\ Sole(b) /\ SessionOk(Copy(b)) /\ Waits(Copy(b)) /\ IsLog(login)
      /\ Promised(setting, users, accounts, rows, unfinished, Copy(b), login, todo)
  BY <1>1, StepFacts, LookupOrder
<1>3. todo \in Lookups
  BY DEF Lookups
<1>. HIDE DEF login, todo
<1>4. /\ Given(login)
      /\ login.process = "connect" /\ Copy(b).user \in User =>
           login.row = users[Copy(b).user]
      /\ login.process # "connect" /\ login.user # None =>
           Current(users, login) /\ Reachable(setting, rows, unfinished, login)
  BY <1>2, <1>3 DEF Promised
<1>. QED
  BY <1>1, <1>2, <1>4, DoConnectOpens, AuthenticateOpens

(* Who is found by an address has a row of it. *)
LEMMA PreferredReachable ==
    ASSUME Opens, NEW e \in Email, NEW u \in UsersPreferred(e), u \in User
    PROVE  HasRow(rows, u) \/ u \in unfinished
<1>1. (\E r \in rows : r.user = u) \/ users[u].mail = e
  BY DEF UsersPreferred, UsersWith
<1>2. users[u].mail = None \/ HasRow(rows, u) \/ u \in unfinished
  BY DEF Opens, Entered
<1>. QED
  BY <1>1, <1>2, NoneAssumption DEF HasRow

LEMMA LookUpOpens ==
    ASSUME Browsers, Opens, NEW b \in Browser, LookUp(b)
    PROVE  Opens'
<1>. DEFINE copy == Copy(b)
            login == SocialLoginOf(b)
            owner == accounts[login.uid]
            s == [copy EXCEPT !.pending = None]
            row(u) == IF login.process = "connect" THEN login.row ELSE users[u]
            found == [login EXCEPT !.user = owner, !.found = owner, !.row = row(owner)]
            matched(u, e) == [login EXCEPT !.user = u, !.matched = e, !.row = row(u)]
            touch == <<"touch">>
            decide == <<"decide">>
<1>1. /\ At(b, "lookup")
      /\ UNCHANGED <<setting, users, accounts, rows, unfinished>>
  BY DEF LookUp, database
<1>2. \/ owner # None /\ Left(b, s, found, touch)
      \/ /\ setting.byEmail # "no"
         /\ \E i \in DOMAIN login.addresses :
            \E u \in UsersPreferred(login.addresses[i].email) :
               Left(b, s, matched(u, login.addresses[i].email), decide)
      \/ Left(b, s, login, decide)
  BY DEF LookUp
<1>3. /\ Sole(b) /\ SessionOk(copy) /\ IsLog(login)
      /\ Promised(setting, users, accounts, rows, unfinished, copy, login, <<"lookup">>)
  BY <1>1, StepFacts, LookupOrder
<1>4. <<"lookup">> \in Lookups /\ touch \in Lookups /\ decide \in Lookups
  BY DEF Lookups
<1>5. touch # <<"lookup">> /\ decide # <<"lookup">>
  OBVIOUS
<1>. HIDE DEF copy, login, touch, decide
<1>6. /\ Given(login) /\ login.user = None /\ login.matched = None
      /\ login.process = "connect" /\ copy.user \in User => login.row = users[copy.user]
  BY <1>3, <1>4 DEF Promised
<1>7. Holds(s, copy.user, copy.states, None, copy.suspended)
  BY <1>3, PendingSet DEF SessionOk
<1>. HIDE DEF s
<1>8. Waits(s) /\ s.user = copy.user
  BY <1>7 DEF Holds, Waits
<1>9. ASSUME NEW l, NEW todo \in {touch, decide}, Left(b, s, l, todo), Given(l),
             l.process = "connect" /\ s.user \in User => l.row = users[s.user],
             l.process # "connect" /\ l.user # None =>
               Current(users, l) /\ Reachable(setting, rows, unfinished, l)
      PROVE  Opens'
  <2>1. todo \in Lookups /\ todo # <<"lookup">>
    BY <1>4, <1>5
  <2>2. Promised(setting, users, accounts, rows, unfinished, s, l, todo)
    BY <1>9, <2>1, LookupKind DEF Promised
  <2>3. Alone' /\ Promises'
    BY <1>1, <1>3, <1>8, <1>9, <2>2, SoleLeft DEF Opens
  <2>. QED
    BY <1>1, <2>3, EnteredSame DEF Opens
<1>10. CASE owner # None /\ Left(b, s, found, touch)
  <2>1. /\ found.uid = login.uid /\ found.addresses = login.addresses
        /\ found.process = login.process /\ found.user = owner
        /\ found.row = row(owner) /\ found.matched = None
    <3>. HIDE DEF row, owner
    <3>1. found = Log(login.uid, login.addresses, login.process, login.asker, owner,
                      row(owner), owner, login.resumed, login.matched)
      BY <1>3, FoundEdit
    <3>. HIDE DEF found
    <3>. QED
      BY <3>1, <1>6 DEF Log
  <2>. HIDE DEF found
  <2>2. Given(found) /\ Reachable(setting, rows, unfinished, found)
    BY <2>1, <1>6 DEF Given, Reachable
  <2>3. found.process # "connect" => Current(users, found)
    BY <2>1 DEF Current
  <2>4. found.process = "connect" /\ s.user \in User => found.row = users[s.user]
    BY <2>1, <1>6, <1>8
  <2>. QED
    BY <1>9, <1>10, <2>2, <2>3, <2>4
<1>11. ASSUME NEW i \in DOMAIN login.addresses,
              NEW u \in UsersPreferred(login.addresses[i].email),
              setting.byEmail # "no",
              Left(b, s, matched(u, login.addresses[i].email), decide)
       PROVE  Opens'
  <2>. DEFINE e == login.addresses[i].email
              l == matched(u, e)
  <2>1. e \in Email
    <3>1. login.addresses \in Seq(Address)
      BY <1>6 DEF Given
    <3>2. login.addresses[i] \in Address
      BY <3>1
    <3>. QED
      BY <3>2 DEF Address
  <2>2. u \in User => HasRow(rows, u) \/ u \in unfinished
    BY <2>1, PreferredReachable
  <2>. HIDE DEF e
  <2>3. /\ l.uid = login.uid /\ l.addresses = login.addresses
        /\ l.process = login.process /\ l.user = u
        /\ l.row = row(u) /\ l.matched = e
    <3>. DEFINE y == row(u)
    <3>1. l = [login EXCEPT !.user = u, !.matched = e, !.row = y]
      OBVIOUS
    <3>. HIDE DEF y, l
    <3>2. IsLog(login)
      BY <1>3
    <3>3. l = Log(login.uid, login.addresses, login.process, login.asker, u,
                  y, login.found, login.resumed, e)
      BY <3>1, <3>2, MatchedEdit
    <3>. QED
      BY <3>3 DEF Log, y
  <2>4. Left(b, s, l, decide)
    BY <1>11 DEF e
  <2>. HIDE DEF l
  <2>5. Given(l) /\ Reachable(setting, rows, unfinished, l)
    BY <2>2, <2>3, <1>6, <1>11 DEF Given, Reachable
  <2>6. l.process # "connect" => Current(users, l)
    BY <2>3 DEF Current
  <2>7. l.process = "connect" /\ s.user \in User => l.row = users[s.user]
    BY <2>3, <1>6, <1>8
  <2>. QED
    BY <1>9, <2>4, <2>5, <2>6, <2>7
<1>12. CASE Left(b, s, login, decide)
  BY <1>6, <1>8, <1>9, <1>12
<1>. HIDE DEF found, matched
<1>. QED
  BY <1>2, <1>10, <1>11, <1>12

(* An account that is written stays a way in of whose it was. *)
LEMMA WrittenMore ==
    ASSUME Accounts, NEW uid, NEW u, accounts[uid] \in User => u = accounts[uid]
    PROVE  \A v \in User :
              (\E x \in Uid : accounts[x] = v) =>
                 \E x \in Uid : [accounts EXCEPT ![uid] = u][x] = v
<1>. SUFFICES ASSUME NEW v \in User, NEW x \in Uid, accounts[x] = v
              PROVE  [accounts EXCEPT ![uid] = u][x] = v
  OBVIOUS
<1>1. x = uid => v = u
  OBVIOUS
<1>. QED
  BY <1>1 DEF Accounts

LEMMA TouchOpens ==
    ASSUME Browsers, Accounts, Opens, NEW b \in Browser, Touch(b)
    PROVE  Opens'
<1>. DEFINE login == SocialLoginOf(b)
            todo == <<"decide">>
<1>1. /\ At(b, "touch") /\ UNCHANGED <<setting, users, rows, unfinished>>
      /\ \/ /\ accounts[login.uid] \in {None, login.found}
            /\ accounts' = [accounts EXCEPT ![login.uid] = login.found]
            /\ Left(b, Copy(b), login, todo)
         \/ ServerError(b) /\ UNCHANGED accounts
  BY DEF Touch
<1>2. /\ Sole(b) /\ SessionOk(Copy(b)) /\ Waits(Copy(b))
      /\ Promised(setting, users, accounts, rows, unfinished, Copy(b), login,
                  <<"touch">>)
  BY <1>1, StepFacts, LookupOrder
<1>. HIDE DEF login
<1>3. CASE ServerError(b) /\ UNCHANGED accounts
  BY <1>1, <1>2, <1>3, SoleFails, EnteredSame DEF Opens
<1>4. CASE /\ accounts[login.uid] \in {None, login.found}
           /\ accounts' = [accounts EXCEPT ![login.uid] = login.found]
           /\ Left(b, Copy(b), login, todo)
  <2>1. <<"touch">> \in Lookups /\ todo \in Lookups /\ todo # <<"lookup">>
    BY DEF Lookups
  <2>. HIDE DEF todo
  <2>2. Promised(setting, users, accounts', rows, unfinished, Copy(b), login, todo)
    BY <1>2, <2>1, LookupKind DEF Promised
  <2>3. Alone' /\ Promises'
    BY <1>1, <1>2, <1>4, <2>2, SoleLeft DEF Opens
  <2>4. \A v \in User :
           (\E x \in Uid : accounts[x] = v) => \E x \in Uid : accounts'[x] = v
    <3>. DEFINE B == [accounts EXCEPT ![login.uid] = login.found]
    <3>1. accounts[login.uid] \in User => login.found = accounts[login.uid]
      BY <1>4, NoneAssumption
    <3>2. \A v \in User :
             (\E x \in Uid : accounts[x] = v) => \E x \in Uid : B[x] = v
      BY <3>1, WrittenMore
    <3>. QED
      BY <3>2, <1>4
  <2>5. Entered(setting, users, accounts', rows, unfinished)
    BY <2>4, EnteredMore DEF Opens
  <2>. QED
    BY <1>1, <2>3, <2>5 DEF Opens
<1>. QED
  BY <1>1, <1>3, <1>4

(* A wiped password was not the only way in. *)
LEMMA WipeOpens ==
    ASSUME Browsers, Opens, NEW b \in Browser, Wipe(b)
    PROVE  Opens'
<1>. DEFINE login == SocialLoginOf(b)
            v == login.user
            todo == request[b].todo
            version == users[v].version + 1
            edited == [users[v] EXCEPT !.password = FALSE, !.version = version]
            row == [login.row EXCEPT !.password = FALSE, !.version = version]
            new == [login EXCEPT !.row = row]
<1>1. /\ At(b, "wipe") /\ UNCHANGED <<setting, accounts, rows, unfinished>>
      /\ users' = [users EXCEPT ![v] = edited]
      /\ Left(b, Copy(b), new, Tail(todo))
  BY DEF Wipe, Then
<1>2. /\ Sole(b) /\ Waits(Copy(b)) /\ IsLog(login)
      /\ todo \in Plan /\ Head(todo) = "wipe"
      /\ Promised(setting, users, accounts, rows, unfinished, Copy(b), login, todo)
  BY <1>1, StepFacts
<1>3. todo \in Rewrites /\ Tail(todo) \in Logins /\ Head(Tail(todo)) # "wipe"
  BY <1>2, WipeNext
<1>. HIDE DEF todo
<1>4. /\ v # None /\ (v \in User => login.row = users[v]) /\ login.matched # None
      /\ setting.byEmail # "no"
      /\ v \in User => HasRow(rows, v) \/ v \in unfinished
  BY <1>2, <1>3 DEF Promised, Current, Reachable
<1>5. v \in User => row = edited
  BY <1>4
<1>6. ASSUME v \in User
      PROVE  IsRow(edited) /\ edited.mail = users[v].mail
  <2>1. IsRow(users[v])
    BY <1>6 DEF Opens, Entered
  <2>. HIDE DEF v, version
  <2>. QED
    BY <2>1 DEF IsRow
<1>7. /\ new.user = v /\ new.row = row /\ new.matched = login.matched
  <2>. HIDE DEF login, row
  <2>. QED
    BY <1>2, RowEdit, LogFields DEF v
<1>. HIDE DEF login, v, edited, row, new
<1>8. Entered(setting, users', accounts, rows, unfinished)
  BY <1>1, <1>4, <1>6 DEF Opens, Entered, Enters
<1>9. Current(users', new) /\ Reachable(setting, rows, unfinished, new)
  BY <1>1, <1>4, <1>5, <1>7 DEF Current, Reachable, Opens, Entered
<1>10. Promised(setting, users', accounts, rows, unfinished, Copy(b), new, Tail(todo))
  BY <1>3, <1>4, <1>7, <1>9, LoginKind DEF Promised
<1>11. Alone' /\ Promises'
  BY <1>1, <1>2, <1>10, SoleLeft DEF Opens
<1>. QED
  BY <1>1, <1>8, <1>11 DEF Opens

(* A row that was loaded is saved as it is; a new one is of a signup. *)
LEMMA SaveUserOpens ==
    ASSUME Browsers, Opens, NEW b \in Browser, SaveUser(b)
    PROVE  Opens'
<1>. DEFINE login == SocialLoginOf(b)
            todo == request[b].todo
<1>1. PICK u \in IF login.user = None THEN {v \in User : ~Exists(v)} ELSE {login.user} :
         /\ At(b, "user") /\ UNCHANGED <<setting, accounts, rows>>
         /\ users' = [users EXCEPT ![u] = login.row]
         /\ unfinished' = IF login.user = None THEN unfinished \cup {u} ELSE unfinished
         /\ Left(b, Copy(b), [login EXCEPT !.user = u], Tail(todo))
  BY DEF SaveUser, Then
<1>2. /\ Sole(b) /\ Waits(Copy(b)) /\ IsLog(login)
      /\ todo \in Plan /\ Head(todo) = "user"
      /\ Promised(setting, users, accounts, rows, unfinished, Copy(b), login, todo)
      /\ SessionOk(Copy(b)) /\ RequestOk(Copy(b), login, todo)
  BY <1>1, StepFacts, AtStep
<1>. DEFINE new == [login EXCEPT !.user = u]
<1>. HIDE DEF login
<1>3. /\ new.uid = login.uid /\ new.addresses = login.addresses
      /\ new.user = u /\ new.row = login.row /\ new.matched = login.matched
  BY <1>2, UserEdit, LogFields
<1>4. Left(b, Copy(b), new, Tail(todo))
  BY <1>1
<1>. HIDE DEF new, todo
<1>5. \/ todo \in Connections /\ Tail(todo) \in Connections
      \/ /\ todo = <<"user", "account", "addresses", "login">>
         /\ Tail(todo) = <<"account", "addresses", "login">>
      \/ todo \in Rewrites /\ Tail(todo) \in Rewrites /\ Head(Tail(todo)) # "wipe"
  BY <1>2, UserNext
<1>6. ASSUME Entered(setting, users', accounts, rows, unfinished'),
             Promised(setting, users', accounts, rows, unfinished', Copy(b), new,
                      Tail(todo))
      PROVE  Opens'
  <2>1. Alone' /\ Promises'
    BY <1>1, <1>2, <1>4, <1>6, SoleLeft DEF Opens
  <2>. QED
    BY <1>1, <1>6, <2>1 DEF Opens
<1>7. ASSUME login.user # None, Current(users, login)
      PROVE  UNCHANGED <<users, unfinished>> /\ u = login.user
  <2>1. u = login.user /\ unfinished' = unfinished
    BY <1>1, <1>7
  <2>2. users = [v \in User |-> users[v]]
    BY DEF Opens, Entered
  <2>3. users' = users
    BY <1>1, <1>7, <2>1, <2>2 DEF Current
  <2>. QED
    BY <2>1, <2>3
<1>8. CASE todo \in Connections /\ Tail(todo) \in Connections
  <2>1. login.user # None /\ Current(users, login)
    BY <1>2, <1>8 DEF Promised, RequestOk
  <2>2. UNCHANGED <<users, unfinished>> /\ u = login.user
    BY <2>1, <1>7
  <2>3. Current(users, new)
    BY <2>1, <2>2, <1>3 DEF Current
  <2>4. Promised(setting, users, accounts, rows, unfinished, Copy(b), new, Tail(todo))
    BY <1>8, <2>3, ConnectionKind DEF Promised
  <2>. QED
    BY <1>6, <2>2, <2>4 DEF Opens
<1>9. CASE todo \in Rewrites /\ Tail(todo) \in Rewrites /\ Head(Tail(todo)) # "wipe"
  <2>1. /\ login.user # None /\ Current(users, login)
        /\ Reachable(setting, rows, unfinished, login)
    BY <1>2, <1>9 DEF Promised
  <2>2. UNCHANGED <<users, unfinished>> /\ u = login.user
    BY <2>1, <1>7
  <2>3. /\ new.user # None /\ Current(users, new)
        /\ Reachable(setting, rows, unfinished, new)
    BY <2>1, <2>2, <1>3 DEF Current, Reachable
  <2>4. Tail(todo) \in Logins
    BY <1>9 DEF Rewrites
  <2>5. Promised(setting, users, accounts, rows, unfinished, Copy(b), new, Tail(todo))
    BY <1>9, <2>3, <2>4, LoginKind DEF Promised
  <2>. QED
    BY <1>6, <2>2, <2>5 DEF Opens
<1>10. CASE /\ todo = <<"user", "account", "addresses", "login">>
            /\ Tail(todo) = <<"account", "addresses", "login">>
  <2>1. todo \in Signups
    BY <1>10 DEF Signups
  <2>2. /\ login.user = None /\ Given(login) /\ IsRow(login.row)
        /\ FreeMail(setting, rows, login)
    BY <1>2, <1>10, <2>1 DEF Promised
  <2>3. u \in User /\ unfinished' = unfinished \cup {u}
    BY <1>1, <2>2
  <2>4. Entered(setting, users', accounts, rows, unfinished')
    BY <1>1, <2>2, <2>3 DEF Opens, Entered, Enters
  <2>5. Given(new) /\ FreeMail(setting, rows, new) /\ IsRow(new.row)
    BY <2>2, <1>3 DEF Given, FreeMail
  <2>6. /\ Tail(todo) \in Signups /\ Tail(todo) # <<"addresses", "login">>
        /\ Tail(todo) # <<"user", "account", "addresses", "login">>
    BY <1>10 DEF Signups
  <2>7. Promised(setting, users', accounts, rows, unfinished', Copy(b), new, Tail(todo))
    BY <2>5, <2>6, SignupKind DEF Promised
  <2>. QED
    BY <1>6, <2>4, <2>7
<1>. QED
  BY <1>5, <1>8, <1>9, <1>10

LEMMA SaveAccountOpens ==
    ASSUME Browsers, Accounts, Opens, NEW b \in Browser, SaveAccount(b)
    PROVE  Opens'
<1>. DEFINE login == SocialLoginOf(b)
            todo == request[b].todo
<1>1. /\ At(b, "account") /\ UNCHANGED <<setting, users, rows, unfinished>>
      /\ \/ /\ accounts[login.uid] \in {None, login.found}
            /\ accounts' = [accounts EXCEPT ![login.uid] = login.user]
            /\ Left(b, Copy(b), login, Tail(todo))
         \/ ServerError(b) /\ UNCHANGED accounts
  BY DEF SaveAccount, Then
<1>2. /\ Sole(b) /\ Waits(Copy(b)) /\ LoginOk(login)
      /\ todo \in Plan /\ Head(todo) = "account"
      /\ Promised(setting, users, accounts, rows, unfinished, Copy(b), login, todo)
  BY <1>1, StepFacts
<1>. HIDE DEF login, todo
<1>3. CASE ServerError(b) /\ UNCHANGED accounts
  BY <1>1, <1>2, <1>3, SoleFails, EnteredSame DEF Opens
<1>4. CASE /\ accounts[login.uid] \in {None, login.found}
           /\ accounts' = [accounts EXCEPT ![login.uid] = login.user]
           /\ Left(b, Copy(b), login, Tail(todo))
  <2>1. \A v \in User :
           (\E x \in Uid : accounts[x] = v) => \E x \in Uid : accounts'[x] = v
    <3>. DEFINE B == [accounts EXCEPT ![login.uid] = login.user]
    <3>1. accounts[login.uid] \in User => login.user = accounts[login.uid]
      BY <1>2, <1>4, NoneAssumption DEF LoginOk
    <3>2. \A v \in User :
             (\E x \in Uid : accounts[x] = v) => \E x \in Uid : B[x] = v
      BY <3>1, WrittenMore
    <3>. QED
      BY <3>2, <1>4
  <2>2. Entered(setting, users, accounts', rows, unfinished)
    BY <2>1, EnteredMore DEF Opens
  <2>3. \/ todo \in Connections /\ Tail(todo) \in Connections
        \/ /\ todo = <<"account", "addresses", "login">>
           /\ Tail(todo) = <<"addresses", "login">>
        \/ Tail(todo) = <<"login">>
    BY <1>2, AccountNext
  <2>4. ASSUME todo \in Connections, Tail(todo) \in Connections
        PROVE  Promised(setting, users, accounts', rows, unfinished, Copy(b), login,
                        Tail(todo))
    BY <1>2, <2>4, ConnectionKind DEF Promised
  <2>5. ASSUME todo = <<"account", "addresses", "login">>,
               Tail(todo) = <<"addresses", "login">>
        PROVE  Promised(setting, users, accounts', rows, unfinished, Copy(b), login,
                        Tail(todo))
    <3>1. /\ todo \in Signups /\ Tail(todo) \in Signups
          /\ Tail(todo) # <<"user", "account", "addresses", "login">>
      BY <2>5 DEF Signups
    <3>2. Given(login) /\ IsRow(login.row) /\ FreeMail(setting, rows, login)
      BY <1>2, <3>1 DEF Promised
    <3>3. accounts'[login.uid] = login.user
      BY <1>4, <3>2 DEF Accounts, Given
    <3>. QED
      BY <3>1, <3>2, <3>3, SignupKind DEF Promised
  <2>6. ASSUME Tail(todo) = <<"login">>
        PROVE  Promised(setting, users, accounts', rows, unfinished, Copy(b), login,
                        Tail(todo))
    BY <2>6, LoginLast DEF Promised
  <2>7. Alone' /\ Promises'
    BY <1>1, <1>2, <1>4, <2>3, <2>4, <2>5, <2>6, SoleLeft DEF Opens
  <2>. QED
    BY <1>1, <2>2, <2>7 DEF Opens
<1>. QED
  BY <1>1, <1>3, <1>4

LEMMA DeleteAccountOpens ==
    ASSUME Browsers, Accounts, Opens, NEW b \in Browser, DeleteAccount(b)
    PROVE  Opens'
<1>. DEFINE login == SocialLoginOf(b)
            uid == login.uid
            v == login.user
            owner == IF accounts[uid] = v THEN None ELSE accounts[uid]
<1>1. /\ At(b, "delete") /\ UNCHANGED <<setting, users, rows, unfinished>>
      /\ accounts' = [accounts EXCEPT ![uid] = owner]
      /\ Ends(b, Copy(b))
  BY DEF DeleteAccount
<1>2. /\ Sole(b) /\ Waits(Copy(b)) /\ request[b].todo = <<"delete">>
      /\ Promised(setting, users, accounts, rows, unfinished, Copy(b), login,
                  request[b].todo)
  <2>1. /\ Sole(b) /\ Waits(Copy(b)) /\ request[b].todo \in Plan
        /\ Head(request[b].todo) = "delete"
        /\ Promised(setting, users, accounts, rows, unfinished, Copy(b), login,
                    request[b].todo)
    BY <1>1, StepFacts
  <2>2. request[b].todo = <<"delete">>
    BY <2>1 DEF Plan, Lookups, Connections, Signups, Logins
  <2>. QED
    BY <2>1, <2>2
<1>3. v \in User =>
         users[v].password \/ \E x \in Uid \ {uid} : accounts[x] = v
  BY <1>2 DEF Promised, Spare
<1>. HIDE DEF login, uid, v
<1>4. \A x \in Uid : accounts'[x] = IF x = uid THEN owner ELSE accounts[x]
  BY <1>1 DEF Accounts
<1>5. ASSUME NEW u \in User
      PROVE  Enters(setting, users, accounts', rows, unfinished, u)
  <2>1. Enters(setting, users, accounts, rows, unfinished, u)
    BY DEF Opens, Entered
  <2>2. CASE u = v
    BY <1>3, <1>4, <2>1, <2>2 DEF Enters
  <2>3. CASE u # v
    BY <1>4, <2>1, <2>3 DEF Enters
  <2>. QED
    BY <2>2, <2>3
<1>6. Entered(setting, users, accounts', rows, unfinished)
  BY <1>5 DEF Opens, Entered
<1>7. Alone' /\ Promises'
  BY <1>1, <1>2, SoleStops DEF Opens, Ends
<1>. QED
  BY <1>1, <1>6, <1>7 DEF Opens

LEMMA FinishOpens ==
    ASSUME Browsers, Opens, NEW b \in Browser, Finish(b)
    PROVE  Opens'
<1>. DEFINE copy == Copy(b)
            login == SocialLoginOf(b)
            t == LoggedIn(copy, login.user, login.row.version)
<1>1. /\ UNCHANGED <<setting, users, accounts, rows, unfinished>>
      /\ At(b, "end") \/ At(b, "login")
      /\ Ends(b, copy) \/ Ends(b, t)
  BY DEF Finish, database
<1>2. Sole(b) /\ SessionOk(copy) /\ Waits(copy)
  BY <1>1, StepFacts
<1>. HIDE DEF copy, login
<1>3. Holds(t, login.user, copy.states, copy.pending, copy.suspended)
  BY <1>2, LoggedInHolds DEF SessionOk
<1>. HIDE DEF t
<1>4. Waits(t)
  BY <1>2, <1>3 DEF Holds, Waits
<1>5. Alone' /\ Promises'
  BY <1>1, <1>2, <1>4, SoleStops DEF Opens, Ends
<1>. QED
  BY <1>1, <1>5, EnteredSame DEF Opens

(* The first address of a sequence that begins with it is kept. *)
LEMMA Begins ==
    ASSUME NEW a, NEW S, NEW s \in Seq(S)
    PROVE  1 \in DOMAIN (<<a>> \o s) /\ (<<a>> \o s)[1] = a
<1>. DEFINE T == S \cup {a}
<1>1. <<a>> \in Seq(T) /\ s \in Seq(T) /\ Len(<<a>>) = 1 /\ <<a>>[1] = a
  OBVIOUS
<1>. HIDE DEF T
<1>2. /\ <<a>> \o s \in Seq(T) /\ Len(<<a>> \o s) = Len(<<a>>) + Len(s)
      /\ \A i \in 1..Len(<<a>> \o s) :
            (<<a>> \o s)[i] = IF i <= Len(<<a>>) THEN <<a>>[i] ELSE s[i - Len(<<a>>)]
  BY <1>1, ConcatProperties
<1>3. Len(s) \in Nat
  BY <1>1
<1>4. DOMAIN (<<a>> \o s) = 1..Len(<<a>> \o s)
  BY <1>2
<1>. QED
  BY <1>1, <1>2, <1>3, <1>4

(* Who signed up has an address, of which there is a row, and the account. *)
LEMMA SetupUserEmailOpens ==
    ASSUME Browsers, Accounts, Opens, NEW b \in Browser, SetupUserEmail(b)
    PROVE  Opens'
<1>. DEFINE login == SocialLoginOf(b)
            todo == request[b].todo
            u == login.user
            mail == [email |-> login.row.mail, verified |-> FALSE, primary |-> TRUE]
            as == <<mail>> \o login.addresses
            kept == {i \in DOMAIN as : ~Conflicts(as[i])}
            row == IF kept = {} THEN login.row
                   ELSE [login.row EXCEPT !.mail = PrimaryAddress(as, kept)]
            RowAt(i) == [user |-> u, email |-> as[i].email,
                         verified |-> \E j \in kept : as[j].email = as[i].email
                                                      /\ as[j].verified,
                         primary |-> as[i].email = PrimaryAddress(as, kept)]
            new == [login EXCEPT !.row = row]
<1>1. /\ At(b, "addresses") /\ UNCHANGED <<setting, accounts>>
      /\ rows' = rows \cup {RowAt(i) : i \in kept}
      /\ users' = IF row = login.row THEN users ELSE [users EXCEPT ![u] = row]
      /\ unfinished' = unfinished \ {u}
      /\ Left(b, Copy(b), new, Tail(todo))
  BY DEF SetupUserEmail, Then
<1>2. /\ Sole(b) /\ Waits(Copy(b)) /\ IsLog(login)
      /\ todo = <<"addresses", "login">> /\ Tail(todo) = <<"login">>
      /\ Promised(setting, users, accounts, rows, unfinished, Copy(b), login, todo)
  BY <1>1, StepFacts, AddressesNext
<1>3. todo \in Signups
  BY <1>2 DEF Signups
<1>. HIDE DEF login, todo
<1>4. /\ Given(login) /\ IsRow(login.row) /\ FreeMail(setting, rows, login)
      /\ accounts[login.uid] = u
  BY <1>2, <1>3 DEF Promised
<1>. HIDE DEF u
<1>5. 1 \in kept
  <2>1. 1 \in DOMAIN as /\ as[1] = mail
    BY <1>4, Begins DEF Given
  <2>2. mail.email = login.row.mail /\ mail.verified = FALSE
    OBVIOUS
  <2>. HIDE DEF as, mail
  <2>3. ~Conflicts(as[1])
    BY <2>1, <2>2, <1>4 DEF Conflicts, FreeMail
  <2>. QED
    BY <2>1, <2>3
<1>6. IsRow(row)
  <2>. DEFINE p == PrimaryAddress(as, kept)
  <2>. HIDE DEF p, kept
  <2>1. IsRow([login.row EXCEPT !.mail = p])
    BY <1>4 DEF IsRow
  <2>. QED
    BY <2>1, <1>4 DEF p
<1>7. \A i \in kept : RowAt(i).user = u
  OBVIOUS
<1>. HIDE DEF kept, RowAt, row, new
<1>8. HasRow(rows', u) /\ \A v \in User : HasRow(rows, v) => HasRow(rows', v)
  BY <1>1, <1>5, <1>7 DEF HasRow
<1>9. ASSUME NEW v \in User
      PROVE  /\ IsRow(users'[v])
             /\ users'[v].mail = None \/ HasRow(rows', v) \/ v \in unfinished'
             /\ Enters(setting, users', accounts, rows', unfinished', v)
  <2>1. /\ IsRow(users[v])
        /\ users[v].mail = None \/ HasRow(rows, v) \/ v \in unfinished
        /\ Enters(setting, users, accounts, rows, unfinished, v)
        /\ users = [w \in User |-> users[w]]
    BY DEF Opens, Entered
  <2>2. CASE v = u
    <3>1. \E uid \in Uid : accounts[uid] = v
      BY <1>4, <2>2 DEF Given
    <3>2. IsRow(users'[v])
      BY <1>1, <1>6, <2>1, <2>2
    <3>. QED
      BY <3>1, <3>2, <1>8, <2>2 DEF Enters
  <2>3. CASE v # u
    <3>1. users'[v] = users[v] /\ (v \in unfinished' <=> v \in unfinished)
      BY <1>1, <2>1, <2>3
    <3>. QED
      BY <3>1, <1>8, <2>1 DEF Enters
  <2>. QED
    BY <2>2, <2>3
<1>10. users' = [v \in User |-> users'[v]]
  BY <1>1 DEF Opens, Entered
<1>11. Entered(setting, users', accounts, rows', unfinished')
  BY <1>9, <1>10 DEF Entered
<1>12. Promised(setting, users', accounts, rows', unfinished', Copy(b), new, Tail(todo))
  BY <1>2, LoginLast DEF Promised
<1>13. Alone' /\ Promises'
  BY <1>1, <1>2, <1>12, SoleLeft DEF Opens
<1>. QED
  BY <1>1, <1>11, <1>13 DEF Opens

LEMMA CrashOpens ==
    ASSUME Browsers, Opens, NEW b \in Browser, Crash(b)
    PROVE  Opens'
<1>1. /\ ~Idle(b) /\ ServerError(b)
      /\ UNCHANGED <<setting, users, accounts, rows, unfinished>>
  BY DEF Crash, database
<1>2. Alone' /\ Promises'
  BY <1>1, StepSole, SoleFails DEF Opens
<1>. QED
  BY <1>1, <1>2, EnteredSame DEF Opens

----------------------------------------------------------------------------
(* The accounts that there are at first are none; whoever is there can log *)
(* in with a password.                                                     *)
HomesOpen == \A u \in User : Home[u].version # 0 => Home[u].password

LEMMA OpenInit ==
    ASSUME HomesOpen, Init
    PROVE  Opens
<1>1. /\ users = Home
      /\ \A u \in User : Cardinality({r \in rows : r.user = u}) =
                            IF users[u].mail = None THEN 0 ELSE 1
      /\ session = [b \in Browser |-> Empty]
      /\ request = [b \in Browser |-> None]
  BY DEF Init
<1>2. Alone /\ Promises
  BY <1>1 DEF Alone, Promises, Waits, Empty
<1>3. ASSUME NEW u \in User
      PROVE  IsRow(users[u]) /\ (users[u].mail = None \/ HasRow(rows, u))
  <2>1. IsRow(users[u])
    BY <1>1, HomeAssumption DEF UserRow, IsRow
  <2>2. ASSUME users[u].mail # None
        PROVE  HasRow(rows, u)
    <3>1. Cardinality({r \in rows : r.user = u}) = 1
      BY <1>1, <2>2
    <3>2. {r \in rows : r.user = u} # {}
      BY <3>1, FS_EmptySet
    <3>. QED
      BY <3>2 DEF HasRow
  <2>. QED
    BY <2>1, <2>2
<1>4. users = [u \in User |-> users[u]]
  BY <1>1, HomeAssumption
<1>5. Entered(setting, users, accounts, rows, unfinished)
  BY <1>1, <1>3, <1>4, HomesOpen DEF Entered, Enters, HomesOpen
<1>. QED
  BY <1>2, <1>5 DEF Opens

LEMMA SettingStays == [Next]_vars => UNCHANGED setting
<1>1. ASSUME NEW b \in Browser,
             \/ \E process \in {"login", "connect"} : Redirect(b, process)
             \/ \E u \in User : PasswordLogin(b, u)
             \/ \E state \in State, uid \in Uid, profile \in Profile :
                   Callback(b, state, uid, profile)
             \/ \E e \in Email : PostSignup(b, e)
             \/ \E uid \in Uid : Disconnect(b, uid)
      PROVE  UNCHANGED setting
  BY <1>1 DEF Redirect, PasswordLogin, Callback, PostSignup, Disconnect, Saved
<1>2. ASSUME NEW b \in Browser,
             \/ Logout(b) \/ Stale(b) \/ ChangePassword(b) \/ Reauthenticate(b)
             \/ LookUp(b) \/ Touch(b) \/ Decide(b)
      PROVE  UNCHANGED setting
  BY <1>2 DEF Logout, Stale, ChangePassword, Reauthenticate, LookUp, Touch, Decide,
              Saved
<1>3. ASSUME NEW b \in Browser,
             \/ Wipe(b) \/ SaveUser(b) \/ SaveAccount(b) \/ SetupUserEmail(b)
             \/ DeleteAccount(b) \/ Finish(b) \/ Crash(b)
      PROVE  UNCHANGED setting
  BY <1>3 DEF Wipe, SaveUser, SaveAccount, SetupUserEmail, DeleteAccount, Finish,
              Crash
<1>. QED
  BY <1>1, <1>2, <1>3 DEF Next, vars

LEMMA OpenStep ==
    ASSUME Kept, Open, [Next]_vars
    PROVE  Open'
<1>. SUFFICES ASSUME ~setting'.overlap
              PROVE  Opens'
  BY DEF Open
<1>1. UNCHANGED setting
  BY SettingStays
<1>2. Opens /\ Browsers /\ Accounts /\ ~setting.overlap
  BY <1>1 DEF Open, Kept
<1>3. CASE UNCHANGED vars
  <2>1. UNCHANGED <<setting, users, accounts, rows, session, request, unfinished>>
    BY <1>3 DEF vars
  <2>2. Alone' /\ Promises'
    BY <1>2, <2>1 DEF Opens, Alone, Promises
  <2>. QED
    BY <1>2, <2>1, <2>2, EnteredSame DEF Opens
<1>4. CASE Next
  <2>1. PICK b \in Browser :
           \/ \E process \in {"login", "connect"} : Redirect(b, process)
           \/ \E u \in User : PasswordLogin(b, u)
           \/ \E state \in State, uid \in Uid, profile \in Profile :
                 Callback(b, state, uid, profile)
           \/ \E e \in Email : PostSignup(b, e)
           \/ \E uid \in Uid : Disconnect(b, uid)
           \/ Logout(b) \/ Stale(b) \/ ChangePassword(b) \/ Reauthenticate(b)
           \/ LookUp(b) \/ Touch(b) \/ Decide(b) \/ Wipe(b) \/ SaveUser(b)
           \/ SaveAccount(b) \/ SetupUserEmail(b) \/ DeleteAccount(b) \/ Finish(b)
           \/ Crash(b)
    BY <1>4 DEF Next
  <2>2. CASE \/ \E process \in {"login", "connect"} : Redirect(b, process)
             \/ \E u \in User : PasswordLogin(b, u)
             \/ Logout(b) \/ Stale(b)
    BY <2>2, <1>2, SavesOpen
  <2>3. CASE \E state \in State, uid \in Uid, profile \in Profile :
               Callback(b, state, uid, profile)
    BY <2>3, <1>2, CallbackOpens
  <2>4. CASE \E e \in Email : PostSignup(b, e)
    BY <2>4, <1>2, PostSignupOpens
  <2>5. CASE \E uid \in Uid : Disconnect(b, uid)
    BY <2>5, <1>2, DisconnectOpens
  <2>6. CASE ChangePassword(b) \/ Reauthenticate(b)
    BY <2>6, <1>2, ChangePasswordOpens, ReauthenticateOpens
  <2>7. CASE LookUp(b) \/ Touch(b) \/ Decide(b)
    BY <2>7, <1>2, LookUpOpens, TouchOpens, DecideOpens
  <2>8. CASE Wipe(b) \/ SaveUser(b) \/ SaveAccount(b)
    BY <2>8, <1>2, WipeOpens, SaveUserOpens, SaveAccountOpens
  <2>9. CASE SetupUserEmail(b) \/ DeleteAccount(b) \/ Finish(b) \/ Crash(b)
    BY <2>9, <1>2, SetupUserEmailOpens, DeleteAccountOpens, FinishOpens, CrashOpens
  <2>. QED
    BY <2>1, <2>2, <2>3, <2>4, <2>5, <2>6, <2>7, <2>8, <2>9
<1>. QED
  BY <1>3, <1>4

(* Where requests do not overlap, what a request found out stays so until   *)
(* it writes, and whoever has no password has another way in               *)
(* (validate_disconnect, wipe_password, setup_user_email).                 *)
THEOREM OpenInvariant ==
    ASSUME HomesOpen
    PROVE  Spec => []Open
<1>1. Init => Open
  BY OpenInit DEF Open
<1>2. Kept /\ Open /\ [Next]_vars => Open'
  BY OpenStep
<1>. QED
  BY <1>1, <1>2, KeptInvariant, PTL DEF Spec

(* Whoever is there at first can log in with a password.  Then each user   *)
(* has a way in, whatever is disconnected or wiped, wherever a worker dies *)
(* in a signup or a connection, as long as requests do not overlap         *)
(* (validate_disconnect, wipe_password, setup_user_email).                 *)
THEOREM WayInHolds ==
    ASSUME HomesOpen
    PROVE  Spec => []WayIn
<1>1. Open => WayIn
  BY DEF Open, Opens, Entered, Enters, WayIn, Exists, AccountsOf, RowsOf, HasRow
<1>. QED
  BY <1>1, OpenInvariant, PTL
=============================================================================
