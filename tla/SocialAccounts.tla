-------------------------- MODULE SocialAccounts --------------------------
(***************************************************************************)
(* Social accounts, allauth/socialaccount: browsers that are redirected to *)
(* a provider and come back to log in, to connect an account or to sign    *)
(* up, connections that are suspended for a reauthentication, and accounts *)
(* that are disconnected.  A request is cut after each write to the        *)
(* database; it loads its session first and saves it last, and a worker    *)
(* may die in between.                                                     *)
(*                                                                         *)
(* Abstractions.  What a provider says of an account is one of Profile,    *)
(* with the addresses in the order that they are sorted in; the first one  *)
(* is the new user's own.  setup_user_email is one step (EmailAddresses    *)
(* has the races for an address).  A login is complete or waits for a      *)
(* verified address (LoginPipeline has the stages).  A browser has one     *)
(* request at a time.  Left out: phone numbers, tokens, usersessions,      *)
(* which a wiped password ends the sessions of, and signups that are       *)
(* closed.                                                                 *)
(***************************************************************************)
EXTENDS Naturals, Sequences, FiniteSets

CONSTANTS
    User,           \* who has an account with us, or will
    Home,           \* how it begins: some users have a password, an address
    Uid,            \* accounts at the provider
    Email,
    Profile,        \* what the provider may say of an account
    Browser,
    Setting,        \* the configurations, of AllSettings
    None,           \* nobody, no request, no login, no address
    MaxStates,      \* bound: pending states in a session
    MaxVersion      \* bound: passwords of a user

(* AUTO_SIGNUP, EMAIL_AUTHENTICATION without and with _AUTO_CONNECT,       *)
(* REAUTHENTICATION_REQUIRED, mandatory EMAIL_VERIFICATION,                *)
(* PREVENT_ENUMERATION, whether requests overlap, and the bound on workers *)
(* that are killed.                                                        *)
AllSettings ==
    [auto : BOOLEAN, byEmail : {"no", "yes", "connect"}, reauth : BOOLEAN,
     mandatory : BOOLEAN, hide : {"no", "yes", "strict"}, overlap : BOOLEAN,
     crashes : Nat]

ASSUME SettingAssumption == Setting \subseteq AllSettings

ASSUME BoundAssumption == {MaxStates, MaxVersion} \subseteq Nat

ASSUME NoneAssumption == None \notin User \cup Email

Address == [email : Email, verified : BOOLEAN, primary : BOOLEAN]

ASSUME ProfileAssumption == Profile \subseteq Seq(Address) \ {<<>>}

(* The row of a user: whether the password is usable, a version of it, and *)
(* the address.  Version 0: there is no row.                               *)
UserRow == [version : Nat, password : BOOLEAN, mail : Email \cup {None}]

ASSUME HomeAssumption == Home \in [User -> UserRow]

VARIABLES
    setting,
    users,      \* the rows of users
    accounts,   \* the rows of SocialAccount: whose each is
    rows,       \* the rows of EmailAddress
    session,    \* the stored session of each browser
    request,    \* what each browser's request has left to do
    crashes,
    unfinished  \* history variable: users whose signup did not end

vars == <<setting, users, accounts, rows, session, request, crashes, unfinished>>

database == <<users, accounts, rows, unfinished>>

(* SocialLogin: uid and addresses are the provider's.  user is whom it     *)
(* points to, row the user's row as it was loaded.  found: whose account   *)
(* lookup() found, and resumed whether that was an earlier request.        *)
(* matched: the address that the user was found by.  asker: who was logged *)
(* in when a connection was asked for.                                     *)
SocialLogin ==
    [uid : Uid, addresses : Profile, process : {"login", "connect"},
     asker : User \cup {None}, user : User \cup {None}, row : UserRow,
     found : User \cup {None}, resumed : BOOLEAN, matched : Email \cup {None}]

State == [process : {"login", "connect"}, asker : User \cup {None}]

(* hash: the password that the session was made with.  fresh: somebody     *)
(* authenticated recently.  pending: the login that waits for the signup   *)
(* form.  suspended: the one that waits for a reauthentication.            *)
Session ==
    [user : User \cup {None}, hash : Nat, fresh : BOOLEAN, states : SUBSET State,
     pending : SocialLogin \cup {None}, suspended : SocialLogin \cup {None}]

Empty ==
    [user |-> None, hash |-> 0, fresh |-> FALSE, states |-> {},
     pending |-> None, suspended |-> None]

NewRow == [version |-> 0, password |-> FALSE, mail |-> None]

TypeOK ==
    /\ setting \in Setting
    /\ users \in [User -> UserRow]
    /\ accounts \in [Uid -> User \cup {None}]
    /\ rows \subseteq [user : User, email : Email, verified : BOOLEAN,
                      primary : BOOLEAN]
    /\ session \in [Browser -> Session]
    /\ \A b \in Browser : request[b] # None => request[b].copy \in Session
    /\ crashes \in 0..setting.crashes
    /\ unfinished \subseteq User

Init ==
    /\ setting \in Setting
    /\ users = Home
    /\ accounts = [uid \in Uid |-> None]
    /\ rows \in SUBSET {[user |-> u, email |-> users[u].mail, verified |-> v,
                         primary |-> TRUE] :
                            u \in {w \in User : users[w].mail # None}, v \in BOOLEAN}
    /\ \A u \in User : Cardinality({r \in rows : r.user = u}) =
                          IF users[u].mail = None THEN 0 ELSE 1
    /\ session = [b \in Browser |-> Empty]
    /\ request = [b \in Browser |-> None]
    /\ crashes = 0
    /\ unfinished = {}
----------------------------------------------------------------------------
Exists(u) == users[u].version # 0
RowsOf(u) == {r \in rows : r.user = u}
AccountsOf(u) == {uid \in Uid : accounts[uid] = u}
HasVerified(u) == \E r \in RowsOf(u) : r.verified

(* filter_users_by_email(), with and without prefer_verified *)
UsersWith(e) ==
    {r.user : r \in {s \in rows : s.email = e}}
        \cup {u \in User : Exists(u) /\ users[u].mail = e}
UsersPreferred(e) ==
    LET verified == {r.user : r \in {s \in rows : s.email = e /\ s.verified}}
    IN  IF verified # {} THEN verified ELSE UsersWith(e)

(* assess_unique_email(): unique, taken, or taken and hidden. *)
Assess(e) ==
    CASE UsersWith(e) = {} -> "unique"
      [] UsersWith(e) # {} /\ setting.hide = "no" -> "taken"
      [] UsersWith(e) # {} /\ setting.hide # "no" /\ setting.mandatory -> "hidden"
      [] UsersWith(e) # {} /\ setting.hide = "strict" /\ ~setting.mandatory -> "unique"
      [] OTHER -> "taken"

(* Django logs out a session whose password is not the user's any more. *)
Loaded(b) ==
    LET s == session[b]
    IN  IF s.user # None /\ users[s.user].version # s.hash THEN Empty ELSE s

(* Mutant: the states outlive the session. *)
StatesKept(s) == [Empty EXCEPT !.states = s.states]

LoggedOut(s) == Empty

LoggedIn(s, u, version) == [s EXCEPT !.user = u, !.hash = version, !.fresh = TRUE]

Idle(b) == request[b] = None

MayStart(b) == Idle(b) /\ (setting.overlap \/ \A c \in Browser : Idle(c))

(* A request that is a single write, of its session. *)
Saved(b, s) ==
    /\ session' = [session EXCEPT ![b] = s]
    /\ UNCHANGED <<setting, database, request, crashes>>

(* What a request has left to do, with its copy of the session: a logout   *)
(* deletes the stored one at once.                                         *)
Left(b, copy, login, todo) ==
    /\ request' = [request EXCEPT ![b] =
                      [copy |-> copy, login |-> login, todo |-> todo]]
    /\ session' = [session EXCEPT ![b] = IF @.user = copy.user THEN @ ELSE copy]

Ends(b, s) ==
    /\ request' = [request EXCEPT ![b] = None]
    /\ session' = [session EXCEPT ![b] = s]

(* An error response does not save the session. *)
ServerError(b) == request' = [request EXCEPT ![b] = None] /\ UNCHANGED session
----------------------------------------------------------------------------
(* The browser is redirected to the provider. *)
Redirect(b, process) ==
    LET s == Loaded(b)
    IN  /\ MayStart(b)
        /\ Cardinality(s.states) < MaxStates
        /\ Saved(b, [s EXCEPT !.states =
                        @ \cup {[process |-> process,
                             asker |-> IF process = "connect" THEN s.user ELSE None]}])

PasswordLogin(b, u) ==
    /\ MayStart(b)
    /\ Loaded(b).user = None
    /\ Exists(u) /\ users[u].password
    /\ setting.mandatory => HasVerified(u)
    /\ Saved(b, LoggedIn(Loaded(b), u, users[u].version))

Logout(b) ==
    /\ MayStart(b)
    /\ Loaded(b).user # None
    /\ Saved(b, LoggedOut(Loaded(b)))

(* REAUTHENTICATION_TIMEOUT passes. *)
Stale(b) ==
    /\ MayStart(b)
    /\ session[b].fresh /\ setting.reauth
    /\ Saved(b, [session[b] EXCEPT !.fresh = FALSE])

(* A password is set or changed, by who stays logged in. *)
ChangePassword(b) ==
    LET u == Loaded(b).user
    IN  /\ MayStart(b)
        /\ u # None /\ users[u].version < MaxVersion
        /\ users' = [users EXCEPT ![u].password = TRUE, ![u].version = @ + 1]
        /\ session' = [session EXCEPT ![b].hash = users[u].version + 1]
        /\ UNCHANGED <<setting, accounts, rows, request, crashes, unfinished>>

(* The provider sends the browser back, with one of its pending states. *)
Callback(b, state, uid, profile) ==
    LET s == Loaded(b)
    IN  /\ MayStart(b)
        /\ state \in s.states
        /\ Left(b, [s EXCEPT !.states = @ \ {state}],
                [uid |-> uid, addresses |-> profile, process |-> state.process,
                 asker |-> state.asker, user |-> None,
                 row |-> IF s.user = None THEN NewRow ELSE users[s.user],
                 found |-> None, resumed |-> FALSE, matched |-> None],
                <<"lookup">>)
        /\ UNCHANGED <<setting, database, crashes>>
----------------------------------------------------------------------------
Copy(b) == request[b].copy
SocialLoginOf(b) == request[b].login
Then(b) == Tail(request[b].todo)

NeedsReauthentication(s, row) ==
    setting.reauth /\ row.password /\ ~s.fresh

(* Mutant: an account that is somebody else's is connected all the same. *)
AnyonesAccount(login, u) == FALSE

ConnectedOther(login, u) == login.user \notin {None, u}

(* do_connect(), for a request that loaded the row of who is logged in. *)
DoConnect(b, s, login) ==
    IF s.user = None THEN Ends(b, s)
    ELSE IF NeedsReauthentication(s, login.row)
      THEN Ends(b, [s EXCEPT !.suspended =
                      [login EXCEPT !.resumed = TRUE, !.row = NewRow]])
    ELSE IF \/ ConnectedOther(login, s.user)
            \/ login.found = s.user /\ ~login.resumed
      THEN Ends(b, s)
      ELSE Left(b, s, [login EXCEPT !.user = s.user], <<"user", "account", "end">>)

(* A password is given again, which resumes the suspended connection. *)
Reauthenticate(b) ==
    LET s == [Loaded(b) EXCEPT !.fresh = TRUE, !.suspended = None]
        login == Loaded(b).suspended
    IN  /\ MayStart(b)
        /\ s.user # None /\ users[s.user].password
        /\ IF login = None THEN Ends(b, s)
           ELSE DoConnect(b, s, [login EXCEPT !.row = users[s.user]])
        /\ UNCHANGED <<setting, database, crashes>>

(* process_signup(), with the form or without it, or the pretence of one.  *)
ProcessSignup(b, s, login) ==
    LET e == login.addresses[1].email
        assessment == Assess(e)
        new == [login EXCEPT !.row = [version |-> 1, password |-> FALSE, mail |-> e]]
    IN  CASE setting.auto /\ assessment = "hidden" -> Ends(b, s)
          [] setting.auto /\ assessment = "unique" ->
               Left(b, s, new, <<"user", "account", "addresses", "login">>)
          [] OTHER -> Ends(b, [s EXCEPT !.pending = [login EXCEPT !.row = NewRow]])

(* wipe_password() *)
MustWipe(login) ==
    /\ login.matched # None
    /\ ~\E r \in RowsOf(login.user) : r.email = login.matched /\ r.verified
    /\ login.row.password

(* _authenticate(): who is logged in is logged out first. *)
Authenticate(b, login) ==
    LET s == IF Copy(b).user = None THEN Copy(b) ELSE LoggedOut(Copy(b))
        wipe == IF MustWipe(login) THEN <<"wipe">> ELSE <<>>
        connect == IF login.matched # None /\ setting.byEmail = "connect"
                     THEN <<"user", "account">> ELSE <<>>
    IN  IF login.user = None THEN ProcessSignup(b, s, login)
        ELSE Left(b, s, login, wipe \o connect \o <<"login">>)

(* The signup form is posted, with any address. *)
PostSignup(b, e) ==
    LET s == Loaded(b)
        done == [s EXCEPT !.pending = None]
    IN  /\ MayStart(b)
        /\ s.user = None /\ s.pending # None
        /\ \/ Assess(e) = "hidden" /\ Ends(b, done)
           \/ /\ Assess(e) = "unique"
              /\ Left(b, done,
                      [s.pending EXCEPT !.row =
                          [version |-> 1, password |-> FALSE, mail |-> e]],
                      <<"user", "account", "addresses", "login">>)
        /\ UNCHANGED <<setting, database, crashes>>

(* Mutant: the account counts as one that remains. *)
IsOnly(uid, u) == AccountsOf(u) = {}

IsLast(uid, u) == AccountsOf(u) \ {uid} = {}

(* DisconnectForm: validate_disconnect(), then disconnect().  That nobody's *)
(* last account may go where SOCIALACCOUNT_ONLY is set, and there are no    *)
(* passwords, is left out.                                                  *)
Disconnect(b, uid) ==
    LET s == Loaded(b)
    IN  /\ MayStart(b)
        /\ s.user # None /\ accounts[uid] = s.user
        /\ IsLast(uid, s.user) => /\ users[s.user].password
                                  /\ setting.mandatory => HasVerified(s.user)
        /\ ~NeedsReauthentication(s, users[s.user])
        /\ Left(b, s,
                [uid |-> uid, addresses |-> <<>>, process |-> "connect",
                 asker |-> s.user, user |-> s.user, row |-> users[s.user],
                 found |-> s.user, resumed |-> FALSE, matched |-> None],
                <<"delete">>)
        /\ UNCHANGED <<setting, database, crashes>>
----------------------------------------------------------------------------
(* A request of the browser takes its next step. *)
At(b, step) == ~Idle(b) /\ Head(request[b].todo) = step

(* lookup(): an account that is found is saved again, in a step of its own. *)
LookUp(b) ==
    LET login == SocialLoginOf(b)
        owner == accounts[login.uid]
        s == [Copy(b) EXCEPT !.pending = None]
        row(u) == IF login.process = "connect" THEN login.row ELSE users[u]
        email(i) == login.addresses[i].email
        matches == {i \in DOMAIN login.addresses :
                      login.addresses[i].verified /\ UsersPreferred(email(i)) # {}}
        first == {i \in matches : \A j \in matches : i <= j}
    IN  /\ At(b, "lookup")
        /\ IF owner # None
             THEN Left(b, s, [login EXCEPT !.user = owner, !.found = owner,
                                           !.row = row(owner)], <<"touch">>)
           ELSE IF setting.byEmail # "no" /\ first # {}
             THEN \E i \in first : \E u \in UsersPreferred(email(i)) :
                     Left(b, s, [login EXCEPT !.user = u, !.matched = email(i),
                                              !.row = row(u)], <<"decide">>)
           ELSE Left(b, s, login, <<"decide">>)
        /\ UNCHANGED <<setting, database, crashes>>

(* The account's row is updated, or inserted again if it was deleted. *)
Touch(b) ==
    LET login == SocialLoginOf(b)
    IN  /\ At(b, "touch")
        /\ IF accounts[login.uid] \in {None, login.found}
             THEN /\ accounts' = [accounts EXCEPT ![login.uid] = login.found]
                  /\ Left(b, Copy(b), login, <<"decide">>)
             ELSE ServerError(b) /\ UNCHANGED accounts
        /\ UNCHANGED <<setting, users, rows, crashes, unfinished>>

(* complete_login() *)
Decide(b) ==
    LET login == SocialLoginOf(b)
    IN  /\ At(b, "decide")
        /\ IF login.process = "connect" THEN DoConnect(b, Copy(b), login)
                                        ELSE Authenticate(b, login)
        /\ UNCHANGED <<setting, database, crashes>>

Wipe(b) ==
    LET login == SocialLoginOf(b)
        row == [login.row EXCEPT !.password = FALSE,
                                 !.version = users[login.user].version + 1]
    IN  /\ At(b, "wipe")
        /\ users' = [users EXCEPT ![login.user].password = FALSE,
                                  ![login.user].version = @ + 1]
        /\ Left(b, Copy(b), [login EXCEPT !.row = row], Then(b))
        /\ UNCHANGED <<setting, accounts, rows, crashes, unfinished>>

(* SocialLogin.save(): all fields of the user's row are saved. *)
SaveUser(b) ==
    LET login == SocialLoginOf(b)
        new == login.user = None
    IN  /\ At(b, "user")
        /\ \E u \in IF new THEN {v \in User : ~Exists(v)} ELSE {login.user} :
              /\ users' = [users EXCEPT ![u] = login.row]
              /\ unfinished' = IF new THEN unfinished \cup {u} ELSE unfinished
              /\ Left(b, Copy(b), [login EXCEPT !.user = u], Then(b))
        /\ UNCHANGED <<setting, accounts, rows, crashes>>

(* An account that was not found is inserted. *)
SaveAccount(b) ==
    LET login == SocialLoginOf(b)
    IN  /\ At(b, "account")
        /\ IF accounts[login.uid] \in {None, login.found}
             THEN /\ accounts' = [accounts EXCEPT ![login.uid] = login.user]
                  /\ Left(b, Copy(b), login, Then(b))
             ELSE ServerError(b) /\ UNCHANGED accounts
        /\ UNCHANGED <<setting, users, rows, crashes, unfinished>>

(* cleanup_email_addresses(): an address that somebody has is dropped. *)
Conflicts(a) ==
    \E r \in rows : /\ r.email = a.email
                    /\ setting.hide = "strict" => a.verified /\ r.verified

(* As the addresses are merged that are the same: what is known of the     *)
(* i-th one then, of those that are kept.                                  *)
VerifiedBy(as, kept, i) ==
    \E j \in kept : j <= i /\ as[j].email = as[i].email /\ as[j].verified
PrimaryBy(as, kept, i) ==
    \E j \in kept : j <= i /\ as[j].email = as[i].email /\ as[j].primary

FirstOf(as, indices) == as[CHOOSE i \in indices : \A j \in indices : i <= j].email

PrimaryAddress(as, kept) ==
    LET primary == {i \in kept : PrimaryBy(as, kept, i)}
        verified == {i \in kept : VerifiedBy(as, kept, i)}
    IN  FirstOf(as, CASE primary \cap verified # {} -> primary \cap verified
                      [] primary \cap verified = {} /\ verified # {} -> verified
                      [] verified = {} /\ primary # {} -> primary
                      [] OTHER -> kept)

(* setup_user_email() *)
SetupUserEmail(b) ==
    LET login == SocialLoginOf(b)
        u == login.user
        as == <<[email |-> login.row.mail, verified |-> FALSE, primary |-> TRUE]>>
                 \o login.addresses
        kept == {i \in DOMAIN as : ~Conflicts(as[i])}
        row == IF kept = {} THEN login.row
               ELSE [login.row EXCEPT !.mail = PrimaryAddress(as, kept)]
    IN  /\ At(b, "addresses")
        /\ rows' = rows \cup
              {[user |-> u, email |-> as[i].email,
                verified |-> \E j \in kept : as[j].email = as[i].email
                                             /\ as[j].verified,
                primary |-> as[i].email = PrimaryAddress(as, kept)] : i \in kept}
        /\ users' = IF row = login.row THEN users ELSE [users EXCEPT ![u] = row]
        /\ unfinished' = unfinished \ {u}
        /\ Left(b, Copy(b), [login EXCEPT !.row = row], Then(b))
        /\ UNCHANGED <<setting, accounts, crashes>>

DeleteAccount(b) ==
    /\ At(b, "delete")
    /\ accounts' = [accounts EXCEPT ![SocialLoginOf(b).uid] =
                      IF @ = SocialLoginOf(b).user THEN None ELSE @]
    /\ Ends(b, Copy(b))
    /\ UNCHANGED <<setting, users, rows, crashes, unfinished>>

(* perform_login(), for who needs no verified address or has one. *)
Finish(b) ==
    LET login == SocialLoginOf(b)
    IN  /\ \/ At(b, "end") /\ Ends(b, Copy(b))
           \/ /\ At(b, "login")
              /\ Ends(b, IF setting.mandatory /\ ~HasVerified(login.user) THEN Copy(b)
                         ELSE LoggedIn(Copy(b), login.user, login.row.version))
        /\ UNCHANGED <<setting, database, crashes>>

Crash(b) ==
    /\ ~Idle(b)
    /\ crashes < setting.crashes
    /\ crashes' = crashes + 1
    /\ ServerError(b)
    /\ UNCHANGED <<setting, database>>

Next ==
    \E b \in Browser :
       \/ \E process \in {"login", "connect"} : Redirect(b, process)
       \/ \E u \in User : PasswordLogin(b, u)
       \/ \E state \in State, uid \in Uid, profile \in Profile :
             Callback(b, state, uid, profile)
       \/ \E e \in Email : PostSignup(b, e)
       \/ \E uid \in Uid : Disconnect(b, uid)
       \/ Logout(b) \/ Stale(b) \/ ChangePassword(b) \/ Reauthenticate(b)
       \/ LookUp(b) \/ Touch(b) \/ Decide(b) \/ Wipe(b) \/ SaveUser(b)
       \/ SaveAccount(b) \/ SetupUserEmail(b) \/ DeleteAccount(b) \/ Finish(b)
       \/ Crash(b)

Spec == Init /\ [][Next]_vars
----------------------------------------------------------------------------
(* ACCOUNT STAYS.  An account never passes from one user to another: it is *)
(* disconnected first, whatever was suspended, pending or looked up before *)
(* (do_connect, the unique constraint of SocialAccount).                   *)
AccountStays ==
    [][\A uid \in Uid : accounts[uid] # None => accounts'[uid] \in {accounts[uid], None}]_vars

(* CONNECTED BY WHO ASKED.  A connection is made for the user who was      *)
(* logged in when the provider was asked, if somebody was, though others   *)
(* used the browser and it was suspended in between (statekit,             *)
(* resume_connect).                                                        *)
ConnectedByAsker ==
    \A b \in Browser :
        /\ At(b, "account") /\ SocialLoginOf(b).process = "connect"
        => SocialLoginOf(b).asker \in {None, SocialLoginOf(b).user}

(* A WAY IN.  Who signed up or was there first can log in: with a          *)
(* password, an account or an address that email authentication accepts,   *)
(* whatever was disconnected or wiped and wherever a worker died, unless   *)
(* requests overlap (validate_disconnect, wipe_password).                  *)
WayIn ==
    ~setting.overlap => \A u \in User :
        \/ ~Exists(u) \/ u \in unfinished
        \/ users[u].password
        \/ AccountsOf(u) # {}
        \/ setting.byEmail # "no" /\ RowsOf(u) # {}

=============================================================================
