--------------------------- MODULE LoginPipeline ---------------------------
(***************************************************************************)
(* The stages that a login goes through before its user is logged in:      *)
(* LoginStageController and the stages of account/stages.py, mfa/stages.py *)
(* and mfa/webauthn/stages.py, the login that waits in the session         *)
(* (account/internal/stagekit.py), how it is resumed                       *)
(* (account/internal/flows/login.py) and the pages of one browser that     *)
(* drive it, redirects included.                                           *)
(*                                                                         *)
(* Abstractions.  A request is one step: CodeVerification has the codes    *)
(* and what overlapping requests do.  Credentials are given or not.  The   *)
(* configuration that a trusted browser's cookie is bound to is a version  *)
(* that grows with every change of a password or an authenticator.         *)
(* Left out: a server error, which a rate limited SMS ends in (see         *)
(* CodeVerification) and which leaves the session as it was; optional      *)
(* email verification, which stops no login.                               *)
(***************************************************************************)
EXTENDS Naturals, FiniteSets, Sequences, FiniteSetsExt

CONSTANTS
    User,
    Nobody,         \* no user: who nobody logged in as, or a pretended login
    NoLogin,        \* no login waits in the session
    Setting,        \* the settings to explore, a subset of AllSettings
    Account,        \* the accounts to start with, a subset of AllAccounts
    LoginTimeout,   \* ACCOUNT_LOGIN_TIMEOUT
    MaxTime,        \* bound on the clock
    MaxElsewhere    \* bound: changes to an account by other sessions

Stages == <<"login_by_code", "verify_phone", "verify_email",
            "mfa_authenticate", "mfa_trust", "mfa_signup_webauthn">>

Stage == {Stages[i] : i \in DOMAIN Stages}

(* users: who comes to the browser.  email: ACCOUNT_EMAIL_VERIFICATION,    *)
(* with links, with links that log in, or by code.  code: the methods that *)
(* ACCOUNT_LOGIN_BY_CODE_REQUIRED is for.  phone: whether                  *)
(* ACCOUNT_SIGNUP_FIELDS has a phone number.  trust: the trusted browsers  *)
(* of the codes and of MFA.                                                *)
AllSettings ==
    [users : SUBSET User, email : {"none", "link", "link_login", "code"},
     code : {"never", "password", "always"},
     phone : {"off", "optional", "required"},
     codeTrust : BOOLEAN, mfaTrust : BOOLEAN]

AllAccounts ==
    [exists : BOOLEAN, active : BOOLEAN, mfa : BOOLEAN,
     email : {"none", "unverified", "verified"},
     phone : {"none", "unverified", "verified"}]

ASSUME StageAssumption == Setting \subseteq AllSettings /\ Account \subseteq AllAccounts

ASSUME BoundAssumption == {LoginTimeout, MaxTime, MaxElsewhere} \subseteq Nat

ASSUME NamesApart == User \cap {Nobody, NoLogin} = {}

VARIABLES
    setting,
    account,
    version,    \* of the user's password and authenticators
    stash,      \* the login that waits in the session
    process,    \* whose email verification process the session holds
    last,       \* the method of the session's last authentication record
    passkey,    \* the session has a record of a passwordless login
    auth,       \* who is logged in
    trusts,     \* the trusted browser cookie
    page,       \* what the browser shows or is redirected to
    now,
    elsewhere,  \* how often accounts were changed by other sessions
    done        \* history variable: the latest login that completed

vars == <<setting, account, version, stash, process, last, passkey, auth,
          trusts, page, now, elsewhere, done>>

session == <<stash, process, last, passkey, auth>>

(* What a user gives for a login: a history of it, as is "changed", that    *)
(* other sessions turned its second factor on or off meanwhile.            *)
Given == {"password", "socialaccount", "passkey", "code", "mfa", "signup"}

Login ==
    [user : User \cup {Nobody}, handled : SUBSET Stage, current : Stage,
     at : 0..MaxTime, code : {"no", "own", "required"}, codeRequired : BOOLEAN,
     mfaRequired : BOOLEAN, phoneStarted : BOOLEAN, phone : BOOLEAN,
     passkey : BOOLEAN, given : SUBSET Given, changed : BOOLEAN]

Method == {"none", "password", "socialaccount", "mfa", "code"}

Page == [redirect : BOOLEAN, to : Stage \cup {"login", "home", "message"}]

Shown(what) == [redirect |-> FALSE, to |-> what]

Redirect(what) == [redirect |-> TRUE, to |-> what]

(* The clock and the accounts change where one user has the browser.       *)
Bound(n) == IF Cardinality(setting.users) = 1 THEN n ELSE 0

TypeOK ==
    /\ setting \in Setting
    /\ account \in [setting.users -> AllAccounts]
    /\ version \in [setting.users -> Nat]
    /\ stash \in Login \cup {NoLogin}
    /\ process \in User \cup {Nobody, NoLogin}
    /\ last \in Method
    /\ passkey \in BOOLEAN
    /\ auth \in User \cup {Nobody}
    /\ trusts \subseteq User \X Nat
    /\ page \in Page
    /\ now \in 0..MaxTime
    /\ elsewhere \in 0..MaxElsewhere
    /\ done \in Login \cup {NoLogin}

Init ==
    /\ setting \in Setting
    /\ account \in [setting.users -> Account]
    /\ version = [u \in setting.users |-> 0]
    /\ stash = NoLogin
    /\ process = NoLogin
    /\ last = "none"
    /\ passkey = FALSE
    /\ auth = Nobody
    /\ trusts = {}
    /\ page = Shown("login")
    /\ now = 0
    /\ elsewhere = 0
    /\ done = NoLogin

----------------------------------------------------------------------------

Mandatory == setting.email # "none"

Live(l) == l # NoLogin /\ now - l.at <= LoginTimeout

(* unstash_login(): a login that timed out is cleared. *)
Waiting == IF Live(stash) THEN stash ELSE NoLogin

FirstUnhandled(l) == Stages[Min({i \in DOMAIN Stages : Stages[i] \notin l.handled})]

Enters(stage) == Waiting # NoLogin /\ stash.current = stage

Resumable(stage) == stage = "verify_email" => setting.email = "code"

(* Mutant: the cookie is not bound to the configuration of the account. *)
TrustedOnce(u) == u # Nobody /\ \E v \in 0..version[u] : <<u, v>> \in trusts

(* is_trusted_browser() *)
Trusted(u) == u # Nobody /\ <<u, version[u]>> \in trusts

----------------------------------------------------------------------------

(* is_login_by_code_required(): by the last record of the session. *)
CodeRequired ==
    /\ last' # "code"
    /\ \/ setting.code = "always"
       \/ setting.code = "password" /\ last' \in {"none", "password"}

(* Mutant: only a login that asked for a code needs one. *)
NeedsOwnCode(l) == l.code # "no"

NeedsCode(l) ==
    /\ l.code # "no" \/ CodeRequired
    /\ ~(setting.codeTrust /\ Trusted(l.user))

(* Where a code can be sent to: somebody who signs up has entered an       *)
(* email address.                                                          *)
Contact(l) ==
    IF l.user = Nobody THEN "email"
    ELSE IF account'[l.user].email # "none" THEN "email"
    ELSE IF setting.phone # "off" /\ account'[l.user].phone # "none" THEN "phone"
    ELSE "none"

NeedsPhone(l) ==
    /\ setting.phone # "off"
    /\ \/ l.user = Nobody /\ l.phone
       \/ l.user # Nobody /\ account'[l.user].phone = "unverified"
       \/ /\ l.user # Nobody /\ account'[l.user].phone = "none"
          /\ setting.phone = "required"

NeedsEmail(l) ==
    Mandatory /\ (l.user = Nobody \/ account'[l.user].email # "verified")

NeedsMfa(l) ==
    /\ l.user # Nobody
    /\ account'[l.user].mfa
    /\ ~passkey'
    /\ ~((setting.mfaTrust \/ setting.codeTrust) /\ Trusted(l.user))

AsksForTrust(l) ==
    \/ setting.mfaTrust /\ l.mfaRequired
    \/ setting.codeTrust /\ l.codeRequired

(* The stage does not just let the login go on. *)
Needed(l, stage) ==
    CASE stage = "login_by_code" -> NeedsCode(l)
      [] stage = "verify_phone" -> NeedsPhone(l)
      [] stage = "verify_email" -> NeedsEmail(l)
      [] stage = "mfa_authenticate" -> NeedsMfa(l)
      [] stage = "mfa_trust" -> AsksForTrust(l)
      [] OTHER -> l.passkey

Stops(l) ==
    {i \in DOMAIN Stages : Stages[i] \notin l.handled /\ Needed(l, Stages[i])}

(* The login waits at a stage: stash_login(). *)
Waits(l, p) ==
    /\ stash' = l
    /\ process' = p
    /\ page' = Redirect(l.current)

(* Mutant: a process that the session holds already is used. *)
ProcessOnce(l, p) ==
    IF p = NoLogin /\ setting.email = "code" /\ Contact(l) = "email" THEN l.user ELSE p

(* EmailVerificationProcess.initiate() *)
NewProcess(l, p) ==
    IF setting.email = "code" /\ Contact(l) = "email" THEN l.user ELSE p

(* The stage has begun: its code is sent, its state is in the login.       *)
(* Nothing is sent to an account that has no address.                      *)
Begun(l, p) ==
    CASE l.current = "login_by_code" ->
           Waits([l EXCEPT !.codeRequired = TRUE,
                           !.code = IF @ = "no" THEN "required" ELSE @], p)
      [] l.current = "verify_phone" -> Waits([l EXCEPT !.phoneStarted = TRUE], p)
      [] l.current = "verify_email" ->
           Waits(l, NewProcess(l, p))
      [] l.current = "mfa_authenticate" -> Waits([l EXCEPT !.mfaRequired = TRUE], p)
      [] OTHER -> Waits(l, p)

(* Nobody can be reached at the address that the stage needs.  Without a   *)
(* response the login is neither stashed nor cleared.                      *)
GivesUp(l, kept, p) ==
    /\ \/ l.current = "login_by_code" /\ Contact(l) = "none" /\ stash' = NoLogin
       \/ /\ l.current = "verify_phone" /\ l.user # Nobody
          /\ account'[l.user].phone = "none"
          /\ stash' = kept
    /\ process' = p
    /\ page' = Redirect("login")

(* Sending the code is rate limited: neither stashed nor cleared either. *)
Limited(l, kept, p) ==
    /\ l.current = "verify_email" /\ setting.email = "code"
    /\ Contact(l) = "email"
    /\ stash' = kept
    /\ process' = p
    /\ page' = Shown("message")

Complete(l, p) ==
    /\ stash' = NoLogin
    /\ process' = p
    /\ auth' = l.user
    /\ done' = l
    /\ page' = Shown("home")

Passed(i) == {Stages[j] : j \in 1..(i - 1)}

(* LoginStageController.handle() and what resume_login() does after it.    *)
(* The stages edit the login in place: where it came from the session and  *)
(* somebody marked the session as modified, the edits are saved.           *)
Handle(l, inPlace, p) ==
    IF Stops(l) = {} THEN Complete(l, p)
    ELSE LET i == Min(Stops(l))
             m == [l EXCEPT !.handled = @ \cup Passed(i),
                            !.current = Stages[i]]
             kept == IF inPlace THEN m ELSE stash
             stuck == \/ m.current = "login_by_code" /\ Contact(m) = "none"
                      \/ /\ m.current = "verify_phone" /\ m.user # Nobody
                         /\ account'[m.user].phone = "none"
         IN  /\ IF stuck THEN GivesUp(m, kept, p)
                         ELSE Begun(m, p) \/ Limited(m, kept, p)
             /\ UNCHANGED <<auth, done>>

(* LoginStage.exit() *)
Exit(stage, given, inPlace, p) ==
    Handle([stash EXCEPT !.handled = @ \cup {stage}, !.given = @ \cup given],
           inPlace, p)

NewLogin(u, given) ==
    [user |-> u, handled |-> {}, current |-> "login_by_code", at |-> now,
     code |-> "no", codeRequired |-> FALSE, mfaRequired |-> FALSE,
     phoneStarted |-> FALSE, phone |-> FALSE, passkey |-> FALSE,
     given |-> {given}, changed |-> FALSE]

(* pre_login(), then the stages. *)
PerformLogin(l) ==
    IF l.user # Nobody /\ ~account'[l.user].active
      THEN /\ page' = Shown("message")
           /\ UNCHANGED <<stash, process, auth, done>>
      ELSE Handle(l, FALSE, process)

Record(method) == last' = method

----------------------------------------------------------------------------

(* The browser is not being redirected, and its page can be posted:        *)
(* RedirectAuthenticatedUserMixin sends who is logged in, or has a login   *)
(* waiting, away.                                                          *)
CanPost == ~page.redirect

OpenToLogin ==
    /\ CanPost
    /\ auth = Nobody
    /\ Waiting # NoLogin => ~Resumable(FirstUnhandled(stash))

PasswordLogin(u) ==
    /\ OpenToLogin
    /\ account[u].exists
    /\ Record("password")
    /\ account' = account /\ passkey' = passkey
    /\ PerformLogin(NewLogin(u, "password"))
    /\ UNCHANGED <<setting, version, trusts, now, elsewhere>>

(* perform_passwordless_login() *)
PasskeyLogin(u) ==
    /\ OpenToLogin
    /\ account[u].exists /\ account[u].mfa
    /\ Record("mfa")
    /\ account' = account /\ passkey' = TRUE
    /\ PerformLogin(NewLogin(u, "passkey"))
    /\ UNCHANGED <<setting, version, trusts, now, elsewhere>>

(* The callback of a provider is answered whatever waits in the session. *)
SocialLogin(u) ==
    /\ CanPost
    /\ auth = Nobody
    /\ account[u].exists
    /\ Record("socialaccount")
    /\ account' = account /\ passkey' = passkey
    /\ PerformLogin(NewLogin(u, "socialaccount"))
    /\ UNCHANGED <<setting, version, trusts, now, elsewhere>>

(* complete_signup(): no authentication is recorded. *)
Signup(u, phone, byPasskey) ==
    /\ OpenToLogin
    /\ ~account[u].exists
    /\ setting.phone = "required" => phone
    /\ setting.phone = "off" => ~phone
    /\ byPasskey => setting.email = "code"
    /\ account' = [account EXCEPT ![u] =
          [exists |-> TRUE, active |-> TRUE, mfa |-> FALSE, email |-> "unverified",
           phone |-> IF phone THEN "unverified" ELSE "none"]]
    /\ last' = last /\ passkey' = passkey
    /\ PerformLogin([NewLogin(u, "signup") EXCEPT !.passkey = byPasskey])
    /\ UNCHANGED <<setting, version, trusts, now, elsewhere>>

(* prevent_enumeration(): somebody has the email address, which is hidden  *)
(* when addresses must be verified, or the phone number.                   *)
PretendSignup(phone) ==
    /\ OpenToLogin
    /\ Mandatory \/ phone
    /\ phone => setting.phone # "off"
    /\ account' = account /\ last' = last /\ passkey' = passkey
    /\ PerformLogin([NewLogin(Nobody, "signup") EXCEPT !.phone = phone])
    /\ UNCHANGED <<setting, version, trusts, now, elsewhere>>

(* LoginCodeVerificationProcess.initiate() for who asked for a code, with  *)
(* an account or without one.                                              *)
RequestCode(u) ==
    /\ OpenToLogin
    /\ u # Nobody => /\ account[u].exists /\ account[u].active
                     /\ account[u].email # "none" \/ account[u].phone # "none"
    /\ stash' = [NewLogin(u, "code") EXCEPT !.code = "own"]
    /\ page' = Redirect("login_by_code")
    /\ UNCHANGED <<setting, account, version, process, last, passkey, auth,
                   trusts, now, elsewhere, done>>

----------------------------------------------------------------------------

(* A page of a stage was posted, by a browser for which login_stage_required *)
(* finds the stage.                                                        *)
AtStage(stage) ==
    /\ page = Shown(stage)
    /\ auth = Nobody
    /\ Enters(stage)

(* The code verifies the address that it was sent to. *)
CodeVerifies(u) ==
    account' = [account EXCEPT ![u] =
        IF @.email # "none" THEN [@ EXCEPT !.email = "verified"]
                            ELSE [@ EXCEPT !.phone = "verified"]]

(* LoginCodeVerificationProcess.finish() *)
ConfirmCode ==
    /\ AtStage("login_by_code")
    /\ stash.user # Nobody
    /\ Record("code")
    /\ CodeVerifies(stash.user)
    /\ passkey' = passkey
    /\ IF stash.code = "own"
         THEN PerformLogin(NewLogin(stash.user, "code"))
         ELSE Exit("login_by_code", {"code"}, TRUE, process)
    /\ UNCHANGED <<setting, version, trusts, now, elsewhere>>

(* The session is saved if the message about it went there. *)
ConfirmPhone ==
    /\ AtStage("verify_phone")
    /\ stash.user # Nobody /\ stash.phoneStarted
    /\ account' = [account EXCEPT ![stash.user].phone = "verified"]
    /\ last' = last /\ passkey' = passkey
    /\ \E modified \in BOOLEAN : Exit("verify_phone", {}, modified, process)
    /\ UNCHANGED <<setting, version, trusts, now, elsewhere>>

(* The code page: the address of the process in the session is verified. *)
ConfirmEmail ==
    /\ AtStage("verify_email")
    /\ setting.email = "code"
    /\ process \in User
    /\ account' = [account EXCEPT ![process].email = "verified"]
    /\ last' = last /\ passkey' = passkey
    /\ Exit("verify_email", {}, TRUE, NoLogin)
    /\ UNCHANGED <<setting, version, trusts, now, elsewhere>>

(* The link that was mailed, opened in this browser: login_on_verification *)
ConfirmEmailByLink(u) ==
    LET resumes == /\ setting.email = "link_login"
                   /\ Enters("verify_email") /\ stash.user = u
    IN  /\ CanPost
        /\ auth = Nobody
        /\ setting.email \in {"link", "link_login"}
        /\ account[u].exists /\ account[u].email = "unverified"
        /\ account' = [account EXCEPT ![u].email = "verified"]
        /\ last' = last /\ passkey' = passkey
        /\ IF resumes
             THEN Exit("verify_email", {}, TRUE, process)
             ELSE /\ stash' = IF Enters("verify_email") THEN NoLogin ELSE Waiting
                  /\ page' = Shown("message")
                  /\ UNCHANGED <<process, auth, done>>
        /\ UNCHANGED <<setting, version, trusts, now, elsewhere>>

Authenticate ==
    /\ AtStage("mfa_authenticate")
    /\ account[stash.user].mfa
    /\ Record("mfa")
    /\ account' = account /\ passkey' = passkey
    /\ Exit("mfa_authenticate", {"mfa"}, TRUE, process)
    /\ UNCHANGED <<setting, version, trusts, now, elsewhere>>

(* TrustView: the cookie is set on the response of the login. *)
AnswerTrust(yes) ==
    /\ AtStage("mfa_trust")
    /\ account' = account /\ last' = last /\ passkey' = passkey
    /\ Exit("mfa_trust", {}, FALSE, process)
    /\ trusts' = IF yes THEN trusts \cup {<<stash.user, version[stash.user]>>}
                        ELSE trusts
    /\ UNCHANGED <<setting, version, now, elsewhere>>

(* signup_authenticator() *)
AddPasskey ==
    LET u == stash.user
    IN  /\ AtStage("mfa_signup_webauthn")
        /\ account' = [account EXCEPT ![u].mfa = TRUE]
        /\ version' = [version EXCEPT ![u] = @ + 1]
        /\ last' = last /\ passkey' = passkey
        /\ Exit("mfa_signup_webauthn", {"passkey"}, TRUE, process)
        /\ UNCHANGED <<setting, trusts, now, elsewhere>>

(* A code has expired, its attempts are used up, or its email address got  *)
(* verified for somebody else.                                             *)
Fail(stage) ==
    /\ stage \in {"login_by_code", "verify_phone", "verify_email"}
    /\ AtStage(stage)
    /\ stage = "verify_email" => setting.email = "code" /\ process # NoLogin
    /\ stash' = NoLogin
    /\ process' = IF stage = "verify_email" THEN NoLogin ELSE process
    /\ page' = Redirect("login")
    /\ UNCHANGED <<setting, account, version, last, passkey, auth, trusts, now,
                   elsewhere, done>>

(* LogoutView: only who is logged in loses the whole session. *)
Logout ==
    /\ CanPost
    /\ stash' = NoLogin
    /\ IF auth # Nobody
         THEN /\ auth' = Nobody /\ last' = "none" /\ passkey' = FALSE
              /\ process' = NoLogin /\ done' = NoLogin
         ELSE UNCHANGED <<auth, last, passkey, process, done>>
    /\ page' = Redirect("login")
    /\ UNCHANGED <<setting, account, version, trusts, now, elsewhere>>

(* The user opens a page. *)
Visit(what) ==
    /\ CanPost
    /\ page' = Redirect(what)
    /\ UNCHANGED <<setting, account, version, session, trusts, now, elsewhere,
                   done>>

(* A pending stage is where its login page leads to, and a stage that      *)
(* cannot be entered leads to the login page.                              *)
LoginPage ==
    IF Waiting # NoLogin /\ Resumable(FirstUnhandled(stash))
      THEN Redirect(FirstUnhandled(stash))
      ELSE Shown("login")

CanShow(stage) ==
    CASE stage = "verify_email" ->
           \/ setting.email # "code"
           \/ process = Nobody
           \/ Enters(stage) /\ process # NoLogin
      [] stage = "verify_phone" -> Enters(stage) /\ stash.phoneStarted
      [] stage = "mfa_authenticate" -> Enters(stage) /\ account[stash.user].mfa
      [] OTHER -> Enters(stage)

(* Mutant: it leads back to the login page instead. *)
NeverAborts(stage) == FALSE

(* The page of a phone number that was not begun aborts the login. *)
Aborts(stage) == stage = "verify_phone" /\ Enters(stage) /\ ~stash.phoneStarted

(* The browser requests what it was redirected to. *)
Follow ==
    /\ page.redirect
    /\ IF auth # Nobody
         THEN page' = Shown("home") /\ UNCHANGED stash
         ELSE /\ page' = IF page.to = "login" THEN LoginPage
                         ELSE IF page.to \notin Stage THEN Shown(page.to)
                         ELSE IF CanShow(page.to) THEN Shown(page.to)
                         ELSE Redirect("login")
              /\ stash' = IF Aborts(page.to) THEN NoLogin ELSE Waiting
    /\ UNCHANGED <<setting, account, version, process, last, passkey, auth,
                   trusts, now, elsewhere, done>>

----------------------------------------------------------------------------

(* What other sessions and the staff do to the account. *)
Elsewhere(u, change) ==
    /\ elsewhere < Bound(MaxElsewhere)
    /\ account[u].exists
    /\ elsewhere' = elsewhere + 1
    /\ \/ change = "mfa" /\ account' = [account EXCEPT ![u].mfa = ~@]
       \/ change = "password" /\ account' = account
       \/ change = "deactivate" /\ account' = [account EXCEPT ![u].active = FALSE]
    /\ version' = [version EXCEPT ![u] = IF change = "deactivate" THEN @ ELSE @ + 1]
    /\ stash' = IF change = "mfa" /\ stash # NoLogin
                  THEN [stash EXCEPT !.changed = TRUE] ELSE stash
    /\ UNCHANGED <<setting, process, last, passkey, auth, trusts, page, now, done>>

Tick ==
    /\ now < Bound(MaxTime)
    /\ now' = now + 1
    /\ UNCHANGED <<setting, account, version, session, trusts, page, elsewhere,
                   done>>

Next ==
    \/ \E u \in setting.users :
          \/ PasswordLogin(u) \/ PasskeyLogin(u) \/ SocialLogin(u)
          \/ ConfirmEmailByLink(u)
          \/ \E phone, byPasskey \in BOOLEAN : Signup(u, phone, byPasskey)
          \/ \E change \in {"mfa", "password", "deactivate"} : Elsewhere(u, change)
    \/ \E phone \in BOOLEAN : PretendSignup(phone)
    \/ \E u \in setting.users \cup {Nobody} : RequestCode(u)
    \/ ConfirmCode \/ ConfirmPhone \/ ConfirmEmail \/ Authenticate \/ AddPasskey
    \/ \E yes \in BOOLEAN : AnswerTrust(yes)
    \/ \E stage \in Stage : Fail(stage) \/ Visit(stage)
    \/ Visit("login") \/ Logout \/ Follow \/ Tick

Spec == Init /\ [][Next]_vars

(* A browser follows redirects. *)
FairSpec == Spec /\ WF_vars(Follow)

----------------------------------------------------------------------------

Completes(u) == auth # u /\ auth' = u

(* Whoever, or whatever, was logged in before. *)
Completed(u) == done' \notin {NoLogin, done} /\ done'.user = u

(* ADDRESSES CHECKED.  Nobody gets logged in whose email address must be   *)
(* verified and is not, nor anybody who has a phone number that is not, or *)
(* none where one is required: whatever stages were left half way, limited *)
(* or repeated before (EmailVerificationStage, PhoneVerificationStage).    *)
(* Least of all a signup that only pretends, which has no user and which   *)
(* resume_login() asserts some stage has stopped.  Where codes verify both *)
(* addresses and phone numbers, this is so of one user in a browser.       *)
AddressesChecked ==
    [][\A u \in setting.users \cup {Nobody} : Completed(u) =>
        /\ u # Nobody
        /\ Mandatory => account'[u].email = "verified"
        /\ setting.phone # "off" => account'[u].phone # "unverified"
        /\ setting.phone = "required" => account'[u].phone # "none"]_vars

(* SECOND FACTOR CHECKED.  Who has an authenticator while logging in used  *)
(* it for this login, unless the browser is trusted for the account as it  *)
(* is now or a passkey was used in this session (AuthenticateStage).       *)
SecondFactorChecked ==
    [][\A u \in setting.users :
        Completes(u) /\ account[u].mfa /\ ~done'.changed =>
            \/ done'.given \cap {"mfa", "passkey"} # {}
            \/ passkey'
            \/ /\ setting.mfaTrust \/ setting.codeTrust
               /\ <<u, version[u]>> \in trusts]_vars

(* CODE CHECKED.  Where a code is required for a login that is not a       *)
(* signup, it was given for this login or the browser is trusted           *)
(* (LoginByCodeStage).                                                     *)
CodeGiven(u) ==
    \/ "code" \in done'.given
    \/ setting.codeTrust /\ <<u, version[u]>> \in trusts

CodeChecked ==
    [][\A u \in setting.users : Completes(u) =>
        \/ CodeGiven(u)
        \/ "signup" \in done'.given
        \/ setting.code = "never"
        \/ setting.code = "password" /\ "password" \notin done'.given]_vars

(* REDIRECTS END.  A redirect leads to a page: the login page and a stage  *)
(* that waits do not redirect to each other (docs/release-notes/2024.rst). *)
(* This says nothing of settings with codes for both the email address and *)
(* the phone number, nor of accounts that were changed by other sessions.  *)
RedirectsEnd ==
    page.redirect /\ (setting.email # "code" \/ setting.phone = "off")
        ~> ~page.redirect \/ elsewhere # 0
=============================================================================
