------------------------ MODULE LoginPipelineProofs ------------------------
(***************************************************************************)
(* For all users, accounts, settings and bounds: who gets logged in has    *)
(* been through the stages.  And of the second factors that the stages ask *)
(* for (Authenticators), for all workers and bounds: codes are accepted    *)
(* once, keys are those that were asked for, and codes go with the keys.   *)
(***************************************************************************)
EXTENDS LoginPipeline, Authenticators, TLAPS

(* The process of an email code is the session's and not the login's: with  *)
(* codes to phone numbers too, one user has the browser.                   *)
CodesApart ==
    \A s \in Setting :
        s.email = "code" => s.phone = "off" \/ \A u, v \in s.users : u = v

(* Who has an account has an email address, and who has none has no        *)
(* authenticator.                                                          *)
AccountsFit ==
    \A a \in Account : IF a.exists THEN a.email # "none" ELSE ~a.mfa

----------------------------------------------------------------------------

AccountsOk(a) ==
    /\ a = [u \in setting.users |-> a[u]]
    /\ \A u \in setting.users :
          /\ {"exists", "active", "mfa", "email", "phone"} \subseteq DOMAIN a[u]
          /\ IF a[u].exists THEN a[u].email # "none" ELSE ~a[u].mfa

(* What the stages verified stays verified. *)
Kept(a, b) ==
    \A u \in setting.users :
        a[u].exists =>
            /\ b[u].exists
            /\ a[u].email = "verified" => b[u].email = "verified"
            /\ b[u].phone # a[u].phone => b[u].phone = "verified"

NoNewFactor(a, b) ==
    \A u \in setting.users : a[u].exists /\ b[u].mfa => a[u].mfa

EmailFits(a, u) == Mandatory => a[u].email = "verified"

PhoneFits(a, u) ==
    /\ setting.phone # "off" => a[u].phone # "unverified"
    /\ setting.phone = "required" => a[u].phone # "none"

(* A code was given for the login, or none is required of it. *)
CodeFits(l) ==
    \/ l.given \cap {"code", "signup"} # {}
    \/ setting.code = "never"
    \/ setting.code = "password" /\ "password" \notin l.given

(* A second factor was used for the login, or the account got it since. *)
Second(l) == l.given \cap {"mfa", "passkey"} # {} \/ l.changed

MfaFits(l, a, byPasskey) ==
    l.user # Nobody => Second(l) \/ byPasskey \/ ~a[l.user].mfa

Handled(l, stage) == stage \in l.handled

(* A login that only pretends has a stage before it that does not end. *)
Pretends(l) ==
    \/ l.code = "own" /\ ~Handled(l, "login_by_code")
    \/ Mandatory /\ ~Handled(l, "verify_email")
    \/ l.phone /\ setting.phone # "off" /\ ~Handled(l, "verify_phone")

(* What is so of a login once these stages are handled *)
Checked(l, a, byPasskey) ==
    /\ Handled(l, "verify_email") /\ l.user # Nobody => EmailFits(a, l.user)
    /\ Handled(l, "verify_phone") /\ l.user # Nobody => PhoneFits(a, l.user)
    /\ Handled(l, "login_by_code") => CodeFits(l)
    /\ Handled(l, "mfa_authenticate") => MfaFits(l, a, byPasskey)

(* A login that signs up has no authenticator yet. *)
SignsUp(l, a) ==
    /\ l.passkey => "signup" \in l.given
    /\ "signup" \in l.given => MfaFits(l, a, FALSE)

Fields(l) ==
    {"user", "handled", "current", "code", "codeRequired", "mfaRequired",
     "phoneStarted", "phone", "passkey", "given", "changed"} \subseteq DOMAIN l

Sound(l, a, byPasskey) ==
    /\ Fields(l)
    /\ l.user # Nobody => l.user \in setting.users /\ a[l.user].exists
    /\ l.user = Nobody => Pretends(l)
    /\ Checked(l, a, byPasskey)
    /\ SignsUp(l, a)

(* The stages that come before one *)
Before(stage) ==
    CASE stage = "login_by_code" -> {}
      [] stage = "verify_phone" -> {"login_by_code"}
      [] stage = "verify_email" -> {"login_by_code", "verify_phone"}
      [] stage = "mfa_authenticate" -> {"login_by_code", "verify_phone", "verify_email"}
      [] OTHER -> {"login_by_code", "verify_phone", "verify_email", "mfa_authenticate"}

(* Where a code was required, the browser was not trusted. *)
Untrusted(l) ==
    setting.codeTrust /\ l.codeRequired =>
        ~Trusted(l.user) \/ Handled(l, "mfa_authenticate")

(* A login that waits at a stage *)
Stashed(l, a, byPasskey) ==
    /\ Sound(l, a, byPasskey)
    /\ l.current \in Stage
    /\ Before(l.current) \subseteq l.handled
    /\ l.current = "verify_phone" => setting.phone # "off"
    /\ l.mfaRequired => l.current = "mfa_authenticate" \/ Handled(l, "mfa_authenticate")
    /\ Untrusted(l)

(* A login that goes on to its next stage, with the method of the session's *)
(* last record: if its first stage is still to come, it has just begun.    *)
Ready(l, a, byPasskey, method) ==
    /\ Sound(l, a, byPasskey)
    /\ l.mfaRequired => Handled(l, "mfa_authenticate")
    /\ Untrusted(l)
    /\ Handled(l, "login_by_code") \/
          /\ ~l.codeRequired /\ ~l.mfaRequired
          /\ \/ "signup" \in l.given
             \/ /\ method = "code" => "code" \in l.given
                /\ "password" \in l.given => method = "password"

(* Whose browser is trusted has been through the stages. *)
TrustsOk(a) ==
    \A u \in setting.users, v \in Nat :
        <<u, v>> \in trusts =>
            v <= version[u] /\ a[u].exists /\ EmailFits(a, u) /\ PhoneFits(a, u)

(* The code that an email verification waits for was sent to who logs in. *)
Own(l, p) ==
    l.current = "verify_email" /\ setting.email = "code" /\ p \in setting.users =>
        l.user = p

Inv ==
    /\ setting \in Setting
    /\ AccountsOk(account)
    /\ version = [u \in setting.users |-> version[u]]
    /\ \A u \in setting.users : version[u] \in Nat
    /\ process \in setting.users \cup {Nobody, NoLogin}
    /\ stash # NoLogin => Stashed(stash, account, passkey) /\ Own(stash, process)
    /\ TrustsOk(account)

(* What the properties say of a login that completes *)
Fits(l) ==
    /\ l.user # Nobody
    /\ EmailFits(account', l.user) /\ PhoneFits(account', l.user)
    /\ CodeFits(l) \/ (setting.codeTrust /\ <<l.user, version[l.user]>> \in trusts)
    /\ \/ MfaFits(l, account', passkey')
       \/ /\ setting.mfaTrust \/ setting.codeTrust
          /\ <<l.user, version[l.user]>> \in trusts

----------------------------------------------------------------------------

(* What a login must have gone through that stops at stage i, or at none *)
Through(l, i) ==
    /\ i > 1 => Handled(l, "login_by_code") \/ ~NeedsCode(l)
    /\ i > 2 => Handled(l, "verify_phone") \/ ~NeedsPhone(l)
    /\ i > 3 => Handled(l, "verify_email") \/ ~NeedsEmail(l)
    /\ i > 4 => Handled(l, "mfa_authenticate") \/ ~NeedsMfa(l)

StopsAt(l, i) ==
    /\ i \in 1..6
    /\ i = 1 => ~Handled(l, "login_by_code") /\ NeedsCode(l)
    /\ i = 2 => ~Handled(l, "verify_phone") /\ NeedsPhone(l)
    /\ i = 3 => ~Handled(l, "verify_email") /\ NeedsEmail(l)
    /\ i = 4 => ~Handled(l, "mfa_authenticate") /\ NeedsMfa(l)
    /\ i = 5 => AsksForTrust(l)
    /\ i = 6 => l.passkey

LEMMA StageNames ==
    /\ DOMAIN Stages = 1..6
    /\ Stages[1] = "login_by_code" /\ Stages[2] = "verify_phone"
    /\ Stages[3] = "verify_email" /\ Stages[4] = "mfa_authenticate"
    /\ Stages[5] = "mfa_trust" /\ Stages[6] = "mfa_signup_webauthn"
BY DEF Stages

LEMMA PhoneIsSecond ==
    ASSUME NEW i \in 1..6, Stages[i] = "verify_phone"
    PROVE  i = 2
BY StageNames

LEMMA StopNumbers ==
    ASSUME NEW l
    PROVE  /\ Stops(l) \subseteq 1..6
           /\ 1 \in Stops(l) <=> ~Handled(l, "login_by_code") /\ NeedsCode(l)
           /\ 2 \in Stops(l) <=> ~Handled(l, "verify_phone") /\ NeedsPhone(l)
           /\ 3 \in Stops(l) <=> ~Handled(l, "verify_email") /\ NeedsEmail(l)
           /\ 4 \in Stops(l) <=> ~Handled(l, "mfa_authenticate") /\ NeedsMfa(l)
           /\ 5 \in Stops(l) <=> ~Handled(l, "mfa_trust") /\ AsksForTrust(l)
           /\ 6 \in Stops(l) <=> ~Handled(l, "mfa_signup_webauthn") /\ l.passkey
<1>1. Stops(l) = {i \in 1..6 : Stages[i] \notin l.handled /\ Needed(l, Stages[i])}
  BY StageNames DEF Stops
<1>2. /\ Needed(l, "login_by_code") <=> NeedsCode(l)
      /\ Needed(l, "verify_phone") <=> NeedsPhone(l)
      /\ Needed(l, "verify_email") <=> NeedsEmail(l)
      /\ Needed(l, "mfa_authenticate") <=> NeedsMfa(l)
      /\ Needed(l, "mfa_trust") <=> AsksForTrust(l)
      /\ Needed(l, "mfa_signup_webauthn") <=> l.passkey
  BY DEF Needed
<1>. QED
  BY <1>1, <1>2, StageNames DEF Handled

LEMMA First ==
    ASSUME NEW S, S \subseteq 1..6, S # {}
    PROVE  Min(S) \in S /\ \A j \in S : Min(S) <= j
<1>1. \E i \in S : \A j \in S : i <= j
  <2>1. CASE 1 \in S
    BY <2>1
  <2>2. CASE 1 \notin S /\ 2 \in S
    BY <2>2
  <2>3. CASE 1 \notin S /\ 2 \notin S /\ 3 \in S
    BY <2>3
  <2>4. CASE S \subseteq 4..6 /\ 4 \in S
    BY <2>4
  <2>5. CASE S \subseteq 5..6 /\ 5 \in S
    BY <2>5
  <2>6. CASE S \subseteq {6}
    <3>1. S = {6}
      BY <2>6
    <3>. QED
      BY <3>1
  <2>. QED
    BY <2>1, <2>2, <2>3, <2>4, <2>5, <2>6
<1>. QED
  BY <1>1 DEF Min

LEMMA StopsOk ==
    ASSUME NEW l
    PROVE  /\ Stops(l) = {} => Through(l, 7)
           /\ Stops(l) # {} => /\ StopsAt(l, Min(Stops(l)))
                               /\ Through(l, Min(Stops(l)))
<1>1. ASSUME Stops(l) # {}
      PROVE  StopsAt(l, Min(Stops(l))) /\ Through(l, Min(Stops(l)))
  <2>. DEFINE i == Min(Stops(l))
  <2>1. i \in Stops(l) /\ \A j \in Stops(l) : i <= j
    BY <1>1, First, StopNumbers
  <2>2. i \in 1..6
    BY <2>1, StopNumbers
  <2>. HIDE DEF i
  <2>3. StopsAt(l, i)
    BY <2>1, <2>2, StopNumbers DEF StopsAt
  <2>4. Through(l, i)
    BY <2>1, <2>2, StopNumbers DEF Through
  <2>. QED
    BY <2>3, <2>4 DEF i
<1>. QED
  BY <1>1, StopNumbers DEF Through

----------------------------------------------------------------------------

LEMMA SettingFields ==
    ASSUME setting \in Setting
    PROVE  /\ setting.users \subseteq User
           /\ setting.code \in {"never", "password", "always"}
BY StageAssumption DEF AllSettings

(* The accounts after a step, and the trust that there was before it *)
Surroundings ==
    /\ setting \in Setting
    /\ AccountsOk(account')
    /\ TrustsOk(account')
    /\ \A u \in setting.users : version[u] \in Nat

LEMMA TrustedPasses ==
    ASSUME NEW l, Sound(l, account', passkey'), Surroundings, Trusted(l.user)
    PROVE  /\ ~NeedsEmail(l) /\ ~NeedsPhone(l)
           /\ setting.mfaTrust \/ setting.codeTrust => ~NeedsMfa(l)
           /\ l.user # Nobody /\ EmailFits(account', l.user) /\ PhoneFits(account', l.user)
<1>1. l.user # Nobody /\ l.user \in setting.users /\ <<l.user, version[l.user]>> \in trusts
  BY DEF Trusted, Sound
<1>2. EmailFits(account', l.user) /\ PhoneFits(account', l.user)
  BY <1>1 DEF Surroundings, TrustsOk
<1>. QED
  BY <1>1, <1>2 DEF EmailFits, PhoneFits, NeedsEmail, NeedsPhone, NeedsMfa, Trusted

(* A login that passed the first stage needs no code, or its browser is     *)
(* trusted and the stages in between let it go on.                         *)
LEMMA CodePassed ==
    ASSUME NEW l, NEW i \in 2..7, Surroundings,
           Ready(l, account', passkey', last'), Through(l, i),
           i < 7 => StopsAt(l, i)
    PROVE  CodeFits(l) \/ (i = 7 /\ setting.codeTrust /\ Trusted(l.user))
<1>1. CASE Handled(l, "login_by_code")
  BY <1>1 DEF Ready, Sound, Checked
<1>2. CASE ~Handled(l, "login_by_code")
  <2>1. ~NeedsCode(l)
    BY <1>2 DEF Through
  <2>2. CASE setting.codeTrust /\ Trusted(l.user)
    <3>1. ~NeedsEmail(l) /\ ~NeedsPhone(l) /\ ~NeedsMfa(l)
      BY <2>2, TrustedPasses DEF Ready
    <3>2. ~AsksForTrust(l)
      BY <1>2 DEF Ready, AsksForTrust
    <3>3. i = 6 => "signup" \in l.given
      BY DEF StopsAt, Ready, Sound, SignsUp
    <3>. QED
      BY <2>2, <3>1, <3>2, <3>3 DEF StopsAt, CodeFits
  <2>3. CASE ~CodeRequired
    <3>1. \/ "signup" \in l.given
          \/ /\ last' = "code" => "code" \in l.given
             /\ "password" \in l.given => last' = "password"
      BY <1>2 DEF Ready
    <3>2. setting.code \in {"never", "password", "always"}
      BY SettingFields DEF Surroundings
    <3>. QED
      BY <2>3, <3>1, <3>2 DEF CodeRequired, CodeFits
  <2>. QED
    BY <2>1, <2>2, <2>3 DEF NeedsCode
<1>. QED
  BY <1>1, <1>2

LEMMA MfaPassed ==
    ASSUME NEW l, NEW i \in 5..7, Surroundings,
           Ready(l, account', passkey', last'), Through(l, i),
           i < 7 => StopsAt(l, i)
    PROVE  \/ MfaFits(l, account', passkey')
           \/ i = 7 /\ (setting.mfaTrust \/ setting.codeTrust) /\ Trusted(l.user)
<1>1. CASE Handled(l, "mfa_authenticate")
  BY <1>1 DEF Ready, Sound, Checked
<1>2. CASE ~Handled(l, "mfa_authenticate")
  <2>1. ~NeedsMfa(l)
    BY <1>2 DEF Through
  <2>2. CASE (setting.mfaTrust \/ setting.codeTrust) /\ Trusted(l.user)
    <3>1. i # 5
      BY <1>2, <2>2 DEF StopsAt, AsksForTrust, Ready, Untrusted
    <3>2. i = 6 => MfaFits(l, account', FALSE)
      <4>1. SignsUp(l, account')
        BY DEF Ready, Sound
      <4>2. i = 6 => l.passkey
        BY DEF StopsAt
      <4>. QED
        BY <4>1, <4>2, Zenon DEF SignsUp
    <3>. QED
      BY <2>2, <3>1, <3>2 DEF MfaFits
  <2>3. CASE l.user = Nobody \/ ~account'[l.user].mfa \/ passkey'
    BY <2>3 DEF MfaFits
  <2>. QED
    BY <2>1, <2>2, <2>3 DEF NeedsMfa
<1>. QED
  BY <1>1, <1>2

LEMMA EmailPassed ==
    ASSUME NEW l, Ready(l, account', passkey', last'), l.user # Nobody,
           Handled(l, "verify_email") \/ ~NeedsEmail(l)
    PROVE  EmailFits(account', l.user)
BY DEF Ready, Sound, Checked, NeedsEmail, EmailFits

LEMMA PhonePassed ==
    ASSUME NEW l, Ready(l, account', passkey', last'), l.user # Nobody,
           Handled(l, "verify_phone") \/ ~NeedsPhone(l)
    PROVE  PhoneFits(account', l.user)
BY DEF Ready, Sound, Checked, NeedsPhone, PhoneFits

(* Somebody who only pretends does not get past what stops the login. *)
LEMMA PretenceStops ==
    ASSUME NEW l, l.user = Nobody, Pretends(l), NEW i \in 1..7, Through(l, i)
    PROVE  \/ l.code = "own" /\ ~Handled(l, "login_by_code") /\ i <= 1
           \/ Mandatory /\ ~Handled(l, "verify_email") /\ i <= 3
           \/ l.phone /\ setting.phone # "off" /\ ~Handled(l, "verify_phone") /\ i <= 2
BY DEF Pretends, Through, NeedsCode, NeedsEmail, NeedsPhone, Trusted

LEMMA Completing ==
    ASSUME NEW l, Surroundings, Ready(l, account', passkey', last'), Stops(l) = {}
    PROVE  Fits(l)
<1>1. Through(l, 7)
  BY StopsOk
<1>2. l.user # Nobody
  BY <1>1, PretenceStops DEF Ready, Sound
<1>3. EmailFits(account', l.user) /\ PhoneFits(account', l.user)
  BY <1>1, <1>2, EmailPassed, PhonePassed DEF Through
<1>4. CodeFits(l) \/ (setting.codeTrust /\ Trusted(l.user))
  BY <1>1, CodePassed
<1>5. \/ MfaFits(l, account', passkey')
      \/ (setting.mfaTrust \/ setting.codeTrust) /\ Trusted(l.user)
  BY <1>1, MfaPassed
<1>. QED
  BY <1>2, <1>3, <1>4, <1>5 DEF Fits, Trusted

(* What a login is when it stops at stage i *)
LEMMA Stopping ==
    ASSUME NEW l, NEW i, NEW m, Surroundings, Ready(l, account', passkey', last'),
           Through(l, i), StopsAt(l, i),
           m = [l EXCEPT !.handled = @ \cup Passed(i), !.current = Stages[i]]
    PROVE  /\ Stashed(m, account', passkey')
           /\ m.user = l.user /\ m.current = Stages[i]
           /\ i = 1 => ~(setting.codeTrust /\ Trusted(m.user))
           /\ Handled(l, "mfa_authenticate") => Handled(m, "mfa_authenticate")
<1>1. i \in 1..6
  BY DEF StopsAt
<1>2. /\ Fields(m) /\ m.user = l.user /\ m.current = Stages[i] /\ m.code = l.code
      /\ m.codeRequired = l.codeRequired /\ m.mfaRequired = l.mfaRequired
      /\ m.phone = l.phone /\ m.passkey = l.passkey /\ m.given = l.given
      /\ m.changed = l.changed /\ m.handled = l.handled \cup Passed(i)
  BY DEF Ready, Sound, Fields
<1>3. /\ Handled(m, "login_by_code") <=> Handled(l, "login_by_code") \/ i > 1
      /\ Handled(m, "verify_phone") <=> Handled(l, "verify_phone") \/ i > 2
      /\ Handled(m, "verify_email") <=> Handled(l, "verify_email") \/ i > 3
      /\ Handled(m, "mfa_authenticate") <=> Handled(l, "mfa_authenticate") \/ i > 4
  BY <1>1, <1>2, StageNames DEF Handled, Passed
<1>4. /\ CodeFits(m) <=> CodeFits(l)
      /\ MfaFits(m, account', passkey') <=> MfaFits(l, account', passkey')
      /\ MfaFits(m, account', FALSE) <=> MfaFits(l, account', FALSE)
  BY <1>2 DEF CodeFits, MfaFits, Second
<1>5. Checked(m, account', passkey')
  <2>1. Handled(m, "login_by_code") => CodeFits(m)
    <3>1. i > 1 => CodeFits(l)
      BY <1>1, CodePassed
    <3>. QED
      BY <3>1, <1>3, <1>4 DEF Ready, Sound, Checked
  <2>2. Handled(m, "verify_phone") /\ m.user # Nobody => PhoneFits(account', m.user)
    BY <1>1, <1>2, <1>3, PhonePassed DEF Through
  <2>3. Handled(m, "verify_email") /\ m.user # Nobody => EmailFits(account', m.user)
    BY <1>1, <1>2, <1>3, EmailPassed DEF Through
  <2>4. Handled(m, "mfa_authenticate") => MfaFits(m, account', passkey')
    <3>1. i > 4 => MfaFits(l, account', passkey')
      BY <1>1, MfaPassed
    <3>. QED
      BY <3>1, <1>3, <1>4 DEF Ready, Sound, Checked
  <2>. QED
    BY <2>1, <2>2, <2>3, <2>4 DEF Checked
<1>6. m.user = Nobody => Pretends(m)
  BY <1>1, <1>2, <1>3, PretenceStops DEF Ready, Sound, Pretends
<1>7. SignsUp(m, account')
  BY <1>2, <1>4 DEF Ready, Sound, SignsUp
<1>8. Sound(m, account', passkey')
  BY <1>2, <1>5, <1>6, <1>7 DEF Ready, Sound
<1>9. m.current \in Stage /\ Before(m.current) \subseteq m.handled
  <2>1. m.current \in Stage
    BY <1>1, <1>2, StageNames DEF Stage
  <2>2. Before(m.current) \subseteq m.handled
    BY <1>1, <1>2, <1>3, StageNames DEF Before, Handled
  <2>. QED
    BY <2>1, <2>2
<1>10. Stashed(m, account', passkey')
  <2>1. m.current = "verify_phone" => setting.phone # "off"
    <3>1. m.current = "verify_phone" => i = 2
      BY <1>1, <1>2, PhoneIsSecond
    <3>2. i = 2 => NeedsPhone(l)
      BY DEF StopsAt
    <3>3. NeedsPhone(l) => setting.phone # "off"
      BY DEF NeedsPhone
    <3>. QED
      BY <3>1, <3>2, <3>3
  <2>. QED
    BY <2>1, <1>2, <1>3, <1>8, <1>9 DEF Stashed, Ready, Untrusted
<1>11. i = 1 => ~(setting.codeTrust /\ Trusted(m.user))
  BY <1>2 DEF StopsAt, NeedsCode
<1>. QED
  BY <1>2, <1>3, <1>10, <1>11

----------------------------------------------------------------------------

(* What a step leaves of the login that waits *)
WaitsWell ==
    /\ process' \in setting.users \cup {Nobody, NoLogin}
    /\ stash' # NoLogin => /\ Stashed(stash', account', passkey')
                           /\ Own(stash', process')

(* What a step may say of who is logged in *)
Same == UNCHANGED <<auth, done>>

CompletesWith(l) == auth' = l.user /\ done' = l /\ Fits(l)

(* The login that waited is as good as it was. *)
Stays == stash # NoLogin => Stashed(stash, account', passkey') /\ Own(stash, process)

LEMMA Reachable ==
    ASSUME NEW l, Sound(l, account', passkey'), Surroundings
    PROVE  Contact(l) = "email"
BY DEF Sound, Surroundings, AccountsOk, Contact

LEMMA HandleOk ==
    ASSUME NEW l, NEW inPlace \in BOOLEAN, NEW p \in setting.users \cup {Nobody, NoLogin},
           Surroundings, Ready(l, account', passkey', last'), Handle(l, inPlace, p),
           ~inPlace => Stays /\ p = process,
           inPlace /\ setting.email = "code" /\ p \in setting.users =>
               l.user = p \/ ~NeedsEmail(l) \/ Handled(l, "verify_email")
    PROVE  /\ WaitsWell
           /\ Same \/ CompletesWith(l)
           /\ \/ stash' = NoLogin \/ (~inPlace /\ stash' = stash)
              \/ Handled(l, "mfa_authenticate") => Handled(stash', "mfa_authenticate")
<1>1. CASE Stops(l) = {}
  <2>1. stash' = NoLogin /\ process' = p /\ auth' = l.user /\ done' = l
    BY <1>1 DEF Handle, Complete
  <2>2. Fits(l)
    BY <1>1, Completing
  <2>. QED
    BY <2>1, <2>2 DEF WaitsWell, CompletesWith
<1>2. CASE Stops(l) # {}
  <2>. DEFINE i == Min(Stops(l))
              m == [l EXCEPT !.handled = @ \cup Passed(i), !.current = Stages[i]]
              kept == IF inPlace THEN m ELSE stash
  <2>1. StopsAt(l, i) /\ Through(l, i)
    BY <1>2, StopsOk
  <2>2. /\ GivesUp(m, kept, p) \/ Begun(m, p) \/ Limited(m, kept, p)
        /\ Same
    BY <1>2 DEF Handle, Same
  <2>. HIDE DEF i
  <2>3. /\ Stashed(m, account', passkey')
        /\ m.user = l.user /\ m.current = Stages[i]
        /\ i = 1 => ~(setting.codeTrust /\ Trusted(m.user))
        /\ Handled(l, "mfa_authenticate") => Handled(m, "mfa_authenticate")
    BY <2>1, Stopping
  <2>4. m.current = "verify_email" => NeedsEmail(l) /\ ~Handled(l, "verify_email")
    BY <2>1, <2>3, StageNames DEF StopsAt
  <2>5. m.current = "login_by_code" => i = 1
    BY <2>1, <2>3, StageNames DEF StopsAt
  <2>. HIDE DEF m
  <2>6. kept # NoLogin => Stashed(kept, account', passkey') /\ Own(kept, p)
    BY <2>3, <2>4 DEF Stays, Own
  <2>7. Contact(m) = "email" /\ Fields(m)
    BY <2>3, Reachable DEF Stashed, Sound
  <2>. HIDE DEF kept
  <2>8. CASE GivesUp(m, kept, p)
    <3>1. stash' \in {kept, NoLogin} /\ process' = p
      BY <2>8 DEF GivesUp
    <3>. QED
      BY <3>1, <2>2, <2>3, <2>6 DEF WaitsWell, kept
  <2>9. CASE Limited(m, kept, p)
    <3>1. stash' = kept /\ process' = p
      BY <2>9 DEF Limited
    <3>. QED
      BY <3>1, <2>2, <2>3, <2>6 DEF WaitsWell, kept
  <2>10. CASE Begun(m, p)
    <3>1. CASE m.current = "login_by_code"
      <4>. DEFINE n == [m EXCEPT !.codeRequired = TRUE,
                                 !.code = IF @ = "no" THEN "required" ELSE @]
      <4>1. stash' = n /\ process' = p
        BY <2>10, <3>1 DEF Begun, Waits
      <4>2. Stashed(n, account', passkey')
        BY <2>3, <2>5, <2>7, <3>1
           DEF Stashed, Sound, Fields, Pretends, Checked, CodeFits, MfaFits, Second,
               Handled, SignsUp, Untrusted
      <4>3. n.current = m.current /\ n.handled = m.handled
        BY <2>7 DEF Fields
      <4>. HIDE DEF n
      <4>. QED
        BY <4>1, <4>2, <4>3, <2>2, <2>3, <3>1 DEF WaitsWell, Own, Handled
    <3>2. CASE m.current = "verify_phone"
      <4>. DEFINE n == [m EXCEPT !.phoneStarted = TRUE]
      <4>1. stash' = n /\ process' = p
        BY <2>10, <3>2 DEF Begun, Waits
      <4>2. Stashed(n, account', passkey')
        BY <2>3, <2>7, <3>2
           DEF Stashed, Sound, Fields, Pretends, Checked, CodeFits, MfaFits, Second,
               Handled, SignsUp, Untrusted
      <4>3. n.current = m.current /\ n.handled = m.handled
        BY <2>7 DEF Fields
      <4>. HIDE DEF n
      <4>. QED
        BY <4>1, <4>2, <4>3, <2>2, <2>3, <3>2 DEF WaitsWell, Own, Handled
    <3>3. CASE m.current = "mfa_authenticate"
      <4>. DEFINE n == [m EXCEPT !.mfaRequired = TRUE]
      <4>1. stash' = n /\ process' = p
        BY <2>10, <3>3 DEF Begun, Waits
      <4>2. Stashed(n, account', passkey')
        BY <2>3, <2>7, <3>3
           DEF Stashed, Sound, Fields, Pretends, Checked, CodeFits, MfaFits, Second,
               Handled, SignsUp, Untrusted
      <4>3. n.current = m.current /\ n.handled = m.handled
        BY <2>7 DEF Fields
      <4>. HIDE DEF n
      <4>. QED
        BY <4>1, <4>2, <4>3, <2>2, <2>3, <3>3 DEF WaitsWell, Own, Handled
    <3>4. CASE m.current = "verify_email"
      <4>1. stash' = m /\ process' = NewProcess(m, p)
        BY <2>10, <3>4 DEF Begun, Waits
      <4>2. /\ NewProcess(m, p) \in setting.users \cup {Nobody, NoLogin}
            /\ setting.email = "code" => NewProcess(m, p) = m.user
        BY <2>3, <2>7 DEF NewProcess, Stashed, Sound
      <4>. QED
        BY <4>1, <4>2, <2>2, <2>3 DEF WaitsWell, Own
    <3>5. CASE m.current \notin {"login_by_code", "verify_phone", "verify_email",
                                 "mfa_authenticate"}
      <4>1. stash' = m /\ process' = p
        BY <2>10, <3>5 DEF Begun, Waits
      <4>. QED
        BY <4>1, <3>5, <2>2, <2>3 DEF WaitsWell, Own
    <3>. QED
      BY <3>1, <3>2, <3>3, <3>4, <3>5
  <2>. QED
    BY <2>2, <2>8, <2>9, <2>10
<1>. QED
  BY <1>1, <1>2

----------------------------------------------------------------------------

(* Who gets logged in loses no authenticator by it. *)
NoFactorLost == \A u \in setting.users : account[u].mfa => account'[u].mfa

(* What a step says of who gets logged in *)
Says ==
    \/ Same
    \/ auth' = Nobody /\ done' = NoLogin
    \/ NoFactorLost /\ \E l : CompletesWith(l)

VersionsOk(v) ==
    v = [u \in setting.users |-> v[u]] /\ \A u \in setting.users : v[u] \in Nat

LEMMA InvParts ==
    Inv <=> /\ setting \in Setting /\ AccountsOk(account) /\ VersionsOk(version)
            /\ process \in setting.users \cup {Nobody, NoLogin}
            /\ stash # NoLogin =>
                  Stashed(stash, account, passkey) /\ Own(stash, process)
            /\ TrustsOk(account)
BY DEF Inv, VersionsOk

LEMMA NextState ==
    ASSUME UNCHANGED setting, setting \in Setting, AccountsOk(account'),
           VersionsOk(version'), WaitsWell, TrustsOk(account)',
           stash' # NoLogin => Untrusted(stash)'
    PROVE  Inv'
<1>1. AccountsOk(account)'
  BY DEF AccountsOk
<1>2. ASSUME stash' # NoLogin
      PROVE  Stashed(stash, account, passkey)'
  <2>1. Stashed(stash', account', passkey')
    BY <1>2 DEF WaitsWell
  <2>2. Sound(stash, account, passkey)'
    BY <2>1 DEF Stashed, Sound, Fields, Pretends, Checked, EmailFits, PhoneFits,
                CodeFits, MfaFits, Second, Handled, SignsUp, Mandatory
  <2>. QED
    BY <1>2, <2>1, <2>2 DEF Stashed, Handled, Before, Stage, Stages
<1>3. stash' # NoLogin => Own(stash, process)'
  BY DEF WaitsWell, Own
<1>. QED
  BY <1>1, <1>2, <1>3 DEF Inv, VersionsOk, WaitsWell

LEMMA TrustKept ==
    ASSUME UNCHANGED <<setting, trusts, version>>, TrustsOk(account')
    PROVE  TrustsOk(account)'
BY DEF TrustsOk, EmailFits, PhoneFits, Mandatory

LEMMA NextTrusting ==
    ASSUME UNCHANGED <<setting, version, trusts>>, Surroundings, WaitsWell,
           VersionsOk(version)
    PROVE  Inv'
<1>1. stash' # NoLogin => Untrusted(stash)'
  BY DEF WaitsWell, Stashed, Untrusted, Trusted, Handled
<1>2. TrustsOk(account)'
  BY TrustKept DEF Surroundings
<1>. QED
  BY <1>1, <1>2, NextState DEF Surroundings

LEMMA SoundKept ==
    ASSUME NEW l, Inv, Sound(l, account, passkey), AccountsOk(account'),
           Kept(account, account'), NoNewFactor(account, account'), passkey => passkey'
    PROVE  Sound(l, account', passkey')
<1>1. l.user # Nobody => l.user \in setting.users /\ account[l.user].exists
                         /\ account'[l.user].exists
  BY DEF Sound, Kept
<1>2. l.user # Nobody => /\ EmailFits(account, l.user) => EmailFits(account', l.user)
                         /\ PhoneFits(account, l.user) => PhoneFits(account', l.user)
  BY <1>1 DEF Kept, EmailFits, PhoneFits
<1>3. MfaFits(l, account, passkey) => MfaFits(l, account', passkey')
  BY <1>1 DEF NoNewFactor, MfaFits
<1>4. MfaFits(l, account, FALSE) => MfaFits(l, account', FALSE)
  BY <1>1 DEF NoNewFactor, MfaFits
<1>. QED
  BY <1>1, <1>2, <1>3, <1>4 DEF Sound, Checked, SignsUp

LEMMA AllKept ==
    ASSUME Inv, AccountsOk(account'), Kept(account, account')
    PROVE  Surroundings
<1>1. TrustsOk(account')
  BY DEF Inv, TrustsOk, Kept, EmailFits, PhoneFits
<1>. QED
  BY <1>1 DEF Inv, Surroundings

LEMMA StaysOk ==
    ASSUME Inv, AccountsOk(account'), Kept(account, account'),
           NoNewFactor(account, account'), passkey => passkey'
    PROVE  Stays
<1>. SUFFICES ASSUME stash # NoLogin
              PROVE  Stashed(stash, account', passkey') /\ Own(stash, process)
  BY DEF Stays
<1>1. Stashed(stash, account, passkey) /\ Own(stash, process)
  BY DEF Inv
<1>2. Sound(stash, account', passkey')
  BY <1>1, SoundKept DEF Stashed
<1>. QED
  BY <1>1, <1>2 DEF Stashed

(* A login that starts in a step *)
LEMMA Performs ==
    ASSUME Inv, UNCHANGED <<setting, version, trusts>>, NEW l, PerformLogin(l),
           AccountsOk(account'), Kept(account, account'), NoNewFactor(account, account'),
           NoFactorLost, passkey => passkey', Ready(l, account', passkey', last')
    PROVE  Inv' /\ Says
<1>1. Surroundings /\ Stays /\ VersionsOk(version)
  BY AllKept, StaysOk, InvParts
<1>2. WaitsWell /\ (Same \/ CompletesWith(l))
  <2>1. CASE l.user # Nobody /\ ~account'[l.user].active
    BY <1>1, <2>1 DEF PerformLogin, WaitsWell, Same, Stays, Inv
  <2>2. CASE ~(l.user # Nobody /\ ~account'[l.user].active)
    <3>1. Handle(l, FALSE, process)
      BY <2>2 DEF PerformLogin
    <3>2. process \in setting.users \cup {Nobody, NoLogin}
      BY DEF Inv
    <3>. QED
      BY <1>1, <3>1, <3>2, HandleOk
  <2>. QED
    BY <2>1, <2>2
<1>3. Inv'
  BY <1>1, <1>2, NextTrusting
<1>. QED
  BY <1>2, <1>3 DEF Says

LEMMA NewOk ==
    ASSUME NEW u \in setting.users, u # Nobody, account'[u].exists,
           NEW given \in {"password", "socialaccount", "passkey", "code"},
           last' = "code" => given = "code", given = "password" => last' = "password"
    PROVE  Ready(NewLogin(u, given), account', passkey', last')
<1>. DEFINE l == NewLogin(u, given)
<1>1. /\ Fields(l) /\ l.user = u /\ l.handled = {} /\ l.given = {given}
      /\ l.passkey = FALSE /\ l.mfaRequired = FALSE /\ l.codeRequired = FALSE
  BY DEF NewLogin, Fields
<1>. HIDE DEF l
<1>2. Sound(l, account', passkey')
  BY <1>1 DEF Sound, Checked, Handled, SignsUp
<1>. QED
  BY <1>1, <1>2 DEF Ready, Untrusted, l

----------------------------------------------------------------------------

LEMMA SameAccounts ==
    ASSUME account' = account, Inv
    PROVE  /\ AccountsOk(account') /\ Kept(account, account')
           /\ NoNewFactor(account, account') /\ NoFactorLost
BY DEF Kept, NoNewFactor, NoFactorLost, Inv

LEMMA UsersAre ==
    ASSUME Inv, NEW u \in setting.users
    PROVE  u \in User /\ u # Nobody /\ u # NoLogin
BY SettingFields, NamesApart DEF Inv

LEMMA PasswordLoginStep ==
    ASSUME Inv, NEW u \in setting.users, PasswordLogin(u)
    PROVE  Inv' /\ Says
<1>. USE DEF PasswordLogin, Record
<1>1. Ready(NewLogin(u, "password"), account', passkey', last')
  BY NewOk, UsersAre
<1>. QED
  BY <1>1, Performs, SameAccounts

LEMMA PasskeyLoginStep ==
    ASSUME Inv, NEW u \in setting.users, PasskeyLogin(u)
    PROVE  Inv' /\ Says
<1>. USE DEF PasskeyLogin, Record
<1>1. Ready(NewLogin(u, "passkey"), account', passkey', last')
  BY NewOk, UsersAre
<1>. QED
  BY <1>1, Performs, SameAccounts

LEMMA SocialLoginStep ==
    ASSUME Inv, NEW u \in setting.users, SocialLogin(u)
    PROVE  Inv' /\ Says
<1>. USE DEF SocialLogin, Record
<1>1. Ready(NewLogin(u, "socialaccount"), account', passkey', last')
  BY NewOk, UsersAre
<1>. QED
  BY <1>1, Performs, SameAccounts

LEMMA SignupStep ==
    ASSUME Inv, NEW u \in setting.users, NEW phone \in BOOLEAN,
           NEW byPasskey \in BOOLEAN, Signup(u, phone, byPasskey)
    PROVE  Inv' /\ Says
<1>. DEFINE l == [NewLogin(u, "signup") EXCEPT !.passkey = byPasskey]
            new == [exists |-> TRUE, active |-> TRUE, mfa |-> FALSE,
                    email |-> "unverified",
                    phone |-> IF phone THEN "unverified" ELSE "none"]
<1>1. /\ account' = [account EXCEPT ![u] = new] /\ ~account[u].exists
      /\ last' = last /\ passkey' = passkey /\ PerformLogin(l)
      /\ UNCHANGED <<setting, version, trusts>>
  BY DEF Signup
<1>2. /\ {"exists", "active", "mfa", "email", "phone"} \subseteq DOMAIN new
      /\ new.exists /\ ~new.mfa /\ new.email # "none"
  OBVIOUS
<1>. HIDE DEF new
<1>3. /\ account' = [v \in setting.users |-> account'[v]] /\ account'[u] = new
      /\ \A v \in setting.users : v # u => account'[v] = account[v]
  BY <1>1 DEF Inv, AccountsOk
<1>4. /\ AccountsOk(account') /\ Kept(account, account')
      /\ NoNewFactor(account, account') /\ NoFactorLost
  BY <1>1, <1>2, <1>3 DEF Inv, AccountsOk, Kept, NoNewFactor, NoFactorLost
<1>5. Ready(l, account', passkey', last')
  <2>1. /\ Fields(l) /\ l.user = u /\ l.handled = {} /\ l.given = {"signup"}
        /\ l.mfaRequired = FALSE /\ l.codeRequired = FALSE
    BY DEF NewLogin, Fields
  <2>. HIDE DEF l
  <2>2. Sound(l, account', passkey')
    BY <1>2, <1>3, <2>1, UsersAre DEF Sound, Checked, Handled, SignsUp, MfaFits
  <2>. QED
    BY <2>1, <2>2 DEF Ready, Untrusted
<1>. HIDE DEF l
<1>. QED
  BY <1>1, <1>4, <1>5, Performs

LEMMA PretendSignupStep ==
    ASSUME Inv, NEW phone \in BOOLEAN, PretendSignup(phone)
    PROVE  Inv' /\ Says
<1>. DEFINE l == [NewLogin(Nobody, "signup") EXCEPT !.phone = phone]
<1>1. /\ account' = account /\ passkey' = passkey /\ PerformLogin(l)
      /\ UNCHANGED <<setting, version, trusts>>
      /\ Mandatory \/ phone
      /\ phone => setting.phone # "off"
  BY DEF PretendSignup
<1>2. Ready(l, account', passkey', last')
  <2>1. /\ Fields(l) /\ l.user = Nobody /\ l.handled = {} /\ l.given = {"signup"}
        /\ l.mfaRequired = FALSE /\ l.codeRequired = FALSE /\ l.passkey = FALSE
        /\ l.phone = phone
    BY DEF NewLogin, Fields
  <2>. HIDE DEF l
  <2>2. Pretends(l)
    BY <1>1, <2>1 DEF Pretends, Handled
  <2>3. Sound(l, account', passkey')
    BY <2>1, <2>2 DEF Sound, Checked, Handled, SignsUp, MfaFits
  <2>. QED
    BY <2>1, <2>3 DEF Ready, Untrusted
<1>. HIDE DEF l
<1>. QED
  BY <1>1, <1>2, Performs, SameAccounts

(* A step that leaves the accounts and lets a login wait that waited, or    *)
(* one that is given                                                       *)
LEMMA Leaves ==
    ASSUME Inv, UNCHANGED <<setting, account, version, trusts>>,
           stash' # NoLogin =>
               Stashed(stash', account', passkey') /\ Own(stash', process'),
           process' \in {process, NoLogin}
    PROVE  Inv'
BY NextTrusting, AllKept, SameAccounts, InvParts DEF WaitsWell

LEMMA WaitsOn ==
    ASSUME Inv, UNCHANGED <<setting, account, version, trusts>>,
           stash' \in {NoLogin, stash}, process' = process,
           passkey' = passkey
    PROVE  Inv'
BY Leaves, InvParts

LEMMA RequestCodeStep ==
    ASSUME Inv, NEW u \in setting.users \cup {Nobody}, RequestCode(u)
    PROVE  Inv' /\ Says
<1>. DEFINE l == [NewLogin(u, "code") EXCEPT !.code = "own"]
<1>1. /\ UNCHANGED <<setting, account, version, trusts, process, passkey, auth, done>>
      /\ stash' = l /\ (u # Nobody => account[u].exists)
  BY DEF RequestCode
<1>2. Stashed(l, account', passkey') /\ Own(l, process')
  <2>1. /\ Fields(l) /\ l.user = u /\ l.handled = {} /\ l.given = {"code"}
        /\ l.mfaRequired = FALSE /\ l.codeRequired = FALSE /\ l.passkey = FALSE
        /\ l.code = "own" /\ l.current = "login_by_code"
    BY DEF NewLogin, Fields
  <2>. HIDE DEF l
  <2>2. Sound(l, account', passkey')
    BY <1>1, <2>1 DEF Sound, Pretends, Checked, Handled, SignsUp
  <2>3. l.current \in Stage
    BY <2>1, StageNames DEF Stage
  <2>. QED
    BY <2>1, <2>2, <2>3 DEF Stashed, Before, Untrusted, Own
<1>. HIDE DEF l
<1>. QED
  BY <1>1, <1>2, Leaves DEF Says, Same

LEMMA FailStep ==
    ASSUME Inv, NEW stage, Fail(stage)
    PROVE  Inv' /\ Says
BY Leaves DEF Fail, Says, Same

LEMMA LogoutStep ==
    ASSUME Inv, Logout
    PROVE  Inv' /\ Says
BY Leaves DEF Logout, Says, Same

LEMMA VisitStep ==
    ASSUME Inv, NEW what, Visit(what)
    PROVE  Inv' /\ Says
BY WaitsOn DEF Visit, session, Says, Same

LEMMA FollowStep ==
    ASSUME Inv, Follow
    PROVE  Inv' /\ Says
BY WaitsOn DEF Follow, Waiting, Says, Same

LEMMA TickStep ==
    ASSUME Inv, Tick
    PROVE  Inv' /\ Says
BY WaitsOn DEF Tick, session, Says, Same

LEMMA ElsewhereStep ==
    ASSUME Inv, NEW u \in setting.users, NEW change \in {"mfa", "password", "deactivate"},
           Elsewhere(u, change)
    PROVE  Inv' /\ Says
<1>1. /\ UNCHANGED <<setting, trusts, process, passkey, auth, done>>
      /\ account[u].exists
      /\ version' = [version EXCEPT ![u] = IF change = "deactivate" THEN @ ELSE @ + 1]
      /\ stash' = IF change = "mfa" /\ stash # NoLogin
                    THEN [stash EXCEPT !.changed = TRUE] ELSE stash
      /\ \/ change = "mfa" /\ account' = [account EXCEPT ![u].mfa = ~@]
         \/ change # "mfa" /\ account' = account
         \/ change # "mfa" /\ account' = [account EXCEPT ![u].active = FALSE]
  BY DEF Elsewhere
<1>2. AccountsOk(account') /\ Kept(account, account')
  BY <1>1 DEF Inv, AccountsOk, Kept
<1>3. change # "mfa" => NoNewFactor(account, account')
  BY <1>1 DEF Inv, AccountsOk, NoNewFactor
<1>4. VersionsOk(version') /\ \A v \in setting.users : version'[v] >= version[v]
  BY <1>1 DEF Inv, VersionsOk
<1>5. Surroundings
  BY <1>2, AllKept
<1>6. WaitsWell
  <2>1. CASE change # "mfa"
    BY <1>1, <1>2, <1>3, <2>1, StaysOk DEF WaitsWell, Stays, Inv
  <2>2. CASE change = "mfa" /\ stash # NoLogin
    <3>. DEFINE l == [stash EXCEPT !.changed = TRUE]
    <3>1. Stashed(stash, account, passkey) /\ Own(stash, process)
      BY <2>2 DEF Inv
    <3>2. /\ Fields(l) /\ l.changed = TRUE /\ l.user = stash.user
          /\ l.handled = stash.handled /\ l.given = stash.given
          /\ l.passkey = stash.passkey /\ l.mfaRequired = stash.mfaRequired
          /\ l.codeRequired = stash.codeRequired /\ l.phone = stash.phone
          /\ l.code = stash.code /\ l.current = stash.current
      BY <3>1 DEF Stashed, Sound, Fields
    <3>. HIDE DEF l
    <3>3. \A byPasskey : MfaFits(l, account', byPasskey)
      BY <3>2 DEF MfaFits, Second
    <3>4. l.user # Nobody => /\ EmailFits(account, l.user) => EmailFits(account', l.user)
                             /\ PhoneFits(account, l.user) => PhoneFits(account', l.user)
      BY <1>2, <3>1, <3>2 DEF Kept, EmailFits, PhoneFits, Stashed, Sound
    <3>5. Checked(l, account', passkey')
      BY <3>1, <3>2, <3>3, <3>4 DEF Stashed, Sound, Checked, Handled, CodeFits
    <3>6. SignsUp(l, account')
      BY <3>1, <3>2, <3>3 DEF Stashed, Sound, SignsUp
    <3>7. l.user = Nobody => Pretends(l)
      BY <3>1, <3>2 DEF Stashed, Sound, Pretends, Handled
    <3>8. Sound(l, account', passkey')
      BY <1>2, <3>1, <3>2, <3>5, <3>6, <3>7 DEF Stashed, Sound, Kept
    <3>9. Stashed(l, account', passkey') /\ Own(l, process)
      BY <3>1, <3>2, <3>8 DEF Stashed, Untrusted, Handled, Own
    <3>. QED
      BY <1>1, <2>2, <3>9 DEF WaitsWell, Inv, l
  <2>3. CASE change = "mfa" /\ stash = NoLogin
    BY <1>1, <2>3 DEF WaitsWell, Inv
  <2>. QED
    BY <2>1, <2>2, <2>3
<1>7. \A v \in setting.users : <<v, version'[v]>> \in trusts => <<v, version[v]>> \in trusts
  <2>. SUFFICES ASSUME NEW v \in setting.users, <<v, version'[v]>> \in trusts
                PROVE  <<v, version[v]>> \in trusts
    OBVIOUS
  <2>1. version'[v] \in Nat /\ version[v] \in Nat
    BY <1>4 DEF VersionsOk, Inv
  <2>2. version'[v] <= version[v]
    BY <2>1 DEF Inv, TrustsOk
  <2>3. version'[v] = version[v]
    BY <1>4, <2>1, <2>2
  <2>. QED
    BY <2>3
<1>8. stash' # NoLogin => Untrusted(stash)'
  <2>. SUFFICES ASSUME stash' # NoLogin
                PROVE  Untrusted(stash)'
    OBVIOUS
  <2>1. Untrusted(stash') /\ (stash'.user # Nobody => stash'.user \in setting.users)
    BY <1>6 DEF WaitsWell, Stashed, Sound
  <2>. QED
    BY <1>1, <1>7, <2>1 DEF Untrusted, Trusted, Handled
<1>9. TrustsOk(account)'
  <2>1. TrustsOk(account')
    BY <1>5 DEF Surroundings
  <2>2. \A v \in setting.users, n \in Nat : n <= version[v] => n <= version'[v]
    BY <1>4 DEF VersionsOk, Inv
  <2>. QED
    BY <1>1, <2>1, <2>2 DEF TrustsOk, EmailFits, PhoneFits, Mandatory
<1>10. Inv'
  BY <1>1, <1>2, <1>4, <1>6, <1>8, <1>9, NextState DEF Inv
<1>. QED
  BY <1>1, <1>10 DEF Says, Same

----------------------------------------------------------------------------

(* What must be so when the login that waits is done with its stage *)
Finished(stage, given) ==
    /\ stage \in {"login_by_code", "verify_phone", "verify_email"} => stash.user # Nobody
    /\ stage = "login_by_code" =>
          "code" \in given /\ account'[stash.user].email = "verified"
    /\ stage = "verify_phone" => PhoneFits(account', stash.user)
    /\ stage = "verify_email" => EmailFits(account', stash.user)
    /\ stage = "mfa_authenticate" => "mfa" \in given
    /\ NoNewFactor(account, account') \/ "passkey" \in given

AfterExit(stage, given) ==
    [stash EXCEPT !.handled = @ \cup {stage}, !.given = @ \cup given]

LEMMA ExitReady ==
    ASSUME Inv, NEW stage, NEW given, stash # NoLogin, stash.current = stage,
           Finished(stage, given), given \cap {"password", "signup"} = {},
           AccountsOk(account'), Kept(account, account'), passkey' = passkey
    PROVE  Ready(AfterExit(stage, given), account', passkey', last')
<1>. DEFINE l == AfterExit(stage, given)
<1>1. Stashed(stash, account, passkey)
  BY DEF Inv
<1>2. /\ Fields(l) /\ l.user = stash.user /\ l.changed = stash.changed
      /\ l.handled = stash.handled \cup {stage} /\ l.given = stash.given \cup given
      /\ l.passkey = stash.passkey /\ l.mfaRequired = stash.mfaRequired
      /\ l.codeRequired = stash.codeRequired /\ l.phone = stash.phone
      /\ l.code = stash.code
  BY <1>1 DEF AfterExit, Stashed, Sound, Fields
<1>. HIDE DEF l
<1>3. \A s : Handled(l, s) <=> Handled(stash, s) \/ s = stage
  BY <1>2 DEF Handled
<1>4. l.user # Nobody => l.user \in setting.users /\ account[l.user].exists
                         /\ account'[l.user].exists
  BY <1>1, <1>2 DEF Stashed, Sound, Kept
<1>5. l.user # Nobody => /\ EmailFits(account, l.user) => EmailFits(account', l.user)
                         /\ PhoneFits(account, l.user) => PhoneFits(account', l.user)
  BY <1>4 DEF Kept, EmailFits, PhoneFits
<1>6. \A byPasskey : MfaFits(stash, account, byPasskey) => MfaFits(l, account', byPasskey)
  BY <1>2, <1>4 DEF MfaFits, Second, Finished, NoNewFactor
<1>7. CodeFits(stash) => CodeFits(l)
  BY <1>2 DEF CodeFits
<1>8. stage = "login_by_code" => CodeFits(l)
  BY <1>2 DEF Finished, CodeFits
<1>9. stage = "mfa_authenticate" => MfaFits(l, account', passkey')
  BY <1>2 DEF Finished, MfaFits, Second
<1>10. Checked(l, account', passkey')
  <2>1. Checked(stash, account, passkey)
    BY <1>1 DEF Stashed, Sound
  <2>2. Handled(l, "verify_email") /\ l.user # Nobody => EmailFits(account', l.user)
    BY <2>1, <1>2, <1>3, <1>5 DEF Checked, Finished
  <2>3. Handled(l, "verify_phone") /\ l.user # Nobody => PhoneFits(account', l.user)
    BY <2>1, <1>2, <1>3, <1>5 DEF Checked, Finished
  <2>4. Handled(l, "login_by_code") => CodeFits(l)
    BY <2>1, <1>3, <1>7, <1>8 DEF Checked
  <2>5. Handled(l, "mfa_authenticate") => MfaFits(l, account', passkey')
    BY <2>1, <1>3, <1>6, <1>9 DEF Checked
  <2>. QED
    BY <2>2, <2>3, <2>4, <2>5 DEF Checked
<1>11. SignsUp(l, account')
  BY <1>1, <1>2, <1>6 DEF Stashed, Sound, SignsUp
<1>12. l.user = Nobody => Pretends(l)
  BY <1>1, <1>2, <1>3 DEF Stashed, Sound, Pretends, Finished
<1>13. Sound(l, account', passkey')
  BY <1>2, <1>4, <1>10, <1>11, <1>12 DEF Sound
<1>14. Handled(l, "login_by_code")
  BY <1>1, <1>3 DEF Stashed, Before, Handled, Stage, Stages
<1>15. l.mfaRequired => Handled(l, "mfa_authenticate")
  BY <1>1, <1>2, <1>3 DEF Stashed
<1>16. Untrusted(l)
  BY <1>1, <1>2, <1>3 DEF Stashed, Untrusted
<1>. QED
  BY <1>13, <1>14, <1>15, <1>16 DEF Ready, l

(* The login that waits leaves its stage. *)
LEMMA ExitOk ==
    ASSUME CodesApart, Inv, NEW stage, NEW given, NEW inPlace \in BOOLEAN,
           NEW p \in {process, NoLogin}, stash # NoLogin, stash.current = stage,
           Exit(stage, given, inPlace, p), Finished(stage, given),
           given \cap {"password", "signup"} = {}, AccountsOk(account'), Kept(account, account'),
           passkey' = passkey,
           ~inPlace => NoNewFactor(account, account') /\ p = process
    PROVE  /\ WaitsWell /\ Surroundings
           /\ Same \/ \E l : CompletesWith(l)
           /\ stash' # NoLogin /\ Handled(stash, "mfa_authenticate") =>
                 Handled(stash', "mfa_authenticate")
<1>. DEFINE l == AfterExit(stage, given)
<1>1. Surroundings
  BY AllKept
<1>2. Ready(l, account', passkey', last')
  BY ExitReady
<1>3. Handle(l, inPlace, p)
  BY DEF Exit, AfterExit
<1>4. ~inPlace => Stays
  BY StaysOk
<1>5. Stashed(stash, account, passkey) /\ Fields(stash)
  BY DEF Inv, Stashed, Sound
<1>6. l.user = stash.user /\ \A s : Handled(l, s) <=> Handled(stash, s) \/ s = stage
  BY <1>5 DEF AfterExit, Handled, Fields
<1>. HIDE DEF l
<1>7. ASSUME setting.email = "code", p \in setting.users
      PROVE  l.user = p \/ ~NeedsEmail(l) \/ Handled(l, "verify_email")
  <2>1. CASE stage = "login_by_code"
    BY <2>1, <1>6 DEF Finished, NeedsEmail
  <2>2. CASE stage = "verify_phone"
    <3>1. \A u, v \in setting.users : u = v
      BY <1>5, <1>7, <2>2 DEF CodesApart, Stashed, Inv
    <3>2. l.user \in setting.users
      BY <1>5, <1>6, <2>2 DEF Finished, Stashed, Sound
    <3>. QED
      BY <1>7, <3>1, <3>2
  <2>3. CASE stage \notin {"login_by_code", "verify_phone"}
    BY <1>5, <1>6, <2>3 DEF Stashed, Before, Handled, Stage, Stages
  <2>. QED
    BY <2>1, <2>2, <2>3
<1>8. p \in setting.users \cup {Nobody, NoLogin}
  BY DEF Inv
<1>9. /\ WaitsWell /\ (Same \/ CompletesWith(l))
      /\ \/ stash' = NoLogin \/ (~inPlace /\ stash' = stash)
         \/ Handled(l, "mfa_authenticate") => Handled(stash', "mfa_authenticate")
  BY <1>1, <1>2, <1>3, <1>4, <1>7, <1>8, HandleOk
<1>. QED
  BY <1>1, <1>6, <1>9

LEMMA Exits ==
    ASSUME CodesApart, Inv, NEW stage, NEW given, NEW inPlace \in BOOLEAN,
           NEW p \in {process, NoLogin}, stash # NoLogin, stash.current = stage,
           Exit(stage, given, inPlace, p), Finished(stage, given),
           given \cap {"password", "signup"} = {}, AccountsOk(account'), Kept(account, account'),
           passkey' = passkey, NoFactorLost,
           ~inPlace => NoNewFactor(account, account') /\ p = process,
           UNCHANGED <<setting, version, trusts>>
    PROVE  Inv' /\ Says
<1>1. WaitsWell /\ Surroundings /\ (Same \/ \E l : CompletesWith(l))
  BY ExitOk
<1>2. Inv'
  BY <1>1, NextTrusting, InvParts
<1>. QED
  BY <1>1, <1>2 DEF Says

LEMMA AtStageOk ==
    ASSUME NEW stage, Enters(stage)
    PROVE  stash # NoLogin /\ stash.current = stage
BY DEF Enters, Waiting

(* An account that has its email address or phone number verified *)
LEMMA VerifiedOk ==
    ASSUME Inv, NEW u \in setting.users, account[u].exists, NEW a,
           \/ account' = [account EXCEPT ![u] = a] /\ a = [account[u] EXCEPT !.email = "verified"]
           \/ account' = [account EXCEPT ![u] = a] /\ a = [account[u] EXCEPT !.phone = "verified"]
    PROVE  /\ AccountsOk(account') /\ Kept(account, account')
           /\ NoNewFactor(account, account') /\ NoFactorLost
           /\ account'[u] = a
BY DEF Inv, AccountsOk, Kept, NoNewFactor, NoFactorLost

LEMMA ConfirmCodeStep ==
    ASSUME CodesApart, Inv, ConfirmCode
    PROVE  Inv' /\ Says
<1>. DEFINE u == stash.user
            a == [account[u] EXCEPT !.email = "verified"]
<1>1. /\ stash # NoLogin /\ stash.current = "login_by_code" /\ u # Nobody
      /\ UNCHANGED <<setting, version, trusts>> /\ passkey' = passkey /\ last' = "code"
      /\ \/ PerformLogin(NewLogin(u, "code"))
         \/ Exit("login_by_code", {"code"}, TRUE, process)
  BY AtStageOk DEF ConfirmCode, AtStage, Record
<1>2. u \in setting.users /\ account[u].exists
  BY <1>1 DEF Inv, Stashed, Sound
<1>3. account' = [account EXCEPT ![u] = a]
  BY <1>2 DEF ConfirmCode, CodeVerifies, Inv, AccountsOk
<1>4. /\ AccountsOk(account') /\ Kept(account, account')
      /\ NoNewFactor(account, account') /\ NoFactorLost
      /\ account'[u] = a
  BY <1>2, <1>3, VerifiedOk
<1>5. a.email = "verified" /\ account'[u].exists
  BY <1>2, <1>4 DEF Inv, AccountsOk, Kept
<1>. HIDE DEF a
<1>6. CASE PerformLogin(NewLogin(u, "code"))
  BY <1>1, <1>2, <1>4, <1>5, <1>6, NewOk, Performs
<1>7. CASE Exit("login_by_code", {"code"}, TRUE, process)
  <2>1. Finished("login_by_code", {"code"})
    BY <1>1, <1>4, <1>5 DEF Finished
  <2>. QED
    BY <1>1, <1>4, <1>7, <2>1, Exits
<1>. QED
  BY <1>1, <1>6, <1>7

LEMMA ConfirmPhoneStep ==
    ASSUME CodesApart, Inv, ConfirmPhone
    PROVE  Inv' /\ Says
<1>. DEFINE u == stash.user
            a == [account[u] EXCEPT !.phone = "verified"]
<1>1. /\ stash # NoLogin /\ stash.current = "verify_phone" /\ u # Nobody
      /\ UNCHANGED <<setting, version, trusts>> /\ passkey' = passkey
      /\ account' = [account EXCEPT ![u] = a]
  BY AtStageOk DEF ConfirmPhone, AtStage
<1>2. PICK modified \in BOOLEAN : Exit("verify_phone", {}, modified, process)
  BY DEF ConfirmPhone
<1>3. u \in setting.users /\ account[u].exists
  BY <1>1 DEF Inv, Stashed, Sound
<1>4. /\ AccountsOk(account') /\ Kept(account, account')
      /\ NoNewFactor(account, account') /\ NoFactorLost
      /\ account'[u] = a
  BY <1>1, <1>3, VerifiedOk
<1>5. a.phone = "verified"
  BY <1>3 DEF Inv, AccountsOk
<1>. HIDE DEF a
<1>6. Finished("verify_phone", {})
  BY <1>1, <1>4, <1>5 DEF Finished, PhoneFits
<1>. QED
  BY <1>1, <1>2, <1>4, <1>6, Exits

LEMMA ConfirmEmailStep ==
    ASSUME CodesApart, Inv, ConfirmEmail
    PROVE  Inv' /\ Says
<1>. DEFINE a == [account[process] EXCEPT !.email = "verified"]
<1>1. /\ stash # NoLogin /\ stash.current = "verify_email" /\ setting.email = "code"
      /\ process \in User
      /\ UNCHANGED <<setting, version, trusts>> /\ passkey' = passkey
      /\ account' = [account EXCEPT ![process] = a]
      /\ Exit("verify_email", {}, TRUE, NoLogin)
  BY AtStageOk DEF ConfirmEmail, AtStage
<1>2. process \in setting.users
  BY <1>1, NamesApart DEF Inv
<1>3. stash.user = process
  BY <1>1, <1>2 DEF Inv, Own
<1>4. process # Nobody /\ account[process].exists
  BY <1>1, <1>2, <1>3, UsersAre DEF Inv, Stashed, Sound
<1>5. /\ AccountsOk(account') /\ Kept(account, account')
      /\ NoNewFactor(account, account') /\ NoFactorLost
      /\ account'[process] = a
  BY <1>1, <1>2, <1>4, VerifiedOk
<1>6. a.email = "verified"
  BY <1>2 DEF Inv, AccountsOk
<1>. HIDE DEF a
<1>7. Finished("verify_email", {})
  BY <1>3, <1>4, <1>5, <1>6 DEF Finished, EmailFits
<1>. QED
  BY <1>1, <1>5, <1>7, Exits

LEMMA ConfirmEmailByLinkStep ==
    ASSUME CodesApart, Inv, NEW u \in setting.users, ConfirmEmailByLink(u)
    PROVE  Inv' /\ Says
<1>. DEFINE a == [account[u] EXCEPT !.email = "verified"]
<1>1. /\ UNCHANGED <<setting, version, trusts>> /\ passkey' = passkey
      /\ account[u].exists
      /\ account' = [account EXCEPT ![u] = a]
      /\ \/ /\ Enters("verify_email") /\ stash.user = u
            /\ Exit("verify_email", {}, TRUE, process)
         \/ stash' \in {NoLogin, stash} /\ UNCHANGED <<process, auth, done>>
  BY DEF ConfirmEmailByLink, Waiting
<1>2. /\ AccountsOk(account') /\ Kept(account, account')
      /\ NoNewFactor(account, account') /\ NoFactorLost
      /\ account'[u] = a
  BY <1>1, VerifiedOk
<1>3. a.email = "verified"
  BY DEF Inv, AccountsOk
<1>. HIDE DEF a
<1>4. CASE /\ Enters("verify_email") /\ stash.user = u
           /\ Exit("verify_email", {}, TRUE, process)
  <2>1. stash # NoLogin /\ stash.current = "verify_email"
    BY <1>4, AtStageOk
  <2>2. Finished("verify_email", {})
    BY <1>2, <1>3, <1>4, UsersAre DEF Finished, EmailFits
  <2>. QED
    BY <1>1, <1>2, <1>4, <2>1, <2>2, Exits
<1>5. CASE stash' \in {NoLogin, stash} /\ UNCHANGED <<process, auth, done>>
  <2>1. Stays
    BY <1>1, <1>2, StaysOk
  <2>2. WaitsWell
    BY <1>1, <1>5, <2>1 DEF Stays, WaitsWell, Inv
  <2>. QED
    BY <1>1, <1>2, <1>5, <2>2, AllKept, NextTrusting, InvParts DEF Says, Same
<1>. QED
  BY <1>1, <1>4, <1>5

LEMMA AuthenticateStep ==
    ASSUME CodesApart, Inv, Authenticate
    PROVE  Inv' /\ Says
<1>1. /\ stash # NoLogin /\ stash.current = "mfa_authenticate"
      /\ UNCHANGED <<setting, version, trusts, account, passkey>>
      /\ Exit("mfa_authenticate", {"mfa"}, TRUE, process)
  BY AtStageOk DEF Authenticate, AtStage
<1>2. /\ AccountsOk(account') /\ Kept(account, account')
      /\ NoNewFactor(account, account') /\ NoFactorLost
  BY <1>1, SameAccounts
<1>3. Finished("mfa_authenticate", {"mfa"})
  BY <1>2 DEF Finished
<1>. QED
  BY <1>1, <1>2, <1>3, Exits

(* Trust is asked for when the other stages are done. *)
LEMMA AnswerTrustStep ==
    ASSUME CodesApart, Inv, NEW yes \in BOOLEAN, AnswerTrust(yes)
    PROVE  Inv' /\ Says
<1>1. /\ stash # NoLogin /\ stash.current = "mfa_trust"
      /\ UNCHANGED <<setting, version, account, passkey>>
      /\ Exit("mfa_trust", {}, FALSE, process)
      /\ trusts' \in {trusts, trusts \cup {<<stash.user, version[stash.user]>>}}
  BY AtStageOk DEF AnswerTrust, AtStage
<1>2. /\ AccountsOk(account') /\ Kept(account, account')
      /\ NoNewFactor(account, account') /\ NoFactorLost
  BY <1>1, SameAccounts
<1>3. Finished("mfa_trust", {})
  BY <1>2 DEF Finished
<1>4. /\ WaitsWell /\ Surroundings
      /\ Same \/ \E l : CompletesWith(l)
      /\ stash' # NoLogin /\ Handled(stash, "mfa_authenticate") =>
            Handled(stash', "mfa_authenticate")
  BY <1>1, <1>2, <1>3, ExitOk
<1>5. /\ Stashed(stash, account, passkey)
      /\ Handled(stash, "verify_email") /\ Handled(stash, "verify_phone")
      /\ Handled(stash, "mfa_authenticate")
  BY <1>1 DEF Inv, Stashed, Before, Handled
<1>6. stash' # NoLogin => Untrusted(stash)'
  BY <1>4, <1>5 DEF Untrusted, Handled
<1>7. TrustsOk(account)'
  <2>1. stash.user # Nobody =>
          /\ account[stash.user].exists /\ stash.user \in setting.users
          /\ EmailFits(account, stash.user) /\ PhoneFits(account, stash.user)
    BY <1>5 DEF Stashed, Sound, Checked
  <2>2. \A u \in setting.users, v \in Nat : <<u, v>> \in trusts' =>
          <<u, v>> \in trusts \/ (u = stash.user /\ v = version[u])
    BY <1>1
  <2>3. \A u \in setting.users, v \in Nat : <<u, v>> \in trusts' =>
          v <= version[u] /\ account[u].exists /\ EmailFits(account, u) /\ PhoneFits(account, u)
    BY <2>1, <2>2, UsersAre DEF Inv, TrustsOk
  <2>. QED
    BY <1>1, <2>3 DEF TrustsOk, EmailFits, PhoneFits, Mandatory
<1>8. Inv'
  BY <1>1, <1>2, <1>4, <1>6, <1>7, NextState, InvParts
<1>. QED
  BY <1>2, <1>4, <1>8 DEF Says

LEMMA AddPasskeyStep ==
    ASSUME CodesApart, Inv, AddPasskey
    PROVE  Inv' /\ Says
<1>. DEFINE u == stash.user
<1>1. /\ stash # NoLogin /\ stash.current = "mfa_signup_webauthn"
      /\ UNCHANGED <<setting, trusts, passkey>>
      /\ account' = [account EXCEPT ![u].mfa = TRUE]
      /\ version' = [version EXCEPT ![u] = @ + 1]
      /\ Exit("mfa_signup_webauthn", {"passkey"}, TRUE, process)
  BY AtStageOk DEF AddPasskey, AtStage
<1>2. Stashed(stash, account, passkey)
  BY <1>1 DEF Inv
<1>3. u \in setting.users /\ account[u].exists
  BY <1>1, <1>2 DEF Stashed, Sound, Pretends, Before, Handled
<1>4. AccountsOk(account') /\ Kept(account, account') /\ NoFactorLost
  BY <1>1, <1>3 DEF Inv, AccountsOk, Kept, NoFactorLost
<1>5. Finished("mfa_signup_webauthn", {"passkey"})
  BY DEF Finished
<1>6. /\ WaitsWell /\ Surroundings
      /\ Same \/ \E l : CompletesWith(l)
      /\ stash' # NoLogin /\ Handled(stash, "mfa_authenticate") =>
            Handled(stash', "mfa_authenticate")
  BY <1>1, <1>4, <1>5, ExitOk
<1>7. stash' # NoLogin => Untrusted(stash)'
  BY <1>1, <1>2, <1>6 DEF Stashed, Before, Untrusted, Handled
<1>8. VersionsOk(version') /\ \A v \in setting.users : version'[v] >= version[v]
  BY <1>1, <1>3 DEF Inv, VersionsOk
<1>9. TrustsOk(account)'
  <2>1. \A v \in setting.users, n \in Nat : n <= version[v] => n <= version'[v]
    BY <1>8 DEF VersionsOk, Inv
  <2>. QED
    BY <1>1, <1>6, <2>1 DEF Surroundings, TrustsOk, EmailFits, PhoneFits, Mandatory
<1>10. Inv'
  BY <1>1, <1>4, <1>6, <1>7, <1>8, <1>9, NextState DEF Inv
<1>. QED
  BY <1>4, <1>6, <1>10 DEF Says

----------------------------------------------------------------------------

LEMMA InvInit ==
    ASSUME AccountsFit, Init
    PROVE  Inv
<1>1. AccountsOk(account)
  <2>1. account \in [setting.users -> Account]
    BY DEF Init
  <2>2. \A a \in Account :
           {"exists", "active", "mfa", "email", "phone"} \subseteq DOMAIN a
    BY StageAssumption DEF AllAccounts
  <2>. QED
    BY <2>1, <2>2 DEF AccountsFit, AccountsOk
<1>. QED
  BY <1>1 DEF Init, Inv, TrustsOk

LEMMA InvStep ==
    ASSUME CodesApart, Inv, [Next]_vars
    PROVE  Inv' /\ Says
<1>1. CASE UNCHANGED vars
  BY <1>1, WaitsOn DEF vars, Says, Same
<1>2. CASE \E u \in setting.users :
          PasswordLogin(u) \/ PasskeyLogin(u) \/ SocialLogin(u) \/ ConfirmEmailByLink(u)
  BY <1>2, PasswordLoginStep, PasskeyLoginStep, SocialLoginStep, ConfirmEmailByLinkStep
<1>3. CASE \E u \in setting.users :
          \E phone, byPasskey \in BOOLEAN : Signup(u, phone, byPasskey)
  BY <1>3, SignupStep
<1>4. CASE \E u \in setting.users :
          \E change \in {"mfa", "password", "deactivate"} : Elsewhere(u, change)
  BY <1>4, ElsewhereStep
<1>5. CASE \E phone \in BOOLEAN : PretendSignup(phone)
  BY <1>5, PretendSignupStep
<1>6. CASE \E u \in setting.users \cup {Nobody} : RequestCode(u)
  BY <1>6, RequestCodeStep
<1>7. CASE ConfirmCode \/ ConfirmPhone \/ ConfirmEmail \/ Authenticate \/ AddPasskey
  BY <1>7, ConfirmCodeStep, ConfirmPhoneStep, ConfirmEmailStep, AuthenticateStep,
     AddPasskeyStep
<1>8. CASE \E yes \in BOOLEAN : AnswerTrust(yes)
  BY <1>8, AnswerTrustStep
<1>9. CASE \E stage \in Stage : Fail(stage) \/ Visit(stage)
  BY <1>9, FailStep, VisitStep
<1>10. CASE Visit("login") \/ Logout \/ Follow \/ Tick
  BY <1>10, VisitStep, LogoutStep, FollowStep, TickStep
<1>. QED
  BY <1>1, <1>2, <1>3, <1>4, <1>5, <1>6, <1>7, <1>8, <1>9, <1>10 DEF Next

(* What the login that waits has been through is as its stages say, in every *)
(* state (LoginStageController.handle).                                     *)
THEOREM Invariance ==
    ASSUME AccountsFit, CodesApart
    PROVE  Spec => []Inv
<1>1. Init => Inv
  BY InvInit
<1>2. Inv /\ [Next]_vars => Inv'
  BY InvStep
<1>. QED
  BY <1>1, <1>2, PTL DEF Spec

(* Whoever gets logged in has every address verified that the settings     *)
(* want verified, whatever stages were left half way, limited or repeated  *)
(* before, and is somebody (EmailVerificationStage, PhoneVerificationStage).*)
THEOREM AddressesCheckedHolds ==
    ASSUME AccountsFit, CodesApart
    PROVE  Spec => AddressesChecked
<1>. DEFINE P == [\A u \in setting.users \cup {Nobody} : Completed(u) =>
                    /\ u # Nobody
                    /\ Mandatory => account'[u].email = "verified"
                    /\ setting.phone # "off" => account'[u].phone # "unverified"
                    /\ setting.phone = "required" => account'[u].phone # "none"]_vars
<1>1. Inv /\ [Next]_vars => P
  <2>. SUFFICES ASSUME Inv, [Next]_vars, NEW u \in setting.users \cup {Nobody}, Completed(u)
                PROVE  /\ u # Nobody /\ EmailFits(account', u) /\ PhoneFits(account', u)
    BY DEF EmailFits, PhoneFits
  <2>1. \E l : CompletesWith(l)
    BY InvStep DEF Says, Same, Completed
  <2>. QED
    BY <2>1 DEF CompletesWith, Fits, Completed
<1>. QED
  BY <1>1, Invariance, PTL DEF Spec, AddressesChecked

(* Who has an authenticator while logging in used it for this login, unless *)
(* the browser is trusted for the account as it is now or a passkey was     *)
(* used in the session (AuthenticateStage).                                *)
THEOREM SecondFactorCheckedHolds ==
    ASSUME AccountsFit, CodesApart
    PROVE  Spec => SecondFactorChecked
<1>. DEFINE P == [\A u \in setting.users :
        Completes(u) /\ account[u].mfa /\ ~done'.changed =>
            \/ done'.given \cap {"mfa", "passkey"} # {}
            \/ passkey'
            \/ /\ setting.mfaTrust \/ setting.codeTrust
               /\ <<u, version[u]>> \in trusts]_vars
<1>1. Inv /\ [Next]_vars => P
  <2>. SUFFICES ASSUME Inv, [Next]_vars, NEW u \in setting.users, Completes(u),
                       account[u].mfa, ~done'.changed
                PROVE  \/ done'.given \cap {"mfa", "passkey"} # {}
                       \/ passkey'
                       \/ /\ setting.mfaTrust \/ setting.codeTrust
                          /\ <<u, version[u]>> \in trusts
    OBVIOUS
  <2>1. NoFactorLost /\ \E l : CompletesWith(l)
    BY InvStep, UsersAre DEF Says, Same, Completes
  <2>. QED
    BY <2>1 DEF CompletesWith, Fits, Completes, MfaFits, Second, NoFactorLost
<1>. QED
  BY <1>1, Invariance, PTL DEF Spec, SecondFactorChecked

(* Where a code is required for a login that is not a signup, it was given  *)
(* for this login or the browser is trusted (LoginByCodeStage).            *)
THEOREM CodeCheckedHolds ==
    ASSUME AccountsFit, CodesApart
    PROVE  Spec => CodeChecked
<1>. DEFINE P == [\A u \in setting.users : Completes(u) =>
        \/ CodeGiven(u)
        \/ "signup" \in done'.given
        \/ setting.code = "never"
        \/ setting.code = "password" /\ "password" \notin done'.given]_vars
<1>1. Inv /\ [Next]_vars => P
  <2>. SUFFICES ASSUME Inv, [Next]_vars, NEW u \in setting.users, Completes(u)
                PROVE  \/ CodeGiven(u)
                       \/ "signup" \in done'.given
                       \/ setting.code = "never"
                       \/ setting.code = "password" /\ "password" \notin done'.given
    OBVIOUS
  <2>1. \E l : CompletesWith(l)
    BY InvStep, UsersAre DEF Says, Same, Completes
  <2>. QED
    BY <2>1 DEF CompletesWith, Fits, Completes, CodeFits, CodeGiven
<1>. QED
  BY <1>1, Invariance, PTL DEF Spec, CodeChecked

----------------------------------------------------------------------------

(***************************************************************************)
(* The second factors                                                      *)
(***************************************************************************)

(* A set of recovery codes is a row of its own, and no other factor's. *)
CodesOk(c, n, keys) ==
    /\ {"row", "used", "viewed"} \subseteq DOMAIN c
    /\ c.row \in (1..n) \ keys

RequestOk(r, n, keys) ==
    /\ {"kind", "row", "code", "loaded", "step"} \subseteq DOMAIN r
    /\ r.kind \in {"totp", "passkey", "rename", "remove"} => r.row \in keys
    /\ r.kind = "recovery" => r.row \in (1..n) \ keys
    /\ r.kind = "view" => CodesOk(r.loaded, n, keys)

AnswersOk(yes, again, n) ==
    /\ \A a \in yes : a = <<a[1], a[2]>> /\ a[1] \in 1..n
    /\ again \subseteq yes

Shape ==
    /\ rows \in Nat /\ clock \in Nat
    /\ request = [w \in Worker |-> request[w]]
    /\ \A w \in Worker : request[w] # NoRequest => RequestOk(request[w], rows, added)
    /\ totp \in {0} \cup added
    /\ passkeys \subseteq added
    /\ added \subseteq 1..rows /\ removed \subseteq 1..rows
    /\ codes # NoCodes => CodesOk(codes, rows, added)
    /\ AnswersOk(accepted, repeated, rows)

LEMMA ShapeInit == MfaInit => Shape
BY DEF MfaInit, Shape, AnswersOk

(* The request of a worker becomes r. *)
Turns(w, r) == request' = [request EXCEPT ![w] = r]

LEMMA TurnsOne ==
    ASSUME Shape, NEW w \in Worker, NEW r, Turns(w, r)
    PROVE  /\ request' = [v \in Worker |-> request'[v]] /\ request'[w] = r
           /\ \A v \in Worker : v # w => request'[v] = request[v]
BY DEF Shape, Turns

(* Rows are only ever added, and have a number of their own. *)
Adds ==
    /\ rows' \in Nat /\ rows <= rows'
    /\ added \subseteq added' /\ added' \ added \subseteq (rows + 1)..rows'

LEMMA RowsStayOk ==
    ASSUME Shape, Adds
    PROVE  /\ \A c : CodesOk(c, rows, added) => CodesOk(c, rows', added')
           /\ \A r : RequestOk(r, rows, added) => RequestOk(r, rows', added')
           /\ added' \subseteq 1..rows'
           /\ AnswersOk(accepted, repeated, rows')
BY DEF Shape, Adds, RequestOk, CodesOk, AnswersOk

LEMMA AcceptOk ==
    ASSUME Shape, NEW row, NEW code, row \in 1..rows, Accept(row, code)
    PROVE  AnswersOk(accepted', repeated', rows)
BY DEF Shape, Accept, AnswersOk

LEMMA ShapeMoves ==
    ASSUME Shape, NEW w \in Worker, NEW r, Turns(w, r),
           r = NoRequest \/ RequestOk(r, rows', added'), Adds, clock' = clock,
           totp' \in {0} \cup added', passkeys' \subseteq added',
           removed' \subseteq 1..rows', codes' # NoCodes => CodesOk(codes', rows', added'),
           AnswersOk(accepted', repeated', rows')
    PROVE  Shape'
<1>1. \A v \in Worker : request'[v] # NoRequest => RequestOk(request'[v], rows', added')
  BY TurnsOne, RowsStayOk DEF Shape
<1>. QED
  BY <1>1, TurnsOne, RowsStayOk DEF Shape, Adds

(* A request that begins, or that comes to an end, and adds nothing *)
LEMMA ShapeTurns ==
    ASSUME Shape, NEW w \in Worker, NEW r, Turns(w, r),
           r = NoRequest \/ RequestOk(r, rows, added),
           UNCHANGED <<rows, added, clock>>,
           totp' \in {0, totp}, passkeys' \subseteq added,
           removed' \subseteq 1..rows, codes' # NoCodes => CodesOk(codes', rows, added),
           UNCHANGED answers \/ \E row \in 1..rows : \E code : Accept(row, code)
    PROVE  Shape'
<1>1. Adds
  BY DEF Shape, Adds
<1>4. AnswersOk(accepted', repeated', rows)
  BY AcceptOk DEF Shape, answers
<1>. QED
  BY <1>1, <1>4, ShapeMoves DEF Shape

(* What a request is when it begins *)
Started(kind, row, code) ==
    [kind |-> kind, row |-> row, code |-> code, loaded |-> codes, step |-> "first"]

LEMMA BeginOk ==
    ASSUME Shape, NEW w \in Worker, NEW kind, NEW row, NEW code, Begin(w, kind, row, code),
           kind \in {"totp", "passkey", "rename", "remove"} => row \in added,
           kind = "recovery" => row \in (1..rows) \ added,
           kind = "view" => codes # NoCodes
    PROVE  /\ Turns(w, Started(kind, row, code))
           /\ RequestOk(Started(kind, row, code), rows, added)
BY DEF Begin, Turns, Started, RequestOk, Shape

(* An action that does no more than begin a request *)
LEMMA BeginShape ==
    ASSUME Shape, NEW w \in Worker, NEW kind, NEW row, NEW code, Begin(w, kind, row, code),
           kind \in {"totp", "passkey", "rename", "remove"} => row \in added,
           kind = "recovery" => row \in (1..rows) \ added,
           kind = "view" => codes # NoCodes,
           UNCHANGED <<tables, used, clock, asked, answers>>
    PROVE  Shape'
BY BeginOk, ShapeTurns DEF Shape, tables, asked

LEMMA EnterShape ==
    ASSUME Shape, NEW w \in Worker,
           \/ \E code : EnterTotp(w, code)
           \/ \E code : EnterRecoveryCode(w, code)
           \/ LoadCodes(w) \/ EnterGenerate(w) \/ EnterActivate(w)
           \/ \E row : EnterRename(w, row) \/ EnterRemove(w, row)
    PROVE  Shape'
<1>1. totp # 0 => totp \in added
  BY DEF Shape
<1>2. codes # NoCodes => codes.row \in (1..rows) \ added
  BY DEF Shape, CodesOk
<1>3. Primary \subseteq added
  BY DEF Shape, Primary
<1>4. passkeys \subseteq added
  BY DEF Shape
<1>. QED
  BY <1>1, <1>2, <1>3, <1>4, BeginShape
     DEF EnterTotp, EnterRecoveryCode, LoadCodes, EnterGenerate, EnterActivate, EnterRename,
         EnterRemove

LEMMA MarkTotpShape ==
    ASSUME Shape, NEW w \in Worker, MarkTotp(w)
    PROVE  Shape'
<1>1. request[w].row \in 1..rows
  BY DEF MarkTotp, Doing, Shape, RequestOk
<1>2. UNCHANGED answers \/ Accept(request[w].row, request[w].code)
  BY DEF MarkTotp, answers
<1>. QED
  BY <1>1, <1>2, ShapeTurns DEF MarkTotp, Done, Turns, Shape, tables, asked

LEMMA ValidateRecoveryCodeShape ==
    ASSUME Shape, NEW w \in Worker, ValidateRecoveryCode(w)
    PROVE  Shape'
<1>1. request[w].row \in 1..rows
  BY DEF ValidateRecoveryCode, Doing, Shape, RequestOk
<1>2. UNCHANGED answers \/ Accept(request[w].row, request[w].code)
  BY DEF ValidateRecoveryCode, answers
<1>3. codes' # NoCodes => CodesOk(codes', rows, added)
  BY DEF ValidateRecoveryCode, LockedRow, Shape, CodesOk
<1>. QED
  BY <1>1, <1>2, <1>3, ShapeTurns DEF ValidateRecoveryCode, Done, Turns, Shape, asked

LEMMA ShowCodesShape ==
    ASSUME Shape, NEW w \in Worker, ShowCodes(w)
    PROVE  Shape'
<1>1. CodesOk(request[w].loaded, rows, added)
  BY DEF ShowCodes, Doing, Shape, RequestOk
<1>2. codes' # NoCodes => CodesOk(codes', rows, added)
  BY <1>1 DEF ShowCodes, Viewed, Shape, CodesOk
<1>. QED
  BY <1>2, ShapeTurns DEF ShowCodes, Done, Turns, Shape, asked

LEMMA GenerateShape ==
    ASSUME Shape, NEW w \in Worker, NEW api, Generate(w, api)
    PROVE  Shape'
<1>1. Adds /\ rows' = rows + 1 /\ added' = added
  BY DEF Generate, Insert, NewRow, Shape, Adds, asked
<1>2. CodesOk(codes', rows', added')
  BY <1>1 DEF Generate, NewCodes, Shape, CodesOk
<1>. QED
  BY <1>1, <1>2, RowsStayOk, ShapeMoves DEF Generate, Done, Turns, Shape, asked, answers

LEMMA ActivateShape ==
    ASSUME Shape, NEW w \in Worker, Activate(w)
    PROVE  Shape'
<1>1. CASE totp # 0
  BY <1>1, ShapeTurns DEF Activate, Done, Turns, Shape, answers
<1>2. CASE totp = 0
  <2>1. /\ Adds /\ totp' = rows + 1 /\ added' = added \cup {rows + 1}
        /\ codes = NoCodes => codes' = NewCodes(rows + 2) /\ rows' = rows + 2
        /\ codes # NoCodes => codes' = codes
    BY <1>2 DEF Activate, NewRow, Shape, Adds
  <2>2. CodesOk(NewCodes(rows + 2), rows + 2, added')
    BY <2>1 DEF NewCodes, Shape, CodesOk
  <2>3. codes' # NoCodes => CodesOk(codes', rows', added')
    BY <2>1, <2>2, RowsStayOk DEF Shape
  <2>4. /\ Turns(w, NoRequest) /\ clock' = clock /\ passkeys' = passkeys
        /\ removed' = removed /\ accepted' = accepted /\ repeated' = repeated
    BY DEF Activate, Done, Turns, answers
  <2>5. /\ totp' \in {0} \cup added' /\ passkeys' \subseteq added'
        /\ removed' \subseteq 1..rows'
    BY <2>1, <2>4 DEF Shape, Adds
  <2>. QED
    BY <2>1, <2>3, <2>4, <2>5, RowsStayOk, ShapeMoves
<1>. QED
  BY <1>1, <1>2

LEMMA RegisterPasskeyShape ==
    ASSUME Shape, NEW w \in Worker, RegisterPasskey(w)
    PROVE  Shape'
<1>1. /\ Adds /\ rows' = rows + 1 /\ added' = added \cup {rows'}
      /\ passkeys' \subseteq added' /\ removed' \subseteq 1..rows'
  BY DEF RegisterPasskey, Insert, NewRow, Shape, Adds
<1>2. Turns(w, Started("passkey", rows', 0))
  BY DEF RegisterPasskey, Begin, Turns, Started
<1>3. RequestOk(Started("passkey", rows', 0), rows', added')
  BY <1>1 DEF RequestOk, Started
<1>4. codes' # NoCodes => CodesOk(codes', rows', added')
  BY <1>1, RowsStayOk DEF RegisterPasskey, Shape
<1>. QED
  BY <1>1, <1>2, <1>3, <1>4, RowsStayOk, ShapeMoves DEF RegisterPasskey, Shape, answers

LEMMA AddCodesShape ==
    ASSUME Shape, NEW w \in Worker, AddCodes(w)
    PROVE  Shape'
<1>1. CASE codes = NoCodes
  <2>1. Adds /\ rows' = rows + 1 /\ added' = added
    BY <1>1 DEF AddCodes, Insert, NewRow, Shape, Adds, asked
  <2>2. CodesOk(codes', rows', added')
    BY <1>1, <2>1 DEF AddCodes, NewCodes, Shape, CodesOk
  <2>. QED
    BY <2>1, <2>2, RowsStayOk, ShapeMoves DEF AddCodes, Done, Turns, Shape, asked, answers
<1>2. CASE codes # NoCodes
  BY <1>2, ShapeTurns DEF AddCodes, Done, Turns, Shape, asked
<1>. QED
  BY <1>1, <1>2

LEMMA RenameShape ==
    ASSUME Shape, NEW w \in Worker, Rename(w)
    PROVE  Shape'
<1>1. request[w].row \in added
  BY DEF Rename, Doing, Shape, RequestOk
<1>. QED
  BY <1>1, ShapeTurns DEF Rename, Done, Turns, Shape, asked

LEMMA ProceedOk ==
    ASSUME Shape, NEW w \in Worker, Doing(w, "remove"), NEW step, Proceed(w, step)
    PROVE  /\ Turns(w, [request[w] EXCEPT !.step = step])
           /\ RequestOk([request[w] EXCEPT !.step = step], rows, added)
BY DEF Shape, Doing, Proceed, Turns, RequestOk

LEMMA DeleteRowShape ==
    ASSUME Shape, NEW w \in Worker, DeleteRow(w)
    PROVE  Shape'
<1>1. request[w].row \in 1..rows
  BY DEF DeleteRow, Doing, Shape, RequestOk
<1>2. removed' \subseteq 1..rows /\ passkeys' \subseteq added /\ totp' \in {0, totp}
  BY <1>1 DEF DeleteRow, Shape
<1>. QED
  BY <1>2, ProceedOk, ShapeTurns DEF DeleteRow, Shape

LEMMA CleanUpShape ==
    ASSUME Shape, NEW w \in Worker, LookForOthers(w) \/ Wipe(w)
    PROVE  Shape'
<1>1. CASE LookForOthers(w)
  BY <1>1, ProceedOk, ShapeTurns DEF LookForOthers, Done, Turns, Shape, tables, asked
<1>2. CASE Wipe(w)
  BY <1>2, ShapeTurns DEF Wipe, Done, Turns, Shape, asked
<1>. QED
  BY <1>1, <1>2

LEMMA ShapeStep == Shape /\ [MfaNext]_mfaVars => Shape'
<1>. SUFFICES ASSUME Shape, [MfaNext]_mfaVars PROVE Shape'
  OBVIOUS
<1>1. CASE ClockTick
  BY <1>1 DEF ClockTick, Shape, tables, asked, answers
<1>2. CASE UNCHANGED mfaVars
  BY <1>2 DEF mfaVars, Shape, tables, asked, answers
<1>3. ASSUME NEW w \in Worker, NEW api \in BOOLEAN, Generate(w, api)
      PROVE  Shape'
  BY <1>3, GenerateShape
<1>. QED
  BY <1>1, <1>2, <1>3, EnterShape, MarkTotpShape, ValidateRecoveryCodeShape, ShowCodesShape,
     ActivateShape, RegisterPasskeyShape, AddCodesShape, RenameShape, DeleteRowShape,
     CleanUpShape DEF MfaNext

----------------------------------------------------------------------------

(* The variables have their types *)

RequestTyped(r) ==
    /\ r \in Request
    /\ r.kind = "totp" => r.row \in Row /\ r.code \in Counter
    /\ r.kind = "recovery" => r.row \in Row /\ r.code \in Code
    /\ r.kind = "view" => r.loaded \in Codes

Typed ==
    /\ MfaTypeOK
    /\ \A w \in Worker : request[w] # NoRequest => RequestTyped(request[w])

LEMMA PeriodsGrow ==
    ASSUME NEW s \in Nat, NEW t \in Nat, s <= t
    PROVE  /\ s \div Period \in Int /\ s \div Period <= t \div Period
           /\ (s + Period) \div Period = (s \div Period) + 1
           /\ 0 <= s \div Period
BY SettingAssumption

LEMMA CountersTyped ==
    ASSUME clock \in 0..MaxClock
    PROVE  Counters(clock) \subseteq Counter /\ 0 \in Counter
<1>1. clock \in Nat /\ MaxClock \in Nat /\ clock <= MaxClock
  BY SettingAssumption
<1>2. /\ clock \div Period \in Int /\ MaxClock \div Period \in Int
      /\ clock \div Period <= MaxClock \div Period
      /\ 0 <= clock \div Period
  BY <1>1, PeriodsGrow
<1>. QED
  BY <1>2, SettingAssumption DEF Counters, Counter

LEMMA TypedInit == MfaInit => Typed
BY SettingAssumption DEF MfaInit, Typed, MfaTypeOK

LEMMA TypedTurns ==
    ASSUME Typed, NEW w \in Worker, NEW r, Turns(w, r), r = NoRequest \/ RequestTyped(r)
    PROVE  /\ request' \in [Worker -> Request \cup {NoRequest}]
           /\ \A v \in Worker : request'[v] # NoRequest => RequestTyped(request'[v])
BY DEF Typed, MfaTypeOK, Turns, RequestTyped

LEMMA BeginTyped ==
    ASSUME Typed, NEW w \in Worker, NEW kind \in Kind, NEW row \in 0..MaxRows,
           NEW code \in Counter \cup Code, Begin(w, kind, row, code),
           kind = "totp" => row \in Row /\ code \in Counter,
           kind = "recovery" => row \in Row /\ code \in Code,
           kind = "view" => codes \in Codes
    PROVE  /\ request' \in [Worker -> Request \cup {NoRequest}]
           /\ \A v \in Worker : request'[v] # NoRequest => RequestTyped(request'[v])
<1>1. Turns(w, Started(kind, row, code)) /\ RequestTyped(Started(kind, row, code))
  BY DEF Begin, Turns, Started, RequestTyped, Request, Typed, MfaTypeOK
<1>. QED
  BY <1>1, TypedTurns

LEMMA EnterTyped ==
    ASSUME Shape, Typed, NEW w \in Worker,
           \/ \E code \in Counters(clock) : EnterTotp(w, code)
           \/ \E code \in Code : EnterRecoveryCode(w, code)
           \/ LoadCodes(w) \/ EnterGenerate(w) \/ EnterActivate(w)
           \/ \E row \in Row : EnterRename(w, row) \/ EnterRemove(w, row)
    PROVE  Typed'
<1>1. UNCHANGED <<tables, used, clock, asked, answers>>
  BY DEF EnterTotp, EnterRecoveryCode, LoadCodes, EnterGenerate, EnterActivate, EnterRename,
     EnterRemove
<1>2. /\ Counters(clock) \subseteq Counter /\ 0 \in Counter /\ 0 \in 0..MaxRows
      /\ Row \subseteq 0..MaxRows
  BY CountersTyped, SettingAssumption DEF Typed, MfaTypeOK, Row
<1>3. /\ totp # 0 => totp \in Row
      /\ codes # NoCodes => codes \in Codes /\ codes.row \in Row
  BY SettingAssumption DEF Typed, MfaTypeOK, Codes, Row
<1>4. {"totp", "recovery", "view", "generate", "activate", "rename", "remove"} \subseteq Kind
  BY DEF Kind
<1>5. /\ request' \in [Worker -> Request \cup {NoRequest}]
      /\ \A v \in Worker : request'[v] # NoRequest => RequestTyped(request'[v])
  BY <1>2, <1>3, <1>4, BeginTyped
     DEF EnterTotp, EnterRecoveryCode, LoadCodes, EnterGenerate, EnterActivate, EnterRename,
     EnterRemove
<1>. QED
  BY <1>1, <1>5 DEF Typed, MfaTypeOK, tables, asked, answers

(* A request ends, and what it writes has its type. *)
LEMMA EndTyped ==
    ASSUME Typed, NEW w \in Worker, Done(w), rows' \in 0..MaxRows, rows <= rows',
           totp' \in 0..rows', passkeys' \subseteq 1..rows', codes' \in Codes \cup {NoCodes},
           used' \subseteq [row : Row, code : Counter, until : 0..(MaxClock + Period)],
           clock' = clock, added' \subseteq Row, removed' = removed,
           accepted' \subseteq Row \X (Counter \cup Code), repeated' \subseteq accepted'
    PROVE  Typed'
<1>1. Turns(w, NoRequest)
  BY DEF Done, Turns
<1>. QED
  BY <1>1, TypedTurns DEF Typed, MfaTypeOK

LEMMA UsesTyped ==
    ASSUME Shape, Typed, NEW w \in Worker, MarkTotp(w) \/ ValidateRecoveryCode(w)
    PROVE  Typed'
<1>. DEFINE r == request[w]
<1>1. RequestTyped(r) /\ (r.kind = "totp" \/ r.kind = "recovery")
  BY DEF MarkTotp, ValidateRecoveryCode, Doing, Typed
<1>2. /\ accepted' \subseteq Row \X (Counter \cup Code) /\ repeated' \subseteq accepted'
  BY <1>1 DEF MarkTotp, ValidateRecoveryCode, Accept, RequestTyped, Typed, MfaTypeOK, answers
<1>3. CASE MarkTotp(w)
  <2>1. UsedUntil(clock) \in 0..(MaxClock + Period)
    BY SettingAssumption DEF UsedUntil, Typed, MfaTypeOK
  <2>2. used' \subseteq [row : Row, code : Counter, until : 0..(MaxClock + Period)]
    BY <1>1, <1>3, <2>1 DEF MarkTotp, Doing, RequestTyped, Typed, MfaTypeOK
  <2>. QED
    BY <1>2, <1>3, <2>2, EndTyped DEF MarkTotp, Typed, MfaTypeOK, tables, asked
<1>4. CASE ValidateRecoveryCode(w)
  <2>1. codes' \in Codes \cup {NoCodes}
    BY <1>1, <1>4 DEF ValidateRecoveryCode, LockedRow, Doing, RequestTyped, Typed, MfaTypeOK, Codes
  <2>. QED
    BY <1>2, <1>4, <2>1, EndTyped DEF ValidateRecoveryCode, Typed, MfaTypeOK, asked
<1>. QED
  BY <1>3, <1>4

LEMMA NewCodesTyped ==
    ASSUME NEW row \in Row, NEW api \in BOOLEAN
    PROVE  NewCodes(row) \in Codes /\ [NewCodes(row) EXCEPT !.viewed = api] \in Codes
BY DEF NewCodes, Codes

LEMMA RowsTyped ==
    ASSUME Typed
    PROVE  /\ rows \in Nat /\ MaxRows \in Nat /\ rows <= MaxRows
           /\ Row = 1..MaxRows /\ 1..rows \subseteq Row
           /\ totp \in 0..rows /\ passkeys \subseteq 1..rows /\ added \subseteq Row
           /\ removed \subseteq Row /\ codes \in Codes \cup {NoCodes}
BY SettingAssumption DEF Typed, MfaTypeOK, Row

LEMMA MakesTyped ==
    ASSUME Shape, Typed, NEW w \in Worker,
           \/ \E api \in BOOLEAN : Generate(w, api)
           \/ Activate(w) \/ AddCodes(w)
    PROVE  Typed'
<1>1. /\ rows' \in 0..MaxRows /\ rows <= rows' /\ totp' \in 0..rows'
      /\ passkeys' \subseteq 1..rows' /\ added' \subseteq Row /\ removed' = removed
  BY RowsTyped DEF Generate, Activate, AddCodes, Insert, NewRow, asked
<1>2. codes' \in Codes \cup {NoCodes}
  <2>1. ASSUME NEW api \in BOOLEAN, Generate(w, api)
        PROVE  codes' \in Codes
    <3>1. rows' \in Row
      BY <1>1, <2>1, RowsTyped DEF Generate, Insert, NewRow
    <3>. QED
      BY <2>1, <3>1, NewCodesTyped DEF Generate
  <2>2. CASE Activate(w)
    <3>1. totp = 0 => rows + 2 \in Row
      BY <2>2, RowsTyped DEF Activate
    <3>. QED
      BY <2>2, <3>1, RowsTyped, NewCodesTyped DEF Activate
  <2>3. CASE AddCodes(w)
    <3>1. codes = NoCodes => rows' \in Row
      BY <1>1, <2>3, RowsTyped DEF AddCodes, Insert, NewRow
    <3>. QED
      BY <2>3, <3>1, RowsTyped, NewCodesTyped DEF AddCodes
  <2>. QED
    BY <2>1, <2>2, <2>3
<1>3. Done(w) /\ UNCHANGED <<used, clock, accepted, repeated>>
  BY DEF Generate, Activate, AddCodes, answers
<1>. QED
  BY <1>1, <1>2, <1>3, EndTyped DEF Typed, MfaTypeOK

LEMMA ShowsTyped ==
    ASSUME Shape, Typed, NEW w \in Worker,
           ShowCodes(w) \/ Rename(w) \/ Wipe(w) \/ (LookForOthers(w) /\ ~NoneLeft)
    PROVE  Typed'
<1>1. CASE ShowCodes(w)
  <2>1. request[w].loaded \in Codes
    BY <1>1 DEF ShowCodes, Doing, Typed, RequestTyped
  <2>2. codes' \in Codes \cup {NoCodes}
    BY <1>1, <2>1 DEF ShowCodes, Viewed, Codes, Typed, MfaTypeOK
  <2>. QED
    BY <1>1, <2>2, EndTyped DEF ShowCodes, Typed, MfaTypeOK, asked, answers
<1>2. CASE Rename(w)
  <2>1. request[w].row \in 1..rows
    BY <1>2 DEF Rename, Doing, Shape, RequestOk
  <2>2. Done(w) /\ UNCHANGED <<totp, codes, rows, used, clock, asked, answers>>
        /\ passkeys' \subseteq 1..rows
    BY <1>2, <2>1, RowsTyped DEF Rename
  <2>. QED
    BY <2>2, RowsTyped, EndTyped DEF Typed, MfaTypeOK, asked, answers
<1>3. CASE Wipe(w)
  BY <1>3, EndTyped DEF Wipe, Typed, MfaTypeOK, asked, answers
<1>4. CASE LookForOthers(w) /\ ~NoneLeft
  BY <1>4, EndTyped DEF LookForOthers, Typed, MfaTypeOK, tables, asked, answers
<1>. QED
  BY <1>1, <1>2, <1>3, <1>4

LEMMA RegisterPasskeyTyped ==
    ASSUME Shape, Typed, NEW w \in Worker, RegisterPasskey(w)
    PROVE  Typed'
<1>1. /\ rows' = rows + 1 /\ rows' \in Row /\ rows' \in 0..MaxRows /\ rows \in Nat
      /\ Begin(w, "passkey", rows', 0)
  BY RowsTyped DEF RegisterPasskey, Insert, NewRow
<1>2. "passkey" \in Kind /\ 0 \in Counter \cup Code
  BY CountersTyped DEF Kind, Typed, MfaTypeOK
<1>3. /\ request' \in [Worker -> Request \cup {NoRequest}]
      /\ \A v \in Worker : request'[v] # NoRequest => RequestTyped(request'[v])
  BY <1>1, <1>2, BeginTyped
<1>4. /\ passkeys' = passkeys \cup {rows'} /\ added' = added \cup {rows'}
      /\ UNCHANGED <<totp, codes, used, clock, removed, answers>>
  BY DEF RegisterPasskey
<1>. QED
  BY <1>1, <1>3, <1>4 DEF Typed, MfaTypeOK, answers

LEMMA ProceedTyped ==
    ASSUME Typed, NEW w \in Worker, Doing(w, "remove"),
           NEW step \in {"first", "others", "wipe"}, Proceed(w, step)
    PROVE  /\ Turns(w, [request[w] EXCEPT !.step = step])
           /\ [request[w] EXCEPT !.step = step] \in Request
           /\ [request[w] EXCEPT !.step = step].step = step
           /\ [request[w] EXCEPT !.step = step].kind = "remove"
           /\ request' \in [Worker -> Request \cup {NoRequest}]
           /\ \A v \in Worker : request'[v] # NoRequest => RequestTyped(request'[v])
<1>. DEFINE r == [request[w] EXCEPT !.step = step]
<1>1. request[w] \in Request /\ request[w].kind = "remove"
  BY DEF Doing, Typed, RequestTyped
<1>2. Turns(w, r) /\ r \in Request /\ r.step = step /\ r.kind = "remove"
  BY <1>1 DEF Proceed, Turns, Request
<1>3. RequestTyped(r)
  BY <1>2 DEF RequestTyped
<1>. HIDE DEF r
<1>4. /\ request' \in [Worker -> Request \cup {NoRequest}]
      /\ \A v \in Worker : request'[v] # NoRequest => RequestTyped(request'[v])
  BY <1>2, <1>3, TypedTurns
<1>. QED
  BY <1>2, <1>4 DEF r

LEMMA RemovesTyped ==
    ASSUME Shape, Typed, NEW w \in Worker, DeleteRow(w) \/ (LookForOthers(w) /\ NoneLeft)
    PROVE  Typed'
<1>1. CASE DeleteRow(w)
  <2>1. request[w].row \in 1..rows
    BY <1>1 DEF DeleteRow, Doing, Shape, RequestOk
  <2>2. /\ request' \in [Worker -> Request \cup {NoRequest}]
        /\ \A v \in Worker : request'[v] # NoRequest => RequestTyped(request'[v])
    BY <1>1, ProceedTyped DEF DeleteRow
  <2>3. /\ totp' \in 0..rows /\ passkeys' \subseteq 1..rows /\ removed' \subseteq Row
        /\ UNCHANGED <<codes, rows, used, clock, added, answers>>
    BY <1>1, <2>1, RowsTyped DEF DeleteRow
  <2>. QED
    BY <2>2, <2>3 DEF Typed, MfaTypeOK, answers
<1>2. CASE LookForOthers(w) /\ NoneLeft
  <2>1. /\ request' \in [Worker -> Request \cup {NoRequest}]
        /\ \A v \in Worker : request'[v] # NoRequest => RequestTyped(request'[v])
    BY <1>2, ProceedTyped DEF LookForOthers
  <2>2. UNCHANGED <<tables, used, clock, asked, answers>>
    BY <1>2 DEF LookForOthers
  <2>. QED
    BY <2>1, <2>2 DEF Typed, MfaTypeOK, tables, asked, answers
<1>. QED
  BY <1>1, <1>2

LEMMA TypedStep ==
    ASSUME Shape, Typed, [MfaNext]_mfaVars
    PROVE  Typed'
<1>1. CASE UNCHANGED mfaVars
  BY <1>1 DEF mfaVars, Typed, MfaTypeOK, tables, asked, answers
<1>2. CASE ClockTick
  BY <1>2, SettingAssumption DEF ClockTick, Typed, MfaTypeOK, tables, asked, answers
<1>. QED
  BY <1>1, <1>2, EnterTyped, UsesTyped, MakesTyped, ShowsTyped, RegisterPasskeyTyped,
     RemovesTyped DEF MfaNext

(* The variables have their types, for all bounds and settings. *)
THEOREM MfaTypeCorrect == MfaSpec => []MfaTypeOK
<1>1. MfaInit => Shape /\ Typed
  BY ShapeInit, TypedInit
<1>2. Shape /\ Typed /\ [MfaNext]_mfaVars => (Shape /\ Typed)'
  BY ShapeStep, TypedStep
<1>3. Shape /\ Typed => MfaTypeOK
  BY DEF Typed
<1>. QED
  BY <1>1, <1>2, <1>3, PTL DEF MfaSpec

----------------------------------------------------------------------------

(* TOTP codes once, where no code of another period is tolerated *)

(* A code is remembered beyond its period. *)
CacheOk(cache) ==
    \A m \in cache :
        /\ {"row", "code", "until"} \subseteq DOMAIN m
        /\ m.until \in Nat /\ m.code \in Int /\ m.code < m.until \div Period

(* A code that was accepted is past, or remembered. *)
Spent(a, cache, t) ==
    /\ a[2] \in Int
    /\ \/ a[2] < t \div Period
       \/ \E m \in cache : m.row = a[1] /\ m.code = a[2] /\ m.until > t

TotpInv ==
    /\ CacheOk(used)
    /\ \A w \in Worker : Doing(w, "totp") => request[w].code = clock \div Period
    /\ \A a \in accepted : a[1] \in added => Spent(a, used, clock)
    /\ TotpOnce

LEMMA TotpInit == MfaInit => TotpInv
BY DEF MfaInit, TotpInv, CacheOk, TotpOnce, Doing

LEMMA TotpTick ==
    ASSUME Shape, TotpInv, ClockTick
    PROVE  TotpInv'
<1>1. clock \in Nat /\ clock' = clock + 1
      /\ UNCHANGED <<used, request, added, accepted, repeated>>
  BY DEF Shape, ClockTick, asked, answers
<1>2. ASSUME NEW a \in accepted, Spent(a, used, clock)
      PROVE  Spent(a, used, clock')
  <2>1. CASE a[2] < clock \div Period
    BY <1>1, <1>2, <2>1, PeriodsGrow DEF Spent
  <2>2. ASSUME NEW m \in used, m.row = a[1], m.code = a[2], m.until > clock
        PROVE  Spent(a, used, clock')
    <3>1. CASE m.until > clock'
      BY <1>2, <2>2, <3>1 DEF Spent
    <3>2. CASE m.until = clock'
      BY <1>2, <2>2, <3>2 DEF Spent, TotpInv, CacheOk
    <3>. QED
      BY <1>1, <2>2, <3>1, <3>2 DEF TotpInv, CacheOk
  <2>. QED
    BY <1>2, <2>1, <2>2 DEF Spent
<1>. QED
  BY <1>1, <1>2 DEF TotpInv, TotpOnce, ClockTick, Doing

(* A step that uses no TOTP code *)
LEMMA TotpStays ==
    ASSUME Shape, TotpInv, NEW w \in Worker, NEW r, Turns(w, r),
           r = NoRequest \/ r.kind # "totp" \/ r.code = clock \div Period,
           UNCHANGED <<used, clock>>, Adds,
           \/ UNCHANGED <<accepted, repeated>>
           \/ \E row \in (1..rows) \ added : \E code : Accept(row, code)
    PROVE  TotpInv'
<1>1. \A v \in Worker : Doing(v, "totp")' => request'[v].code = clock \div Period
  BY TurnsOne DEF TotpInv, Doing
<1>2. \A a \in accepted : a[1] \in added' => a[1] \in added
  BY DEF Shape, AnswersOk, Adds
<1>3. CASE UNCHANGED <<accepted, repeated>>
  BY <1>1, <1>2, <1>3 DEF TotpInv, TotpOnce, Shape, AnswersOk
<1>4. ASSUME NEW row \in (1..rows) \ added, NEW code, Accept(row, code)
      PROVE  TotpInv'
  <2>1. row \notin added'
    BY <1>4 DEF Adds, Shape
  <2>2. /\ \A a \in accepted' : a \in accepted \/ a[1] = row
        /\ \A a \in repeated' : a \in repeated \/ a[1] = row
    BY <1>4 DEF Accept
  <2>. QED
    BY <1>1, <1>2, <2>1, <2>2 DEF TotpInv, TotpOnce, Shape, AnswersOk
<1>. QED
  BY <1>3, <1>4

LEMMA MarkTotpOnce ==
    ASSUME Shape, TotpInv, NEW w \in Worker, MarkTotp(w)
    PROVE  TotpInv'
<1>. DEFINE r == request[w]
            mark == [row |-> r.row, code |-> r.code, until |-> UsedUntil(clock)]
<1>1. /\ Turns(w, NoRequest) /\ UNCHANGED <<clock, rows, added>> /\ Doing(w, "totp")
  BY DEF MarkTotp, Done, Turns, tables, asked
<1>2. Adds
  BY <1>1 DEF Adds, Shape
<1>3. CASE Remembered(r)
  BY <1>1, <1>2, <1>3, TotpStays DEF MarkTotp, answers
<1>4. CASE ~Remembered(r)
  <2>1. /\ Accept(r.row, r.code) /\ clock \in Nat
        /\ used' = {m \in used : m.until > clock} \cup {mark}
    BY <1>4 DEF MarkTotp, Shape
  <2>2. r.code = clock \div Period /\ r.row \in added
    BY <1>1 DEF TotpInv, Doing, Shape, RequestOk
  <2>9. {"row", "code", "until"} \subseteq DOMAIN mark
    OBVIOUS
  <2>3. /\ mark.until = clock + Period /\ mark.until > clock /\ mark.until \in Nat
        /\ mark.row = r.row /\ mark.code = r.code
        /\ mark.code \in Int /\ mark.code < mark.until \div Period
    <3>1. clock \div Period \in Int /\ (clock + Period) \div Period = (clock \div Period) + 1
      BY <2>1, PeriodsGrow
    <3>. QED
      BY <2>1, <2>2, <3>1, SettingAssumption DEF UsedUntil
  <2>. HIDE DEF mark
  <2>4. CacheOk(used')
    BY <2>1, <2>3, <2>9 DEF TotpInv, CacheOk
  <2>5. <<r.row, r.code>> \notin accepted
    BY <1>4, <2>1, <2>2, PeriodsGrow DEF TotpInv, Spent, Remembered
  <2>6. \A a \in accepted' : a[1] \in added => Spent(a, used', clock)
    BY <2>1, <2>2, <2>3 DEF Accept, TotpInv, Spent
  <2>7. repeated' = repeated
    BY <2>1, <2>5 DEF Accept
  <2>8. \A v \in Worker : Doing(v, "totp")' => request'[v].code = clock \div Period
    BY <1>1, TurnsOne DEF TotpInv, Doing
  <2>. QED
    BY <1>1, <2>4, <2>6, <2>7, <2>8 DEF TotpInv, TotpOnce
<1>. QED
  BY <1>3, <1>4

(* What a step adds, which row's codes it can accept, and to what kind of   *)
(* request the worker goes on.                                             *)
LEMMA OtherTurns ==
    ASSUME Shape, NEW w \in Worker,
           \/ \E code : EnterRecoveryCode(w, code)
           \/ LoadCodes(w) \/ EnterGenerate(w) \/ EnterActivate(w)
           \/ \E row : EnterRename(w, row) \/ EnterRemove(w, row)
           \/ \E api : Generate(w, api)
           \/ ValidateRecoveryCode(w) \/ ShowCodes(w) \/ Activate(w)
           \/ RegisterPasskey(w) \/ AddCodes(w) \/ Rename(w) \/ DeleteRow(w)
           \/ LookForOthers(w) \/ Wipe(w)
    PROVE  /\ \E r : Turns(w, r) /\ (r = NoRequest \/ r.kind # "totp")
           /\ UNCHANGED <<used, clock>> /\ Adds
           /\ \/ UNCHANGED <<accepted, repeated>>
              \/ \E row \in (1..rows) \ added : \E code : Accept(row, code)
<1>1. ASSUME rows' \in {rows, rows + 1, rows + 2}, added \subseteq added',
             added' \ added \subseteq (rows + 1)..rows'
      PROVE  Adds
  BY <1>1 DEF Shape, Adds
<1>2. Adds /\ UNCHANGED <<used, clock>>
  BY <1>1 DEF EnterRecoveryCode, LoadCodes, EnterGenerate, EnterActivate, EnterRename,
     EnterRemove, Generate, ValidateRecoveryCode, ShowCodes, Activate, RegisterPasskey,
     AddCodes, Rename, DeleteRow, LookForOthers, Wipe, tables, asked, Insert, NewRow, Shape
<1>3. \/ UNCHANGED <<accepted, repeated>>
      \/ \E row \in (1..rows) \ added : \E code : Accept(row, code)
  <2>1. CASE ValidateRecoveryCode(w)
    <3>1. request[w].row \in (1..rows) \ added
      BY <2>1 DEF ValidateRecoveryCode, Doing, Shape, RequestOk
    <3>. QED
      BY <2>1, <3>1 DEF ValidateRecoveryCode, answers
  <2>. QED
    BY <2>1 DEF EnterRecoveryCode, LoadCodes, EnterGenerate, EnterActivate, EnterRename,
     EnterRemove, Generate, ShowCodes, Activate, RegisterPasskey,
     AddCodes, Rename, DeleteRow, LookForOthers, Wipe, answers
<1>4. ASSUME NEW kind, kind # "totp", NEW row, NEW code, Begin(w, kind, row, code)
      PROVE  \E r : Turns(w, r) /\ (r = NoRequest \/ r.kind # "totp")
  <2>1. Turns(w, Started(kind, row, code)) /\ Started(kind, row, code).kind # "totp"
    BY <1>4 DEF Begin, Turns, Started
  <2>. QED
    BY <2>1
<1>5. ASSUME Done(w)
      PROVE  \E r : Turns(w, r) /\ (r = NoRequest \/ r.kind # "totp")
  BY <1>5 DEF Done, Turns
<1>6. ASSUME NEW step, Proceed(w, step), Doing(w, "remove")
      PROVE  \E r : Turns(w, r) /\ (r = NoRequest \/ r.kind # "totp")
  <2>1. /\ Turns(w, [request[w] EXCEPT !.step = step])
        /\ [request[w] EXCEPT !.step = step].kind # "totp"
    BY <1>6 DEF Proceed, Turns, Doing, Shape, RequestOk
  <2>. QED
    BY <2>1
<1>7. \E r : Turns(w, r) /\ (r = NoRequest \/ r.kind # "totp")
  BY <1>4, <1>5, <1>6
     DEF EnterRecoveryCode, LoadCodes, EnterGenerate, EnterActivate, EnterRename,
     EnterRemove, Generate, ValidateRecoveryCode, ShowCodes, Activate, RegisterPasskey,
     AddCodes, Rename, DeleteRow, LookForOthers, Wipe
<1>. QED
  BY <1>2, <1>3, <1>7

LEMMA EnterTotpOnce ==
    ASSUME Shape, TotpInv, Tolerance = 0, NEW w \in Worker, NEW code \in Counters(clock),
           EnterTotp(w, code)
    PROVE  TotpInv'
<1>1. clock \div Period \in Int
  BY PeriodsGrow DEF Shape
<1>2. code = clock \div Period
  BY <1>1 DEF Counters
<1>3. Turns(w, Started("totp", totp, code)) /\ Started("totp", totp, code).code = code
  BY DEF EnterTotp, Begin, Turns, Started
<1>4. Adds /\ UNCHANGED <<used, clock, accepted, repeated>>
  BY DEF EnterTotp, Adds, Shape, tables, asked, answers
<1>. QED
  BY <1>2, <1>3, <1>4, TotpStays

LEMMA TotpStep ==
    ASSUME Shape, TotpInv, Tolerance = 0, [MfaNext]_mfaVars
    PROVE  TotpInv'
<1>1. CASE UNCHANGED mfaVars
  BY <1>1 DEF mfaVars, tables, asked, answers, TotpInv, TotpOnce, Doing
<1>2. ASSUME NEW w \in Worker, NEW api \in BOOLEAN, Generate(w, api)
      PROVE  TotpInv'
  BY <1>2, OtherTurns, TotpStays
<1>. QED
  BY <1>1, <1>2, TotpTick, EnterTotpOnce, MarkTotpOnce, OtherTurns, TotpStays DEF MfaNext

(* The user's TOTP codes are accepted once each (_mark_code_used): for all  *)
(* requests that overlap, if no other periods are tolerated.               *)
THEOREM TotpOnceHolds ==
    ASSUME Tolerance = 0
    PROVE  MfaSpec => []TotpOnce
<1>1. MfaInit => Shape /\ TotpInv
  BY ShapeInit, TotpInit
<1>2. Shape /\ TotpInv /\ [MfaNext]_mfaVars => (Shape /\ TotpInv)'
  BY ShapeStep, TotpStep
<1>3. Shape /\ TotpInv => TotpOnce
  BY DEF TotpInv
<1>. QED
  BY <1>1, <1>2, <1>3, PTL DEF MfaSpec

----------------------------------------------------------------------------

(* Recovery codes once, where a page that shows them overlaps with no use   *)

ShowsApart == {"view", "recovery"} \in Apart

(* What a request loaded to show has the uses that the row has. *)
Current(r) ==
    codes # NoCodes /\ r.loaded.row = codes.row => r.loaded.used = codes.used

RecoveryInv ==
    /\ \A v, w \in Worker : ~(Doing(v, "view") /\ Doing(w, "recovery"))
    /\ \A w \in Worker : Doing(w, "view") => Current(request[w])
    /\ \A a \in accepted :
          codes # NoCodes /\ codes.row = a[1] => a[2] \in codes.used
    /\ RecoveryCodeOnce

LEMMA RecoveryInit == MfaInit => RecoveryInv
BY DEF MfaInit, RecoveryInv, RecoveryCodeOnce, Doing

(* A request ends or goes on, and the codes are as they were, gone or new. *)
LEMMA RecoveryStays ==
    ASSUME Shape, RecoveryInv, NEW w \in Worker, NEW r, Turns(w, r),
           r = NoRequest \/ r.kind \notin {"view", "recovery"}, Adds,
           \/ codes' \in {codes, NoCodes}
           \/ \E n : codes'.row = rows + n /\ n \in Nat \ {0},
           \/ UNCHANGED <<accepted, repeated>>
           \/ \E row \in added : \E code : Accept(row, code)
    PROVE  RecoveryInv'
<1>1. \A v \in Worker, kind \in {"view", "recovery"} :
          Doing(v, kind)' => v # w /\ Doing(v, kind) /\ request'[v] = request[v]
  BY TurnsOne DEF Doing
<1>2. \A v \in Worker : Doing(v, "view") => request[v].loaded.row \in 1..rows
  BY DEF Doing, Shape, RequestOk, CodesOk
<1>3. \A v \in Worker : Doing(v, "view")' => Current(request[v])'
  BY <1>1, <1>2 DEF RecoveryInv, Current, Shape
<1>4. \A a \in accepted : codes' # NoCodes /\ codes'.row = a[1] => a[2] \in codes'.used
  BY DEF RecoveryInv, Shape, AnswersOk
<1>5. CASE UNCHANGED <<accepted, repeated>>
  BY <1>1, <1>3, <1>4, <1>5 DEF RecoveryInv, RecoveryCodeOnce, Adds
<1>6. ASSUME NEW row \in added, NEW code, Accept(row, code)
      PROVE  RecoveryInv'
  <2>1. codes' # NoCodes => codes'.row \notin added
    BY DEF Shape, CodesOk
  <2>2. /\ \A a \in accepted' : a \in accepted \/ a[1] = row
        /\ \A a \in repeated' : a \in repeated \/ a[1] = row
    BY <1>6 DEF Accept
  <2>3. \A a \in repeated' : a[1] \in added'
    BY <1>6, <2>2 DEF RecoveryInv, RecoveryCodeOnce, Adds
  <2>4. \A a \in accepted' : codes' # NoCodes /\ codes'.row = a[1] => a[2] \in codes'.used
    BY <1>4, <1>6, <2>1, <2>2
  <2>. QED
    BY <1>1, <1>3, <2>3, <2>4 DEF RecoveryInv, RecoveryCodeOnce
<1>. QED
  BY <1>5, <1>6

LEMMA LoadCodesOnce ==
    ASSUME Shape, RecoveryInv, ShowsApart, NEW w \in Worker, LoadCodes(w)
    PROVE  RecoveryInv'
<1>. DEFINE r == Started("view", codes.row, 0)
<1>1. Turns(w, r) /\ r.loaded = codes /\ r.kind = "view" /\ request[w] = NoRequest
  BY DEF LoadCodes, Begin, Turns, Started
<1>2. \A v \in Worker : ~Doing(v, "recovery")
  <2>1. {"recovery", "view"} = {"view", "recovery"}
    OBVIOUS
  <2>. QED
    BY <2>1 DEF LoadCodes, Begin, Doing, ShowsApart
<1>3. UNCHANGED <<codes, accepted, repeated, added>>
  BY DEF LoadCodes, tables, asked, answers
<1>. HIDE DEF r
<1>4. \A v \in Worker : ~Doing(v, "recovery")'
  BY <1>1, <1>2, TurnsOne DEF Doing
<1>5. \A v \in Worker : Doing(v, "view")' => Current(request[v])'
  BY <1>1, <1>3, TurnsOne DEF RecoveryInv, Current, Doing
<1>. QED
  BY <1>3, <1>4, <1>5 DEF RecoveryInv, RecoveryCodeOnce

LEMMA EnterRecoveryCodeOnce ==
    ASSUME Shape, RecoveryInv, ShowsApart, NEW w \in Worker, NEW code,
           EnterRecoveryCode(w, code)
    PROVE  RecoveryInv'
<1>. DEFINE r == Started("recovery", codes.row, code)
<1>1. Turns(w, r) /\ r.kind = "recovery" /\ request[w] = NoRequest
  BY DEF EnterRecoveryCode, Begin, Turns, Started
<1>2. \A v \in Worker : ~Doing(v, "view")
  BY DEF EnterRecoveryCode, Begin, Doing, ShowsApart
<1>3. UNCHANGED <<codes, accepted, repeated, added>>
  BY DEF EnterRecoveryCode, tables, asked, answers
<1>. HIDE DEF r
<1>4. \A v \in Worker : ~Doing(v, "view")'
  BY <1>1, <1>2, TurnsOne DEF Doing
<1>. QED
  BY <1>3, <1>4 DEF RecoveryInv, RecoveryCodeOnce

LEMMA ValidateRecoveryCodeOnce ==
    ASSUME Shape, RecoveryInv, NEW w \in Worker, ValidateRecoveryCode(w)
    PROVE  RecoveryInv'
<1>. DEFINE r == request[w]
<1>1. /\ Turns(w, NoRequest) /\ UNCHANGED added /\ Doing(w, "recovery")
  BY DEF ValidateRecoveryCode, Done, Turns, asked
<1>2. \A v \in Worker : ~Doing(v, "view")'
  BY <1>1, TurnsOne DEF Doing, RecoveryInv
<1>3. CASE UNCHANGED <<codes, accepted, repeated>>
  BY <1>1, <1>2, <1>3 DEF RecoveryInv, RecoveryCodeOnce
<1>4. CASE /\ codes # NoCodes /\ codes.row = r.row /\ r.code \notin codes.used
           /\ codes' = [codes EXCEPT !.used = @ \cup {r.code}]
           /\ Accept(r.row, r.code)
  <2>1. codes'.row = codes.row /\ codes'.used = codes.used \cup {r.code}
    BY <1>4 DEF Shape, CodesOk
  <2>2. <<r.row, r.code>> \notin accepted
    BY <1>4 DEF RecoveryInv
  <2>3. repeated' = repeated /\ accepted' = accepted \cup {<<r.row, r.code>>}
    BY <1>4, <2>2 DEF Accept
  <2>4. \A a \in accepted' : codes' # NoCodes /\ codes'.row = a[1] => a[2] \in codes'.used
    BY <1>4, <2>1, <2>3 DEF RecoveryInv
  <2>. QED
    BY <1>1, <1>2, <2>3, <2>4 DEF RecoveryInv, RecoveryCodeOnce
<1>. QED
  BY <1>3, <1>4 DEF ValidateRecoveryCode, LockedRow, answers

LEMMA ShowCodesOnce ==
    ASSUME Shape, RecoveryInv, NEW w \in Worker, ShowCodes(w)
    PROVE  RecoveryInv'
<1>1. /\ Turns(w, NoRequest) /\ UNCHANGED <<added, accepted, repeated>>
      /\ Doing(w, "view")
  BY DEF ShowCodes, Done, Turns, asked, answers
<1>2. CASE codes' = codes
  BY <1>1, <1>2, RecoveryStays DEF ShowCodes, Adds, Shape
<1>3. CASE codes' # codes
  <2>. DEFINE loaded == request[w].loaded
  <2>1. /\ codes # NoCodes /\ codes.row = loaded.row /\ codes' = Viewed(loaded)
    BY <1>3 DEF ShowCodes
  <2>2. CodesOk(loaded, rows, added) /\ loaded.used = codes.used
    BY <1>1, <2>1 DEF RecoveryInv, Current, Doing, Shape, RequestOk
  <2>3. codes'.row = codes.row /\ codes'.used = codes.used
    BY <2>1, <2>2 DEF Viewed, CodesOk
  <2>4. \A v \in Worker : \A kind : Doing(v, kind)' => Doing(v, kind) /\ request'[v] = request[v]
    BY <1>1, TurnsOne DEF Doing
  <2>5. \A v \in Worker : Doing(v, "view")' => Current(request[v])'
    BY <2>1, <2>3, <2>4 DEF RecoveryInv, Current
  <2>. QED
    BY <1>1, <2>1, <2>3, <2>4, <2>5 DEF RecoveryInv, RecoveryCodeOnce
<1>. QED
  BY <1>2, <1>3

(* The steps that neither use nor show recovery codes *)
LEMMA OtherOnce ==
    ASSUME Shape, RecoveryInv, NEW w \in Worker,
           \/ \E code : EnterTotp(w, code)
           \/ EnterGenerate(w) \/ EnterActivate(w)
           \/ \E row : EnterRename(w, row) \/ EnterRemove(w, row)
           \/ \E api : Generate(w, api)
           \/ MarkTotp(w) \/ Activate(w)
           \/ RegisterPasskey(w) \/ AddCodes(w) \/ Rename(w) \/ DeleteRow(w)
           \/ LookForOthers(w) \/ Wipe(w)
    PROVE  RecoveryInv'
<1>1. Adds
  <2>1. CASE MarkTotp(w) \/ \E code : EnterTotp(w, code)
    BY <2>1 DEF MarkTotp, EnterTotp, tables, asked, Shape, Adds
  <2>. QED
    BY <2>1, OtherTurns
<1>2. \/ codes' \in {codes, NoCodes}
      \/ \E n : codes'.row = rows + n /\ n \in Nat \ {0}
  <2>1. ASSUME NEW api, Generate(w, api)
        PROVE  codes'.row = rows + 1
    BY <2>1 DEF Generate, Insert, NewRow, NewCodes
  <2>2. ASSUME AddCodes(w)
        PROVE  codes' = codes \/ codes'.row = rows + 1
    BY <2>2 DEF AddCodes, Insert, NewRow, NewCodes
  <2>3. ASSUME Activate(w)
        PROVE  codes' = codes \/ codes'.row = rows + 2
    BY <2>3 DEF Activate, NewCodes
  <2>. QED
    BY <2>1, <2>2, <2>3
       DEF EnterTotp, EnterGenerate, EnterActivate, EnterRename, EnterRemove,
       MarkTotp, RegisterPasskey, Rename, DeleteRow, LookForOthers, Wipe, tables
<1>3. \/ UNCHANGED <<accepted, repeated>>
      \/ \E row \in added : \E code : Accept(row, code)
  <2>1. CASE MarkTotp(w)
    <3>1. request[w].row \in added
      BY <2>1 DEF MarkTotp, Doing, Shape, RequestOk
    <3>. QED
      BY <2>1, <3>1 DEF MarkTotp, answers
  <2>. QED
    BY <2>1 DEF EnterTotp, EnterGenerate, EnterActivate, EnterRename, EnterRemove, Generate,
       Activate, RegisterPasskey, AddCodes, Rename, DeleteRow, LookForOthers, Wipe, answers
<1>4. ASSUME NEW kind, kind \notin {"view", "recovery"}, NEW row, NEW code, Begin(w, kind, row, code)
      PROVE  \E r : Turns(w, r) /\ (r = NoRequest \/ r.kind \notin {"view", "recovery"})
  <2>1. Turns(w, Started(kind, row, code)) /\ Started(kind, row, code).kind = kind
    BY <1>4 DEF Begin, Turns, Started
  <2>. QED
    BY <1>4, <2>1
<1>5. ASSUME Done(w)
      PROVE  \E r : Turns(w, r) /\ (r = NoRequest \/ r.kind \notin {"view", "recovery"})
  BY <1>5 DEF Done, Turns
<1>6. ASSUME NEW step, Proceed(w, step), Doing(w, "remove")
      PROVE  \E r : Turns(w, r) /\ (r = NoRequest \/ r.kind \notin {"view", "recovery"})
  <2>1. /\ Turns(w, [request[w] EXCEPT !.step = step])
        /\ [request[w] EXCEPT !.step = step].kind = "remove"
    BY <1>6 DEF Proceed, Turns, Doing, Shape, RequestOk
  <2>. QED
    BY <2>1
<1>7. \E r : Turns(w, r) /\ (r = NoRequest \/ r.kind \notin {"view", "recovery"})
  BY <1>4, <1>5, <1>6
     DEF EnterTotp, EnterGenerate, EnterActivate, EnterRename, EnterRemove, Generate,
     MarkTotp, Activate, RegisterPasskey, AddCodes, Rename, DeleteRow, LookForOthers, Wipe
<1>. QED
  BY <1>1, <1>2, <1>3, <1>7, RecoveryStays

LEMMA RecoveryStep ==
    ASSUME Shape, RecoveryInv, ShowsApart, [MfaNext]_mfaVars
    PROVE  RecoveryInv'
<1>1. CASE UNCHANGED mfaVars
  BY <1>1 DEF mfaVars, tables, asked, answers, RecoveryInv, RecoveryCodeOnce, Doing, Current
<1>2. CASE ClockTick
  BY <1>2 DEF ClockTick, tables, asked, answers, RecoveryInv, RecoveryCodeOnce, Doing, Current
<1>3. ASSUME NEW w \in Worker, NEW api \in BOOLEAN, Generate(w, api)
      PROVE  RecoveryInv'
  BY <1>3, OtherOnce
<1>. QED
  BY <1>1, <1>2, <1>3, EnterRecoveryCodeOnce, ValidateRecoveryCodeOnce, LoadCodesOnce,
     ShowCodesOnce, OtherOnce DEF MfaNext

(* A recovery code is accepted once (validate_code): for all requests that  *)
(* overlap but those that show the codes with those that use one.          *)
THEOREM RecoveryCodeOnceHolds ==
    ASSUME ShowsApart
    PROVE  MfaSpec => []RecoveryCodeOnce
<1>1. MfaInit => Shape /\ RecoveryInv
  BY ShapeInit, RecoveryInit
<1>2. Shape /\ RecoveryInv /\ [MfaNext]_mfaVars => (Shape /\ RecoveryInv)'
  BY ShapeStep, RecoveryStep
<1>3. Shape /\ RecoveryInv => RecoveryCodeOnce
  BY DEF RecoveryInv
<1>. QED
  BY <1>1, <1>2, <1>3, PTL DEF MfaSpec

----------------------------------------------------------------------------

(* Keys as they were asked for, where a removal overlaps with no addition   *)
(* and no renaming                                                         *)

AddsApart ==
    {{"remove", "activate"}, {"remove", "passkey"}, {"remove", "rename"}} \subseteq Apart

Overlap(one, other) == \E v, w \in Worker : Doing(v, one) /\ Doing(w, other)

(* A step begins a request, ends one, goes on with a removal, or is none of *)
(* a request's.                                                            *)
LEMMA RequestMoves ==
    ASSUME [MfaNext]_mfaVars
    PROVE  \/ UNCHANGED request
           \/ \E w \in Worker :
                \/ Done(w)
                \/ \E kind, row, code : Begin(w, kind, row, code)
                \/ \E step : Doing(w, "remove") /\ Proceed(w, step)
<1>1. CASE UNCHANGED mfaVars \/ ClockTick
  BY <1>1 DEF mfaVars, ClockTick
<1>2. ASSUME NEW w \in Worker, NEW api \in BOOLEAN, Generate(w, api)
      PROVE  Done(w)
  BY <1>2 DEF Generate
<1>. QED
  BY <1>1, <1>2
     DEF MfaNext, EnterTotp, MarkTotp, EnterRecoveryCode, ValidateRecoveryCode, LoadCodes,
     ShowCodes, EnterGenerate, EnterActivate, Activate, RegisterPasskey, AddCodes,
     EnterRename, Rename, EnterRemove, DeleteRow, LookForOthers, Wipe

(* Kinds of requests that are apart never overlap. *)
LEMMA ApartStep ==
    ASSUME Shape, NEW one, NEW other, one # other, {one, other} \in Apart,
           ~Overlap(one, other), [MfaNext]_mfaVars
    PROVE  ~Overlap(one, other)'
<1>1. CASE UNCHANGED request
  BY <1>1 DEF Overlap, Doing
<1>2. ASSUME NEW w \in Worker, Done(w)
      PROVE  ~Overlap(one, other)'
  BY <1>2, TurnsOne DEF Overlap, Doing, Turns, Done
<1>3. ASSUME NEW w \in Worker, NEW kind, NEW row, NEW code, Begin(w, kind, row, code)
      PROVE  ~Overlap(one, other)'
  <2>1. Turns(w, Started(kind, row, code)) /\ Started(kind, row, code).kind = kind
    BY <1>3 DEF Begin, Turns, Started
  <2>2. \A v \in Worker : \A k : Doing(v, k)' => Doing(v, k) \/ (v = w /\ k = kind)
    BY <2>1, TurnsOne DEF Doing
  <2>3. {one, other} = {other, one}
    OBVIOUS
  <2>4. /\ \A v \in Worker : Doing(v, one) => kind # other
        /\ \A v \in Worker : Doing(v, other) => kind # one
    BY <1>3, <2>3 DEF Begin, Doing
  <2>. QED
    BY <2>2, <2>4 DEF Overlap
<1>4. ASSUME NEW w \in Worker, NEW step, Doing(w, "remove"), Proceed(w, step)
      PROVE  ~Overlap(one, other)'
  <2>1. /\ Turns(w, [request[w] EXCEPT !.step = step])
        /\ [request[w] EXCEPT !.step = step].kind = "remove"
    BY <1>4 DEF Proceed, Turns, Doing, Shape, RequestOk
  <2>2. \A v \in Worker : \A k : Doing(v, k)' => Doing(v, k)
    BY <1>4, <2>1, TurnsOne DEF Doing
  <2>. QED
    BY <2>2 DEF Overlap
<1>. QED
  BY <1>1, <1>2, <1>3, <1>4, RequestMoves

KeyInv ==
    /\ AsAsked
    /\ \A kind \in {"activate", "passkey", "rename"} : ~Overlap("remove", kind)
    /\ \A w \in Worker : Doing(w, "passkey") \/ Doing(w, "rename") =>
          request[w].row \in passkeys
    /\ \A w \in Worker : Doing(w, "remove") /\ request[w].step = "wipe" => Primary = {}

LEMMA KeyInit == MfaInit => KeyInv
BY DEF MfaInit, KeyInv, AsAsked, Primary, Overlap, Doing

LEMMA KeysApart ==
    ASSUME Shape, KeyInv, AddsApart, [MfaNext]_mfaVars
    PROVE  \A kind \in {"activate", "passkey", "rename"} : ~Overlap("remove", kind)'
<1>1. ~Overlap("remove", "activate")'
  BY ApartStep DEF KeyInv, AddsApart
<1>2. ~Overlap("remove", "passkey")'
  BY ApartStep DEF KeyInv, AddsApart
<1>3. ~Overlap("remove", "rename")'
  BY ApartStep DEF KeyInv, AddsApart
<1>. QED
  BY <1>1, <1>2, <1>3

(* The secret and the passkeys are as they were. *)
LEMMA KeyStays ==
    ASSUME Shape, KeyInv, AddsApart, [MfaNext]_mfaVars, UNCHANGED <<totp, passkeys, added, removed>>,
           NEW w \in Worker, NEW r, Turns(w, r),
           \/ r = NoRequest
           \/ r.kind = "rename" /\ r.row \in passkeys
           \/ r.kind = "remove" /\ (r.step = "wipe" => Primary = {})
           \/ r.kind \notin {"passkey", "rename", "remove"}
    PROVE  KeyInv'
<1>1. Primary' = Primary /\ AsAsked'
  BY DEF Primary, AsAsked, KeyInv
<1>. QED
  BY <1>1, KeysApart, TurnsOne DEF KeyInv, Doing

LEMMA BeginsKey ==
    ASSUME Shape, KeyInv, AddsApart, [MfaNext]_mfaVars, UNCHANGED <<tables, asked>>,
           NEW w \in Worker, NEW kind, NEW row, NEW code, Begin(w, kind, row, code),
           kind # "passkey", kind = "rename" => row \in passkeys
    PROVE  KeyInv'
<1>1. /\ Turns(w, Started(kind, row, code)) /\ Started(kind, row, code).kind = kind
      /\ Started(kind, row, code).row = row /\ Started(kind, row, code).step = "first"
  BY DEF Begin, Turns, Started
<1>2. UNCHANGED <<totp, passkeys, added, removed>>
  BY DEF tables, asked
<1>. QED
  BY <1>1, <1>2, KeyStays

LEMMA EnterKey ==
    ASSUME Shape, KeyInv, AddsApart, [MfaNext]_mfaVars, NEW w \in Worker,
           \/ \E code : EnterTotp(w, code)
           \/ \E code : EnterRecoveryCode(w, code)
           \/ LoadCodes(w) \/ EnterGenerate(w) \/ EnterActivate(w)
           \/ \E row : EnterRename(w, row) \/ EnterRemove(w, row)
    PROVE  KeyInv'
BY BeginsKey DEF EnterTotp, EnterRecoveryCode, LoadCodes, EnterGenerate, EnterActivate,
   EnterRename, EnterRemove

LEMMA EndKey ==
    ASSUME Shape, KeyInv, AddsApart, [MfaNext]_mfaVars, NEW w \in Worker,
           \/ MarkTotp(w) \/ ValidateRecoveryCode(w) \/ ShowCodes(w)
           \/ \E api : Generate(w, api)
           \/ AddCodes(w) \/ (Activate(w) /\ totp # 0) \/ Rename(w)
    PROVE  KeyInv'
<1>1. Turns(w, NoRequest)
  BY DEF MarkTotp, ValidateRecoveryCode, ShowCodes, Generate, AddCodes, Activate, Rename,
     Done, Turns
<1>2. UNCHANGED <<totp, passkeys, added, removed>>
  <2>1. CASE Rename(w)
    BY <2>1 DEF Rename, KeyInv, asked
  <2>. QED
    BY <2>1 DEF MarkTotp, ValidateRecoveryCode, ShowCodes, Generate, AddCodes, Activate,
       tables, asked
<1>. QED
  BY <1>1, <1>2, KeyStays

LEMMA ActivateKey ==
    ASSUME Shape, KeyInv, AddsApart, [MfaNext]_mfaVars, NEW w \in Worker, Activate(w)
    PROVE  KeyInv'
<1>1. CASE totp # 0
  BY <1>1, EndKey
<1>2. CASE totp = 0
  <2>1. /\ totp' = rows + 1 /\ added' = added \cup {rows + 1} /\ Turns(w, NoRequest)
        /\ UNCHANGED <<passkeys, removed>> /\ Doing(w, "activate")
    BY <1>2 DEF Activate, NewRow, Done, Turns
  <2>2. rows \in Nat /\ rows + 1 \notin removed
    BY DEF Shape
  <2>3. AsAsked'
    BY <1>2, <2>1, <2>2 DEF KeyInv, AsAsked, Primary
  <2>4. \A v \in Worker : ~Doing(v, "remove")
    BY <2>1 DEF KeyInv, Overlap
  <2>. QED
    BY <2>1, <2>3, <2>4, KeysApart, TurnsOne DEF KeyInv, Doing
<1>. QED
  BY <1>1, <1>2

LEMMA RegisterPasskeyKey ==
    ASSUME Shape, KeyInv, AddsApart, [MfaNext]_mfaVars, NEW w \in Worker, RegisterPasskey(w)
    PROVE  KeyInv'
<1>. DEFINE r == Started("passkey", rows', 0)
<1>1. /\ passkeys' = passkeys \cup {rows + 1} /\ added' = added \cup {rows + 1}
      /\ UNCHANGED <<totp, removed>> /\ rows' = rows + 1
      /\ Begin(w, "passkey", rows', 0)
  BY DEF RegisterPasskey, Insert, NewRow
<1>2. Turns(w, r) /\ r.kind = "passkey" /\ r.row = rows + 1
  BY <1>1 DEF Begin, Turns, Started
<1>3. rows \in Nat /\ rows + 1 \notin removed
  BY DEF Shape
<1>4. AsAsked'
  BY <1>1, <1>3 DEF KeyInv, AsAsked, Primary
<1>5. \A v \in Worker : ~Doing(v, "remove")
  BY <1>1 DEF AddsApart, Begin, Doing
<1>. HIDE DEF r
<1>. QED
  BY <1>1, <1>2, <1>4, <1>5, KeysApart, TurnsOne DEF KeyInv, Doing

LEMMA DeleteRowKey ==
    ASSUME Shape, KeyInv, AddsApart, [MfaNext]_mfaVars, NEW w \in Worker, DeleteRow(w)
    PROVE  KeyInv'
<1>. DEFINE r == [request[w] EXCEPT !.step = "others"]
            row == request[w].row
<1>1. /\ Turns(w, r) /\ r.kind = "remove" /\ r.step = "others" /\ Doing(w, "remove")
      /\ row \in added
  BY DEF DeleteRow, Proceed, Turns, Doing, Shape, RequestOk
<1>2. /\ totp' = IF totp = row THEN 0 ELSE totp
      /\ passkeys' = passkeys \ {row} /\ removed' = removed \cup {row} /\ added' = added
  BY DEF DeleteRow
<1>3. Primary' = Primary \ {row}
  BY <1>1, <1>2 DEF Primary, Shape
<1>4. AsAsked'
  BY <1>2, <1>3 DEF KeyInv, AsAsked
<1>5. \A v \in Worker : ~Doing(v, "passkey") /\ ~Doing(v, "rename")
  BY <1>1 DEF KeyInv, Overlap
<1>. HIDE DEF r
<1>. QED
  BY <1>1, <1>3, <1>4, <1>5, KeysApart, TurnsOne DEF KeyInv, Doing

LEMMA CleanUpKey ==
    ASSUME Shape, KeyInv, AddsApart, [MfaNext]_mfaVars, NEW w \in Worker,
           LookForOthers(w) \/ Wipe(w)
    PROVE  KeyInv'
<1>1. CASE LookForOthers(w)
  <2>1. UNCHANGED <<totp, passkeys, added, removed>> /\ Doing(w, "remove")
    BY <1>1 DEF LookForOthers, tables, asked
  <2>2. CASE NoneLeft
    <3>. DEFINE r == [request[w] EXCEPT !.step = "wipe"]
    <3>1. Turns(w, r) /\ r.kind = "remove"
      BY <1>1, <2>1, <2>2 DEF LookForOthers, Proceed, Turns, Doing, Shape, RequestOk
    <3>. QED
      BY <2>1, <2>2, <3>1, KeyStays DEF NoneLeft
  <2>3. CASE ~NoneLeft
    BY <1>1, <2>1, <2>3, KeyStays DEF LookForOthers, Done, Turns
  <2>. QED
    BY <2>2, <2>3
<1>2. CASE Wipe(w)
  <2>1. /\ Turns(w, NoRequest) /\ totp' = 0 /\ passkeys' = {} /\ UNCHANGED <<added, removed>>
    BY <1>2 DEF Wipe, Done, Turns, asked
  <2>2. Primary = {}
    BY <1>2 DEF Wipe, KeyInv
  <2>3. UNCHANGED <<totp, passkeys, added, removed>>
    BY <2>1, <2>2 DEF Primary
  <2>. QED
    BY <2>1, <2>3, KeyStays
<1>. QED
  BY <1>1, <1>2

LEMMA KeyStep ==
    ASSUME Shape, KeyInv, AddsApart, [MfaNext]_mfaVars
    PROVE  KeyInv'
<1>1. CASE UNCHANGED mfaVars \/ ClockTick
  <2>1. UNCHANGED <<totp, passkeys, added, removed, request>>
    BY <1>1 DEF mfaVars, ClockTick, tables, asked
  <2>. QED
    BY <2>1, KeysApart DEF KeyInv, AsAsked, Primary, Doing
<1>2. ASSUME NEW w \in Worker, NEW api \in BOOLEAN, Generate(w, api)
      PROVE  KeyInv'
  BY <1>2, EndKey
<1>. QED
  BY <1>1, <1>2, EnterKey, EndKey, ActivateKey, RegisterPasskeyKey, DeleteRowKey, CleanUpKey
     DEF MfaNext

(* The user has the keys that were added and not removed                    *)
(* (delete_dangling_recovery_codes, rename_authenticator): for all requests *)
(* that overlap but a removal with an addition or a renaming.              *)
THEOREM AsAskedHolds ==
    ASSUME AddsApart
    PROVE  MfaSpec => []AsAsked
<1>1. MfaInit => Shape /\ KeyInv
  BY ShapeInit, KeyInit
<1>2. Shape /\ KeyInv /\ [MfaNext]_mfaVars => (Shape /\ KeyInv)'
  BY ShapeStep, KeyStep
<1>3. Shape /\ KeyInv => AsAsked
  BY DEF KeyInv
<1>. QED
  BY <1>1, <1>2, <1>3, PTL DEF MfaSpec

----------------------------------------------------------------------------

(* No dangling codes, where a removal does not overlap with their making    *)
(* either                                                                  *)

GeneratesApart == {"remove", "generate"} \in Apart

(* A removal that has yet to see to the codes *)
Cleans(r) == r # NoRequest /\ r.kind = "remove" /\ r.step \in {"others", "wipe"}

CodesInv ==
    /\ ~Overlap("remove", "generate")
    /\ \A w \in Worker : Doing(w, "generate") => Primary # {}
    /\ codes # NoCodes /\ Primary = {} => \E w \in Worker : Cleans(request[w])

LEMMA CodesInit == MfaInit => CodesInv
BY DEF MfaInit, CodesInv, Overlap, Doing

LEMMA GenerateApart ==
    ASSUME Shape, CodesInv, GeneratesApart, [MfaNext]_mfaVars
    PROVE  ~Overlap("remove", "generate")'
BY ApartStep DEF CodesInv, GeneratesApart

(* The keys are as they were, and codes are made only where there are keys. *)
LEMMA CodesStay ==
    ASSUME Shape, CodesInv, GeneratesApart, [MfaNext]_mfaVars,
           NEW w \in Worker, NEW r, Turns(w, r), ~Cleans(request[w]),
           UNCHANGED <<totp, passkeys>>, Primary = {} => codes' = NoCodes \/ codes # NoCodes,
           r = NoRequest \/ r.kind # "generate" \/ Primary # {}
    PROVE  CodesInv'
<1>1. Primary' = Primary
  BY DEF Primary
<1>2. \A v \in Worker : Cleans(request[v]) => request'[v] = request[v]
  BY TurnsOne
<1>. QED
  BY <1>1, <1>2, GenerateApart, TurnsOne DEF CodesInv, Doing

LEMMA BeginsCodes ==
    ASSUME Shape, CodesInv, GeneratesApart, [MfaNext]_mfaVars, UNCHANGED tables,
           NEW w \in Worker, NEW kind, NEW row, NEW code, Begin(w, kind, row, code),
           kind # "generate" \/ Primary # {}
    PROVE  CodesInv'
<1>1. Turns(w, Started(kind, row, code)) /\ Started(kind, row, code).kind = kind
  BY DEF Begin, Turns, Started
<1>2. ~Cleans(request[w])
  BY DEF Begin, Cleans
<1>. QED
  BY <1>1, <1>2, CodesStay DEF tables

LEMMA EnterCodes ==
    ASSUME Shape, CodesInv, GeneratesApart, [MfaNext]_mfaVars, NEW w \in Worker,
           \/ \E code : EnterTotp(w, code)
           \/ \E code : EnterRecoveryCode(w, code)
           \/ LoadCodes(w) \/ EnterGenerate(w) \/ EnterActivate(w)
           \/ \E row : EnterRename(w, row) \/ EnterRemove(w, row)
    PROVE  CodesInv'
BY BeginsCodes DEF EnterTotp, EnterRecoveryCode, LoadCodes, EnterGenerate, MayGenerate,
   EnterActivate, EnterRename, EnterRemove

LEMMA EndCodes ==
    ASSUME Shape, KeyInv, CodesInv, GeneratesApart, [MfaNext]_mfaVars, NEW w \in Worker,
           \/ MarkTotp(w) \/ ValidateRecoveryCode(w) \/ ShowCodes(w)
           \/ \E api : Generate(w, api)
           \/ AddCodes(w) \/ (Activate(w) /\ totp # 0) \/ Rename(w)
    PROVE  CodesInv'
<1>1. Turns(w, NoRequest)
  BY DEF MarkTotp, ValidateRecoveryCode, ShowCodes, Generate, AddCodes, Activate, Rename,
     Done, Turns
<1>2. ~Cleans(request[w])
  BY DEF MarkTotp, ValidateRecoveryCode, ShowCodes, Generate, AddCodes, Activate, Rename,
     Doing, Cleans
<1>3. UNCHANGED <<totp, passkeys>>
  <2>1. CASE Rename(w)
    BY <2>1 DEF Rename, KeyInv, asked
  <2>. QED
    BY <2>1 DEF MarkTotp, ValidateRecoveryCode, ShowCodes, Generate, AddCodes, Activate,
       tables
<1>4. Primary = {} => codes' = codes \/ codes # NoCodes
  <2>1. ASSUME NEW api, Generate(w, api)
        PROVE  Primary # {}
    BY <2>1 DEF Generate, CodesInv
  <2>2. CASE AddCodes(w)
    BY <2>2 DEF AddCodes, KeyInv, Primary
  <2>. QED
    BY <2>1, <2>2
       DEF MarkTotp, ValidateRecoveryCode, ShowCodes, Activate, Rename, tables
<1>. QED
  BY <1>1, <1>2, <1>3, <1>4, CodesStay

LEMMA AddsCodes ==
    ASSUME Shape, CodesInv, GeneratesApart, [MfaNext]_mfaVars, NEW w \in Worker,
           RegisterPasskey(w) \/ (Activate(w) /\ totp = 0)
    PROVE  CodesInv'
<1>1. Primary' # {}
  <2>1. CASE RegisterPasskey(w)
    BY <2>1 DEF RegisterPasskey, Primary
  <2>2. CASE Activate(w) /\ totp = 0
    <3>1. totp' = rows + 1 /\ totp' # 0
      BY <2>2 DEF Activate, NewRow, Shape
    <3>. QED
      BY <3>1 DEF Primary
  <2>. QED
    BY <2>1, <2>2
<1>. QED
  BY <1>1, GenerateApart DEF CodesInv

LEMMA RemovesCodes ==
    ASSUME Typed, CodesInv, GeneratesApart, Shape, [MfaNext]_mfaVars, NEW w \in Worker,
           DeleteRow(w) \/ LookForOthers(w) \/ Wipe(w)
    PROVE  CodesInv'
<1>1. Doing(w, "remove")
  BY DEF DeleteRow, LookForOthers, Wipe
<1>2. ASSUME NEW step \in {"others", "wipe"}, Proceed(w, step)
      PROVE  Cleans(request'[w]) /\ \A v \in Worker : Doing(v, "generate")' => Doing(v, "generate")
  <2>. DEFINE r == [request[w] EXCEPT !.step = step]
  <2>1. Turns(w, r) /\ r \in Request /\ r.step = step /\ r.kind = "remove"
    BY <1>1, <1>2, ProceedTyped
  <2>. HIDE DEF r
  <2>2. request'[w] = r /\ \A v \in Worker : v # w => request'[v] = request[v]
    BY <2>1, TurnsOne
  <2>. QED
    BY <1>2, <2>1, <2>2, NoRequestAssumption DEF Cleans, Doing
<1>3. \A v \in Worker : ~Doing(v, "generate")'
  <2>1. \A v \in Worker : ~Doing(v, "generate")
    BY <1>1 DEF CodesInv, Overlap
  <2>2. CASE Done(w)
    BY <2>1, <2>2, TurnsOne DEF Doing, Done, Turns
  <2>. QED
    BY <1>2, <2>1, <2>2 DEF DeleteRow, LookForOthers, Wipe
<1>4. codes' # NoCodes /\ Primary' = {} => \E v \in Worker : Cleans(request'[v])
  <2>1. CASE Wipe(w)
    BY <2>1 DEF Wipe
  <2>2. CASE LookForOthers(w) /\ ~NoneLeft
    BY <2>2 DEF LookForOthers, NoneLeft, Primary, tables
  <2>. QED
    BY <1>2, <2>1, <2>2 DEF DeleteRow, LookForOthers
<1>. QED
  BY <1>3, <1>4, GenerateApart DEF CodesInv

LEMMA CodesStep ==
    ASSUME Shape, Typed, KeyInv, CodesInv, GeneratesApart, [MfaNext]_mfaVars
    PROVE  CodesInv'
<1>1. CASE UNCHANGED mfaVars \/ ClockTick
  <2>1. UNCHANGED <<totp, passkeys, codes, request>>
    BY <1>1 DEF mfaVars, ClockTick, tables
  <2>. QED
    BY <2>1, GenerateApart DEF CodesInv, Primary, Doing
<1>2. ASSUME NEW w \in Worker, NEW api \in BOOLEAN, Generate(w, api)
      PROVE  CodesInv'
  BY <1>2, EndCodes
<1>. QED
  BY <1>1, <1>2, EnterCodes, EndCodes, AddsCodes, RemovesCodes DEF MfaNext

(* When all is done, recovery codes are there for something to recover      *)
(* (can_generate_recovery_codes, delete_dangling_recovery_codes): for all   *)
(* requests that overlap but a removal with what adds keys or codes.       *)
THEOREM NoDanglingCodesHolds ==
    ASSUME AddsApart, GeneratesApart
    PROVE  MfaSpec => []NoDanglingCodes
<1>. DEFINE Together == Shape /\ Typed /\ KeyInv /\ CodesInv
<1>1. MfaInit => Together
  BY ShapeInit, TypedInit, KeyInit, CodesInit
<1>2. Together /\ [MfaNext]_mfaVars => Together'
  BY ShapeStep, TypedStep, KeyStep, CodesStep
<1>3. Together => NoDanglingCodes
  BY DEF NoDanglingCodes, CodesInv, Cleans
<1>. QED
  BY <1>1, <1>2, <1>3, PTL DEF MfaSpec

=============================================================================
