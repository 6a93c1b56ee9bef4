------------------------- MODULE CodeVerification -------------------------
(***************************************************************************)
(* Verification by a code that is sent to an address: the abstract process *)
(* of account/internal/flows/code_verification.py and its uses for logging *)
(* in (login_by_code.py, by mail or by SMS), verifying an email address    *)
(* (email_verification_by_code.py), verifying the phone number of a        *)
(* pending login or changing the one of an account (phone_verification.py) *)
(* and resetting a password (password_reset_by_code.py), with the views    *)
(* that drive them.                                                        *)
(*                                                                         *)
(* The state of a process is kept in the session.  A request works on the  *)
(* copy it loaded, and the session is saved as a whole when the response   *)
(* is finished and somebody marked it as modified: the last request wins.  *)
(* The copy is edited in place, so what a request did before it failed is  *)
(* saved as well when the project sets SESSION_SAVE_EVERY_REQUEST, except  *)
(* after a server error.                                                   *)
(*                                                                         *)
(* Abstractions.  A code is its number in the order of generation.  A      *)
(* client enters a code that it was sent or one that is wrong.  Rate       *)
(* limits are a choice (module RateLimit): "limited" says that the send    *)
(* was refused.                                                            *)
(***************************************************************************)
EXTENDS Naturals, FiniteSets

CONSTANTS
    Setting,            \* the uses and configurations, of AllSettings
    Address,            \* email addresses or phone numbers
    Worker,             \* who serves the session: as many requests overlap
    NoProcess,          \* the session holds no process
    MaxResends,         \* ACCOUNT_..._SUPPORTS_RESEND
    MaxChanges,         \* ACCOUNT_..._SUPPORTS_CHANGE
    MaxCodes,           \* bound: codes generated
    MaxStarts           \* bound: processes started

AllFlows == {"login_mail", "login_sms", "email", "phone", "change_phone", "reset"}

(* Which use it is; ACCOUNT_..._MAX_ATTEMPTS and _TIMEOUT; whether the     *)
(* JSON API drives it and not the pages; SESSION_SAVE_EVERY_REQUEST; and   *)
(* whether requests of the session overlap.                                *)
AllSettings ==
    [flow : AllFlows, attempts : Nat, timeout : Nat,
     headless : BOOLEAN, saves : BOOLEAN, overlap : BOOLEAN]

PhoneFlows == {"phone", "change_phone"}

ASSUME SettingAssumption == Setting \subseteq AllSettings

ASSUME BoundAssumption ==
    {MaxResends, MaxChanges, MaxCodes, MaxStarts} \subseteq Nat

VARIABLES
    setting,
    stored,     \* the process in the stored session
    busy,       \* the requests that loaded the session and have not answered
    copy,       \* what they loaded
    now,
    codes,      \* how many codes were generated
    starts,     \* how many processes were started
    sent,       \* history variable: the codes that were sent, with the address
    last,       \* history variable: the last of them
    wrong,      \* history variable: invalid attempts at the latest process
    accepted,   \* history variable: the codes that were accepted, with address
    refused     \* history variable: those whose login was stopped then

vars == <<setting, stored, busy, copy, now, codes, starts, sent, last, wrong,
          accepted, refused>>

flow == setting.flow
MaxAttempts == setting.attempts

(* Bound: an attempt more than there may be is enough to see it. *)
MaxWrong == MaxAttempts + 1

(* Bound on the clock: a process expires, and the next one too. *)
MaxTime == 2 * setting.timeout

Message == [code : 1..MaxCodes, addr : Address]

Process ==
    [id : 1..MaxStarts, code : 0..MaxCodes, addr : Address, at : 0..MaxTime,
     failed : 0..MaxWrong, resends : 0..MaxResends,
     changes : 0..MaxChanges, user : BOOLEAN, exists : BOOLEAN,
     confirmed : BOOLEAN]

TypeOK ==
    /\ setting \in Setting
    /\ stored \in Process \cup {NoProcess}
    /\ busy \subseteq Worker
    /\ copy \in [Worker -> Process \cup {NoProcess}]
    /\ now \in 0..MaxTime
    /\ codes \in 0..MaxCodes
    /\ starts \in 0..MaxStarts
    /\ sent \subseteq Message
    /\ last \in Message \cup {NoProcess}
    /\ wrong \in 0..MaxWrong
    /\ accepted \subseteq Message
    /\ refused \subseteq 1..MaxCodes

Init ==
    /\ setting \in Setting
    /\ stored = NoProcess
    /\ busy = {}
    /\ copy = [w \in Worker |-> NoProcess]
    /\ now = 0
    /\ codes = 0
    /\ starts = 0
    /\ sent = {}
    /\ last = NoProcess
    /\ wrong = 0
    /\ accepted = {}
    /\ refused = {}

----------------------------------------------------------------------------

(* An account takes part, and the address is not somebody else's: without  *)
(* one, a process only pretends, so that it does not tell who has one.     *)
Real(c) == c.user /\ ~c.exists

Valid(c) == now - c.at <= setting.timeout

(* compare_user_code(): no code, 0, matches nothing. *)
CanMatch(c) == c.code # 0 /\ \E m \in sent : m.code = c.code

(* Mutant: the attempts are compared before this one is counted. *)
LateAttempts(c) == c.failed >= MaxAttempts

OutOfAttempts(c) == c.failed + 1 >= MaxAttempts

(* Mutant: a new code is sent, the one that was stored stays. *)
ResentStale(c, code) == [c EXCEPT !.resends = @ + 1]

Resent(c, code) == [c EXCEPT !.code = code, !.resends = @ + 1]

Changed(c, addr, exists) ==
    [c EXCEPT !.addr = addr, !.exists = exists, !.changes = @ + 1]

(* Mutant: the process stays in the session when its code was accepted. *)
FinishedKept(c) == c

(* A password reset keeps its process until the new password is there. *)
Finished(c) == IF flow = "reset" THEN [c EXCEPT !.confirmed = TRUE]
                                 ELSE NoProcess

(* Whether running out of attempts or time ends the process: abort() of a  *)
(* PhoneVerificationStageProcess does nothing, and only the pages end its  *)
(* stage themselves.                                                       *)
AbortEnds == flow # "phone" \/ ~setting.headless

(* A rate limited send() raises RateLimited for a phone number; for an     *)
(* email address it answers with status 429.                               *)
LimitRaises == flow \in PhoneFlows

(* The session after an answer that edited its copy into c. *)
Saved(c) == stored' = c

NotModified(c) == stored' = IF setting.saves THEN c ELSE stored

(* Mutant: the process is persisted before its message is sent. *)
PersistedFirst(c) == stored' = c

(* A server error: the session is not saved. *)
ServerError(c) == UNCHANGED stored

Send(c, code) ==
    IF Real(c) THEN /\ sent' = sent \cup {[code |-> code, addr |-> c.addr]}
                    /\ last' = [code |-> code, addr |-> c.addr]
               ELSE UNCHANGED <<sent, last>>

----------------------------------------------------------------------------

(* A request can come. *)
Free ==
    IF setting.overlap THEN busy # Worker ELSE busy = {}

(* initiate(): a code is requested, a phone number is to be changed, a     *)
(* login needs a verified address...  A process that is there is replaced. *)
(* Only email addresses get a code when no account takes part.  Where the  *)
(* message is limited, nothing is stored.                                  *)
Start(addr, user) ==
    LET code == IF user \/ flow = "email" THEN codes + 1 ELSE 0
        c == [id |-> starts + 1, code |-> code, addr |-> addr, at |-> now,
              failed |-> 0, resends |-> 0, changes |-> 0,
              user |-> user, exists |-> FALSE, confirmed |-> FALSE]
    IN  /\ Free
        /\ starts < MaxStarts /\ codes < MaxCodes
        /\ flow = "change_phone" => user
        /\ starts' = starts + 1
        /\ codes' = codes + 1
        /\ wrong' = 0
        /\ Saved(c)
        /\ Send(c, code)
        /\ UNCHANGED <<setting, busy, copy, now, accepted, refused>>

(* A request loads the session and finds a process. *)
Load(w) ==
    /\ Free /\ w \notin busy
    /\ stored # NoProcess
    /\ busy' = busy \cup {w}
    /\ copy' = [copy EXCEPT ![w] = stored]
    /\ UNCHANGED <<setting, stored, now, codes, starts, sent, last, wrong,
                   accepted, refused>>

Answer(w) ==
    /\ w \in busy
    /\ busy' = busy \ {w}
    /\ copy' = [copy EXCEPT ![w] = NoProcess]
    /\ UNCHANGED <<setting, now, starts>>

(* resume() finds that the code has expired. *)
Expire(w) ==
    LET c == copy[w]
    IN  /\ Answer(w)
        /\ ~Valid(c)
        /\ IF AbortEnds THEN Saved(NoProcess) ELSE NotModified(c)
        /\ UNCHANGED <<codes, sent, last, wrong, accepted, refused>>

(* The page is shown, or another form of it was not valid. *)
Show(w) ==
    /\ Answer(w)
    /\ Valid(copy[w])
    /\ NotModified(copy[w])
    /\ UNCHANGED <<codes, sent, last, wrong, accepted, refused>>

(* The code is not the right one, or its address was taken meanwhile:      *)
(* record_invalid_attempt().                                               *)
Reject(w) ==
    LET c == copy[w]
        counted == [c EXCEPT !.failed = @ + 1]
    IN  /\ Answer(w)
        /\ Valid(c)
        /\ ~c.confirmed
        /\ wrong < MaxWrong /\ c.failed < MaxWrong
        /\ wrong' = IF c.id = starts THEN wrong + 1 ELSE wrong
        /\ IF ~OutOfAttempts(c) THEN Saved(counted)
           ELSE IF AbortEnds THEN Saved(NoProcess)
           ELSE NotModified(counted)
        /\ UNCHANGED <<codes, sent, last, accepted, refused>>

(* The code is the right one: finish(), or confirm_code() of a reset. *)
Accept(w) ==
    LET c == copy[w]
    IN  /\ Answer(w)
        /\ Valid(c)
        /\ ~c.confirmed
        /\ CanMatch(c) /\ Real(c)
        /\ accepted' = accepted \cup {[code |-> c.code, addr |-> c.addr]}
        /\ refused' = refused \ {c.code}
        /\ Saved(Finished(c))
        /\ UNCHANGED <<codes, sent, last, wrong>>

(* The same, but the login that finish() starts or continues is stopped:   *)
(* its user is not active, or sending the next code is limited.  A login   *)
(* by code waits on as it was.  After a phone number it has moved on to    *)
(* the next stage, unless the session was not modified.                    *)
Refuse(w) ==
    LET c == copy[w]
    IN  /\ Answer(w)
        /\ Valid(c)
        /\ CanMatch(c) /\ Real(c)
        /\ accepted' = accepted \cup {[code |-> c.code, addr |-> c.addr]}
        /\ refused' = refused \cup {c.code}
        /\ \/ flow \in {"login_mail", "login_sms"} /\ Saved(c)
           \/ flow = "phone" /\ (Saved(NoProcess) \/ NotModified(NoProcess))
        /\ UNCHANGED <<codes, sent, last, wrong>>

(* CompletePasswordResetView: the new password ends a confirmed reset. *)
SetPassword(w) ==
    /\ Answer(w)
    /\ Valid(copy[w])
    /\ copy[w].confirmed
    /\ Saved(NoProcess)
    /\ UNCHANGED <<codes, sent, last, wrong, accepted, refused>>

CanResend(c) ==
    /\ flow \in {"login_mail", "login_sms", "email", "phone"}
    /\ c.resends < MaxResends

(* resend(): a new code, which is sent when an account takes part. *)
Resend(w) ==
    LET c == copy[w]
        code == IF flow = "phone" /\ ~c.user THEN 0 ELSE codes + 1
    IN  /\ Answer(w)
        /\ Valid(c)
        /\ CanResend(c)
        /\ codes < MaxCodes
        /\ ~(flow = "login_sms" /\ ~c.user)
        /\ codes' = codes + 1
        /\ Saved(Resent(c, code))
        /\ Send(c, codes + 1)
        /\ UNCHANGED <<wrong, accepted, refused>>

(* generate_code() asserts that there is a user to send an SMS to. *)
ResendAsserts(w) ==
    /\ Answer(w)
    /\ Valid(copy[w])
    /\ CanResend(copy[w])
    /\ flow = "login_sms" /\ ~copy[w].user
    /\ ServerError(copy[w])
    /\ UNCHANGED <<codes, sent, last, wrong, accepted, refused>>

(* resend() is rate limited.  An email process has its new code by then, a *)
(* phone process has counted the resend, and the message that the page     *)
(* shows about it may go to the session.                                   *)
ResendLimited(w) ==
    LET c == copy[w]
        again == [c EXCEPT !.resends = @ + 1]
    IN  /\ Answer(w)
        /\ Valid(c)
        /\ CanResend(c)
        /\ \/ /\ flow = "email"
              /\ codes < MaxCodes
              /\ codes' = codes + 1
              /\ NotModified([c EXCEPT !.code = codes + 1])
           \/ /\ flow = "phone"
              /\ \/ NotModified(again)
                 \/ ~setting.headless /\ Saved(again)
              /\ UNCHANGED codes
        /\ UNCHANGED <<sent, last, wrong, accepted, refused>>

(* change_to(): another address, which may be taken, for who is signing up *)
CanChange(w, addr) ==
    LET c == copy[w]
    IN  /\ Valid(c)
        /\ flow \in {"email", "phone"}
        /\ c.changes < MaxChanges
        /\ c.user
        /\ addr # c.addr
        /\ codes < MaxCodes

Change(w, addr, exists) ==
    LET c == [Changed(copy[w], addr, exists) EXCEPT !.code = codes + 1]
    IN  /\ Answer(w)
        /\ CanChange(w, addr)
        /\ codes' = codes + 1
        /\ Saved(c)
        /\ Send(c, c.code)
        /\ UNCHANGED <<wrong, accepted, refused>>

(* change_to() is rate limited: a phone number is changed by then and its  *)
(* code is not, and the exception, which nobody handles, is a server error. *)
ChangeLimited(w, addr, exists) ==
    LET c == Changed(copy[w], addr, exists)
    IN  /\ Answer(w)
        /\ CanChange(w, addr)
        /\ IF LimitRaises
             THEN ServerError(c) /\ UNCHANGED codes
             ELSE NotModified([c EXCEPT !.code = codes + 1]) /\ codes' = codes + 1
        /\ UNCHANGED <<sent, last, wrong, accepted, refused>>

(* The login that the process belongs to expires, or the session ends. *)
Leave ==
    /\ Free
    /\ stored # NoProcess
    /\ Saved(NoProcess)
    /\ UNCHANGED <<setting, busy, copy, now, codes, starts, sent, last, wrong,
                   accepted, refused>>

Tick ==
    /\ now < MaxTime
    /\ now' = now + 1
    /\ UNCHANGED <<setting, stored, busy, copy, codes, starts, sent, last, wrong,
                   accepted, refused>>

Next ==
    \/ Tick \/ Leave
    \/ \E addr \in Address, user \in BOOLEAN : Start(addr, user)
    \/ \E w \in Worker :
          \/ Load(w) \/ Expire(w) \/ Show(w) \/ Reject(w) \/ Accept(w)
          \/ Refuse(w) \/ SetPassword(w) \/ Resend(w) \/ ResendAsserts(w) \/ ResendLimited(w)
          \/ \E addr \in Address, exists \in BOOLEAN :
                Change(w, addr, exists) \/ ChangeLimited(w, addr, exists)

Spec == Init /\ [][Next]_vars

----------------------------------------------------------------------------

(* ATTEMPTS BOUNDED.  A process is given up after MaxAttempts invalid      *)
(* attempts, whatever is resent, changed or limited in between, unless     *)
(* requests overlap (docs/account/configuration.rst: "the maximum number of attempts the    *)
(* user has at inputting a valid code").                                   *)
AttemptsBounded == ~setting.overlap => wrong <= MaxAttempts

(* THE LAST MESSAGE WORKS.  The code that the session waits for is the one *)
(* in the last message sent, and its address is where that message went:   *)
(* a send that is limited does not make the code that was sent useless,    *)
(* unless requests overlap or every request saves the session.             *)
LastSentWorks ==
    ~setting.overlap /\ ~setting.saves /\ stored # NoProcess /\ Real(stored) =>
        last = [code |-> stored.code, addr |-> stored.addr]

(* ACCEPTED WAS SENT.  An address is only ever verified with a code that   *)
(* was sent to that address, whatever overlaps (change_to, finish).        *)
AcceptedWasSent == accepted \subseteq sent

(* ONCE ONLY.  A code that was accepted is not waited for any more, unless *)
(* the login that it was for was stopped, or requests overlap (finish).    *)
OnceOnly ==
    ~setting.overlap /\ stored # NoProcess /\ ~stored.confirmed =>
        \A m \in accepted : m.code = stored.code => m.code \in refused

=============================================================================
