-------------------------- MODULE Authenticators --------------------------
(***************************************************************************)
(* The second factors of one user, allauth/mfa: the rows of Authenticator  *)
(* (a TOTP secret, passkeys, recovery codes), the cache of used TOTP       *)
(* codes, and the requests that use, show, add, rename and remove them.    *)
(* A request is cut where its database statements or transactions end.     *)
(*                                                                         *)
(* Abstractions.  A row is its primary key, which is never used again.  A  *)
(* TOTP code is the counter that it was made from, and only the user's own *)
(* codes are entered: others match nothing.  Reauthentication and rate     *)
(* limits come before these steps.                                         *)
(***************************************************************************)
EXTENDS Integers, FiniteSets

CONSTANTS
    Worker,         \* who serves the user: as many requests overlap
    Code,           \* the recovery codes of a row, by their index
    NoCodes,        \* the user has no recovery codes
    NoRequest,      \* a worker is idle
    Apart,          \* the kinds of requests that are taken not to overlap
    Period,         \* MFA_TOTP_PERIOD
    Tolerance,      \* MFA_TOTP_TOLERANCE
    MaxRows,        \* bound: rows that are inserted
    MaxClock        \* bound on the clock

Kind == {"totp", "recovery", "view", "generate", "activate", "passkey",
         "remove", "rename"}

ASSUME SettingAssumption ==
    /\ Period \in Nat \ {0}
    /\ Tolerance \in Nat
    /\ {MaxRows, MaxClock} \subseteq Nat

ASSUME ApartAssumption == Apart \subseteq SUBSET Kind

VARIABLES
    totp,       \* the row of the TOTP secret, 0 if there is none
    passkeys,   \* the rows of the passkeys
    codes,      \* the row of the recovery codes
    used,       \* the cache: TOTP codes, and until when they are remembered
    request,    \* what each worker is doing
    clock,
    rows,       \* how many rows were inserted
    added,      \* history variable: the TOTP secrets and passkeys added
    removed,    \* history variable: those that a request was to remove
    accepted,   \* history variable: the codes that were accepted
    repeated    \* history variable: those that were accepted once more

tables == <<totp, passkeys, codes, rows>>
asked == <<added, removed>>
answers == <<accepted, repeated>>
mfaVars == <<tables, used, request, clock, asked, answers>>

Row == 1..MaxRows

(* What counters a code can have been made from, up to the bound. *)
Counter == (0 - Tolerance)..((MaxClock \div Period) + Tolerance)

Codes == [row : Row, used : SUBSET Code, viewed : BOOLEAN]

Request ==
    [kind : Kind, row : 0..MaxRows, code : Counter \cup Code,
     loaded : Codes \cup {NoCodes}, step : {"first", "others", "wipe"}]

ASSUME NoRequestAssumption == NoRequest \notin Request

MfaTypeOK ==
    /\ totp \in 0..rows
    /\ passkeys \subseteq 1..rows
    /\ codes \in Codes \cup {NoCodes}
    /\ used \subseteq [row : Row, code : Counter, until : 0..(MaxClock + Period)]
    /\ request \in [Worker -> Request \cup {NoRequest}]
    /\ clock \in 0..MaxClock
    /\ rows \in 0..MaxRows
    /\ added \subseteq Row /\ removed \subseteq Row
    /\ accepted \subseteq Row \X (Counter \cup Code)
    /\ repeated \subseteq accepted

MfaInit ==
    /\ totp = 0
    /\ passkeys = {}
    /\ codes = NoCodes
    /\ used = {}
    /\ request = [w \in Worker |-> NoRequest]
    /\ clock = 0
    /\ rows = 0
    /\ added = {} /\ removed = {}
    /\ accepted = {} /\ repeated = {}

----------------------------------------------------------------------------

Primary == passkeys \cup ({totp} \ {0})

(* yield_hotp_counters_from_time() *)
Counters(t) == ((t \div Period) - Tolerance)..((t \div Period) + Tolerance)

(* Mutant: the code is remembered for the tolerated periods only. *)
ToleratedUntil(t) == t + Period * Tolerance

UsedUntil(t) == t + Period

Remembered(r) ==
    \E m \in used : m.row = r.row /\ m.code = r.code /\ m.until > clock

(* A request of the kind begins, with what it has read from the database. *)
Begin(w, kind, row, code) ==
    /\ request[w] = NoRequest
    /\ \A v \in Worker :
          request[v] # NoRequest => {request[v].kind, kind} \notin Apart
    /\ request' = [request EXCEPT ![w] =
          [kind |-> kind, row |-> row, code |-> code, loaded |-> codes,
           step |-> "first"]]

Doing(w, kind) == request[w] # NoRequest /\ request[w].kind = kind

Done(w) == request' = [request EXCEPT ![w] = NoRequest]

Accept(row, code) ==
    /\ accepted' = accepted \cup {<<row, code>>}
    /\ repeated' = repeated \cup ({<<row, code>>} \cap accepted)

NewRow == rows + 1

Insert == rows < MaxRows /\ rows' = NewRow

NewCodes(row) == [row |-> row, used |-> {}, viewed |-> FALSE]

----------------------------------------------------------------------------

(* TOTP.validate_code(): the code is one of the present... *)
EnterTotp(w, code) ==
    /\ totp # 0
    /\ code \in Counters(clock)
    /\ Begin(w, "totp", totp, code)
    /\ UNCHANGED <<tables, used, clock, asked, answers>>

(* ... and cache.add() finds that it was not used yet. *)
MarkTotp(w) ==
    LET r == request[w]
    IN  /\ Doing(w, "totp")
        /\ Done(w)
        /\ IF Remembered(r)
             THEN UNCHANGED <<used, answers>>
             ELSE /\ Accept(r.row, r.code)
                  /\ used' = {m \in used : m.until > clock} \cup
                        {[row |-> r.row, code |-> r.code, until |-> UsedUntil(clock)]}
        /\ UNCHANGED <<tables, clock, asked>>

(* The authenticators are loaded to try the code with... *)
EnterRecoveryCode(w, code) ==
    /\ codes # NoCodes
    /\ Begin(w, "recovery", codes.row, code)
    /\ UNCHANGED <<tables, used, clock, asked, answers>>

(* Mutant: the row is not read again. *)
LoadedRow(w) == request[w].loaded

(* select_for_update() *)
LockedRow(w) == codes

(* ... and RecoveryCodes.validate_code() locks the row, which is there     *)
(* unless other codes were generated.                                      *)
ValidateRecoveryCode(w) ==
    LET r == request[w]
        locked == LockedRow(w)
    IN  /\ Doing(w, "recovery")
        /\ Done(w)
        /\ IF codes # NoCodes /\ codes.row = r.row /\ r.code \notin locked.used
             THEN /\ codes' = [locked EXCEPT !.used = @ \cup {r.code}]
                  /\ Accept(r.row, r.code)
             ELSE UNCHANGED <<codes, answers>>
        /\ UNCHANGED <<totp, passkeys, rows, used, clock, asked>>

(* view_recovery_codes(): the row is loaded... *)
LoadCodes(w) ==
    /\ codes # NoCodes
    /\ Begin(w, "view", codes.row, 0)
    /\ UNCHANGED <<tables, used, clock, asked, answers>>

Viewed(c) == [c EXCEPT !.viewed = TRUE]

(* ... and saved as it was loaded, but for having been viewed, unless it   *)
(* is gone.                                                                *)
ShowCodes(w) ==
    LET loaded == request[w].loaded
        there == codes # NoCodes /\ codes.row = loaded.row
    IN  /\ Doing(w, "view")
        /\ Done(w)
        /\ codes' = IF ~loaded.viewed /\ there THEN Viewed(loaded) ELSE codes
        /\ UNCHANGED <<totp, passkeys, rows, used, clock, asked, answers>>

(* Mutant: recovery codes on their own. *)
MayAlwaysGenerate == TRUE

(* can_generate_recovery_codes() *)
MayGenerate == Primary # {}

EnterGenerate(w) ==
    /\ MayGenerate
    /\ Begin(w, "generate", 0, 0)
    /\ UNCHANGED <<tables, used, clock, asked, answers>>

(* generate_recovery_codes() is one transaction; the API shows the codes   *)
(* that it made, which counts as the first view.                           *)
Generate(w, api) ==
    /\ Doing(w, "generate")
    /\ Done(w)
    /\ Insert
    /\ codes' = [NewCodes(rows') EXCEPT !.viewed = api]
    /\ UNCHANGED <<totp, passkeys, used, clock, asked, answers>>

EnterActivate(w) ==
    /\ totp = 0
    /\ Begin(w, "activate", 0, 0)
    /\ UNCHANGED <<tables, used, clock, asked, answers>>

(* activate_totp() is one transaction, which fails where there is a secret *)
(* by now.  It makes recovery codes where there are none.                  *)
Activate(w) ==
    /\ Doing(w, "activate")
    /\ Done(w)
    /\ IF totp # 0
         THEN UNCHANGED <<totp, rows, codes, added>>
         ELSE /\ rows + 1 < MaxRows
              /\ totp' = NewRow
              /\ added' = added \cup {NewRow}
              /\ rows' = IF codes = NoCodes THEN rows + 2 ELSE rows + 1
              /\ codes' = IF codes = NoCodes THEN NewCodes(rows + 2) ELSE codes
    /\ UNCHANGED <<passkeys, used, clock, removed, answers>>

(* add_authenticator(): the passkey first... *)
RegisterPasskey(w) ==
    /\ Insert
    /\ Begin(w, "passkey", rows', 0)
    /\ passkeys' = passkeys \cup {rows'}
    /\ added' = added \cup {rows'}
    /\ UNCHANGED <<totp, codes, used, clock, removed, answers>>

(* ... then auto_generate_recovery_codes(). *)
AddCodes(w) ==
    /\ Doing(w, "passkey")
    /\ Done(w)
    /\ IF codes = NoCodes THEN Insert /\ codes' = NewCodes(rows')
                          ELSE UNCHANGED <<rows, codes>>
    /\ UNCHANGED <<totp, passkeys, used, clock, asked, answers>>

(* A passkey's row is loaded... *)
EnterRename(w, row) ==
    /\ row \in passkeys
    /\ Begin(w, "rename", row, 0)
    /\ UNCHANGED <<tables, used, clock, asked, answers>>

(* ... and saved, which inserts it where it is gone. *)
Rename(w) ==
    /\ Doing(w, "rename")
    /\ Done(w)
    /\ passkeys' = passkeys \cup {request[w].row}
    /\ UNCHANGED <<totp, codes, rows, used, clock, asked, answers>>

EnterRemove(w, row) ==
    /\ row \in Primary
    /\ Begin(w, "remove", row, 0)
    /\ UNCHANGED <<tables, used, clock, asked, answers>>

Proceed(w, step) == request' = [request EXCEPT ![w].step = step]

(* delete_and_cleanup(): the row is deleted... *)
DeleteRow(w) ==
    LET row == request[w].row
    IN  /\ Doing(w, "remove") /\ request[w].step = "first"
        /\ Proceed(w, "others")
        /\ totp' = IF totp = row THEN 0 ELSE totp
        /\ passkeys' = passkeys \ {row}
        /\ removed' = removed \cup {row}
        /\ UNCHANGED <<codes, rows, used, clock, added, answers>>

(* Mutant: the row that goes is counted. *)
OneLeft == Cardinality(Primary) <= 1

NoneLeft == Primary = {}

(* ... delete_dangling_recovery_codes() looks for others... *)
LookForOthers(w) ==
    /\ Doing(w, "remove") /\ request[w].step = "others"
    /\ IF NoneLeft THEN Proceed(w, "wipe") ELSE Done(w)
    /\ UNCHANGED <<tables, used, clock, asked, answers>>

(* ... and where there were none it deletes all that the user has. *)
Wipe(w) ==
    /\ Doing(w, "remove") /\ request[w].step = "wipe"
    /\ Done(w)
    /\ totp' = 0
    /\ passkeys' = {}
    /\ codes' = NoCodes
    /\ UNCHANGED <<rows, used, clock, asked, answers>>

(* Bound: a TOTP code is looked up in the cache in the second in which it  *)
(* was found to be valid.                                                  *)
ClockTick ==
    /\ clock < MaxClock
    /\ \A w \in Worker : ~Doing(w, "totp")
    /\ clock' = clock + 1
    /\ UNCHANGED <<tables, used, request, asked, answers>>

MfaNext ==
    \/ ClockTick
    \/ \E w \in Worker :
          \/ \E code \in Counters(clock) : EnterTotp(w, code)
          \/ \E code \in Code : EnterRecoveryCode(w, code)
          \/ \E row \in Row : EnterRemove(w, row) \/ EnterRename(w, row)
          \/ \E api \in BOOLEAN : Generate(w, api)
          \/ MarkTotp(w) \/ ValidateRecoveryCode(w)
          \/ LoadCodes(w) \/ ShowCodes(w) \/ EnterGenerate(w)
          \/ EnterActivate(w) \/ Activate(w) \/ RegisterPasskey(w) \/ AddCodes(w)
          \/ Rename(w) \/ DeleteRow(w) \/ LookForOthers(w) \/ Wipe(w)

MfaSpec == MfaInit /\ [][MfaNext]_mfaVars

----------------------------------------------------------------------------

(* TOTP CODES ONCE.  A TOTP code is accepted once, however long it stays   *)
(* valid and whoever else enters it at that moment (_mark_code_used).      *)
TotpOnce == \A c \in repeated : c[1] \notin added

(* RECOVERY CODES ONCE.  A recovery code is accepted once, also by two     *)
(* requests at a time (validate_code).                                     *)
RecoveryCodeOnce == \A c \in repeated : c[1] \in added

(* AS ASKED.  The user has the secret and the passkeys that were added and *)
(* not removed: none goes with another one's, none comes back              *)
(* (delete_dangling_recovery_codes, rename_authenticator).                 *)
AsAsked == Primary = added \ removed

(* NO DANGLING CODES.  When all is done, recovery codes are there for      *)
(* something to recover (can_generate_recovery_codes,                      *)
(* delete_dangling_recovery_codes).                                        *)
NoDanglingCodes ==
    codes # NoCodes /\ (\A w \in Worker : request[w] = NoRequest) => Primary # {}

=============================================================================
