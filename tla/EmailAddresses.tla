-------------------------- MODULE EmailAddresses --------------------------
(***************************************************************************)
(* The email addresses of accounts: the rows of EmailAddress               *)
(* (account/models.py, managers.py), the copy of the primary address that  *)
(* the user row keeps, and the requests that add, remove, verify and       *)
(* change addresses (account/internal/flows/manage_email.py,               *)
(* email_verification.py, email_verification_by_code.py, EmailView).       *)
(*                                                                         *)
(* Nothing but add_new_email() runs in a transaction.  A request is cut    *)
(* after each statement that writes: a step makes one write, or one        *)
(* transaction, and the reads up to the next.                              *)
(*                                                                         *)
(* Abstractions.  Links and codes reach who has the address, and rate      *)
(* limits, attempts and timeouts are left to other modules: a row that is  *)
(* not verified can be at any time, by link, by code or by a login or a    *)
(* password reset that used it.  Addresses differ by more than their case. *)
(* A user has one request at a time: nothing in the code holds two of them *)
(* apart, and where they overlap all that is stated below may fail.        *)
(***************************************************************************)
EXTENDS Naturals, FiniteSetsExt, Sequences

CONSTANTS
    User, Email,
    Home,           \* the address each user starts with
    Mode,           \* the configurations, of AllModes
    Server,         \* who serves the requests
    None,           \* no address, no user
    MaxRows,        \* bound: the rows ever made, one for each user first
    MaxPosted,      \* bound: codes that have not been entered yet
    MaxCrashes      \* bound on workers that are killed

ASSUME HomeAssumption == Home \in [User -> Email]

ASSUME RowsAssumption == {MaxRows, MaxPosted, MaxCrashes} \subseteq Nat

(* CHANGE_EMAIL; EMAIL_VERIFICATION_BY_CODE_ENABLED; whether LOGIN_METHODS *)
(* is email alone; UNIQUE_EMAIL; PREVENT_ENUMERATION, and whether it is    *)
(* strict (and EMAIL_VERIFICATION not mandatory, which would come first);  *)
(* MAX_EMAIL_ADDRESSES (0: none); whether addresses are managed on the     *)
(* pages alone, not by the API.                                            *)
AllModes ==
    [pages : BOOLEAN, change : BOOLEAN, byCode : BOOLEAN, byEmail : BOOLEAN, unique : BOOLEAN,
     hide : BOOLEAN, strict : BOOLEAN, max : Nat]

ASSUME ModeAssumption == Mode \subseteq AllModes

VARIABLES
    mode,
    rows,       \* the table of addresses
    mail,       \* the address in each user's own row
    made,       \* how many rows were made for each user
    joined,     \* the users who have logged in
    posted,     \* the addresses that a code was sent to, for whom
    request,    \* what each worker has left to do, and for whom
    crashes,
    broken      \* history variable: users with a request that was killed
                \* or ended with an IntegrityError

addressVars == <<mode, rows, mail, made, joined, posted, request, crashes,
                 broken>>

Row == [id : 1..MaxRows, user : User, email : Email, verified : BOOLEAN,
        primary : BOOLEAN]

RowsOf(u) == {r \in rows : r.user = u}
Verified(u) == {r \in RowsOf(u) : r.verified}
Primary(u) == {r \in RowsOf(u) : r.primary}

(* Other rows than this one: Django goes by the primary key. *)
Others(row) == {r \in rows : <<r.user, r.id>> # <<row.user, row.id>>}
OthersOf(row) == {r \in Others(row) : r.user = row.user}

NewRow(u, e) ==
    [id |-> made[u] + 1, user |-> u, email |-> e, verified |-> FALSE,
     primary |-> FALSE]
MayMake(u) == MapThenSumSet(LAMBDA v : made[v], User) < MaxRows
Made(u) == made' = [made EXCEPT ![u] = @ + 1]

NoRequest == [user |-> None, todo |-> <<>>]

Idle(w) == request[w] = NoRequest
Busy(u) == \E w \in Server : ~Idle(w) /\ request[w].user = u


(* The kinds of user there are: one that an admin made has no row yet, and *)
(* one that just signed up has not logged in yet.                          *)
FirstRows(u, kind) ==
    IF kind = "admin" THEN {}
    ELSE {[id |-> 1, user |-> u, email |-> Home[u], primary |-> TRUE,
           verified |-> kind = "verified"]}

AddressInit ==
    /\ mode \in Mode
    /\ \E kind \in [User -> {"admin", "signup", "verified"}] :
         /\ rows = UNION {FirstRows(u, kind[u]) : u \in User}
         /\ joined = {u \in User : kind[u] # "signup"}
    /\ mail = Home
    /\ made = [u \in User |-> 1]
    /\ posted = {}
    /\ request = [w \in Server |-> NoRequest]
    /\ crashes = 0 /\ broken = {}

----------------------------------------------------------------------------

(* What a request has left to do: a sequence of steps. *)

Save(row) == [do |-> "save", row |-> row]
Create(row) == [do |-> "create", row |-> row]
Mail(e) == [do |-> "mail", to |-> e]
Clear(row) == [do |-> "clear", row |-> row]

(* The row to remove, and the user's address as the request has read it,   *)
(* or Unread.                                                              *)
Unread == {}
Delete(row, read) == [do |-> "delete", row |-> row, read |-> read]

(* The row that makes room for a new one, if there is any. *)
Replace(gone, row) == [do |-> "replace", gone |-> gone, row |-> row]

Begin(w, u, todo) ==
    /\ Idle(w)
    /\ request' = [request EXCEPT ![w] = [user |-> u, todo |-> todo]]
    /\ ~Busy(u)
    /\ UNCHANGED <<mode, rows, mail, crashes, broken>>

NextIs(w, do) == ~Idle(w) /\ Head(request[w].todo).do = do

Continue(w, todo) ==
    request' = [request EXCEPT ![w] =
                  IF todo = <<>> THEN NoRequest ELSE [@ EXCEPT !.todo = todo]]

Done(w) == Continue(w, Tail(request[w].todo))

(* IntegrityError: a server error, and what was written stays. *)
Collide(w) ==
    /\ request' = [request EXCEPT ![w] = NoRequest]
    /\ broken' = broken \cup {request[w].user}

(* The constraints of the table: user and email are unique together, and   *)
(* there is one primary address per user and one verified row per email.   *)
Fits(row, others) ==
    \A r \in others :
        /\ r.user = row.user => r.email # row.email
        /\ r.user = row.user => ~(r.primary /\ row.primary)
        /\ mode.unique /\ r.email = row.email => ~(r.verified /\ row.verified)

(* save() writes every field, and inserts a row that is gone. *)
SaveRow(w) ==
    /\ NextIs(w, "save")
    /\ LET row == Head(request[w].todo).row
       IN  IF Fits(row, Others(row))
             THEN /\ rows' = Others(row) \cup {row}
                  /\ Done(w)
                  /\ UNCHANGED broken
             ELSE Collide(w) /\ UNCHANGED rows
    /\ UNCHANGED <<mode, mail, made, joined, posted, crashes>>

SetMail(w) ==
    /\ NextIs(w, "mail")
    /\ mail' = [mail EXCEPT ![request[w].user] = Head(request[w].todo).to]
    /\ Done(w)
    /\ UNCHANGED <<mode, rows, made, joined, posted, crashes, broken>>

(* The address that takes the place of a removed one: a verified one first. *)
Alternatives(left) ==
    IF left = {} THEN {None}
    ELSE IF \E r \in left : r.verified THEN {r.email : r \in {x \in left : x.verified}}
    ELSE {r.email : r \in left}

(* The orders in which a request may go through some rows. *)
Orders(some) ==
    {order \in [1..Cardinality(some) -> some] :
        \A i, j \in DOMAIN order : i # j => order[i] # order[j]}

(* remove() *)
DeleteRow(w) ==
    /\ NextIs(w, "delete")
    /\ LET step == Head(request[w].todo)
           row == step.row
           known == IF step.read = Unread THEN mail[row.user] ELSE step.read
       IN  /\ rows' = Others(row)
           /\ IF known = row.email
                THEN \E e \in Alternatives(OthersOf(row)) :
                       Continue(w, <<Mail(e)>> \o Tail(request[w].todo))
                ELSE Done(w)
    /\ UNCHANGED <<mode, mail, made, joined, posted, crashes, broken>>

(* get_or_create() *)
CreateRow(w) ==
    /\ NextIs(w, "create")
    /\ LET row == Head(request[w].todo).row
       IN  rows' = IF \E r \in OthersOf(row) : r.email = row.email
                     THEN rows ELSE rows \cup {row}
    /\ Done(w)
    /\ UNCHANGED <<mode, mail, made, joined, posted, crashes, broken>>

(* The transaction of add_new_email(): one row makes room for another. *)
ReplaceRow(w) ==
    /\ NextIs(w, "replace")
    /\ LET row == Head(request[w].todo).row
           gone == Head(request[w].todo).gone
           left == {r \in rows : \A g \in gone : <<r.user, r.id>> # <<g.user, g.id>>}
           bare == \E g \in gone : mail[row.user] = g.email
       IN  IF Fits(row, left)
             THEN /\ rows' = left \cup {row}
                  /\ IF bare
                       THEN \E e \in Alternatives({r \in left : r.user = row.user}) :
                              mail' = [mail EXCEPT ![row.user] = e]
                       ELSE UNCHANGED mail
                  /\ Done(w)
                  /\ UNCHANGED broken
             ELSE Collide(w) /\ UNCHANGED <<rows, mail>>
    /\ UNCHANGED <<mode, made, joined, posted, crashes>>

(* CHANGE_EMAIL: the new address replaces the ones that there are by now. *)
ClearOthers(w) ==
    /\ NextIs(w, "clear")
    /\ \E order \in Orders(OthersOf(Head(request[w].todo).row)) :
         Continue(w, [i \in DOMAIN order |-> Delete(order[i], Unread)])
    /\ UNCHANGED <<mode, rows, mail, made, joined, posted, crashes,
                   broken>>

----------------------------------------------------------------------------

(* Adding an address *)

Users(e) == {r.user : r \in {x \in rows : x.email = e}} \cup {u \in User : mail[u] = e}

CanAddEmail(u) ==
    mode.change \/ mode.max = 0 \/ Cardinality(RowsOf(u)) < mode.max

(* clean_email() of AddEmailForm *)
MayAdd(u, e) ==
    /\ u \notin Users(e)
    /\ Users(e) # {} /\ mode.unique => mode.hide
    /\ CanAddEmail(u)

(* The pages see to it that the user's own address has a row. *)
Synced(u) == mail[u] = None \/ \E r \in RowsOf(u) : r.email = mail[u]

Sync(u) ==
    /\ u \in joined /\ ~Busy(u) /\ MayMake(u)
    /\ ~Synced(u)
    /\ rows' = rows \cup {NewRow(u, mail[u])}
    /\ Made(u)
    /\ UNCHANGED <<mode, mail, joined, posted, request, crashes, broken>>

(* Who may manage addresses: on the pages, once that is done. *)
MayManage(u) == u \in joined /\ (mode.pages => Synced(u))

CodeSent(u, e) ==
    /\ posted' = posted \cup {<<u, e>>}
    /\ Cardinality(posted') <= MaxPosted

(* A code is sent, and nothing stored. *)
AddByCode(u, e) ==
    /\ mode.byCode /\ MayManage(u)
    /\ MayAdd(u, e)
    /\ CodeSent(u, e)
    /\ ~Busy(u)
    /\ UNCHANGED <<mode, rows, mail, made, joined, request, crashes,
                   broken>>

(* add_email() *)
Add(w, u, e) ==
    /\ ~mode.byCode /\ ~mode.change /\ MayManage(u)
    /\ MayAdd(u, e) /\ MayMake(u)
    /\ Begin(w, u, <<Create(NewRow(u, e))>>)
    /\ Made(u)
    /\ UNCHANGED <<joined, posted>>

(* get_new(): the latest address that is not verified, if there is one. *)
GetNew(u) ==
    LET waiting == RowsOf(u) \ Verified(u)
    IN  {r \in waiting : \A s \in waiting : s.id <= r.id}

(* add_new_email() *)
AddNew(w, u, e) ==
    /\ ~mode.byCode /\ mode.change /\ MayManage(u)
    /\ MayAdd(u, e) /\ MayMake(u)
    /\ Begin(w, u, <<Replace(GetNew(u), NewRow(u, e))>>)
    /\ Made(u)
    /\ UNCHANGED <<joined, posted>>

(* change_to(): who is signing up corrects the address.  One that is taken  *)
(* is passed where enumeration is strictly prevented; elsewhere it is       *)
(* refused, or hidden and nothing is stored.                                *)
ChangeTo(w, u, e) ==
    /\ mode.byCode /\ u \notin joined
    /\ mail[u] # e
    /\ Users(e) # {} /\ mode.unique => mode.strict
    /\ MayMake(u)
    /\ Begin(w, u, <<Replace(GetNew(u), NewRow(u, e)), Mail(e)>>)
    /\ Made(u)
    /\ CodeSent(u, e)
    /\ UNCHANGED joined

----------------------------------------------------------------------------

(* Verifying an address *)

CanSetVerified(row) ==
    mode.unique => \A r \in Others(row) : ~(r.email = row.email /\ r.verified)

Demoted(u) ==
    IF Primary(u) = {} THEN <<>>
    ELSE <<Save([CHOOSE r \in Primary(u) : TRUE EXCEPT !.primary = FALSE])>>

(* Mutant: the user's own row keeps the old address. *)
PrimariedOnly(row) == Demoted(row.user) \o <<Save([row EXCEPT !.primary = TRUE])>>

(* set_as_primary() *)
Primaried(row) ==
    Demoted(row.user) \o <<Save([row EXCEPT !.primary = TRUE]), Mail(row.email)>>

(* verify_email() of a row that is not verified *)
Verify(w, row) ==
    LET u == row.user
        verified == [row EXCEPT !.verified = TRUE]
        first == [verified EXCEPT !.primary = TRUE]
    IN  /\ CanSetVerified(row)
        /\ Begin(w, u,
             CASE mode.change ->
                    Primaried(verified) \o <<Save(first), Clear(row)>>
               [] ~mode.change /\ Primary(u) = {} ->
                    Primaried(verified) \o <<Save(first)>>
               [] OTHER -> <<Save(verified)>>)
        /\ joined' = joined \cup {u}

Confirm(w, row) ==
    /\ ~row.verified
    /\ Verify(w, row)
    /\ UNCHANGED <<made, posted>>

(* finish(): an address without a row gets one. *)
EnterCode(w, u, e) ==
    /\ <<u, e>> \in posted
    /\ posted' = posted \ {<<u, e>>}
    /\ ~\E r \in RowsOf(u) : r.email = e
    /\ MayMake(u)
    /\ Verify(w, NewRow(u, e))
    /\ Made(u)

----------------------------------------------------------------------------

(* Managing addresses *)

(* Mutant: the last address may go. *)
MayDeleteLast(row) == row.primary => OthersOf(row) = {}

(* can_delete_email() *)
MayDelete(row) ==
    IF OthersOf(row) # {} THEN ~row.primary ELSE ~mode.byEmail

Remove(w, row) ==
    /\ MayManage(row.user)
    /\ MayDelete(row)
    /\ Begin(w, row.user, <<Delete(row, mail[row.user])>>)
    /\ UNCHANGED <<made, joined, posted>>

(* Mutant: any address may become the primary one. *)
AnyAsPrimary(row) == TRUE

CanMarkAsPrimary(row) == row.verified \/ Verified(row.user) = {}

MarkAsPrimary(w, row) ==
    /\ MayManage(row.user)
    /\ CanMarkAsPrimary(row)
    /\ Begin(w, row.user, Primaried(row))
    /\ UNCHANGED <<made, joined, posted>>

(* The user has logged in, with an address that need not be verified. *)
Join(u) ==
    /\ u \notin joined
    /\ joined' = joined \cup {u}
    /\ UNCHANGED <<mode, rows, mail, made, posted, request, crashes,
                   broken>>

Crash(w) ==
    /\ ~Idle(w) /\ crashes < MaxCrashes
    /\ crashes' = crashes + 1
    /\ Collide(w)
    /\ UNCHANGED <<mode, rows, mail, made, joined, posted>>

AddressNext ==
    \/ \E u \in User : Sync(u) \/ Join(u) \/ \E e \in Email : AddByCode(u, e)
    \/ \E w \in Server :
         \/ \E u \in User, e \in Email :
              Add(w, u, e) \/ AddNew(w, u, e) \/ ChangeTo(w, u, e) \/ EnterCode(w, u, e)
         \/ \E row \in rows :
              Confirm(w, row) \/ Remove(w, row) \/ MarkAsPrimary(w, row)
         \/ SaveRow(w) \/ SetMail(w) \/ DeleteRow(w) \/ CreateRow(w)
         \/ ReplaceRow(w) \/ ClearOthers(w) \/ Crash(w)

AddressSpec == AddressInit /\ [][AddressNext]_addressVars

----------------------------------------------------------------------------

AddressTypeOK ==
    /\ mode \in Mode
    /\ rows \subseteq Row
    /\ \A r, s \in rows : <<r.user, r.id>> = <<s.user, s.id>> => r = s
    /\ \A r \in rows : Fits(r, Others(r))
    /\ mail \in [User -> Email \cup {None}]
    /\ made \in [User -> 1..MaxRows]
    /\ joined \subseteq User /\ broken \subseteq User
    /\ posted \subseteq User \X Email
    /\ \A w \in Server : ~Idle(w) =>
         request[w].user \in User /\ request[w].todo # <<>>
    /\ crashes \in 0..MaxCrashes

(* Between requests, of users whose requests never broke.                  *)
Calm(u) == u \notin broken /\ ~Busy(u)

(* MAIL IS PRIMARY.  The user's own row has the primary address, if there  *)
(* is one (set_as_primary, remove).                                        *)
MailIsPrimary ==
    \A u \in User : Calm(u) => \A r \in Primary(u) : mail[u] = r.email

(* THE LAST ADDRESS STAYS.  Who logs in by email is never left without an  *)
(* address (can_delete_email, add_new_email, verify_email).                *)
LastAddressStays ==
    [][\A u \in User :
        mode.byEmail /\ RowsOf(u) # {} =>
            RowsOf(u)' # {}]_addressVars

(* PRIMARY IS WORTHY.  No address that is not verified becomes the primary *)
(* one of a user who has a verified one (can_mark_as_primary).             *)
PrimaryWorthy ==
    [][\A u \in User :
        \A r \in Primary(u)' \ Primary(u) : r.verified \/ Verified(u) = {}]_addressVars

=============================================================================
