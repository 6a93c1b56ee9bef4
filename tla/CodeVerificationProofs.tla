----------------------- MODULE CodeVerificationProofs -----------------------
(***************************************************************************)
(* For all configurations, addresses, workers and bounds: an accepted code *)
(* was sent to the address that it verifies; and, if the requests of a     *)
(* session do not overlap, attempts are bounded, the last message works,   *)
(* and a code works once.  What an address goes through once it is         *)
(* verified is in the second part, Managed: the user's own row agrees with *)
(* the primary address, the last address stays, and no unverified address  *)
(* becomes the primary one of who has a verified one.                      *)
(***************************************************************************)
EXTENDS CodeVerification, EmailAddresses, SequenceTheorems, FiniteSetTheorems, TLAPS

(* What a process that is edited becomes *)

Proc(id, code, addr, at, failed, resends, changes, user, exists, confirmed) ==
    [id |-> id, code |-> code, addr |-> addr, at |-> at, failed |-> failed,
     resends |-> resends, changes |-> changes, user |-> user, exists |-> exists,
     confirmed |-> confirmed]

IsProc(c) ==
    c = Proc(c.id, c.code, c.addr, c.at, c.failed, c.resends, c.changes, c.user,
             c.exists, c.confirmed)

(* A process with these fields, whatever it has in the others *)
Has(c, id, code, addr, failed, user, exists, confirmed) ==
    /\ IsProc(c)
    /\ c.id = id /\ c.code = code /\ c.addr = addr /\ c.failed = failed
    /\ c.user = user /\ c.exists = exists /\ c.confirmed = confirmed

LEMMA ProcHas ==
    ASSUME NEW id, NEW code, NEW addr, NEW at, NEW failed, NEW resends, NEW changes,
           NEW user, NEW exists, NEW confirmed, NEW c,
           c = Proc(id, code, addr, at, failed, resends, changes, user, exists,
                    confirmed)
    PROVE  Has(c, id, code, addr, failed, user, exists, confirmed)
BY DEF Proc, IsProc, Has

LEMMA CodeEdited ==
    ASSUME NEW c, IsProc(c), NEW x
    PROVE  Has([c EXCEPT !.code = x],
               c.id, x, c.addr, c.failed, c.user, c.exists, c.confirmed)
<1>1. [c EXCEPT !.code = x] = Proc(c.id, x, c.addr, c.at, c.failed,
         c.resends, c.changes, c.user, c.exists, c.confirmed)
  BY DEF IsProc, Proc
<1>. QED
  BY <1>1, ProcHas

LEMMA AddrEdited ==
    ASSUME NEW c, IsProc(c), NEW x
    PROVE  Has([c EXCEPT !.addr = x],
               c.id, c.code, x, c.failed, c.user, c.exists, c.confirmed)
<1>1. [c EXCEPT !.addr = x] = Proc(c.id, c.code, x, c.at, c.failed,
         c.resends, c.changes, c.user, c.exists, c.confirmed)
  BY DEF IsProc, Proc
<1>. QED
  BY <1>1, ProcHas

LEMMA FailedEdited ==
    ASSUME NEW c, IsProc(c), NEW x
    PROVE  Has([c EXCEPT !.failed = x],
               c.id, c.code, c.addr, x, c.user, c.exists, c.confirmed)
<1>1. [c EXCEPT !.failed = x] = Proc(c.id, c.code, c.addr, c.at, x,
         c.resends, c.changes, c.user, c.exists, c.confirmed)
  BY DEF IsProc, Proc
<1>. QED
  BY <1>1, ProcHas

LEMMA ResendsEdited ==
    ASSUME NEW c, IsProc(c), NEW x
    PROVE  Has([c EXCEPT !.resends = x],
               c.id, c.code, c.addr, c.failed, c.user, c.exists, c.confirmed)
<1>1. [c EXCEPT !.resends = x] = Proc(c.id, c.code, c.addr, c.at, c.failed,
         x, c.changes, c.user, c.exists, c.confirmed)
  BY DEF IsProc, Proc
<1>. QED
  BY <1>1, ProcHas

LEMMA ChangesEdited ==
    ASSUME NEW c, IsProc(c), NEW x
    PROVE  Has([c EXCEPT !.changes = x],
               c.id, c.code, c.addr, c.failed, c.user, c.exists, c.confirmed)
<1>1. [c EXCEPT !.changes = x] = Proc(c.id, c.code, c.addr, c.at, c.failed,
         c.resends, x, c.user, c.exists, c.confirmed)
  BY DEF IsProc, Proc
<1>. QED
  BY <1>1, ProcHas

LEMMA ExistsEdited ==
    ASSUME NEW c, IsProc(c), NEW x
    PROVE  Has([c EXCEPT !.exists = x],
               c.id, c.code, c.addr, c.failed, c.user, x, c.confirmed)
<1>1. [c EXCEPT !.exists = x] = Proc(c.id, c.code, c.addr, c.at, c.failed,
         c.resends, c.changes, c.user, x, c.confirmed)
  BY DEF IsProc, Proc
<1>. QED
  BY <1>1, ProcHas

LEMMA ConfirmedEdited ==
    ASSUME NEW c, IsProc(c), NEW x
    PROVE  Has([c EXCEPT !.confirmed = x],
               c.id, c.code, c.addr, c.failed, c.user, c.exists, x)
<1>1. [c EXCEPT !.confirmed = x] = Proc(c.id, c.code, c.addr, c.at, c.failed,
         c.resends, c.changes, c.user, c.exists, x)
  BY DEF IsProc, Proc
<1>. QED
  BY <1>1, ProcHas

LEMMA ResentHas ==
    ASSUME NEW c, IsProc(c), NEW code
    PROVE  Has(Resent(c, code),
               c.id, code, c.addr, c.failed, c.user, c.exists, c.confirmed)
<1>. DEFINE d == [c EXCEPT !.code = code]
<1>1. Resent(c, code) = [d EXCEPT !.resends = d.resends + 1]
  BY DEF Resent
<1>2. Has(d, c.id, code, c.addr, c.failed, c.user, c.exists, c.confirmed)
  BY CodeEdited
<1>. HIDE DEF d
<1>. QED
  BY <1>1, <1>2, ResendsEdited DEF Has

LEMMA ChangedHas ==
    ASSUME NEW c, IsProc(c), NEW addr, NEW exists
    PROVE  Has(Changed(c, addr, exists),
               c.id, c.code, addr, c.failed, c.user, exists, c.confirmed)
<1>. DEFINE d == [c EXCEPT !.addr = addr]
            e == [d EXCEPT !.exists = exists]
<1>1. Has(d, c.id, c.code, addr, c.failed, c.user, c.exists, c.confirmed)
  BY AddrEdited
<1>2. Changed(c, addr, exists) = [e EXCEPT !.changes = e.changes + 1]
  BY DEF Changed
<1>. HIDE DEF d
<1>3. Has(e, c.id, c.code, addr, c.failed, c.user, exists, c.confirmed)
  BY <1>1, ExistsEdited DEF Has
<1>. HIDE DEF e
<1>. QED
  BY <1>2, <1>3, ChangesEdited DEF Has

----------------------------------------------------------------------------

(* What a request that loaded c makes of the session *)

Continues(c, failed) ==
    /\ IsProc(stored')
    /\ stored'.id = c.id /\ stored'.failed = failed
    /\ stored'.code = c.code /\ stored'.addr = c.addr
    /\ Real(c) <=> Real(stored')
    /\ c.confirmed => stored'.confirmed

Stays == stored' = stored \/ stored' = NoProcess

(* Nothing that anybody hears of *)
Plain(c) ==
    /\ UNCHANGED <<codes, sent, last, wrong, accepted, refused>>
    /\ Stays \/ Continues(c, c.failed)

(* A code that is not sent *)
Unsent(c) ==
    /\ codes' = codes + 1
    /\ UNCHANGED <<sent, last, wrong, accepted, refused>>
    /\ \/ stored' = stored
       \/ /\ setting.saves /\ IsProc(stored')
          /\ stored'.id = c.id /\ stored'.failed = c.failed
          /\ stored'.code = codes + 1

(* A code that is, if an account takes part *)
Delivers ==
    \/ ~Real(stored') /\ UNCHANGED <<sent, last>>
    \/ /\ stored'.code = codes + 1
       /\ last' = [code |-> codes + 1, addr |-> stored'.addr]
       /\ sent' = sent \cup {last'}

Renews ==
    /\ codes' = codes + 1
    /\ UNCHANGED <<accepted, refused>>
    /\ IsProc(stored') /\ stored'.code \in {0, codes + 1}
    /\ Delivers

Sends(c) ==
    /\ Renews /\ UNCHANGED wrong
    /\ stored'.id = c.id /\ stored'.failed = c.failed

LEMMA SavedContinues ==
    ASSUME NEW c, NEW d, NEW failed, NEW confirmed, stored' = d,
           Has(d, c.id, c.code, c.addr, failed, c.user, c.exists, confirmed),
           c.confirmed => confirmed
    PROVE  Continues(c, failed)
BY DEF Has, Continues, Real, IsProc

LEMMA SameContinues ==
    ASSUME NEW c, IsProc(c), stored' = c
    PROVE  Continues(c, c.failed)
BY DEF Continues, Real, IsProc

LEMMA PlainSteps ==
    ASSUME NEW w \in Worker, IsProc(copy[w]),
           Expire(w) \/ Show(w) \/ SetPassword(w) \/ ResendAsserts(w)
    PROVE  Plain(copy[w])
<1>1. CASE Expire(w)
  BY <1>1, SameContinues DEF Expire, Saved, NotModified, Plain, Stays
<1>2. CASE Show(w)
  BY <1>2, SameContinues DEF Show, NotModified, Plain, Stays
<1>3. CASE SetPassword(w) \/ ResendAsserts(w)
  BY <1>3 DEF SetPassword, ResendAsserts, Saved, ServerError, Plain, Stays
<1>. QED
  BY <1>1, <1>2, <1>3

LEMMA SendIs ==
    ASSUME NEW c, NEW code, Send(c, code)
    PROVE  \/ ~Real(c) /\ UNCHANGED <<sent, last>>
           \/ Real(c) /\ last' = [code |-> code, addr |-> c.addr]
                      /\ sent' = sent \cup {last'}
BY DEF Send

LEMMA ResendStep ==
    ASSUME NEW w \in Worker, IsProc(copy[w]), Resend(w)
    PROVE  Sends(copy[w])
<1>. DEFINE c == copy[w]
            code == IF flow = "phone" /\ ~c.user THEN 0 ELSE codes + 1
            d == Resent(c, code)
<1>1. /\ codes' = codes + 1 /\ stored' = d /\ Send(c, codes + 1)
      /\ UNCHANGED <<wrong, accepted, refused>>
  BY DEF Resend, Saved
<1>2. Has(d, c.id, code, c.addr, c.failed, c.user, c.exists, c.confirmed)
  BY ResentHas
<1>3. Real(c) => code = codes + 1
  BY DEF Real
<1>4. code \in {0, codes + 1}
  OBVIOUS
<1>. HIDE DEF c, code, d
<1>5. /\ Real(d) <=> Real(c)
      /\ d.addr = c.addr /\ d.code = code /\ IsProc(d)
      /\ d.id = c.id /\ d.failed = c.failed
  BY <1>2 DEF Has, Real
<1>6. Delivers
  BY <1>1, <1>3, <1>5, SendIs DEF Delivers, Real
<1>7. IsProc(stored')
  BY <1>1, <1>5 DEF IsProc
<1>. QED
  BY <1>1, <1>4, <1>5, <1>6, <1>7 DEF Sends, Renews, c

LEMMA ChangeStep ==
    ASSUME NEW w \in Worker, IsProc(copy[w]), NEW addr, NEW exists,
           Change(w, addr, exists)
    PROVE  Sends(copy[w])
<1>. DEFINE c == copy[w]
            e == Changed(c, addr, exists)
            d == [e EXCEPT !.code = codes + 1]
<1>1. /\ codes' = codes + 1 /\ stored' = d /\ Send(d, d.code)
      /\ UNCHANGED <<wrong, accepted, refused>>
  BY DEF Change, Saved
<1>2. Has(e, c.id, c.code, addr, c.failed, c.user, exists, c.confirmed)
  BY ChangedHas
<1>. HIDE DEF c, e
<1>3. Has(d, c.id, codes + 1, addr, c.failed, c.user, exists, c.confirmed)
  BY <1>2, CodeEdited DEF Has
<1>. HIDE DEF d
<1>4. Delivers
  BY <1>1, <1>3, SendIs DEF Delivers, Real, Has
<1>5. IsProc(stored')
  BY <1>1, <1>3 DEF IsProc, Has
<1>. QED
  BY <1>1, <1>3, <1>4, <1>5 DEF Sends, Renews, Has, c

LEMMA LimitedSteps ==
    ASSUME NEW w \in Worker, IsProc(copy[w]), NEW addr, NEW exists,
           ResendLimited(w) \/ ChangeLimited(w, addr, exists)
    PROVE  Plain(copy[w]) \/ Unsent(copy[w])
<1>. DEFINE c == copy[w]
            again == [c EXCEPT !.resends = @ + 1]
            other == [c EXCEPT !.code = codes + 1]
            e == Changed(c, addr, exists)
            d == [e EXCEPT !.code = codes + 1]
<1>1. CASE ResendLimited(w)
  <2>1. Has(again, c.id, c.code, c.addr, c.failed, c.user, c.exists, c.confirmed)
    BY ResendsEdited
  <2>2. Has(other, c.id, codes + 1, c.addr, c.failed, c.user, c.exists, c.confirmed)
    BY CodeEdited
  <2>3. /\ UNCHANGED <<sent, last, wrong, accepted, refused>>
        /\ \/ codes' = codes + 1 /\ NotModified(other)
           \/ UNCHANGED codes /\ (NotModified(again) \/ Saved(again))
    BY <1>1 DEF ResendLimited
  <2>. HIDE DEF c, again, other
  <2>4. CASE UNCHANGED codes /\ (NotModified(again) \/ Saved(again))
    BY <2>1, <2>3, <2>4, SavedContinues DEF NotModified, Saved, Plain, Stays, c
  <2>5. CASE codes' = codes + 1 /\ NotModified(other)
    <3>1. stored' = stored \/ (setting.saves /\ stored' = other)
      BY <2>5 DEF NotModified
    <3>2. stored' = other => IsProc(stored')
      BY <2>2 DEF Has, IsProc
    <3>. QED
      BY <2>2, <2>3, <2>5, <3>1, <3>2 DEF Has, Unsent, c
  <2>. QED
    BY <2>3, <2>4, <2>5
<1>2. CASE ChangeLimited(w, addr, exists)
  <2>1. Has(e, c.id, c.code, addr, c.failed, c.user, exists, c.confirmed)
    BY ChangedHas
  <2>2. /\ UNCHANGED <<sent, last, wrong, accepted, refused>>
        /\ \/ UNCHANGED <<stored, codes>>
           \/ codes' = codes + 1 /\ NotModified(d)
    BY <1>2 DEF ChangeLimited, ServerError
  <2>. HIDE DEF c, e
  <2>3. Has(d, c.id, codes + 1, addr, c.failed, c.user, exists, c.confirmed)
    BY <2>1, CodeEdited DEF Has
  <2>. HIDE DEF d
  <2>4. CASE UNCHANGED <<stored, codes>>
    BY <2>2, <2>4 DEF Plain, Stays
  <2>5. CASE codes' = codes + 1 /\ NotModified(d)
    <3>1. stored' = stored \/ (setting.saves /\ stored' = d)
      BY <2>5 DEF NotModified
    <3>2. stored' = d => IsProc(stored')
      BY <2>3 DEF Has, IsProc
    <3>. QED
      BY <2>2, <2>3, <2>5, <3>1, <3>2 DEF Has, Unsent, c
  <2>. QED
    BY <2>2, <2>4, <2>5
<1>. QED
  BY <1>1, <1>2

(* An invalid attempt *)
Tries(c) ==
    /\ UNCHANGED <<codes, sent, last, accepted, refused>>
    /\ wrong' = IF c.id = starts THEN wrong + 1 ELSE wrong
    /\ IF ~OutOfAttempts(c) THEN Continues(c, c.failed + 1)
       ELSE IF AbortEnds THEN stored' = NoProcess
       ELSE Stays \/ Continues(c, c.failed + 1)

(* A valid one *)
Wins(c) ==
    /\ UNCHANGED <<codes, sent, last, wrong>>
    /\ CanMatch(c)
    /\ accepted' = accepted \cup {[code |-> c.code, addr |-> c.addr]}
    /\ \/ /\ refused' = refused \ {c.code}
          /\ \/ stored' = NoProcess
             \/ Continues(c, c.failed) /\ stored'.confirmed
       \/ /\ refused' = refused \cup {c.code}
          /\ Stays \/ Continues(c, c.failed)

LEMMA RejectStep ==
    ASSUME NEW w \in Worker, IsProc(copy[w]), Reject(w)
    PROVE  Tries(copy[w])
<1>. DEFINE c == copy[w]
            counted == [c EXCEPT !.failed = @ + 1]
<1>1. /\ UNCHANGED <<codes, sent, last, accepted, refused>>
      /\ wrong' = IF c.id = starts THEN wrong + 1 ELSE wrong
      /\ IF ~OutOfAttempts(c) THEN stored' = counted
         ELSE IF AbortEnds THEN stored' = NoProcess
         ELSE stored' = counted \/ stored' = stored
  BY DEF Reject, Saved, NotModified
<1>2. Has(counted, c.id, c.code, c.addr, c.failed + 1, c.user, c.exists, c.confirmed)
  BY FailedEdited
<1>. HIDE DEF c, counted
<1>3. stored' = counted => Continues(c, c.failed + 1)
  BY <1>2, SavedContinues
<1>. QED
  BY <1>1, <1>3 DEF Tries, Stays, c

LEMMA AcceptStep ==
    ASSUME NEW w \in Worker, IsProc(copy[w]), Accept(w)
    PROVE  Wins(copy[w])
<1>. DEFINE c == copy[w]
            d == [c EXCEPT !.confirmed = TRUE]
<1>1. /\ UNCHANGED <<codes, sent, last, wrong>>
      /\ CanMatch(c)
      /\ accepted' = accepted \cup {[code |-> c.code, addr |-> c.addr]}
      /\ refused' = refused \ {c.code}
      /\ stored' = d \/ stored' = NoProcess
  BY DEF Accept, Saved, Finished
<1>2. Has(d, c.id, c.code, c.addr, c.failed, c.user, c.exists, TRUE)
  BY ConfirmedEdited
<1>. HIDE DEF c, d
<1>3. stored' = d => Continues(c, c.failed) /\ stored'.confirmed
  BY <1>2, SavedContinues DEF Has
<1>. QED
  BY <1>1, <1>3 DEF Wins, c

LEMMA RefuseStep ==
    ASSUME NEW w \in Worker, IsProc(copy[w]), Refuse(w)
    PROVE  Wins(copy[w])
BY SameContinues DEF Refuse, Saved, NotModified, Wins, Stays

StartStep ==
    /\ Renews
    /\ busy = {} \/ setting.overlap
    /\ wrong' = 0 /\ starts' = starts + 1
    /\ stored'.id = starts + 1 /\ stored'.failed = 0
    /\ UNCHANGED <<setting, busy, copy>>

LEMMA Starts ==
    ASSUME NEW addr, NEW user, Start(addr, user)
    PROVE  StartStep
<1>. DEFINE code == IF user \/ flow = "email" THEN codes + 1 ELSE 0
            c == [id |-> starts + 1, code |-> code, addr |-> addr, at |-> now,
                  failed |-> 0, resends |-> 0, changes |-> 0,
                  user |-> user, exists |-> FALSE, confirmed |-> FALSE]
<1>1. /\ codes' = codes + 1 /\ stored' = c /\ Send(c, code)
      /\ UNCHANGED <<accepted, refused, setting, busy, copy>>
      /\ wrong' = 0 /\ starts' = starts + 1
      /\ busy = {} \/ setting.overlap
  BY DEF Start, Saved, Free
<1>2. c = Proc(starts + 1, code, addr, now, 0, 0, 0, user, FALSE, FALSE)
  BY DEF Proc
<1>3. code \in {0, codes + 1} /\ (user => code = codes + 1)
  OBVIOUS
<1>. HIDE DEF c, code
<1>4. Has(c, starts + 1, code, addr, 0, user, FALSE, FALSE)
  BY <1>2, ProcHas
<1>5. Delivers
  BY <1>1, <1>3, <1>4, SendIs DEF Delivers, Real, Has
<1>6. IsProc(stored')
  BY <1>1, <1>4 DEF IsProc, Has
<1>. QED
  BY <1>1, <1>3, <1>4, <1>5, <1>6 DEF StartStep, Renews, Has

(* What every request that ends makes of the session that it loaded *)
Ends(w) ==
    /\ w \in busy
    /\ busy' = busy \ {w}
    /\ copy' = [copy EXCEPT ![w] = NoProcess]
    /\ UNCHANGED <<setting, starts>>
    /\ LET c == copy[w]
       IN  Plain(c) \/ Unsent(c) \/ Sends(c) \/ Tries(c) \/ Wins(c)

LeaveStep ==
    /\ busy = {} \/ setting.overlap
    /\ Stays
    /\ UNCHANGED <<setting, busy, copy, codes, starts, sent, last, wrong,
                   accepted, refused>>

LEMMA Steps ==
    ASSUME Next, \A w \in busy : IsProc(copy[w])
    PROVE  \/ StartStep \/ LeaveStep \/ (Tick /\ UNCHANGED stored)
           \/ \E w \in Worker : Load(w) \/ Ends(w)
<1>1. CASE Tick
  BY <1>1 DEF Tick
<1>2. CASE Leave
  BY <1>2 DEF Leave, LeaveStep, Saved, Stays, Free
<1>3. ASSUME NEW addr, NEW user, Start(addr, user) PROVE StartStep
  BY <1>3, Starts
<1>4. ASSUME NEW w \in Worker, NEW addr, NEW exists,
             \/ Expire(w) \/ Show(w) \/ Reject(w) \/ Accept(w) \/ Refuse(w)
             \/ SetPassword(w) \/ Resend(w) \/ ResendAsserts(w) \/ ResendLimited(w)
             \/ Change(w, addr, exists) \/ ChangeLimited(w, addr, exists)
      PROVE  Ends(w)
  <2>1. Answer(w)
    BY <1>4 DEF Expire, Show, Reject, Accept, Refuse, SetPassword, Resend,
       ResendAsserts, ResendLimited, Change, ChangeLimited
  <2>2. IsProc(copy[w])
    BY <2>1 DEF Answer
  <2>. QED
    BY <1>4, <2>1, <2>2, PlainSteps, LimitedSteps, ResendStep, ChangeStep,
       RejectStep, AcceptStep, RefuseStep DEF Answer, Ends
<1>. QED
  BY <1>1, <1>2, <1>3, <1>4 DEF Next

----------------------------------------------------------------------------

(* A process, whoever holds it: what was sent with its code went to its    *)
(* address.                                                                *)
BackedIn(c, n, messages) ==
    /\ IsProc(c) /\ c.code \in 0..n
    /\ \A m \in messages : m.code = c.code => m.addr = c.addr

Backed(c) == BackedIn(c, codes, sent)
BackedThen(c) == BackedIn(c, codes', sent')

Messages ==
    /\ codes \in Nat
    /\ \A m \in sent : /\ m.code \in 1..codes
                      /\ m = [code |-> m.code, addr |-> m.addr]

Copies ==
    /\ copy = [w \in Worker |-> copy[w]] /\ busy \subseteq Worker
    /\ stored # NoProcess => Backed(stored)
    /\ \A w \in busy : Backed(copy[w])

Sendings == Messages /\ Copies /\ AcceptedWasSent

(* The codes and the messages that there are go on, and a new one of each  *)
(* is like nothing before.                                                 *)
Grows ==
    \/ UNCHANGED <<codes, sent>>
    \/ /\ codes' = codes + 1
       /\ \/ sent' = sent
          \/ \E addr : sent' = sent \cup {[code |-> codes + 1, addr |-> addr]}

LEMMA GrowsFits ==
    ASSUME Messages, Grows, NEW c, Backed(c)
    PROVE  BackedThen(c)
<1>1. CASE UNCHANGED <<codes, sent>>
  BY <1>1 DEF Backed, BackedThen, BackedIn
<1>2. CASE codes' = codes + 1
  <2>1. c.code \in 0..codes' /\ c.code # codes + 1
    BY <1>2 DEF Messages, Backed, BackedIn
  <2>2. ASSUME NEW m \in sent', m.code = c.code PROVE m.addr = c.addr
    <3>1. CASE m \in sent
      BY <2>2, <3>1 DEF Backed, BackedIn
    <3>2. CASE m.code = codes + 1
      BY <2>1, <2>2, <3>2
    <3>. QED
      BY <2>2, <3>1, <3>2 DEF Grows
  <2>. QED
    BY <2>1, <2>2 DEF Backed, BackedThen, BackedIn
<1>. QED
  BY <1>1, <1>2 DEF Grows

LEMMA GrowsMessages ==
    ASSUME Messages, Grows
    PROVE  Messages'
<1>1. CASE UNCHANGED <<codes, sent>>
  BY <1>1 DEF Messages
<1>2. CASE codes' = codes + 1
  <2>1. codes' \in Nat
    BY <1>2 DEF Messages
  <2>2. ASSUME NEW m \in sent'
        PROVE  m.code \in 1..codes' /\ m = [code |-> m.code, addr |-> m.addr]
    <3>1. CASE m \in sent
      BY <1>2, <3>1 DEF Messages
    <3>2. ASSUME NEW addr, m = [code |-> codes + 1, addr |-> addr]
          PROVE  m.code \in 1..codes' /\ m = [code |-> m.code, addr |-> m.addr]
      BY <1>2, <3>2 DEF Messages
    <3>. QED
      BY <2>2, <3>1, <3>2 DEF Grows
  <2>. QED
    BY <2>1, <2>2 DEF Messages
<1>. QED
  BY <1>1, <1>2 DEF Grows

LEMMA DeliversGrows ==
    ASSUME Delivers, codes' = codes + 1
    PROVE  Grows
BY DEF Delivers, Grows

LEMMA RenewsFits ==
    ASSUME Messages, Renews
    PROVE  BackedThen(stored')
<1>1. CASE stored'.code = 0
  <2>1. \A m \in sent' : m.code # 0
    <3>1. Messages'
      BY DeliversGrows, GrowsMessages DEF Renews
    <3>. QED
      BY <3>1 DEF Messages
  <2>2. 0 \in 0..codes'
    BY DEF Renews, Messages
  <2>. QED
    BY <1>1, <2>1, <2>2 DEF Renews, BackedThen, BackedIn
<1>2. CASE stored'.code = codes + 1
  <2>1. codes + 1 \in 0..codes'
    BY DEF Renews, Messages
  <2>2. ASSUME NEW m \in sent', m.code = codes + 1 PROVE m.addr = stored'.addr
    <3>1. m \notin sent
      BY <2>2 DEF Messages
    <3>2. m = [code |-> codes + 1, addr |-> stored'.addr]
      BY <2>2, <3>1 DEF Renews, Delivers
    <3>. QED
      BY <3>2
  <2>. QED
    BY <1>2, <2>1, <2>2 DEF Renews, BackedThen, BackedIn
<1>. QED
  BY <1>1, <1>2 DEF Renews

LEMMA UnsentFits ==
    ASSUME Messages, NEW c, Unsent(c), stored' # stored
    PROVE  BackedThen(stored')
<1>1. codes + 1 \in 0..codes'
  BY DEF Unsent, Messages
<1>2. \A m \in sent' : m.code # codes + 1
  BY DEF Unsent, Messages
<1>. QED
  BY <1>1, <1>2 DEF Unsent, BackedThen, BackedIn

LEMMA ContinuesFits ==
    ASSUME UNCHANGED <<codes, sent>>, NEW c, NEW failed, Backed(c), Continues(c, failed)
    PROVE  BackedThen(stored')
BY DEF Continues, Backed, BackedThen, BackedIn

(* What is stored fits after a step, if what was did. *)
LEMMA StoredFits ==
    ASSUME Messages, Grows, stored # NoProcess => Backed(stored), Stays
    PROVE  (stored' # NoProcess => BackedThen(stored'))
BY GrowsFits DEF Stays

LEMMA EndsKeepsSendings ==
    ASSUME Sendings, NEW w \in Worker, Ends(w)
    PROVE  Sendings'
<1>. DEFINE c == copy[w]
<1>1. Backed(c) /\ Messages /\ (stored # NoProcess => Backed(stored))
  BY DEF Sendings, Copies, Ends
<1>2. Plain(c) \/ Unsent(c) \/ Sends(c) \/ Tries(c) \/ Wins(c)
  BY DEF Ends
<1>. HIDE DEF c
<1>3. Grows
  BY <1>2, DeliversGrows DEF Plain, Unsent, Sends, Renews, Tries, Wins, Grows
<1>4. Messages'
  BY <1>1, <1>3, GrowsMessages
<1>5. (stored' # NoProcess => BackedThen(stored'))
  <2>1. CASE Stays
    BY <1>1, <1>3, <2>1, StoredFits
  <2>2. ASSUME NEW failed, Continues(c, failed), UNCHANGED <<codes, sent>>
        PROVE  BackedThen(stored')
    BY <1>1, <2>2, ContinuesFits
  <2>3. CASE Plain(c) \/ Tries(c) \/ Wins(c)
    BY <2>1, <2>2, <2>3 DEF Plain, Tries, Wins, Stays
  <2>4. CASE Unsent(c)
    BY <1>1, <2>1, <2>4, UnsentFits DEF Stays
  <2>5. CASE Sends(c)
    BY <1>1, <2>5, RenewsFits DEF Sends
  <2>. QED
    BY <1>2, <2>3, <2>4, <2>5
<1>6. Copies'
  <2>1. /\ busy' \subseteq busy /\ copy' = [v \in Worker |-> copy'[v]]
        /\ \A v \in busy' : copy'[v] = copy[v]
    BY DEF Ends, Sendings, Copies
  <2>2. ASSUME NEW v \in busy' PROVE BackedThen(copy'[v])
    <3>1. Backed(copy[v])
      BY <2>1 DEF Sendings, Copies
    <3>2. \A x : Backed(x) => BackedThen(x)
      BY <1>1, <1>3, GrowsFits
    <3>. QED
      BY <2>1, <3>1, <3>2
  <2>. QED
    BY <1>5, <2>1, <2>2 DEF Copies, Sendings, Backed, BackedThen
<1>7. AcceptedWasSent'
  <2>1. sent \subseteq sent'
    BY <1>3 DEF Grows
  <2>2. CASE Wins(c)
    <3>1. [code |-> c.code, addr |-> c.addr] \in sent
      BY <1>1, <2>2 DEF Wins, CanMatch, Backed, BackedIn, Messages
    <3>. QED
      BY <2>1, <2>2, <3>1 DEF Wins, Sendings, AcceptedWasSent
  <2>3. CASE UNCHANGED accepted
    BY <2>1, <2>3 DEF Sendings, AcceptedWasSent
  <2>. QED
    BY <1>2, <2>2, <2>3 DEF Plain, Unsent, Sends, Renews, Tries
<1>. QED
  BY <1>4, <1>6, <1>7 DEF Sendings

LEMMA LoadKeepsSendings ==
    ASSUME Sendings, NEW w \in Worker, Load(w)
    PROVE  Sendings'
<1>1. /\ busy' = busy \cup {w} /\ copy' = [copy EXCEPT ![w] = stored]
      /\ UNCHANGED <<stored, codes, sent, accepted>> /\ stored # NoProcess
  BY DEF Load
<1>2. copy' = [v \in Worker |-> IF v = w THEN stored ELSE copy[v]]
  BY <1>1 DEF Sendings, Copies
<1>3. \A v \in busy' : Backed(copy'[v])
  BY <1>1, <1>2 DEF Sendings, Copies
<1>. QED
  BY <1>1, <1>2, <1>3
  DEF Sendings, Copies, Messages, AcceptedWasSent, Backed, BackedIn

LEMMA StepKeepsSendings ==
    ASSUME Sendings, [Next]_vars
    PROVE  Sendings'
<1>1. CASE UNCHANGED <<stored, busy, copy, codes, sent, accepted>>
  BY <1>1 DEF Sendings, Copies, Messages, AcceptedWasSent, Backed, BackedIn
<1>2. ASSUME Grows, UNCHANGED <<busy, copy, accepted>>,
             (stored' # NoProcess => BackedThen(stored'))
      PROVE  Sendings'
  <2>1. Messages'
    BY <1>2, GrowsMessages DEF Sendings
  <2>2. \A x : Backed(x) => BackedThen(x)
    BY <1>2, GrowsFits DEF Sendings
  <2>3. \A v \in busy : BackedThen(copy[v])
    BY <2>2 DEF Sendings, Copies
  <2>4. sent \subseteq sent'
    BY <1>2 DEF Grows
  <2>. QED
    BY <1>2, <2>1, <2>3, <2>4
    DEF Sendings, Copies, AcceptedWasSent, Backed, BackedThen
<1>3. CASE StartStep
  BY <1>2, <1>3, DeliversGrows, RenewsFits DEF StartStep, Renews, Sendings
<1>4. CASE LeaveStep
  <2>1. Grows
    BY <1>4 DEF LeaveStep, Grows
  <2>. QED
    BY <1>2, <1>4, <2>1, StoredFits DEF LeaveStep, Sendings, Copies
<1>5. \A w \in busy : IsProc(copy[w])
  BY DEF Sendings, Copies, Backed, BackedIn
<1>. QED
  BY <1>1, <1>3, <1>4, <1>5, Steps, EndsKeepsSendings, LoadKeepsSendings
  DEF vars, Tick

(* Whatever overlaps, expires, is changed or limited: what was accepted    *)
(* was sent to the address that it verifies.                               *)
THEOREM AcceptedWasSentHolds == Spec => []AcceptedWasSent
<1>1. Init => Sendings
  BY DEF Init, Sendings, Messages, Copies, AcceptedWasSent
<1>2. Sendings /\ [Next]_vars => Sendings'
  BY StepKeepsSendings
<1>3. Sendings => AcceptedWasSent
  BY DEF Sendings
<1>. QED
  BY <1>1, <1>2, <1>3, PTL DEF Spec

----------------------------------------------------------------------------

(* Requests that do not overlap: the one there is has what is stored. *)
Alone ==
    ~setting.overlap =>
        \A w \in busy : /\ busy = {w} /\ stored # NoProcess
                        /\ copy[w] = stored

LEMMA StepKeepsAlone ==
    ASSUME Sendings, Alone, [Next]_vars
    PROVE  Alone'
<1>1. CASE UNCHANGED vars
  BY <1>1 DEF vars, Alone
<1>2. CASE StartStep \/ LeaveStep
  BY <1>2 DEF StartStep, LeaveStep, Alone
<1>3. CASE Tick /\ UNCHANGED stored
  BY <1>3 DEF Tick, Alone
<1>4. ASSUME NEW w \in Worker, Load(w) PROVE Alone'
  <2>1. /\ busy' = busy \cup {w} /\ copy' = [copy EXCEPT ![w] = stored]
        /\ UNCHANGED <<setting, stored>> /\ stored # NoProcess
        /\ ~setting.overlap => busy = {}
    BY <1>4 DEF Load, Free
  <2>2. copy'[w] = stored
    BY <2>1 DEF Sendings, Copies
  <2>. QED
    BY <2>1, <2>2 DEF Alone
<1>5. ASSUME NEW w \in Worker, Ends(w) PROVE Alone'
  BY <1>5 DEF Ends, Alone
<1>6. \A w \in busy : IsProc(copy[w])
  BY DEF Sendings, Copies, Backed, BackedIn
<1>. QED
  BY <1>1, <1>2, <1>3, <1>4, <1>5, <1>6, Steps

LEMMA AloneHolds == Spec => [](Sendings /\ Alone)
<1>1. Init => Sendings /\ Alone
  BY DEF Init, Sendings, Messages, Copies, AcceptedWasSent, Alone
<1>2. Sendings /\ Alone /\ [Next]_vars => (Sendings /\ Alone)'
  BY StepKeepsSendings, StepKeepsAlone
<1>. QED
  BY <1>1, <1>2, PTL DEF Spec

(* A step of the only request: it ends what is stored, or another process  *)
(* starts, or nothing happens to it.                                       *)
LEMMA AloneSteps ==
    ASSUME Sendings, Alone, ~setting.overlap, [Next]_vars
    PROVE  \/ UNCHANGED <<setting, stored, codes, starts, sent, last, wrong, accepted,
                         refused>>
           \/ StartStep \/ LeaveStep
           \/ /\ stored # NoProcess /\ UNCHANGED <<setting, starts>>
              /\ \/ Plain(stored) \/ Unsent(stored) \/ Sends(stored)
                 \/ Tries(stored) \/ Wins(stored)
<1>1. ASSUME NEW w \in Worker, Ends(w)
      PROVE  /\ stored # NoProcess /\ UNCHANGED <<setting, starts>>
             /\ \/ Plain(stored) \/ Unsent(stored) \/ Sends(stored)
                \/ Tries(stored) \/ Wins(stored)
  <2>1. copy[w] = stored /\ stored # NoProcess
    BY <1>1 DEF Alone, Ends
  <2>. QED
    BY <1>1, <2>1 DEF Ends
<1>2. \A w \in busy : IsProc(copy[w])
  BY DEF Sendings, Copies, Backed, BackedIn
<1>. QED
  BY <1>1, <1>2, Steps DEF vars, Tick, Load

Counted ==
    /\ setting \in Setting
    /\ ~setting.overlap =>
         /\ wrong \in Nat /\ wrong <= MaxAttempts
         /\ stored # NoProcess =>
              stored.id = starts /\ stored.failed = wrong /\ wrong < MaxAttempts

(* Where running out of attempts ends the process: it does, whatever is    *)
(* resent, changed or limited in between.                                  *)
THEOREM AttemptsBoundedHolds ==
    ASSUME \A s \in Setting : s.attempts # 0 /\ (s.flow # "phone" \/ ~s.headless)
    PROVE  Spec => []AttemptsBounded
<1>1. Init => Counted
  BY SettingAssumption DEF Init, Counted, AllSettings, MaxAttempts
<1>2. Sendings /\ Alone /\ Counted /\ [Next]_vars => Counted'
  <2>. SUFFICES ASSUME Sendings, Alone, Counted, [Next]_vars PROVE Counted'
    OBVIOUS
  <2>1. /\ setting' = setting /\ setting \in Setting
        /\ MaxAttempts \in Nat \ {0} /\ AbortEnds
    <3>1. setting' = setting
      BY Steps DEF Sendings, Copies, Backed, BackedIn, StartStep, LeaveStep, Tick, Load,
         Ends, vars
    <3>2. setting \in Setting
      BY DEF Counted
    <3>. QED
      BY <3>1, <3>2, SettingAssumption DEF AllSettings, MaxAttempts, AbortEnds, flow
  <2>2. CASE setting.overlap
    BY <2>1, <2>2 DEF Counted
  <2>3. CASE ~setting.overlap
    <3>1. CASE UNCHANGED <<setting, stored, codes, starts, sent, last, wrong, accepted,
                           refused>>
      BY <3>1 DEF Counted, MaxAttempts
    <3>2. CASE StartStep
      BY <2>1, <3>2 DEF StartStep, Counted, MaxAttempts
    <3>3. CASE LeaveStep
      BY <2>1, <3>3 DEF LeaveStep, Stays, Counted, MaxAttempts
    <3>4. CASE /\ stored # NoProcess /\ UNCHANGED <<setting, starts>>
               /\ Plain(stored) \/ Unsent(stored) \/ Sends(stored) \/ Wins(stored)
      <4>1. /\ UNCHANGED wrong
            /\ \/ Stays
               \/ stored'.id = stored.id /\ stored'.failed = stored.failed
        BY <3>4 DEF Plain, Unsent, Sends, Wins, Continues, Stays
      <4>. QED
        BY <2>1, <2>3, <3>4, <4>1 DEF Counted, Stays, MaxAttempts
    <3>5. CASE /\ stored # NoProcess /\ UNCHANGED <<setting, starts>>
               /\ Tries(stored)
      <4>1. wrong' = wrong + 1 /\ wrong + 1 <= MaxAttempts
        BY <2>1, <2>3, <3>5 DEF Counted, Tries
      <4>2. CASE OutOfAttempts(stored)
        BY <2>1, <2>3, <3>5, <4>1, <4>2 DEF Counted, Tries, MaxAttempts
      <4>3. CASE ~OutOfAttempts(stored)
        <5>1. wrong + 1 < MaxAttempts
          BY <2>1, <2>3, <3>5, <4>3 DEF Counted, OutOfAttempts
        <5>2. stored'.id = starts' /\ stored'.failed = wrong'
          BY <2>3, <3>5, <4>1, <4>3 DEF Counted, Tries, Continues
        <5>. QED
          BY <2>1, <2>3, <4>1, <5>1, <5>2 DEF Counted, MaxAttempts
      <4>. QED
        BY <4>2, <4>3
    <3>. QED
      BY <2>3, <3>1, <3>2, <3>3, <3>4, <3>5, AloneSteps
  <2>. QED
    BY <2>2, <2>3
<1>3. Counted => AttemptsBounded
  BY DEF Counted, AttemptsBounded
<1>. QED
  BY <1>1, <1>2, <1>3, AloneHolds, PTL DEF Spec

(* The last message works, whatever was limited after it. *)
THEOREM LastSentWorksHolds == Spec => []LastSentWorks
<1>1. Init => LastSentWorks
  BY DEF Init, LastSentWorks
<1>2. Sendings /\ Alone /\ LastSentWorks /\ [Next]_vars => LastSentWorks'
  <2>. SUFFICES ASSUME Sendings, Alone, LastSentWorks, [Next]_vars,
                       ~setting'.overlap, ~setting'.saves, stored' # NoProcess,
                       Real(stored')
                PROVE  last' = [code |-> stored'.code, addr |-> stored'.addr]
    BY DEF LastSentWorks, Real
  <2>1. setting' = setting
    BY Steps DEF Sendings, Copies, Backed, BackedIn, StartStep, LeaveStep, Tick, Load,
       Ends, vars
  <2>2. CASE UNCHANGED <<stored, last>>
    BY <2>1, <2>2 DEF LastSentWorks
  <2>3. CASE Renews
    BY <2>3 DEF Renews, Delivers
  <2>4. ASSUME NEW failed, stored # NoProcess, Continues(stored, failed), UNCHANGED last
        PROVE  last' = [code |-> stored'.code, addr |-> stored'.addr]
    BY <2>1, <2>4 DEF LastSentWorks, Continues
  <2>. QED
    BY <2>1, <2>2, <2>3, <2>4, AloneSteps
    DEF StartStep, LeaveStep, Stays, Plain, Unsent, Sends, Tries, Wins
<1>. QED
  BY <1>1, <1>2, AloneHolds, PTL DEF Spec

(* A code works once, unless what it was for was stopped. *)
THEOREM OnceOnlyHolds == Spec => []OnceOnly
<1>1. Init => OnceOnly
  BY DEF Init, OnceOnly
<1>2. Sendings /\ Alone /\ OnceOnly /\ [Next]_vars => OnceOnly'
  <2>. SUFFICES ASSUME Sendings, Alone, OnceOnly, [Next]_vars,
                       ~setting'.overlap, stored' # NoProcess, ~stored'.confirmed,
                       NEW m \in accepted', m.code = stored'.code
                PROVE  m.code \in refused'
    BY DEF OnceOnly
  <2>1. setting' = setting
    BY Steps DEF Sendings, Copies, Backed, BackedIn, StartStep, LeaveStep, Tick, Load,
       Ends, vars
  <2>2. \A a \in accepted : a.code \in 1..codes
    BY DEF Sendings, AcceptedWasSent, Messages
  <2>3. CASE stored'.code \in {0, codes + 1} /\ UNCHANGED accepted
    BY <2>2, <2>3 DEF Sendings, Messages
  <2>4. CASE UNCHANGED <<stored, accepted, refused>>
    BY <2>1, <2>4 DEF OnceOnly
  <2>5. ASSUME NEW failed, stored # NoProcess, Continues(stored, failed),
               UNCHANGED <<accepted, refused>>
        PROVE  m.code \in refused'
    BY <2>1, <2>5 DEF OnceOnly, Continues
  <2>6. CASE stored # NoProcess /\ Wins(stored)
    <3>1. stored'.code = stored.code /\ (stored.confirmed => stored'.confirmed)
      BY <2>6 DEF Wins, Stays, Continues
    <3>2. refused' = refused \cup {stored.code}
      BY <2>6 DEF Wins
    <3>. QED
      BY <3>1, <3>2
  <2>. QED
    BY <2>1, <2>3, <2>4, <2>5, <2>6, AloneSteps
    DEF StartStep, LeaveStep, Stays, Renews, Plain, Unsent, Sends, Tries
<1>. QED
  BY <1>1, <1>2, AloneHolds, PTL DEF Spec

----------------------------------------------------------------------------

(* The addresses of an account.  The invariant says of each request what   *)
(* the steps that it has left will lead to, and of a user without a        *)
(* request that the rows are as they should be.                            *)

(* A row of u *)
IsRow(r, u) ==
    /\ {"id", "user", "email", "verified", "primary"} \subseteq DOMAIN r
    /\ r.user = u /\ r.id \in Nat
    /\ r.verified \in BOOLEAN /\ r.primary \in BOOLEAN

(* The rows of a user, for whom k were made, and who has logged in if j:   *)
(* until then there is one row at most, and it is not verified.            *)
Tidy(X, k, j, u) ==
    /\ k \in Nat
    /\ \A r \in X : IsRow(r, u) /\ r.id <= k
    /\ \A r, s \in X :
         r.id = s.id \/ r.email = s.email \/ (r.primary /\ s.primary) => r = s
    /\ ~j => \A r, s \in X : ~r.verified /\ r = s

(* The steps of a kind that are left, and those that make a row primary *)
Doing(t, do) == {x \in Range(t) : x.do = do}
Promotions(t) == {x \in Doing(t, "save") : x.row.primary}

(* Every step is about rows of u, of those that were made, and clear, that *)
(* plans anew, comes last.                                                 *)
Written(k, u, t) ==
    /\ t \in Seq(Range(t))
    /\ \A x \in Range(t) :
         /\ x.do \in {"save", "create", "replace", "mail", "delete", "clear"}
         /\ x.do \in {"save", "create", "replace"} => IsRow(x.row, u) /\ x.row.id <= k
         /\ x.do \in {"delete", "clear"} => x.row.user = u
    /\ \A i \in DOMAIN t : t[i].do = "clear" => i = Len(t)

(* A row that is to be made comes first, is nothing special yet, and only  *)
(* the user's own row is written after it.                                 *)
Fresh(X, j, u, t) ==
    \A x \in Doing(t, "create") \cup Doing(t, "replace") :
        /\ x = Head(t)
        /\ \A y \in Range(Tail(t)) : y.do = "mail"
        /\ ~x.row.primary /\ ~x.row.verified
        /\ \A r \in X : r.id # x.row.id
        /\ x.do = "replace" => \A g \in x.gone : g.user = u

(* Before the first login, a new row only takes the place of the old one. *)
Joining(X, j, t) ==
    ~j => \A x \in Range(t) :
            /\ x.do \in {"mail", "replace"}
            /\ x.do = "replace" => \A r \in X : \E g \in x.gone : g.id = r.id

(* Who logs in by email keeps a row that no step removes. *)
Leaving(X, S, t) ==
    Doing(t, "delete") # {} =>
        /\ \A x \in Range(t) : x.do \in {"delete", "mail"}
        /\ S.byEmail => \E r \in X : \A x \in Doing(t, "delete") : x.row.id # r.id

(* The row that clear keeps is there by then, and the primary one. *)
Keeping(X, t) ==
    \A x \in Doing(t, "clear") :
        /\ \A y \in Doing(t, "save") : y.row.id = x.row.id => y.row.email = x.row.email
        /\ \A p \in Promotions(t) : p.row.id = x.row.id
        /\ \/ Promotions(t) # {}
           \/ \E r \in X : r.id = x.row.id /\ r.email = x.row.email

(* What becomes primary is verified, or nothing is. *)
Worthy(X, t) ==
    \/ \A p \in Promotions(t) : p.row.verified
    \/ /\ \A r \in X : ~r.verified
       /\ \A x \in Doing(t, "save") : ~x.row.verified

(* The user's own row and the primary row end with e, if there is one: m   *)
(* is the address in the user's own row now.                               *)
EndsWith(X, m, e, t) ==
    /\ \A x \in Doing(t, "mail") : x.to = e
    /\ \A p \in Promotions(t) : p.row.email = e
    /\ \A x \in Doing(t, "clear") : x.row.email = e
    /\ Doing(t, "mail") = {} => m = e
    /\ \A r \in X : r.primary =>
         \/ r.email = e
         \/ Promotions(t) # {}
         \/ \E x \in Doing(t, "replace") : \E g \in x.gone : g.id = r.id
    /\ \A x \in Doing(t, "delete") :
         /\ \A y \in Range(t) : y.do = "delete"
         /\ x.read \in {Unread, m}
         /\ x.row.email = m =>
              /\ Tail(t) = <<>>
              /\ \A r \in X : r.primary => r.id = x.row.id
    /\ \A x \in Doing(t, "replace") :
         (\E g \in x.gone : g.email = m) =>
             \/ Doing(t, "mail") # {}
             \/ \A r \in X : r.primary => \E g \in x.gone : g.id = r.id

(* The steps t lead where they should, in one piece if ok. *)
Ready(X, S, m, k, j, ok, u, t) ==
    /\ Written(k, u, t)
    /\ Fresh(X, j, u, t)
    /\ Joining(X, j, t)
    /\ Leaving(X, S, t)
    /\ Keeping(X, t)
    /\ Worthy(X, t)
    /\ ok => \E e : EndsWith(X, m, e, t)

(* Where they should *)
Sound(X, m) == \A r \in X : r.primary => r.email = m

----------------------------------------------------------------------------

(* The steps of a sequence that is cut, or put together *)

LEMMA CutSteps ==
    ASSUME NEW t, t \in Seq(Range(t)), t # <<>>
    PROVE  /\ Tail(t) \in Seq(Range(Tail(t)))
           /\ Range(t) = {Head(t)} \cup Range(Tail(t))
           /\ Head(t) = t[1] /\ DOMAIN t = 1..Len(t)
           /\ Len(t) \in Nat /\ Len(t) >= 1
           /\ Len(Tail(t)) = Len(t) - 1
           /\ \A i \in DOMAIN Tail(t) : i + 1 \in DOMAIN t /\ Tail(t)[i] = t[i + 1]
           /\ Tail(t) = <<>> <=> Len(t) = 1
<1>. DEFINE S == Range(t)
            n == Len(t)
<1>1. /\ n \in Nat /\ n >= 1 /\ DOMAIN t = 1..n /\ Head(t) = t[1]
      /\ Tail(t) \in Seq(S) /\ Len(Tail(t)) = n - 1
      /\ \A i \in 1..(n - 1) : Tail(t)[i] = t[i + 1]
  <2>1. t \in Seq(S) /\ t # <<>>
    OBVIOUS
  <2>. HIDE DEF S
  <2>. QED
    BY <2>1, EmptySeq, HeadTailProperties, LenProperties
<1>2. DOMAIN Tail(t) = 1..(n - 1)
  BY <1>1, LenProperties
<1>3. Range(t) = {t[i] : i \in 1..n} /\ Range(Tail(t)) = {Tail(t)[i] : i \in 1..(n - 1)}
  BY <1>1, <1>2 DEF Range
<1>4. Range(t) = {Head(t)} \cup Range(Tail(t))
  <2>1. ASSUME NEW x \in Range(t) PROVE x \in {Head(t)} \cup Range(Tail(t))
    <3>1. PICK i \in 1..n : x = t[i]
      BY <1>3
    <3>2. CASE i = 1
      BY <1>1, <3>1, <3>2
    <3>3. CASE i # 1
      <4>1. i - 1 \in 1..(n - 1) /\ (i - 1) + 1 = i
        BY <1>1, <3>3
      <4>2. Tail(t)[i - 1] = x
        BY <1>1, <3>1, <4>1
      <4>. QED
        BY <1>3, <4>1, <4>2
    <3>. QED
      BY <3>2, <3>3
  <2>2. ASSUME NEW x \in Range(Tail(t)) PROVE x \in Range(t)
    <3>1. PICK i \in 1..(n - 1) : x = Tail(t)[i]
      BY <1>3, <2>2
    <3>2. i + 1 \in 1..n /\ x = t[i + 1]
      BY <1>1, <3>1
    <3>. QED
      BY <1>3, <3>2
  <2>3. Head(t) \in Range(t)
    <3>1. 1 \in 1..n
      BY <1>1
    <3>. QED
      BY <1>1, <1>3, <3>1
  <2>. QED
    BY <2>1, <2>2, <2>3
<1>5. Tail(t) \in Seq(Range(Tail(t)))
  BY <1>1, SeqOfRange
<1>6. Tail(t) = <<>> <=> Len(t) = 1
  BY <1>1, EmptySeq
<1>7. \A i \in DOMAIN Tail(t) : i + 1 \in DOMAIN t /\ Tail(t)[i] = t[i + 1]
  BY <1>1, <1>2
<1>. QED
  BY <1>1, <1>4, <1>5, <1>6, <1>7

LEMMA NoSteps ==
    <<>> \in Seq(Range(<<>>)) /\ Range(<<>>) = {} /\ DOMAIN <<>> = {}
<1>1. DOMAIN <<>> = {}
  OBVIOUS
<1>. QED
  BY <1>1, EmptySeq DEF Range

LEMMA OneStep ==
    ASSUME NEW x
    PROVE  /\ <<x>> \in Seq(Range(<<x>>)) /\ Range(<<x>>) = {x}
           /\ Head(<<x>>) = x /\ Tail(<<x>>) = <<>> /\ Len(<<x>>) = 1
           /\ <<x>>[1] = x
<1>1. <<x>> \in Seq({x}) /\ Len(<<x>>) = 1 /\ <<x>>[1] = x /\ DOMAIN <<x>> = {1}
  OBVIOUS
<1>2. Range(<<x>>) = {x}
  BY <1>1 DEF Range
<1>. QED
  BY <1>1, <1>2

LEMMA JoinedSteps ==
    ASSUME NEW s, s \in Seq(Range(s)), NEW t, t \in Seq(Range(t))
    PROVE  /\ s \o t \in Seq(Range(s \o t))
           /\ Range(s \o t) = Range(s) \cup Range(t)
           /\ Len(s) \in Nat /\ Len(t) \in Nat
           /\ Len(s \o t) = Len(s) + Len(t) /\ DOMAIN (s \o t) = 1..(Len(s) + Len(t))
           /\ \A i \in DOMAIN (s \o t) :
                (s \o t)[i] = IF i <= Len(s) THEN s[i] ELSE t[i - Len(s)]
<1>. DEFINE S == Range(s) \cup Range(t)
<1>1. s \in Seq(S) /\ t \in Seq(S)
  BY SeqMonotonic
<1>2. Range(s \o t) = Range(s) \cup Range(t)
  BY <1>1, RangeConcatenation
<1>3. s \o t \in Seq(S) /\ Len(s) \in Nat /\ Len(t) \in Nat
  BY <1>1, ConcatProperties, LenProperties
<1>4. s \o t \in Seq(Range(s \o t))
  BY <1>2, <1>3
<1>5. Len(s \o t) = Len(s) + Len(t) /\ DOMAIN (s \o t) = 1..(Len(s) + Len(t))
  BY <1>1, <1>3, ConcatProperties, LenProperties
<1>6. \A i \in DOMAIN (s \o t) : (s \o t)[i] = IF i <= Len(s) THEN s[i] ELSE t[i - Len(s)]
  BY <1>1, <1>5, ConcatProperties
<1>. QED
  BY <1>2, <1>3, <1>4, <1>5, <1>6

----------------------------------------------------------------------------

(* What goes on after a step, whatever the rows are then *)
LEMMA WrittenGoesOn ==
    ASSUME NEW k, NEW u, NEW t, Written(k, u, t), t # <<>>
    PROVE  /\ Written(k, u, Tail(t))
           /\ Head(t) \in Range(t) /\ Range(Tail(t)) \subseteq Range(t)
           /\ \A x \in Range(t) : x = Head(t) \/ x \in Range(Tail(t))
<1>1. /\ Tail(t) \in Seq(Range(Tail(t)))
      /\ Range(t) = {Head(t)} \cup Range(Tail(t))
      /\ Len(t) \in Nat /\ Len(Tail(t)) = Len(t) - 1
      /\ \A i \in DOMAIN Tail(t) : i + 1 \in DOMAIN t /\ Tail(t)[i] = t[i + 1]
      /\ DOMAIN Tail(t) \subseteq Nat
  <2>1. /\ Tail(t) \in Seq(Range(Tail(t)))
        /\ Range(t) = {Head(t)} \cup Range(Tail(t))
        /\ Len(t) \in Nat /\ Len(Tail(t)) = Len(t) - 1
        /\ \A i \in DOMAIN Tail(t) : i + 1 \in DOMAIN t /\ Tail(t)[i] = t[i + 1]
    BY CutSteps DEF Written
  <2>2. DOMAIN Tail(t) \subseteq Nat
    BY <2>1, LenProperties
  <2>. QED
    BY <2>1, <2>2
<1>2. \A i \in DOMAIN Tail(t) : Tail(t)[i].do = "clear" => i = Len(Tail(t))
  <2>1. SUFFICES ASSUME NEW i \in DOMAIN Tail(t), Tail(t)[i].do = "clear"
                 PROVE  i = Len(Tail(t))
    OBVIOUS
  <2>2. i + 1 \in DOMAIN t /\ t[i + 1].do = "clear" /\ i \in Nat
    BY <1>1, <2>1
  <2>3. i + 1 = Len(t)
    BY <2>2 DEF Written
  <2>4. Len(t) \in Nat /\ Len(Tail(t)) = Len(t) - 1
    BY <1>1
  <2>. QED
    BY <2>2, <2>3, <2>4
<1>3. \A x \in Range(Tail(t)) : x \in Range(t)
  BY <1>1
<1>4. Written(k, u, Tail(t))
  BY <1>1, <1>2, <1>3 DEF Written
<1>. QED
  BY <1>1, <1>4

LEMMA MakingIsFirst ==
    ASSUME NEW X, NEW k, NEW j, NEW u, NEW t, NEW Y,
           Written(k, u, t), Fresh(X, j, u, t), Joining(X, j, t), t # <<>>
    PROVE  Fresh(Y, j, u, Tail(t)) /\ Joining(Y, j, Tail(t))
<1>1. \A x \in Range(Tail(t)) : x.do # "create" /\ x.do # "replace"
  <2>1. SUFFICES ASSUME NEW x \in Range(Tail(t)), x.do \in {"create", "replace"}
                 PROVE  FALSE
    OBVIOUS
  <2>2. x \in Range(t)
    BY WrittenGoesOn
  <2>3. \A y \in Range(Tail(t)) : y.do = "mail"
    BY <2>1, <2>2 DEF Fresh, Doing
  <2>. QED
    BY <2>1, <2>3
<1>2. \A x \in Range(Tail(t)) : x \in Range(t)
  BY WrittenGoesOn
<1>. QED
  BY <1>1, <1>2 DEF Fresh, Joining, Doing

LEMMA MailDone ==
    ASSUME NEW X, NEW S, NEW m, NEW k, NEW j, NEW ok, NEW u, NEW t,
           Ready(X, S, m, k, j, ok, u, t), t # <<>>, Head(t).do = "mail"
    PROVE  Ready(X, S, Head(t).to, k, j, ok, u, Tail(t))
<1>. DEFINE h == Head(t)
            l == Tail(t)
<1>1. /\ Written(k, u, l) /\ Fresh(X, j, u, l) /\ Joining(X, j, l)
      /\ h \in Range(t) /\ Range(l) \subseteq Range(t)
      /\ \A x \in Range(t) : x = h \/ x \in Range(l)
  BY WrittenGoesOn, MakingIsFirst DEF Ready
<1>. HIDE DEF h, l
<1>2. h.do = "mail"
  BY DEF h
<1>3. \A do : do # "mail" => Doing(l, do) = Doing(t, do)
  BY <1>1, <1>2 DEF Doing
<1>4. Promotions(l) = Promotions(t)
  BY <1>3 DEF Promotions
<1>5. Leaving(X, S, l)
  BY <1>1, <1>3 DEF Ready, Leaving
<1>6. Keeping(X, l)
  BY <1>3, <1>4 DEF Ready, Keeping
<1>7. Worthy(X, l)
  BY <1>3, <1>4 DEF Ready, Worthy
<1>8. ASSUME ok PROVE \E e : EndsWith(X, h.to, e, l)
  <2>1. PICK e : EndsWith(X, m, e, t)
    BY <1>8 DEF Ready
  <2>2. e = h.to
    BY <1>1, <1>2, <2>1 DEF EndsWith, Doing
  <2>3. Doing(t, "delete") = {}
    BY <1>1, <1>2, <2>1 DEF EndsWith, Doing
  <2>4. Doing(l, "mail") \subseteq Doing(t, "mail")
    BY <1>1 DEF Doing
  <2>5. Doing(l, "replace") = {}
    <3>1. ASSUME NEW x \in Doing(l, "replace") PROVE FALSE
      <4>1. x \in Doing(t, "replace")
        BY <1>3, <3>1
      <4>2. x = Head(t)
        BY <4>1 DEF Ready, Fresh
      <4>. QED
        BY <1>2, <4>1, <4>2 DEF Doing, h
    <3>. QED
      BY <3>1
  <2>6. EndsWith(X, h.to, e, l)
    BY <1>3, <1>4, <2>1, <2>2, <2>3, <2>4, <2>5 DEF EndsWith
  <2>. QED
    BY <2>6
<1>. QED
  BY <1>1, <1>5, <1>6, <1>7, <1>8 DEF Ready, h, l

(* save() *)
Without(X, row) == {r \in X : r.id # row.id}

LEMMA SaveDone ==
    ASSUME NEW X, NEW S, NEW m, NEW k, NEW j, NEW ok, NEW u, NEW t,
           Tidy(X, k, j, u), Ready(X, S, m, k, j, ok, u, t), t # <<>>,
           Head(t).do = "save",
           NEW row, row = Head(t).row,
           \A r \in Without(X, row) :
               r.email # row.email /\ ~(r.primary /\ row.primary),
           NEW Y, Y = Without(X, row) \cup {row}
    PROVE  /\ Tidy(Y, k, j, u) /\ Ready(Y, S, m, k, j, ok, u, Tail(t))
           /\ row.user = u
           /\ row.primary => row.verified \/ \A r \in X : ~r.verified
<1>. DEFINE h == Head(t)
            l == Tail(t)
<1>1. /\ Written(k, u, l) /\ Fresh(Y, j, u, l) /\ Joining(Y, j, l)
      /\ h \in Range(t) /\ Range(l) \subseteq Range(t)
      /\ \A x \in Range(t) : x = h \/ x \in Range(l)
  BY WrittenGoesOn, MakingIsFirst DEF Ready
<1>2. h.do = "save" /\ h.row = row
  OBVIOUS
<1>3. IsRow(row, u) /\ row.id <= k
  BY <1>1, <1>2 DEF Ready, Written
<1>. HIDE DEF h, l
<1>4. \A do : do # "save" => Doing(l, do) = Doing(t, do)
  BY <1>1, <1>2 DEF Doing
<1>5. /\ h \in Doing(t, "save") /\ Doing(l, "save") \subseteq Doing(t, "save")
      /\ \A x \in Doing(t, "save") : x = h \/ x \in Doing(l, "save")
  BY <1>1, <1>2 DEF Doing
<1>6. /\ Promotions(l) \subseteq Promotions(t)
      /\ \A x \in Promotions(t) : x = h \/ x \in Promotions(l)
      /\ row.primary => h \in Promotions(t)
      /\ ~row.primary => Promotions(l) = Promotions(t)
  BY <1>2, <1>5 DEF Promotions
<1>7. j
  BY <1>1, <1>2 DEF Ready, Joining
<1>8. Tidy(Y, k, j, u)
  BY <1>3, <1>7 DEF Tidy, Without
<1>9. Doing(l, "delete") = {}
  BY <1>1, <1>2, <1>4 DEF Ready, Leaving, Doing
<1>10. Leaving(Y, S, l)
  BY <1>9 DEF Leaving
<1>11. Keeping(Y, l)
  <2>1. SUFFICES ASSUME NEW x \in Doing(l, "clear")
                 PROVE  /\ \A y \in Doing(l, "save") :
                             y.row.id = x.row.id => y.row.email = x.row.email
                        /\ \A p \in Promotions(l) : p.row.id = x.row.id
                        /\ \/ Promotions(l) # {}
                           \/ \E r \in Y : r.id = x.row.id /\ r.email = x.row.email
    BY DEF Keeping
  <2>2. x \in Doing(t, "clear")
    BY <1>4, <2>1
  <2>3. /\ \A y \in Doing(t, "save") : y.row.id = x.row.id => y.row.email = x.row.email
        /\ \A p \in Promotions(t) : p.row.id = x.row.id
        /\ \/ Promotions(t) # {}
           \/ \E r \in X : r.id = x.row.id /\ r.email = x.row.email
    BY <2>2 DEF Ready, Keeping
  <2>4. row.id = x.row.id => row.email = x.row.email
    BY <1>2, <1>5, <2>3
  <2>5. Promotions(l) # {} \/ \E r \in Y : r.id = x.row.id /\ r.email = x.row.email
    <3>1. CASE row.id = x.row.id
      BY <2>4, <3>1
    <3>2. CASE row.id # x.row.id
      <4>1. Promotions(t) # {} => Promotions(l) # {}
        BY <1>2, <1>6, <2>3, <3>2
      <4>2. \A r \in X : r.id = x.row.id => r \in Y
        BY <3>2 DEF Without
      <4>. QED
        BY <2>3, <4>1, <4>2
    <3>. QED
      BY <3>1, <3>2
  <2>. QED
    BY <1>5, <1>6, <2>3, <2>5
<1>12. \/ \A p \in Promotions(t) : p.row.verified
       \/ /\ \A r \in X : ~r.verified
          /\ \A x \in Doing(t, "save") : ~x.row.verified
  BY DEF Ready, Worthy
<1>13. Worthy(Y, l)
  BY <1>2, <1>5, <1>6, <1>12 DEF Worthy, Without
<1>14. row.primary => row.verified \/ \A r \in X : ~r.verified
  BY <1>2, <1>6, <1>12
<1>15. ASSUME ok PROVE \E e : EndsWith(Y, m, e, l)
  <2>1. PICK e : EndsWith(X, m, e, t)
    BY <1>15 DEF Ready
  <2>2. Doing(l, "replace") = {} /\ Doing(t, "replace") = {}
    <3>1. \A x \in Doing(t, "replace") : x = Head(t)
      BY DEF Ready, Fresh
    <3>. QED
      BY <1>2, <1>4, <3>1 DEF Doing, h
  <2>3. row.primary => row.email = e
    BY <1>2, <1>6, <2>1 DEF EndsWith
  <2>4. \A r \in Y : r.primary => r.email = e \/ Promotions(l) # {}
    <3>1. CASE row.primary
      BY <2>3, <3>1 DEF Without
    <3>2. CASE ~row.primary
      BY <1>6, <2>1, <2>2, <3>2 DEF EndsWith, Without
    <3>. QED
      BY <3>1, <3>2
  <2>5. EndsWith(Y, m, e, l)
    BY <1>4, <1>6, <1>9, <2>1, <2>2, <2>4 DEF EndsWith
  <2>. QED
    BY <2>5
<1>. QED
  BY <1>1, <1>3, <1>8, <1>10, <1>11, <1>13, <1>14, <1>15 DEF Ready, IsRow, l

(* get_or_create(), and the transaction of add_new_email() *)

LEMMA OnlyMail ==
    ASSUME NEW l, \A x \in Range(l) : x.do = "mail", NEW X, NEW S
    PROVE  /\ \A do : do # "mail" => Doing(l, do) = {}
           /\ Promotions(l) = {}
           /\ Leaving(X, S, l) /\ Keeping(X, l) /\ Worthy(X, l)
<1>1. \A do : do # "mail" => Doing(l, do) = {}
  BY DEF Doing
<1>2. Promotions(l) = {}
  BY <1>1 DEF Promotions
<1>. QED
  BY <1>1, <1>2 DEF Leaving, Keeping, Worthy

LEMMA MakingRest ==
    ASSUME NEW X, NEW S, NEW m, NEW k, NEW j, NEW ok, NEW u, NEW t,
           Ready(X, S, m, k, j, ok, u, t), t # <<>>,
           Head(t).do \in {"create", "replace"}
    PROVE  /\ \A x \in Range(Tail(t)) : x.do = "mail"
           /\ Doing(t, "mail") = Doing(Tail(t), "mail")
           /\ Promotions(t) = {} /\ Doing(t, "delete") = {}
           /\ \A x \in Doing(t, "replace") : x = Head(t)
           /\ Head(t).do = "replace" => Head(t) \in Doing(t, "replace")
           /\ IsRow(Head(t).row, u) /\ Head(t).row.id <= k
           /\ ~Head(t).row.primary /\ ~Head(t).row.verified
           /\ \A r \in X : r.id # Head(t).row.id
<1>1. Head(t) \in Range(t) /\ \A x \in Range(t) : x = Head(t) \/ x \in Range(Tail(t))
  BY WrittenGoesOn DEF Ready
<1>2. Range(Tail(t)) \subseteq Range(t)
  BY WrittenGoesOn DEF Ready
<1>3. Head(t) \in Doing(t, "create") \cup Doing(t, "replace")
  BY <1>1 DEF Doing
<1>4. \A x \in Range(Tail(t)) : x.do = "mail"
  BY <1>3 DEF Ready, Fresh
<1>5. \A x \in Range(t) : x = Head(t) \/ x.do = "mail"
  BY <1>1, <1>4
<1>6. Doing(t, "mail") = Doing(Tail(t), "mail")
  BY <1>1, <1>2 DEF Doing
<1>7. Promotions(t) = {} /\ Doing(t, "delete") = {}
  BY <1>5 DEF Promotions, Doing
<1>8. \A x \in Doing(t, "replace") : x = Head(t)
  BY <1>5 DEF Doing
<1>9. Head(t).do = "replace" => Head(t) \in Doing(t, "replace")
  BY <1>1 DEF Doing
<1>10. IsRow(Head(t).row, u) /\ Head(t).row.id <= k
  BY <1>1 DEF Ready, Written
<1>11. /\ ~Head(t).row.primary /\ ~Head(t).row.verified
       /\ \A r \in X : r.id # Head(t).row.id
  BY <1>3 DEF Ready, Fresh
<1>. QED
  BY <1>4, <1>6, <1>7, <1>8, <1>9, <1>10, <1>11

LEMMA CreateDone ==
    ASSUME NEW X, NEW S, NEW m, NEW k, NEW j, NEW ok, NEW u, NEW t,
           Tidy(X, k, j, u), Ready(X, S, m, k, j, ok, u, t), t # <<>>,
           Head(t).do = "create",
           NEW row, row = Head(t).row,
           NEW Y, Y = IF \E r \in Without(X, row) : r.email = row.email
                        THEN X ELSE X \cup {row}
    PROVE  /\ Tidy(Y, k, j, u) /\ Ready(Y, S, m, k, j, ok, u, Tail(t))
           /\ row.user = u /\ ~row.primary
<1>. DEFINE h == Head(t)
            l == Tail(t)
<1>1. /\ \A x \in Range(l) : x.do = "mail"
      /\ Doing(t, "mail") = Doing(l, "mail")
      /\ Promotions(t) = {}
      /\ \A x \in Doing(t, "replace") : x = h
      /\ IsRow(row, u) /\ row.id <= k
      /\ ~row.primary /\ ~row.verified
      /\ \A r \in X : r.id # row.id
  BY MakingRest
<1>2. /\ Written(k, u, l) /\ Fresh(Y, j, u, l) /\ Joining(Y, j, l)
      /\ h \in Range(t)
  BY WrittenGoesOn, MakingIsFirst DEF Ready
<1>3. j
  BY <1>2 DEF Ready, Joining
<1>4. /\ \A do : do # "mail" => Doing(l, do) = {}
      /\ Promotions(l) = {}
      /\ Leaving(Y, S, l) /\ Keeping(Y, l) /\ Worthy(Y, l)
  BY <1>1, OnlyMail
<1>5. h.do # "replace"
  OBVIOUS
<1>. HIDE DEF h, l
<1>6. Tidy(Y, k, j, u)
  BY <1>1, <1>3 DEF Tidy, Without
<1>7. ASSUME ok PROVE \E e : EndsWith(Y, m, e, l)
  <2>1. PICK e : EndsWith(X, m, e, t)
    BY <1>7 DEF Ready
  <2>2. Doing(t, "replace") = {}
    BY <1>1, <1>5 DEF Doing
  <2>3. \A r \in Y : r.primary => r \in X
    BY <1>1
  <2>4. EndsWith(Y, m, e, l)
    BY <1>1, <1>4, <2>1, <2>2, <2>3 DEF EndsWith
  <2>. QED
    BY <2>4
<1>. QED
  BY <1>1, <1>2, <1>4, <1>6, <1>7 DEF Ready, IsRow, l

(* add_new_email() *)
Spared(X, gone) == {r \in X : \A g \in gone : g.id # r.id}

LEMMA ReplaceDone ==
    ASSUME NEW X, NEW S, NEW m, NEW k, NEW j, NEW ok, NEW u, NEW t,
           Tidy(X, k, j, u), Ready(X, S, m, k, j, ok, u, t), t # <<>>,
           Head(t).do = "replace",
           \A r \in Spared(X, Head(t).gone) : r.email # Head(t).row.email,
           NEW Y, Y = Spared(X, Head(t).gone) \cup {Head(t).row},
           NEW n, (\A g \in Head(t).gone : g.email # m) => n = m
    PROVE  Tidy(Y, k, j, u) /\ Ready(Y, S, n, k, j, ok, u, Tail(t))
<1>. DEFINE h == Head(t)
            l == Tail(t)
            row == h.row
            gone == h.gone
            left == {r \in X : \A g \in gone : g.id # r.id}
<1>0. Y = left \cup {row} /\ \A r \in left : r.email # row.email
  BY DEF Spared
<1>1. /\ \A x \in Range(l) : x.do = "mail"
      /\ Doing(t, "mail") = Doing(l, "mail")
      /\ Promotions(t) = {}
      /\ \A x \in Doing(t, "replace") : x = h
      /\ h \in Doing(t, "replace")
      /\ IsRow(row, u) /\ row.id <= k
      /\ ~row.primary /\ ~row.verified
      /\ \A r \in X : r.id # row.id
  BY MakingRest
<1>2. /\ Written(k, u, l) /\ Fresh(Y, j, u, l) /\ Joining(Y, j, l)
      /\ h \in Range(t)
  BY WrittenGoesOn, MakingIsFirst DEF Ready
<1>3. ~j => \A r \in X : \E g \in gone : g.id = r.id
  BY <1>2 DEF Ready, Joining
<1>4. /\ \A do : do # "mail" => Doing(l, do) = {}
      /\ Promotions(l) = {}
      /\ Leaving(Y, S, l) /\ Keeping(Y, l) /\ Worthy(Y, l)
  BY <1>1, OnlyMail
<1>5. h.gone = gone
  OBVIOUS
<1>10. (\A g \in gone : g.email # m) => n = m
  OBVIOUS
<1>. HIDE DEF h, l, row, gone
<1>6. Tidy(Y, k, j, u)
  <2>1. ~j => left = {}
    BY <1>3
  <2>2. \A r \in left : r \in X
    OBVIOUS
  <2>. QED
    BY <1>0, <1>1, <2>1, <2>2 DEF Tidy
<1>7. ASSUME ok PROVE \E e : EndsWith(Y, n, e, l)
  <2>1. PICK e : EndsWith(X, m, e, t)
    BY <1>7 DEF Ready
  <2>2. \A r \in Y : r.primary => r.email = e
    BY <1>0, <1>1, <1>5, <2>1 DEF EndsWith
  <2>3. CASE Doing(t, "mail") # {}
    <3>1. EndsWith(Y, n, e, l)
      BY <1>1, <1>4, <2>1, <2>2, <2>3 DEF EndsWith
    <3>. QED
      BY <3>1
  <2>4. CASE Doing(t, "mail") = {} /\ \A g \in gone : g.email # m
    <3>1. n = e
      BY <1>10, <2>1, <2>4 DEF EndsWith
    <3>2. EndsWith(Y, n, e, l)
      BY <1>1, <1>4, <2>1, <2>2, <3>1 DEF EndsWith
    <3>. QED
      BY <3>2
  <2>5. CASE Doing(t, "mail") = {} /\ \E g \in gone : g.email = m
    <3>1. \A r \in X : r.primary => \E g \in gone : g.id = r.id
      BY <1>1, <1>5, <2>1, <2>5 DEF EndsWith
    <3>2. \A r \in Y : ~r.primary
      BY <1>0, <1>1, <3>1
    <3>3. EndsWith(Y, n, n, l)
      BY <1>1, <1>4, <2>5, <3>2 DEF EndsWith
    <3>. QED
      BY <3>3
  <2>. QED
    BY <2>3, <2>4, <2>5
<1>. QED
  BY <1>1, <1>2, <1>4, <1>6, <1>7 DEF Ready, IsRow, l

(* remove() *)

LEMMA LeavingRest ==
    ASSUME NEW X, NEW S, NEW m, NEW k, NEW j, NEW ok, NEW u, NEW t,
           Ready(X, S, m, k, j, ok, u, t), t # <<>>,
           Head(t).do = "delete"
    PROVE  /\ \A x \in Range(t) : x.do \in {"delete", "mail"}
           /\ \A do : do \notin {"delete", "mail"} => Doing(t, do) = {}
           /\ Promotions(t) = {}
           /\ Head(t) \in Doing(t, "delete") /\ Head(t).row.user = u
           /\ S.byEmail =>
                \E r \in X : \A x \in Doing(t, "delete") : x.row.id # r.id
           /\ j
<1>1. Head(t) \in Range(t)
  BY WrittenGoesOn DEF Ready
<1>2. Head(t) \in Doing(t, "delete")
  BY <1>1 DEF Doing
<1>3. \A x \in Range(t) : x.do \in {"delete", "mail"}
  BY <1>2 DEF Ready, Leaving
<1>4. \A do : do \notin {"delete", "mail"} => Doing(t, do) = {}
  BY <1>3 DEF Doing
<1>5. Promotions(t) = {}
  BY <1>4 DEF Promotions
<1>6. Head(t).row.user = u
  BY <1>1 DEF Ready, Written
<1>7. S.byEmail => \E r \in X : \A x \in Doing(t, "delete") : x.row.id # r.id
  BY <1>2 DEF Ready, Leaving
<1>8. j
  BY <1>1 DEF Ready, Joining
<1>. QED
  BY <1>2, <1>3, <1>4, <1>5, <1>6, <1>7, <1>8

LEMMA StillLeaving ==
    ASSUME NEW X, NEW S, NEW t, NEW row, NEW l,
           \A x \in Range(l) : x.do \in {"delete", "mail"},
           Doing(l, "delete") \subseteq Doing(t, "delete"),
           S.byEmail => \E r \in X : \A x \in Doing(t, "delete") : x.row.id # r.id,
           \E x \in Doing(t, "delete") : x.row = row
    PROVE  /\ Leaving(Without(X, row), S, l)
           /\ Keeping(Without(X, row), l) /\ Worthy(Without(X, row), l)
           /\ S.byEmail => Without(X, row) # {}
<1>1. Doing(l, "clear") = {} /\ Doing(l, "save") = {}
  BY DEF Doing
<1>2. Promotions(l) = {}
  BY <1>1 DEF Promotions
<1>3. S.byEmail => \E r \in Without(X, row) : \A x \in Doing(t, "delete") : x.row.id # r.id
  BY DEF Without
<1>. QED
  BY <1>1, <1>2, <1>3 DEF Leaving, Keeping, Worthy

LEMMA DeleteDone ==
    ASSUME NEW X, NEW S, NEW m, NEW k, NEW j, NEW ok, NEW u, NEW t,
           Tidy(X, k, j, u), Ready(X, S, m, k, j, ok, u, t), t # <<>>,
           Head(t).do = "delete",
           NEW row, row = Head(t).row,
           NEW Y, Y = Without(X, row),
           NEW known,
           known = (IF Head(t).read = Unread THEN m ELSE Head(t).read)
    PROVE  /\ Tidy(Y, k, j, u) /\ row.user = u
           /\ S.byEmail => Y # {}
           /\ known # row.email => Ready(Y, S, m, k, j, ok, u, Tail(t))
<1>. DEFINE h == Head(t)
            l == Tail(t)
<1>1. /\ Written(k, u, l) /\ Fresh(Y, j, u, l) /\ Joining(Y, j, l)
      /\ h \in Range(t) /\ Range(l) \subseteq Range(t)
  BY WrittenGoesOn, MakingIsFirst DEF Ready
<1>2. l = <<>> => Range(l) = {}
  BY NoSteps
<1>3. /\ \A x \in Range(t) : x.do \in {"delete", "mail"}
      /\ \A do : do \notin {"delete", "mail"} => Doing(t, do) = {}
      /\ Promotions(t) = {}
      /\ h \in Doing(t, "delete") /\ row.user = u
      /\ S.byEmail =>
           \E r \in X : \A x \in Doing(t, "delete") : x.row.id # r.id
      /\ j
  BY LeavingRest
<1>4. h.row = row /\ known = (IF h.read = Unread THEN m ELSE h.read)
  OBVIOUS
<1>. HIDE DEF h, l
<1>5. \A do : Doing(l, do) \subseteq Doing(t, do)
  BY <1>1 DEF Doing
<1>6. Tidy(Y, k, j, u)
  BY <1>3 DEF Tidy, Without
<1>7. /\ Leaving(Y, S, l) /\ Keeping(Y, l) /\ Worthy(Y, l)
      /\ S.byEmail => Y # {}
  BY <1>1, <1>3, <1>4, <1>5, StillLeaving
<1>8. ASSUME ok, known # row.email PROVE \E e : EndsWith(Y, m, e, l)
  <2>1. PICK e : EndsWith(X, m, e, t)
    BY <1>8 DEF Ready
  <2>2. \A x \in Range(t) : x.do = "delete"
    BY <1>3, <2>1 DEF EndsWith
  <2>3. /\ \A x \in Range(l) : x.do = "delete"
        /\ Doing(l, "mail") = {} /\ Doing(t, "mail") = {}
    BY <1>1, <2>2 DEF Doing
  <2>4. \A do : do # "delete" => Doing(l, do) = {}
    BY <2>3 DEF Doing
  <2>5. Promotions(l) = {}
    BY <2>4 DEF Promotions
  <2>6. ASSUME NEW x \in Doing(l, "delete")
        PROVE  x.read \in {Unread, m} /\ x.row.email # m
    <3>1. x \in Doing(t, "delete") /\ x \in Range(l)
      BY <1>5 DEF Doing
    <3>2. x.read \in {Unread, m} /\ (x.row.email = m => l = <<>>)
      BY <2>1, <3>1 DEF EndsWith, l
    <3>. QED
      BY <1>2, <3>1, <3>2
  <2>7. \A r \in Y : r.primary => r.email = e
    BY <1>3, <2>1 DEF EndsWith, Without
  <2>8. m = e
    BY <2>1, <2>3 DEF EndsWith
  <2>9. EndsWith(Y, m, e, l)
    BY <2>3, <2>4, <2>5, <2>6, <2>7, <2>8 DEF EndsWith
  <2>. QED
    BY <2>9
<1>9. known # row.email => Ready(Y, S, m, k, j, ok, u, l)
  BY <1>1, <1>7, <1>8 DEF Ready
<1>. QED
  BY <1>3, <1>6, <1>7, <1>9 DEF l

LEMMA DeleteMails ==
    ASSUME NEW X, NEW S, NEW m, NEW k, NEW j, NEW ok, NEW u, NEW t,
           Tidy(X, k, j, u), Ready(X, S, m, k, j, ok, u, t), t # <<>>,
           Head(t).do = "delete",
           NEW row, row = Head(t).row,
           NEW Y, Y = Without(X, row),
           (IF Head(t).read = Unread THEN m ELSE Head(t).read) = row.email,
           NEW e, NEW q, q = <<Mail(e)>> \o Tail(t)
    PROVE  Ready(Y, S, m, k, j, ok, u, q) /\ q # <<>>
<1>. DEFINE h == Head(t)
            l == Tail(t)
            y == Mail(e)
<1>1. /\ Written(k, u, l) /\ Joining(Y, j, l)
      /\ h \in Range(t) /\ Range(l) \subseteq Range(t)
  BY WrittenGoesOn, MakingIsFirst DEF Ready
<1>2. y.do = "mail" /\ y.to = e
  BY DEF Mail
<1>3. /\ \A x \in Range(t) : x.do \in {"delete", "mail"}
      /\ Promotions(t) = {}
      /\ h \in Doing(t, "delete") /\ row.user = u
      /\ S.byEmail =>
           \E r \in X : \A x \in Doing(t, "delete") : x.row.id # r.id
      /\ j
  BY LeavingRest
<1>4. h.row = row /\ (IF h.read = Unread THEN m ELSE h.read) = row.email
  OBVIOUS
<1>5. /\ q \in Seq(Range(q)) /\ Range(q) = {y} \cup Range(l)
      /\ DOMAIN q \subseteq Nat /\ Len(q) = 1 + Len(l) /\ Len(l) \in Nat
  <2>1. /\ <<y>> \in Seq(Range(<<y>>)) /\ Range(<<y>>) = {y} /\ Len(<<y>>) = 1
        /\ l \in Seq(Range(l))
    BY <1>1, OneStep DEF Written
  <2>2. /\ q \in Seq(Range(q)) /\ Range(q) = {y} \cup Range(l)
        /\ Len(q) = 1 + Len(l) /\ Len(l) \in Nat /\ DOMAIN q = 1..(1 + Len(l))
    BY <2>1, JoinedSteps
  <2>. QED
    BY <2>2
<1>. HIDE DEF h, l, y
<1>6. \A x \in Range(q) : x.do \in {"delete", "mail"} /\ (x = y \/ x \in Range(t))
  BY <1>1, <1>2, <1>3, <1>5
<1>7. Doing(q, "delete") \subseteq Doing(t, "delete")
  BY <1>2, <1>6 DEF Doing
<1>8. Leaving(Y, S, q) /\ Keeping(Y, q) /\ Worthy(Y, q)
  BY <1>3, <1>4, <1>6, <1>7, StillLeaving
<1>9. Written(k, u, q)
  <2>1. \A x \in Range(q) : x.do = "delete" => x.row.user = u
    BY <1>6, <1>2 DEF Ready, Written
  <2>2. \A i \in DOMAIN q : q[i].do # "clear"
    BY <1>6 DEF Range
  <2>. QED
    BY <1>5, <1>6, <2>1, <2>2 DEF Written
<1>10. Fresh(Y, j, u, q) /\ Joining(Y, j, q)
  BY <1>3, <1>6 DEF Fresh, Joining, Doing
<1>11. q # <<>>
  BY <1>5, NoSteps
<1>12. ASSUME ok PROVE EndsWith(Y, m, e, q)
  <2>1. PICK f : EndsWith(X, m, f, t)
    BY <1>12 DEF Ready
  <2>2. h.read \in {Unread, m} /\ row.email = m
    BY <1>3, <1>4, <2>1 DEF EndsWith
  <2>3. l = <<>> /\ \A r \in X : r.primary => r.id = row.id
    BY <1>3, <1>4, <2>1, <2>2 DEF EndsWith, l
  <2>4. Range(q) = {y}
    BY <1>5, <2>3, NoSteps
  <2>5. /\ \A do : do # "mail" => Doing(q, do) = {}
        /\ Doing(q, "mail") = {y}
    BY <1>2, <2>4 DEF Doing
  <2>6. Promotions(q) = {}
    BY <2>5 DEF Promotions
  <2>7. \A r \in Y : ~r.primary
    BY <2>3 DEF Without
  <2>. QED
    BY <1>2, <2>5, <2>6, <2>7 DEF EndsWith
<1>. QED
  BY <1>8, <1>9, <1>10, <1>11, <1>12 DEF Ready

(* CHANGE_EMAIL: the other addresses are to go. *)

LEMMA ClearDone ==
    ASSUME NEW X, NEW S, NEW m, NEW k, NEW j, NEW ok, NEW u, NEW t,
           Tidy(X, k, j, u), Ready(X, S, m, k, j, ok, u, t), t # <<>>,
           Head(t).do = "clear",
           NEW row, row = Head(t).row,
           NEW n \in Nat, NEW order \in [1..n -> Without(X, row)],
           NEW q, q = [i \in DOMAIN order |-> Delete(order[i], Unread)]
    PROVE  Ready(X, S, m, k, j, ok, u, q) /\ row.user = u
<1>. DEFINE h == Head(t)
<1>1. h \in Range(t) /\ row.user = u
  BY WrittenGoesOn DEF Ready, Written
<1>2. \A x \in Range(t) : x = h
  <2>1. /\ h = t[1] /\ DOMAIN t = 1..Len(t) /\ Len(t) \in Nat /\ Len(t) >= 1
    BY CutSteps DEF Ready, Written
  <2>2. 1 \in DOMAIN t
    BY <2>1
  <2>3. Len(t) = 1
    BY <2>1, <2>2 DEF Ready, Written
  <2>4. DOMAIN t = {1}
    BY <2>1, <2>3
  <2>. QED
    BY <2>1, <2>4 DEF Range
<1>3. /\ q \in Seq(Range(q))
      /\ \A x \in Range(q) : x.do = "delete" /\ x.row \in Without(X, row) /\ x.read = Unread
  <2>1. DOMAIN q = 1..n /\ \A i \in 1..n : q[i] = Delete(order[i], Unread)
    OBVIOUS
  <2>2. q \in [1..n -> Range(q)]
    BY <2>1 DEF Range
  <2>3. q \in Seq(Range(q))
    BY <2>2, SeqDef
  <2>4. \A x \in Range(q) : \E i \in 1..n : x = Delete(order[i], Unread)
    BY <2>1 DEF Range
  <2>5. \A i \in 1..n : order[i] \in Without(X, row)
    OBVIOUS
  <2>. QED
    BY <2>3, <2>4, <2>5 DEF Delete
<1>4. \A x \in Range(q) : /\ x.do = "delete" /\ x.read = Unread
                          /\ x.row \in X /\ x.row.id # row.id
  BY <1>3 DEF Without
<1>5. j
  BY <1>1 DEF Ready, Joining
<1>6. h.row = row /\ h.do = "clear"
  OBVIOUS
<1>. HIDE DEF h
<1>7. /\ \A do : do # "clear" => Doing(t, do) = {}
      /\ h \in Doing(t, "clear")
  BY <1>1, <1>2, <1>6 DEF Doing
<1>8. Promotions(t) = {}
  BY <1>7 DEF Promotions
<1>9. PICK r \in X : r.id = row.id /\ r.email = row.email
  BY <1>6, <1>7, <1>8 DEF Ready, Keeping
<1>10. \A do : do # "delete" => Doing(q, do) = {}
  BY <1>4 DEF Doing
<1>11. Promotions(q) = {}
  BY <1>10 DEF Promotions
<1>12. Written(k, u, q)
  <2>1. \A i \in DOMAIN q : q[i].do # "clear"
    BY <1>4 DEF Range
  <2>2. \A x \in Range(q) : x.row.user = u
    BY <1>4 DEF Tidy, IsRow
  <2>. QED
    BY <1>3, <1>4, <2>1, <2>2 DEF Written
<1>13. Fresh(X, j, u, q) /\ Joining(X, j, q)
  BY <1>5, <1>10 DEF Fresh, Joining
<1>14. Leaving(X, S, q)
  BY <1>4, <1>9 DEF Leaving, Doing
<1>15. Keeping(X, q) /\ Worthy(X, q)
  BY <1>10, <1>11 DEF Keeping, Worthy
<1>16. ASSUME ok PROVE \E e : EndsWith(X, m, e, q)
  <2>1. PICK e : EndsWith(X, m, e, t)
    BY <1>16 DEF Ready
  <2>2. m = e /\ row.email = e
    BY <1>6, <1>7, <2>1 DEF EndsWith
  <2>3. \A s \in X : s.primary => s.email = e
    BY <1>7, <1>8, <2>1 DEF EndsWith
  <2>4. \A x \in Range(q) : x.row.email # m
    BY <1>4, <1>9, <2>2 DEF Tidy
  <2>5. Doing(q, "delete") \subseteq Range(q)
    BY DEF Doing
  <2>6. EndsWith(X, m, e, q)
    BY <1>4, <1>10, <1>11, <2>2, <2>3, <2>4, <2>5 DEF EndsWith
  <2>. QED
    BY <2>6
<1>. QED
  BY <1>1, <1>12, <1>13, <1>14, <1>15, <1>16 DEF Ready

----------------------------------------------------------------------------

(* What a request begins with *)

LEMMA VerifiedRow ==
    ASSUME NEW r, NEW u, IsRow(r, u), NEW x, x = [r EXCEPT !.verified = TRUE]
    PROVE  /\ IsRow(x, u) /\ x.id = r.id /\ x.email = r.email
           /\ x.verified /\ x.primary = r.primary
BY DEF IsRow

LEMMA PrimaryRow ==
    ASSUME NEW r, NEW u, IsRow(r, u), NEW x, x = [r EXCEPT !.primary = TRUE]
    PROVE  /\ IsRow(x, u) /\ x.id = r.id /\ x.email = r.email
           /\ x.primary /\ x.verified = r.verified
BY DEF IsRow

LEMMA DemotedRow ==
    ASSUME NEW r, NEW u, IsRow(r, u), NEW x, x = [r EXCEPT !.primary = FALSE]
    PROVE  /\ IsRow(x, u) /\ x.id = r.id /\ x.email = r.email
           /\ ~x.primary /\ x.verified = r.verified
BY DEF IsRow

LEMMA TwoSteps ==
    ASSUME NEW x, NEW y, NEW t, t = <<x, y>>
    PROVE  /\ t \in Seq(Range(t)) /\ Range(t) = {x, y}
           /\ Head(t) = x /\ Tail(t) = <<y>> /\ Len(t) = 2
           /\ DOMAIN t = {1, 2} /\ t[1] = x /\ t[2] = y
<1>1. /\ t \in Seq({x, y}) /\ Len(t) = 2
      /\ t[1] = x /\ t[2] = y /\ DOMAIN t = {1, 2}
      /\ Head(t) = x /\ Tail(t) = <<y>>
  OBVIOUS
<1>2. Range(t) = {x, y}
  BY <1>1 DEF Range
<1>. QED
  BY <1>1, <1>2

LEMMA FreshTidy ==
    ASSUME NEW X, NEW k, NEW j, NEW u, Tidy(X, k, j, u)
    PROVE  Tidy(X, k + 1, j, u) /\ \A r \in X : r.id # k + 1
BY DEF Tidy, IsRow

LEMMA OneStepIs ==
    ASSUME NEW x, NEW t, t = <<x>>
    PROVE  /\ t \in Seq(Range(t)) /\ Range(t) = {x} /\ Head(t) = x /\ Tail(t) = <<>>
           /\ Len(t) = 1 /\ DOMAIN t = {1} /\ t[1] = x
           /\ Range(Tail(t)) = {} /\ t # <<>>
           /\ \A do : Doing(t, do) = {y \in {x} : y.do = do}
<1>1. t \in Seq(Range(t)) /\ Range(t) = {x} /\ Head(t) = x /\ Tail(t) = <<>>
  BY OneStep
<1>2. Len(t) = 1 /\ DOMAIN t = {1} /\ t[1] = x /\ t # <<>>
  OBVIOUS
<1>. QED
  BY <1>1, <1>2, NoSteps DEF Doing

LEMMA CreateBegins ==
    ASSUME NEW X, NEW S, NEW m, NEW k, NEW j, NEW ok, NEW u,
           Tidy(X, k, j, u), j, ok => Sound(X, m),
           NEW row, IsRow(row, u), row.id = k + 1, ~row.verified, ~row.primary,
           NEW t, t = <<Create(row)>>
    PROVE  Ready(X, S, m, k + 1, j, ok, u, t)
<1>. DEFINE x == Create(row)
<1>1. x.do = "create" /\ x.row = row
  BY DEF Create
<1>0. t = <<x>>
  OBVIOUS
<1>. HIDE DEF x
<1>2. /\ t \in Seq(Range(t)) /\ Range(t) = {x} /\ Head(t) = x
      /\ DOMAIN t = {1} /\ t[1] = x /\ Range(Tail(t)) = {}
      /\ \A do : Doing(t, do) = {y \in {x} : y.do = do}
  <2>1. t \in Seq(Range(t)) /\ Range(t) = {x} /\ Head(t) = x
    BY <1>0, OneStepIs
  <2>2. DOMAIN t = {1} /\ t[1] = x
    BY <1>0, OneStepIs
  <2>3. Range(Tail(t)) = {}
    BY <1>0, OneStepIs
  <2>4. ASSUME NEW do PROVE Doing(t, do) = {y \in {x} : y.do = do}
    BY <1>0, OneStepIs
  <2>. QED
    BY <2>1, <2>2, <2>3, <2>4
<1>3. /\ \A do : do # "create" => Doing(t, do) = {}
      /\ \A y \in Doing(t, "create") : y = x
  BY <1>1, <1>2
<1>4. Promotions(t) = {}
  BY <1>3 DEF Promotions
<1>5. k \in Nat /\ \A r \in X : r.id # row.id
  BY FreshTidy DEF Tidy
<1>6. Written(k + 1, u, t)
  BY <1>1, <1>2, <1>5 DEF Written
<1>7. Fresh(X, j, u, t) /\ Joining(X, j, t)
  BY <1>1, <1>2, <1>3, <1>5 DEF Fresh, Joining
<1>8. Leaving(X, S, t) /\ Keeping(X, t) /\ Worthy(X, t)
  BY <1>3, <1>4 DEF Leaving, Keeping, Worthy
<1>9. ok => EndsWith(X, m, m, t)
  BY <1>3, <1>4 DEF EndsWith, Sound
<1>. QED
  BY <1>6, <1>7, <1>8, <1>9 DEF Ready

(* The row to replace is the only one, or another than the primary one *)
LEMMA ReplaceBegins ==
    ASSUME NEW X, NEW S, NEW m, NEW k, NEW j, NEW ok, NEW u,
           Tidy(X, k, j, u), ok => Sound(X, m),
           NEW row, IsRow(row, u), row.id = k + 1, ~row.verified, ~row.primary,
           NEW gone, gone \subseteq X, ~j => gone = X, NEW e, NEW t,
           \/ t = <<Replace(gone, row)>> /\ j
           \/ t = <<Replace(gone, row), Mail(e)>> /\ gone = X
    PROVE  Ready(X, S, m, k + 1, j, ok, u, t)
<1>. DEFINE x == Replace(gone, row)
            y == Mail(e)
<1>1. x.do = "replace" /\ x.row = row /\ x.gone = gone /\ y.do = "mail" /\ y.to = e
  BY DEF Replace, Mail
<1>. HIDE DEF x, y
<1>2. /\ t \in Seq(Range(t)) /\ Head(t) = x
      /\ Range(t) \subseteq {x, y} /\ x \in Range(t)
      /\ Range(Tail(t)) \subseteq {y}
      /\ \A i \in DOMAIN t : t[i] \in {x, y}
      /\ y \notin Range(t) => j
      /\ y \in Range(t) => gone = X
  <2>1. CASE t = <<x>> /\ j
    <3>1. /\ t \in Seq(Range(t)) /\ Range(t) = {x} /\ Head(t) = x
          /\ Range(Tail(t)) = {}
      BY <2>1, OneStepIs
    <3>. QED
      BY <1>1, <2>1, <3>1 DEF Range
  <2>2. CASE t = <<x, y>> /\ gone = X
    <3>1. /\ t \in Seq(Range(t)) /\ Range(t) = {x, y} /\ Head(t) = x
          /\ Tail(t) = <<y>> /\ Range(<<y>>) = {y}
      BY <2>2, TwoSteps, OneStep
    <3>. QED
      BY <2>2, <3>1 DEF Range
  <2>. QED
    BY <2>1, <2>2 DEF x, y
<1>3. /\ \A do : do \notin {"replace", "mail"} => Doing(t, do) = {}
      /\ \A z \in Doing(t, "replace") : z = x
      /\ \A z \in Doing(t, "mail") : z = y
      /\ Doing(t, "mail") = {} => j /\ y \notin Range(t)
      /\ Doing(t, "mail") # {} => gone = X
  BY <1>1, <1>2 DEF Doing
<1>4. Promotions(t) = {}
  BY <1>3 DEF Promotions
<1>5. k \in Nat /\ \A r \in X : r.id # row.id
  BY FreshTidy DEF Tidy
<1>6. Written(k + 1, u, t)
  BY <1>1, <1>2, <1>5 DEF Written
<1>7. Fresh(X, j, u, t) /\ Joining(X, j, t)
  <2>1. \A g \in gone : g.user = u
    BY DEF Tidy, IsRow
  <2>. QED
    BY <1>1, <1>2, <1>3, <1>5, <2>1 DEF Fresh, Joining
<1>8. Leaving(X, S, t) /\ Keeping(X, t) /\ Worthy(X, t)
  BY <1>3, <1>4 DEF Leaving, Keeping, Worthy
<1>9. ASSUME ok PROVE \E f : EndsWith(X, m, f, t)
  <2>1. Sound(X, m)
    BY <1>9
  <2>2. CASE Doing(t, "mail") = {}
    <3>1. ASSUME NEW g \in gone, g.email = m, NEW r \in X, r.primary
          PROVE  g.id = r.id
      BY <2>1, <3>1 DEF Sound, Tidy
    <3>2. EndsWith(X, m, m, t)
      BY <1>1, <1>3, <1>4, <2>1, <2>2, <3>1 DEF EndsWith, Sound
    <3>. QED
      BY <3>2
  <2>3. CASE Doing(t, "mail") # {}
    <3>1. x \in Doing(t, "replace")
      BY <1>1, <1>2 DEF Doing
    <3>2. \A r \in X : \E g \in gone : g.id = r.id
      BY <1>3, <2>3
    <3>3. EndsWith(X, m, e, t)
      BY <1>1, <1>3, <1>4, <2>3, <3>1, <3>2 DEF EndsWith
    <3>. QED
      BY <3>3
  <2>. QED
    BY <2>2, <2>3
<1>. QED
  BY <1>6, <1>7, <1>8, <1>9 DEF Ready

LEMMA DeleteBegins ==
    ASSUME NEW X, NEW S, NEW m, NEW k, NEW j, NEW ok, NEW u,
           Tidy(X, k, j, u), j, ok => Sound(X, m),
           NEW row \in X, S.byEmail => Without(X, row) # {},
           NEW t, t = <<Delete(row, m)>>
    PROVE  Ready(X, S, m, k, j, ok, u, t)
<1>. DEFINE x == Delete(row, m)
<1>1. x.do = "delete" /\ x.row = row /\ x.read = m
  BY DEF Delete
<1>. HIDE DEF x
<1>2. /\ t \in Seq(Range(t)) /\ Range(t) = {x} /\ Tail(t) = <<>>
      /\ DOMAIN t = {1} /\ t[1] = x
      /\ \A do : Doing(t, do) = {y \in {x} : y.do = do}
  BY OneStepIs DEF x
<1>3. /\ \A do : do # "delete" => Doing(t, do) = {}
      /\ \A y \in Doing(t, "delete") : y = x
  BY <1>1, <1>2
<1>4. Promotions(t) = {}
  BY <1>3 DEF Promotions
<1>5. Written(k, u, t)
  BY <1>1, <1>2 DEF Written, Tidy, IsRow
<1>6. Fresh(X, j, u, t) /\ Joining(X, j, t)
  BY <1>3 DEF Fresh, Joining
<1>7. Keeping(X, t) /\ Worthy(X, t)
  BY <1>3, <1>4 DEF Keeping, Worthy
<1>8. Leaving(X, S, t)
  BY <1>1, <1>2, <1>3 DEF Leaving, Without
<1>9. ok => EndsWith(X, m, m, t)
  <2>1. row.email = m => \A r \in X : r.primary /\ ok => r.id = row.id
    BY DEF Sound, Tidy
  <2>. QED
    BY <1>1, <1>2, <1>3, <1>4, <2>1 DEF EndsWith, Sound
<1>. QED
  BY <1>5, <1>6, <1>7, <1>8, <1>9 DEF Ready

(* set_as_primary(), and what verify_email() does after it *)

Closed(t) ==
    /\ t \in Seq(Range(t))
    /\ \A i \in DOMAIN t : t[i].do = "clear" => i = Len(t)

LEMMA ClosedJoined ==
    ASSUME NEW s, s \in Seq(Range(s)), \A x \in Range(s) : x.do # "clear",
           NEW t, Closed(t)
    PROVE  Closed(s \o t) /\ Range(s \o t) = Range(s) \cup Range(t)
<1>. DEFINE q == s \o t
            n == Len(s)
            o == Len(t)
<1>1. /\ q \in Seq(Range(q)) /\ Range(q) = Range(s) \cup Range(t)
      /\ n \in Nat /\ o \in Nat /\ Len(q) = n + o
      /\ DOMAIN q = 1..(n + o)
      /\ \A i \in DOMAIN q : q[i] = IF i <= n THEN s[i] ELSE t[i - n]
  BY JoinedSteps DEF Closed
<1>2. DOMAIN s = 1..n /\ DOMAIN t = 1..o
  BY LenProperties DEF Closed
<1>. HIDE DEF q, n, o
<1>3. ASSUME NEW i \in DOMAIN q, q[i].do = "clear" PROVE i = n + o
  <2>1. CASE i <= n
    <3>1. i \in DOMAIN s /\ q[i] = s[i]
      BY <1>1, <1>2, <2>1
    <3>. QED
      BY <1>3, <3>1 DEF Range
  <2>2. CASE ~(i <= n)
    <3>1. i - n \in DOMAIN t /\ q[i] = t[i - n] /\ i \in Nat
      BY <1>1, <1>2, <2>2
    <3>2. i - n = o
      BY <1>3, <3>1 DEF Closed, o
    <3>. QED
      BY <1>1, <3>1, <3>2
  <2>. QED
    BY <2>1, <2>2
<1>4. Closed(q)
  BY <1>1, <1>3 DEF Closed
<1>. QED
  BY <1>1, <1>4 DEF q

(* Whom the new primary address replaces, and what is to follow *)
Demotion(d, k, u, s) ==
    \/ s = <<>>
    \/ s = <<Save(d)>> /\ IsRow(d, u) /\ d.id <= k /\ ~d.primary

Rest(f, c, u, s) ==
    \/ s = <<>>
    \/ s = <<Save(f)>>
    \/ s = <<Save(f), Clear(c)>> /\ c.user = u /\ c.id = f.id /\ c.email = f.email

LEMMA DemotionSteps ==
    ASSUME NEW d, NEW k, NEW u, NEW s, Demotion(d, k, u, s)
    PROVE  /\ s \in Seq(Range(s))
           /\ \A x \in Range(s) :
                /\ x.do = "save" /\ x.row = d /\ s # <<>>
                /\ IsRow(d, u) /\ d.id <= k /\ ~d.primary
<1>1. CASE s = <<>>
  BY <1>1, NoSteps
<1>2. CASE s = <<Save(d)>> /\ IsRow(d, u) /\ d.id <= k /\ ~d.primary
  <2>. DEFINE y == Save(d)
  <2>1. y.do = "save" /\ y.row = d /\ s = <<y>>
    BY <1>2 DEF Save
  <2>. HIDE DEF y
  <2>2. s \in Seq(Range(s)) /\ Range(s) = {y}
    BY <2>1, OneStep
  <2>3. s # <<>>
    BY <2>2, NoSteps
  <2>. QED
    BY <1>2, <2>1, <2>2, <2>3
<1>. QED
  BY <1>1, <1>2 DEF Demotion

LEMMA RestSteps ==
    ASSUME NEW f, NEW c, NEW u, NEW s, Rest(f, c, u, s)
    PROVE  /\ Closed(s)
           /\ \A x \in Range(s) :
                \/ x.do = "save" /\ x.row = f
                \/ /\ x.do = "clear" /\ x.row = c
                   /\ c.user = u /\ c.id = f.id /\ c.email = f.email
<1>1. CASE s = <<>>
  BY <1>1, NoSteps DEF Closed
<1>2. CASE s = <<Save(f)>>
  <2>. DEFINE y == Save(f)
  <2>1. y.do = "save" /\ y.row = f /\ s = <<y>>
    BY <1>2 DEF Save
  <2>. HIDE DEF y
  <2>2. s \in Seq(Range(s)) /\ Range(s) = {y}
    BY <2>1, OneStep
  <2>3. \A i \in DOMAIN s : s[i].do = "save"
    BY <2>1, <2>2 DEF Range
  <2>. QED
    BY <2>1, <2>2, <2>3 DEF Closed
<1>3. CASE /\ s = <<Save(f), Clear(c)>>
           /\ c.user = u /\ c.id = f.id /\ c.email = f.email
  <2>. DEFINE y == Save(f)
              z == Clear(c)
  <2>1. /\ y.do = "save" /\ y.row = f /\ z.do = "clear" /\ z.row = c
        /\ s = <<y, z>>
    BY <1>3 DEF Save, Clear
  <2>. HIDE DEF y, z
  <2>2. s \in Seq(Range(s)) /\ Range(s) = {y, z}
    BY <2>1, TwoSteps
  <2>3. Len(s) = 2 /\ DOMAIN s = {1, 2} /\ s[1] = y /\ s[2] = z
    BY <2>1
  <2>. QED
    BY <1>3, <2>1, <2>2, <2>3 DEF Closed
<1>. QED
  BY <1>1, <1>2, <1>3 DEF Rest

LEMMA PromotionBegins ==
    ASSUME NEW X, NEW S, NEW m, NEW k, NEW j, NEW ok, NEW u, k \in Nat, j,
           NEW f, IsRow(f, u), f.id <= k, f.primary,
           NEW d, NEW before, Demotion(d, k, u, before),
           before # <<>> /\ d.id = f.id => d.email = f.email,
           \/ f.verified
           \/ /\ \A r \in X : ~r.verified
              /\ before # <<>> => ~d.verified,
           NEW c, NEW after, Rest(f, c, u, after),
           NEW t, t = (before \o <<Save(f), Mail(f.email)>>) \o after
    PROVE  Ready(X, S, m, k, j, ok, u, t) /\ t # <<>>
<1>. DEFINE y == Save(f)
            z == Mail(f.email)
            both == <<y, z>>
            first == before \o both
<1>1. y.do = "save" /\ y.row = f /\ z.do = "mail" /\ z.to = f.email
  BY DEF Save, Mail
<1>2. t = first \o after
  OBVIOUS
<1>20. both = <<y, z>>
  OBVIOUS
<1>. HIDE DEF y, z, both
<1>3. both \in Seq(Range(both)) /\ Range(both) = {y, z}
  BY <1>20, TwoSteps
<1>4. \A x \in Range(before) : /\ x.do = "save" /\ x.row = d /\ before # <<>>
                               /\ IsRow(d, u) /\ d.id <= k /\ ~d.primary
  BY DemotionSteps
<1>5. before \in Seq(Range(before))
  BY DemotionSteps
<1>6. first \in Seq(Range(first)) /\ Range(first) = Range(before) \cup {y, z}
  BY <1>3, <1>5, JoinedSteps
<1>. HIDE DEF first
<1>7. \A x \in Range(first) : x.do # "clear"
  BY <1>1, <1>4, <1>6
<1>8. /\ Closed(after)
      /\ \A x \in Range(after) :
           \/ x.do = "save" /\ x.row = f
           \/ /\ x.do = "clear" /\ x.row = c
              /\ c.user = u /\ c.id = f.id /\ c.email = f.email
  BY RestSteps
<1>9. Closed(t) /\ Range(t) = Range(before) \cup {y, z} \cup Range(after)
  <2>1. Closed(first \o after) /\ Range(first \o after) = Range(first) \cup Range(after)
    BY <1>6, <1>7, <1>8, ClosedJoined
  <2>. QED
    BY <1>2, <1>6, <2>1
<1>10. \A x \in Range(t) :
         \/ /\ x.do = "save" /\ x.row = d /\ before # <<>>
            /\ IsRow(d, u) /\ d.id <= k /\ ~d.primary
         \/ x.do = "save" /\ x.row = f
         \/ x.do = "mail" /\ x.to = f.email
         \/ /\ x.do = "clear" /\ x.row = c
            /\ c.user = u /\ c.id = f.id /\ c.email = f.email
  BY <1>1, <1>4, <1>8, <1>9
<1>11. y \in Doing(t, "save") /\ y \in Promotions(t) /\ z \in Doing(t, "mail")
  BY <1>1, <1>9 DEF Doing, Promotions
<1>12. /\ \A do : do \notin {"save", "mail", "clear"} => Doing(t, do) = {}
       /\ \A x \in Doing(t, "save") :
            (x.row = d /\ before # <<>> /\ ~d.primary) \/ x.row = f
       /\ \A x \in Doing(t, "mail") : x.to = f.email
       /\ \A x \in Doing(t, "clear") :
            x.row = c /\ c.id = f.id /\ c.email = f.email
  BY <1>10 DEF Doing
<1>13. \A x \in Promotions(t) : x.row = f
  BY <1>12 DEF Promotions
<1>14. Written(k, u, t)
  <2>1. t \in Seq(Range(t)) /\ \A i \in DOMAIN t : t[i].do = "clear" => i = Len(t)
    BY <1>9 DEF Closed
  <2>. QED
    BY <1>10, <2>1 DEF Written
<1>15. Fresh(X, j, u, t) /\ Joining(X, j, t) /\ Leaving(X, S, t)
  BY <1>12 DEF Fresh, Joining, Leaving
<1>16. Keeping(X, t)
  BY <1>11, <1>12, <1>13 DEF Keeping
<1>17. Worthy(X, t)
  BY <1>12, <1>13 DEF Worthy
<1>18. EndsWith(X, m, f.email, t)
  BY <1>11, <1>12, <1>13 DEF EndsWith
<1>19. t # <<>>
  BY <1>9, NoSteps
<1>. QED
  BY <1>14, <1>15, <1>16, <1>17, <1>18, <1>19 DEF Ready

LEMMA SaveBegins ==
    ASSUME NEW X, NEW S, NEW m, NEW k, NEW j, NEW ok, NEW u, k \in Nat, j,
           ok => Sound(X, m),
           NEW f, IsRow(f, u), f.id <= k, f.verified, ok /\ f.primary => f.email = m,
           NEW t, t = <<Save(f)>>
    PROVE  Ready(X, S, m, k, j, ok, u, t)
<1>. DEFINE x == Save(f)
<1>1. x.do = "save" /\ x.row = f /\ t = <<x>>
  BY DEF Save
<1>. HIDE DEF x
<1>2. t \in Seq(Range(t)) /\ Range(t) = {x} /\ DOMAIN t = {1} /\ t[1] = x
  BY <1>1, OneStepIs
<1>3. /\ \A do : do # "save" => Doing(t, do) = {}
      /\ \A y \in Doing(t, "save") : y = x
  BY <1>1, <1>2 DEF Doing
<1>4. \A y \in Promotions(t) : y = x /\ f.primary
  BY <1>1, <1>3 DEF Promotions
<1>5. Written(k, u, t)
  BY <1>1, <1>2 DEF Written
<1>6. Fresh(X, j, u, t) /\ Joining(X, j, t) /\ Leaving(X, S, t) /\ Keeping(X, t)
  BY <1>3 DEF Fresh, Joining, Leaving, Keeping
<1>7. Worthy(X, t)
  BY <1>1, <1>4 DEF Worthy
<1>8. ok => EndsWith(X, m, m, t)
  BY <1>1, <1>3, <1>4 DEF EndsWith, Sound
<1>. QED
  BY <1>5, <1>6, <1>7, <1>8 DEF Ready

----------------------------------------------------------------------------

(* The users and their requests *)

Asks(w, u) == ~Idle(w) /\ request[w].user = u

(* The steps t lead where they should, as things are *)
ReadyFor(u, t) ==
    Ready(RowsOf(u), mode, mail[u], made[u], u \in joined, u \notin broken, u, t)

(* Between requests, if none of them broke, all is as it should be. *)
UserSound(u) ==
    /\ IsFiniteSet(RowsOf(u))
    /\ Tidy(RowsOf(u), made[u], u \in joined, u)
    /\ Calm(u) => Sound(RowsOf(u), mail[u])

(* What a worker that serves somebody is at *)
IsRequest(q) ==
    /\ {"user", "todo"} \subseteq DOMAIN q
    /\ q.user \in User /\ q.todo # <<>>

Tables ==
    /\ request = [w \in Server |-> request[w]]
    /\ mail = [u \in User |-> mail[u]]
    /\ made = [u \in User |-> made[u]]

(* A user has one request at a time. *)
Apiece ==
    \A w, v \in Server :
        ~Idle(w) /\ ~Idle(v) /\ request[w].user = request[v].user => w = v

(* The invariant *)
Managed ==
    /\ Tables /\ Apiece
    /\ \A r \in rows : r.user \in User
    /\ \A u \in User : UserSound(u)
    /\ \A w \in Server : ~Idle(w) => IsRequest(request[w])
    /\ \A w \in Server, u \in User : Asks(w, u) =>
         \A t : t = request[w].todo => ReadyFor(u, t)

(* The other users notice nothing of what happens to u. *)
OnlyOf(u) ==
    /\ mode' = mode
    /\ mail' = [v \in User |-> mail'[v]] /\ made' = [v \in User |-> made'[v]]
    /\ \A r \in rows' : r \in rows \/ r.user = u
    /\ \A v \in User : v # u =>
         /\ RowsOf(v)' = RowsOf(v) /\ mail'[v] = mail[v] /\ made'[v] = made[v]
         /\ (v \in joined') = (v \in joined) /\ (v \notin broken') = (v \notin broken)

LEMMA OthersGoOn ==
    ASSUME NEW u \in User, OnlyOf(u), NEW v \in User, v # u
    PROVE  /\ \A t : ReadyFor(v, t) => ReadyFor(v, t)'
           /\ Tidy(RowsOf(v), made[v], v \in joined, v) =>
                Tidy(RowsOf(v), made[v], v \in joined, v)'
           /\ Sound(RowsOf(v), mail[v]) => Sound(RowsOf(v), mail[v])'
           /\ (v \notin broken') = (v \notin broken) /\ RowsOf(v)' = RowsOf(v)
<1>1. /\ mode' = mode
      /\ RowsOf(v)' = RowsOf(v) /\ mail'[v] = mail[v] /\ made'[v] = made[v]
      /\ (v \in joined') = (v \in joined) /\ (v \notin broken') = (v \notin broken)
  BY DEF OnlyOf
<1>2. ASSUME NEW t PROVE ReadyFor(v, t)' = ReadyFor(v, t)
  BY <1>1, Zenon DEF ReadyFor
<1>. QED
  BY <1>1, <1>2, Zenon

LEMMA RequestTurn ==
    ASSUME Managed, NEW u \in User, OnlyOf(u),
           IsFiniteSet(RowsOf(u)'), Tidy(RowsOf(u), made[u], u \in joined, u)',
           NEW w \in Server, Idle(w) => ~Busy(u), ~Idle(w) => request[w].user = u,
           NEW q, request' = [request EXCEPT ![w] = q],
           q = NoRequest => (u \notin broken' => Sound(RowsOf(u), mail[u])'),
           NEW t,
           q # NoRequest =>
               IsRequest(q) /\ q.user = u /\ t = q.todo /\ ReadyFor(u, t)'
    PROVE  Managed'
<1>1. /\ request'[w] = q
      /\ \A v \in Server : v # w => request'[v] = request[v]
      /\ request' = [v \in Server |-> request'[v]]
  BY DEF Managed, Tables
<1>2. \A v \in Server : v # w => Idle(v)' = Idle(v)
  BY <1>1 DEF Idle
<1>3. Idle(w)' = (q = NoRequest)
  BY <1>1 DEF Idle
<1>4. \A v \in Server : v # w => ~Asks(v, u)
  BY DEF Managed, Apiece, Busy, Asks
<1>5. Tables'
  BY <1>1 DEF Tables, OnlyOf
<1>6. Apiece'
  <2>1. SUFFICES ASSUME NEW v \in Server, NEW x \in Server,
                        Idle(v)' = FALSE, Idle(x)' = FALSE,
                        request'[v].user = request'[x].user
                 PROVE  v = x
    BY DEF Apiece, Idle
  <2>2. CASE v # w /\ x # w
    BY <1>1, <1>2, <2>1, <2>2 DEF Managed, Apiece
  <2>3. ASSUME NEW y \in Server, y # w, Idle(y)' = FALSE, request'[y].user = u, Idle(w)' = FALSE
        PROVE  FALSE
    BY <1>1, <1>2, <1>4, <2>3 DEF Asks
  <2>4. Idle(w)' = FALSE => request'[w].user = u
    BY <1>1, <1>3
  <2>. QED
    BY <2>1, <2>2, <2>3, <2>4
<1>7. ASSUME NEW v \in Server, ~Idle(v)' PROVE IsRequest(request'[v])
  BY <1>1, <1>2, <1>3, <1>7 DEF Managed
<1>9. ASSUME NEW v \in Server, NEW x \in User, Asks(v, x)', NEW y, y = request'[v].todo
      PROVE  ReadyFor(x, y)'
  <2>1. ~Idle(v)' /\ request'[v].user = x
    BY <1>9 DEF Asks
  <2>2. CASE v = w
    BY <1>1, <1>3, <1>9, <2>1, <2>2
  <2>3. CASE v # w
    <3>1. request'[v] = request[v] /\ Asks(v, x) /\ x # u
      BY <1>1, <1>2, <1>4, <2>1, <2>3 DEF Asks
    <3>2. ReadyFor(x, y)
      BY <1>9, <3>1 DEF Managed
    <3>. QED
      BY <3>1, <3>2, OthersGoOn
  <2>. QED
    BY <2>2, <2>3
<1>8. ASSUME NEW v \in User PROVE UserSound(v)'
  <2>1. UserSound(v)
    BY DEF Managed
  <2>2. CASE v = u
    <3>1. Calm(u)' => u \notin broken' /\ q = NoRequest
      BY <1>1, <1>3 DEF Calm, Busy
    <3>. QED
      BY <2>2, <3>1 DEF UserSound
  <2>3. CASE v # u
    <3>1. Busy(v) => Busy(v)'
      <4>1. SUFFICES ASSUME NEW x \in Server, ~Idle(x), request[x].user = v
                     PROVE  Busy(v)'
        BY DEF Busy
      <4>2. x # w
        BY <2>3, <4>1
      <4>3. ~Idle(x)' /\ request'[x].user = v
        BY <1>1, <1>2, <4>1, <4>2
      <4>. QED
        BY <4>3 DEF Busy
    <3>2. Calm(v)' => Calm(v)
      BY <2>3, <3>1, OthersGoOn DEF Calm
    <3>3. IsFiniteSet(RowsOf(v)') /\ Tidy(RowsOf(v), made[v], v \in joined, v)'
      BY <2>1, <2>3, OthersGoOn DEF UserSound
    <3>4. Calm(v)' => Sound(RowsOf(v), mail[v])'
      BY <2>1, <2>3, <3>2, OthersGoOn DEF UserSound
    <3>. QED
      BY <3>3, <3>4 DEF UserSound
  <2>. QED
    BY <2>2, <2>3
<1>10. \A r \in rows' : r.user \in User
  BY DEF Managed, OnlyOf
<1>. QED
  BY <1>5, <1>6, <1>7, <1>8, <1>9, <1>10 DEF Managed

LEMMA QuietTurn ==
    ASSUME Managed, NEW u \in User, OnlyOf(u),
           IsFiniteSet(RowsOf(u)'), Tidy(RowsOf(u), made[u], u \in joined, u)',
           UNCHANGED request,
           Calm(u)' => Sound(RowsOf(u), mail[u])',
           \A w \in Server : Asks(w, u) => \A t : t = request[w].todo => ReadyFor(u, t)'
    PROVE  Managed'
<1>1. Tables'
  BY DEF Managed, Tables, OnlyOf
<1>2. \A w \in Server : Idle(w)' = Idle(w)
  BY DEF Idle
<1>3. Apiece'
  BY <1>2 DEF Managed, Apiece
<1>4. \A w \in Server : ~Idle(w)' => IsRequest(request'[w])
  BY <1>2 DEF Managed
<1>5. ASSUME NEW w \in Server, NEW x \in User, Asks(w, x)', NEW y, y = request'[w].todo
      PROVE  ReadyFor(x, y)'
  <2>1. Asks(w, x) /\ y = request[w].todo
    BY <1>2, <1>5 DEF Asks
  <2>2. ReadyFor(x, y)
    BY <2>1 DEF Managed
  <2>. QED
    BY <2>1, <2>2, OthersGoOn
<1>6. ASSUME NEW v \in User PROVE UserSound(v)'
  <2>1. UserSound(v)
    BY DEF Managed
  <2>2. CASE v = u
    BY <2>2 DEF UserSound
  <2>3. CASE v # u
    <3>1. Busy(v)' = Busy(v)
      BY <1>2 DEF Busy
    <3>2. Calm(v)' => Calm(v)
      BY <2>3, <3>1, OthersGoOn DEF Calm
    <3>3. IsFiniteSet(RowsOf(v)') /\ Tidy(RowsOf(v), made[v], v \in joined, v)'
      BY <2>1, <2>3, OthersGoOn DEF UserSound
    <3>4. Calm(v)' => Sound(RowsOf(v), mail[v])'
      BY <2>1, <2>3, <3>2, OthersGoOn DEF UserSound
    <3>. QED
      BY <3>3, <3>4 DEF UserSound
  <2>. QED
    BY <2>2, <2>3
<1>7. \A r \in rows' : r.user \in User
  BY DEF Managed, OnlyOf
<1>. QED
  BY <1>1, <1>3, <1>4, <1>5, <1>6, <1>7 DEF Managed

(* What a worker goes on with *)
LEMMA RequestContinues ==
    ASSUME Managed, NEW u \in User, OnlyOf(u),
           NEW w \in Server, Asks(w, u), NEW todo, Continue(w, todo),
           IsFiniteSet(RowsOf(u)'), Tidy(RowsOf(u), made[u], u \in joined, u)',
           ReadyFor(u, todo)'
    PROVE  Managed'
<1>. DEFINE q == IF todo = <<>> THEN NoRequest ELSE [request[w] EXCEPT !.todo = todo]
<1>1. request' = [request EXCEPT ![w] = q]
  BY DEF Continue
<1>2. ~Idle(w) /\ request[w].user = u /\ IsRequest(request[w])
  BY DEF Asks, Managed
<1>3. CASE todo = <<>>
  <2>1. u \notin broken' => Sound(RowsOf(u), mail[u])'
    <3>1. Promotions(todo) = {} /\ \A do : Doing(todo, do) = {}
      BY <1>3, NoSteps DEF Promotions, Doing
    <3>. QED
      BY <3>1 DEF ReadyFor, Ready, EndsWith, Sound
  <2>2. q = NoRequest
    BY <1>3
  <2>. HIDE DEF q
  <2>. QED
    BY <1>1, <1>2, <2>1, <2>2, RequestTurn
<1>4. CASE todo # <<>>
  <2>1. q = [request[w] EXCEPT !.todo = todo]
    BY <1>4
  <2>. HIDE DEF q
  <2>2. IsRequest(q) /\ q.user = u /\ q.todo = todo
    BY <1>2, <1>4, <2>1 DEF IsRequest
  <2>3. q # NoRequest
    BY <2>2, <1>4 DEF NoRequest
  <2>. QED
    BY <1>1, <1>2, <2>2, <2>3, RequestTurn
<1>. QED
  BY <1>3, <1>4

LEMMA RequestCollides ==
    ASSUME Managed, NEW u \in User, OnlyOf(u),
           NEW w \in Server, Asks(w, u), Collide(w),
           UNCHANGED <<rows, made, joined>>
    PROVE  Managed'
<1>1. request' = [request EXCEPT ![w] = NoRequest] /\ u \in broken'
  BY DEF Collide, Asks
<1>2. ~Idle(w) /\ request[w].user = u
  BY DEF Asks
<1>3. UserSound(u)
  BY DEF Managed
<1>4. IsFiniteSet(RowsOf(u)') /\ Tidy(RowsOf(u), made[u], u \in joined, u)'
  BY <1>3 DEF UserSound, RowsOf
<1>. QED
  BY <1>1, <1>2, <1>4, RequestTurn

LEMMA RequestBegins ==
    ASSUME Managed, NEW u \in User, OnlyOf(u),
           NEW w \in Server, NEW todo, Begin(w, u, todo),
           Tidy(RowsOf(u), made[u], u \in joined, u)', todo # <<>>,
           ReadyFor(u, todo)'
    PROVE  Managed'
<1>. DEFINE q == [user |-> u, todo |-> todo]
<1>1. /\ request' = [request EXCEPT ![w] = q] /\ Idle(w) /\ ~Busy(u)
      /\ rows' = rows
  BY DEF Begin
<1>2. IsRequest(q) /\ q.user = u /\ q.todo = todo
  BY DEF IsRequest
<1>. HIDE DEF q
<1>3. q # NoRequest
  BY <1>2 DEF NoRequest, IsRequest
<1>4. IsFiniteSet(RowsOf(u)')
  BY <1>1 DEF Managed, UserSound, RowsOf
<1>. QED
  BY <1>1, <1>2, <1>3, <1>4, RequestTurn

(* What happens to the rows of a user *)
Orderly(u) ==
    /\ mode.byEmail /\ RowsOf(u) # {} => RowsOf(u)' # {}
    /\ \A r \in Primary(u)' \ Primary(u) : r.verified \/ Verified(u) = {}

LEMMA RowsKept ==
    ASSUME NEW u, RowsOf(u)' = RowsOf(u)
    PROVE  Orderly(u)
BY DEF Orderly, Primary

LEMMA RowsUnchanged ==
    ASSUME rows' = rows, NEW u
    PROVE  RowsOf(u)' = RowsOf(u) /\ Orderly(u)
<1>1. RowsOf(u)' = RowsOf(u)
  BY DEF RowsOf
<1>. QED
  BY <1>1, RowsKept

(* One row is put in the place of another, or of none, or just goes. *)
LEMMA RowsPut ==
    ASSUME NEW u, NEW row, row.user = u, rows' = Others(row) \cup {row}
    PROVE  /\ RowsOf(u)' = Without(RowsOf(u), row) \cup {row}
           /\ \A v : v # u => RowsOf(v)' = RowsOf(v)
           /\ (row.primary => row.verified \/ \A r \in RowsOf(u) : ~r.verified)
                => Orderly(u)
<1>1. RowsOf(u)' = Without(RowsOf(u), row) \cup {row}
  BY DEF RowsOf, Without, Others
<1>2. \A v : v # u => RowsOf(v)' = RowsOf(v)
  BY DEF RowsOf, Others
<1>3. ASSUME row.primary => row.verified \/ \A r \in RowsOf(u) : ~r.verified
      PROVE  Orderly(u)
  BY <1>1, <1>3 DEF Orderly, Primary, Verified, Without
<1>. QED
  BY <1>1, <1>2, <1>3

LEMMA RowsGone ==
    ASSUME NEW u, NEW row, row.user = u, rows' = Others(row)
    PROVE  /\ RowsOf(u)' = Without(RowsOf(u), row)
           /\ \A v : v # u => RowsOf(v)' = RowsOf(v)
           /\ (mode.byEmail => Without(RowsOf(u), row) # {}) => Orderly(u)
<1>1. RowsOf(u)' = Without(RowsOf(u), row)
  BY DEF RowsOf, Without, Others
<1>2. \A v : v # u => RowsOf(v)' = RowsOf(v)
  BY DEF RowsOf, Others
<1>3. (mode.byEmail => Without(RowsOf(u), row) # {}) => Orderly(u)
  BY <1>1 DEF Orderly, Primary, Without
<1>. QED
  BY <1>1, <1>2, <1>3

LEMMA StillFinite ==
    ASSUME NEW X, IsFiniteSet(X), NEW row, NEW Y, Y \subseteq X \cup {row}
    PROVE  IsFiniteSet(Y)
BY FS_AddElement, FS_Subset

(* The request of a worker that is about to make a step *)
LEMMA Asked ==
    ASSUME Managed, NEW w \in Server, NEW do, NextIs(w, do)
    PROVE  \E u, t :
             /\ u \in User
             /\ Asks(w, u) /\ request[w].user = u /\ request[w].todo = t /\ t # <<>>
             /\ Head(t).do = do /\ ReadyFor(u, t)
<1>1. ~Idle(w) /\ Head(request[w].todo).do = do
  BY DEF NextIs
<1>2. IsRequest(request[w])
  BY <1>1 DEF Managed
<1>3. request[w].user \in User /\ Asks(w, request[w].user)
  BY <1>1, <1>2 DEF IsRequest, Asks
<1>4. ReadyFor(request[w].user, request[w].todo)
  BY <1>3 DEF Managed
<1>. QED
  BY <1>1, <1>2, <1>3, <1>4 DEF IsRequest

(* What every step does: it keeps the invariant, and is orderly. *)
Kept == Managed' /\ \A v \in User : Orderly(v)

LEMMA KeptBy ==
    ASSUME NEW u \in User, OnlyOf(u), Orderly(u), Managed'
    PROVE  Kept
<1>1. \A v \in User : v # u => RowsOf(v)' = RowsOf(v)
  BY DEF OnlyOf
<1>. QED
  BY <1>1, RowsKept DEF Kept

LEMMA SaveRowKeeps ==
    ASSUME Managed, NEW w \in Server, SaveRow(w)
    PROVE  Kept
<1>1. NextIs(w, "save")
  BY DEF SaveRow
<1>2. PICK u, t :
        /\ u \in User
        /\ Asks(w, u) /\ request[w].user = u /\ request[w].todo = t /\ t # <<>>
        /\ Head(t).do = "save" /\ ReadyFor(u, t)
  BY <1>1, Asked
<1>. DEFINE row == Head(t).row
<1>3. /\ mode' = mode /\ mail' = mail /\ made' = made /\ joined' = joined
      /\ \/ /\ Fits(row, Others(row)) /\ rows' = Others(row) \cup {row} /\ Done(w)
            /\ broken' = broken
         \/ Collide(w) /\ rows' = rows
  BY <1>2 DEF SaveRow
<1>4. UserSound(u)
  BY <1>2 DEF Managed
<1>5. CASE /\ Fits(row, Others(row)) /\ rows' = Others(row) \cup {row} /\ Done(w)
           /\ broken' = broken
  <2>. DEFINE X == RowsOf(u)
              Y == Without(X, row) \cup {row}
  <2>1. Tidy(X, made[u], u \in joined, u)
    BY <1>4 DEF UserSound
  <2>2. Ready(X, mode, mail[u], made[u], u \in joined, u \notin broken, u, t)
    BY <1>2 DEF ReadyFor
  <2>3. row.user = u
    <3>1. Head(t) \in Range(t)
      BY <1>2, <2>2, WrittenGoesOn DEF Ready
    <3>. QED
      BY <1>2, <2>2, <3>1 DEF Ready, Written, IsRow
  <2>4. \A r \in Without(X, row) : r.email # row.email /\ ~(r.primary /\ row.primary)
    BY <1>5, <2>3 DEF Fits, Without, RowsOf, Others
  <2>5. /\ RowsOf(u)' = Y /\ \A v : v # u => RowsOf(v)' = RowsOf(v)
        /\ (row.primary => row.verified \/ \A r \in X : ~r.verified) => Orderly(u)
    BY <1>5, <2>3, RowsPut
  <2>. HIDE DEF X, Y
  <2>6. /\ Tidy(Y, made[u], u \in joined, u)
        /\ Ready(Y, mode, mail[u], made[u], u \in joined, u \notin broken, u, Tail(t))
        /\ row.primary => row.verified \/ \A r \in X : ~r.verified
    BY <1>2, <2>1, <2>2, <2>4, SaveDone DEF Y
  <2>7. IsFiniteSet(Y)
    BY <1>4, StillFinite DEF UserSound, X, Y, Without
  <2>8. OnlyOf(u)
    <3>1. \A r \in rows' : r \in rows \/ r.user = u
      BY <1>5, <2>3 DEF Others
    <3>. QED
      BY <1>3, <1>5, <2>5, <3>1 DEF OnlyOf, Managed, Tables
  <2>9. Tidy(RowsOf(u), made[u], u \in joined, u)' /\ ReadyFor(u, Tail(t))'
    BY <1>3, <1>5, <2>5, <2>6 DEF ReadyFor
  <2>10. Continue(w, Tail(t))
    BY <1>2, <1>5 DEF Done
  <2>11. Managed'
    BY <1>2, <2>5, <2>7, <2>8, <2>9, <2>10, RequestContinues
  <2>. QED
    BY <1>2, <2>5, <2>6, <2>8, <2>11, KeptBy
<1>6. CASE Collide(w) /\ rows' = rows
  <2>1. OnlyOf(u)
    BY <1>2, <1>3, <1>6, RowsUnchanged DEF OnlyOf, Collide, Managed, Tables
  <2>2. Managed'
    BY <1>2, <1>3, <1>6, <2>1, RequestCollides
  <2>. QED
    BY <1>2, <1>6, <2>1, <2>2, KeptBy, RowsUnchanged
<1>. QED
  BY <1>3, <1>5, <1>6

LEMMA SetMailKeeps ==
    ASSUME Managed, NEW w \in Server, SetMail(w)
    PROVE  Kept
<1>1. NextIs(w, "mail")
  BY DEF SetMail
<1>2. PICK u, t :
        /\ u \in User
        /\ Asks(w, u) /\ request[w].user = u /\ request[w].todo = t /\ t # <<>>
        /\ Head(t).do = "mail" /\ ReadyFor(u, t)
  BY <1>1, Asked
<1>3. /\ mail' = [mail EXCEPT ![u] = Head(t).to] /\ Continue(w, Tail(t))
      /\ mode' = mode /\ rows' = rows /\ made' = made /\ joined' = joined
      /\ broken' = broken
  BY <1>2 DEF SetMail, Done
<1>4. UserSound(u)
  BY <1>2 DEF Managed
<1>5. \A v : RowsOf(v)' = RowsOf(v) /\ Orderly(v)
  BY <1>3, RowsUnchanged
<1>6. /\ mail'[u] = Head(t).to /\ mail' = [v \in User |-> mail'[v]]
      /\ \A v \in User : v # u => mail'[v] = mail[v]
  BY <1>2, <1>3 DEF Managed, Tables
<1>7. OnlyOf(u)
  BY <1>3, <1>5, <1>6 DEF OnlyOf, Managed, Tables
<1>8. Ready(RowsOf(u), mode, Head(t).to, made[u], u \in joined, u \notin broken, u, Tail(t))
  BY <1>2, MailDone DEF ReadyFor
<1>9. ReadyFor(u, Tail(t))'
  BY <1>3, <1>5, <1>6, <1>8 DEF ReadyFor
<1>10. IsFiniteSet(RowsOf(u)') /\ Tidy(RowsOf(u), made[u], u \in joined, u)'
  BY <1>3, <1>4, <1>5 DEF UserSound
<1>11. Managed'
  BY <1>2, <1>3, <1>7, <1>9, <1>10, RequestContinues
<1>. QED
  BY <1>5, <1>11 DEF Kept

LEMMA DeleteRowKeeps ==
    ASSUME Managed, NEW w \in Server, DeleteRow(w)
    PROVE  Kept
<1>1. NextIs(w, "delete")
  BY DEF DeleteRow
<1>2. PICK u, t :
        /\ u \in User
        /\ Asks(w, u) /\ request[w].user = u /\ request[w].todo = t /\ t # <<>>
        /\ Head(t).do = "delete" /\ ReadyFor(u, t)
  BY <1>1, Asked
<1>. DEFINE row == Head(t).row
            known == IF Head(t).read = Unread THEN mail[u] ELSE Head(t).read
            X == RowsOf(u)
            Y == Without(X, row)
<1>3. UserSound(u)
  BY <1>2 DEF Managed
<1>4. Tidy(X, made[u], u \in joined, u)
  BY <1>3 DEF UserSound
<1>5. Ready(X, mode, mail[u], made[u], u \in joined, u \notin broken, u, t)
  BY <1>2 DEF ReadyFor
<1>6. /\ Tidy(Y, made[u], u \in joined, u) /\ row.user = u
      /\ mode.byEmail => Y # {}
      /\ known # row.email =>
           Ready(Y, mode, mail[u], made[u], u \in joined, u \notin broken, u, Tail(t))
  <2>. HIDE DEF X
  <2>. QED
    BY <1>2, <1>4, <1>5, DeleteDone
<1>7. /\ mode' = mode /\ mail' = mail /\ made' = made /\ joined' = joined
      /\ broken' = broken /\ rows' = Others(row)
      /\ \/ known # row.email /\ Continue(w, Tail(t))
         \/ /\ known = row.email
            /\ \E e : Continue(w, <<Mail(e)>> \o Tail(t))
  BY <1>2, <1>6 DEF DeleteRow, Done
<1>8. /\ RowsOf(u)' = Y /\ \A v : v # u => RowsOf(v)' = RowsOf(v)
      /\ Orderly(u)
  BY <1>6, <1>7, RowsGone
<1>9. IsFiniteSet(RowsOf(u)')
  BY <1>3, <1>8, StillFinite DEF UserSound, Without
<1>10. OnlyOf(u)
  <2>1. \A r \in rows' : r \in rows
    BY <1>7 DEF Others
  <2>. QED
    BY <1>7, <1>8, <2>1 DEF OnlyOf, Managed, Tables
<1>11. Tidy(RowsOf(u), made[u], u \in joined, u)'
  BY <1>6, <1>7, <1>8
<1>12. ASSUME NEW q, Continue(w, q),
              Ready(Y, mode, mail[u], made[u], u \in joined, u \notin broken, u, q)
       PROVE  Managed'
  <2>1. ReadyFor(u, q)'
    BY <1>7, <1>8, <1>12 DEF ReadyFor
  <2>. QED
    BY <1>2, <1>9, <1>10, <1>11, <1>12, <2>1, RequestContinues
<1>13. Managed'
  <2>1. CASE known # row.email /\ Continue(w, Tail(t))
    BY <1>6, <1>12, <2>1
  <2>2. CASE known = row.email /\ \E e : Continue(w, <<Mail(e)>> \o Tail(t))
    <3>1. PICK e : Continue(w, <<Mail(e)>> \o Tail(t))
      BY <2>2
    <3>. DEFINE q == <<Mail(e)>> \o Tail(t)
    <3>2. Ready(Y, mode, mail[u], made[u], u \in joined, u \notin broken, u, q)
      <4>. HIDE DEF X
      <4>. QED
        BY <1>2, <1>4, <1>5, <2>2, DeleteMails
    <3>. HIDE DEF q
    <3>3. Continue(w, q)
      BY <3>1 DEF q
    <3>. QED
      BY <1>12, <3>2, <3>3
  <2>. QED
    BY <1>7, <2>1, <2>2
<1>. QED
  BY <1>2, <1>8, <1>10, <1>13, KeptBy

LEMMA CreateRowKeeps ==
    ASSUME Managed, NEW w \in Server, CreateRow(w)
    PROVE  Kept
<1>1. NextIs(w, "create")
  BY DEF CreateRow
<1>2. PICK u, t :
        /\ u \in User
        /\ Asks(w, u) /\ request[w].user = u /\ request[w].todo = t /\ t # <<>>
        /\ Head(t).do = "create" /\ ReadyFor(u, t)
  BY <1>1, Asked
<1>. DEFINE row == Head(t).row
            X == RowsOf(u)
            Y == IF \E r \in Without(X, row) : r.email = row.email
                   THEN X ELSE X \cup {row}
<1>3. UserSound(u)
  BY <1>2 DEF Managed
<1>4. Tidy(X, made[u], u \in joined, u)
  BY <1>3 DEF UserSound
<1>5. Ready(X, mode, mail[u], made[u], u \in joined, u \notin broken, u, t)
  BY <1>2 DEF ReadyFor
<1>6. /\ Tidy(Y, made[u], u \in joined, u) /\ row.user = u /\ ~row.primary
      /\ Ready(Y, mode, mail[u], made[u], u \in joined, u \notin broken, u, Tail(t))
  <2>. HIDE DEF X
  <2>. QED
    BY <1>2, <1>4, <1>5, CreateDone
<1>7. /\ mode' = mode /\ mail' = mail /\ made' = made /\ joined' = joined
      /\ broken' = broken /\ Continue(w, Tail(t))
      /\ rows' = IF \E r \in OthersOf(row) : r.email = row.email
                   THEN rows ELSE rows \cup {row}
  BY <1>2 DEF CreateRow, Done
<1>8. OthersOf(row) = Without(X, row)
  BY <1>6 DEF OthersOf, Others, Without, RowsOf
<1>9. RowsOf(u)' = Y /\ \A v : v # u => RowsOf(v)' = RowsOf(v)
  BY <1>6, <1>7, <1>8 DEF RowsOf
<1>10. Orderly(u)
  BY <1>6, <1>9 DEF Orderly, Primary
<1>11. IsFiniteSet(RowsOf(u)')
  BY <1>3, <1>9, StillFinite DEF UserSound
<1>12. OnlyOf(u)
  <2>1. \A r \in rows' : r \in rows \/ r.user = u
    BY <1>6, <1>7
  <2>. QED
    BY <1>7, <1>9, <2>1 DEF OnlyOf, Managed, Tables
<1>13. Tidy(RowsOf(u), made[u], u \in joined, u)' /\ ReadyFor(u, Tail(t))'
  <2>. HIDE DEF Y
  <2>. QED
    BY <1>6, <1>7, <1>9 DEF ReadyFor
<1>14. Managed'
  BY <1>2, <1>7, <1>11, <1>12, <1>13, RequestContinues
<1>. QED
  BY <1>2, <1>10, <1>12, <1>14, KeptBy

LEMMA ClearOthersKeeps ==
    ASSUME Managed, NEW w \in Server, ClearOthers(w)
    PROVE  Kept
<1>1. NextIs(w, "clear")
  BY DEF ClearOthers
<1>2. PICK u, t :
        /\ u \in User
        /\ Asks(w, u) /\ request[w].user = u /\ request[w].todo = t /\ t # <<>>
        /\ Head(t).do = "clear" /\ ReadyFor(u, t)
  BY <1>1, Asked
<1>. DEFINE row == Head(t).row
            X == RowsOf(u)
            some == Without(X, row)
            n == Cardinality(some)
<1>3. UserSound(u)
  BY <1>2 DEF Managed
<1>4. Tidy(X, made[u], u \in joined, u)
  BY <1>3 DEF UserSound
<1>5. Ready(X, mode, mail[u], made[u], u \in joined, u \notin broken, u, t)
  BY <1>2 DEF ReadyFor
<1>6. row.user = u
  <2>1. Head(t) \in Range(t)
    BY <1>2, <1>5, WrittenGoesOn DEF Ready
  <2>. QED
    BY <1>2, <1>5, <2>1 DEF Ready, Written
<1>7. OthersOf(row) = some
  BY <1>6 DEF OthersOf, Others, Without, RowsOf
<1>8. n \in Nat
  <2>1. IsFiniteSet(some)
    BY <1>3, FS_Subset DEF UserSound, Without
  <2>. QED
    BY <2>1, FS_CardinalityType
<1>9. /\ UNCHANGED <<mode, rows, mail, made, joined, broken>>
      /\ \E order \in Orders(OthersOf(row)) :
           Continue(w, [i \in DOMAIN order |-> Delete(order[i], Unread)])
  BY <1>2 DEF ClearOthers
<1>10. PICK order \in [1..n -> some] :
         Continue(w, [i \in DOMAIN order |-> Delete(order[i], Unread)])
  <2>. HIDE DEF some
  <2>. QED
    BY <1>7, <1>9 DEF Orders
<1>. DEFINE q == [i \in DOMAIN order |-> Delete(order[i], Unread)]
<1>11. Ready(X, mode, mail[u], made[u], u \in joined, u \notin broken, u, q)
  <2>. HIDE DEF X, n
  <2>. QED
    BY <1>2, <1>4, <1>5, <1>8, ClearDone
<1>12. \A v : RowsOf(v)' = RowsOf(v) /\ Orderly(v)
  BY <1>9, RowsUnchanged
<1>13. OnlyOf(u)
  BY <1>9, <1>12 DEF OnlyOf, Managed, Tables
<1>14. Continue(w, q)
  BY <1>10
<1>. HIDE DEF q
<1>15. ReadyFor(u, q)'
  BY <1>9, <1>11, <1>12 DEF ReadyFor
<1>16. IsFiniteSet(RowsOf(u)') /\ Tidy(RowsOf(u), made[u], u \in joined, u)'
  BY <1>3, <1>9, <1>12 DEF UserSound
<1>17. Managed'
  BY <1>2, <1>13, <1>14, <1>15, <1>16, RequestContinues
<1>. QED
  BY <1>12, <1>17 DEF Kept

LEMMA CrashKeeps ==
    ASSUME Managed, NEW w \in Server, Crash(w)
    PROVE  Kept
<1>. DEFINE u == request[w].user
<1>1. Asks(w, u) /\ u \in User
  BY DEF Crash, Asks, Managed, IsRequest
<1>2. UNCHANGED <<mode, rows, mail, made, joined>> /\ Collide(w)
  BY DEF Crash
<1>3. PICK x \in User : x = u /\ Asks(w, x)
  BY <1>1
<1>4. OnlyOf(x)
  BY <1>2, <1>3, RowsUnchanged DEF OnlyOf, Collide, Managed, Tables
<1>5. Managed'
  BY <1>2, <1>3, <1>4, RequestCollides
<1>. QED
  BY <1>2, <1>5, RowsUnchanged DEF Kept

LEMMA ReplaceRowKeeps ==
    ASSUME Managed, NEW w \in Server, ReplaceRow(w)
    PROVE  Kept
<1>1. NextIs(w, "replace")
  BY DEF ReplaceRow
<1>2. PICK u, t :
        /\ u \in User
        /\ Asks(w, u) /\ request[w].user = u /\ request[w].todo = t /\ t # <<>>
        /\ Head(t).do = "replace" /\ ReadyFor(u, t)
  BY <1>1, Asked
<1>. DEFINE row == Head(t).row
            gone == Head(t).gone
            X == RowsOf(u)
            over == {r \in rows : \A g \in gone : <<r.user, r.id>> # <<g.user, g.id>>}
            left == Spared(X, gone)
            Y == left \cup {row}
<1>3. UserSound(u)
  BY <1>2 DEF Managed
<1>4. Tidy(X, made[u], u \in joined, u)
  BY <1>3 DEF UserSound
<1>5. Ready(X, mode, mail[u], made[u], u \in joined, u \notin broken, u, t)
  BY <1>2 DEF ReadyFor
<1>6. row.user = u /\ \A g \in gone : g.user = u
  <2>1. Head(t) \in Range(t) /\ Head(t) \in Doing(t, "replace")
    BY <1>2, <1>5, WrittenGoesOn DEF Ready, Doing
  <2>. QED
    BY <1>2, <1>5, <2>1 DEF Ready, Written, Fresh, IsRow
<1>7. /\ mode' = mode /\ made' = made /\ joined' = joined
      /\ \/ /\ Fits(row, over) /\ rows' = over \cup {row} /\ Continue(w, Tail(t))
            /\ broken' = broken
            /\ \/ (\E g \in gone : mail[u] = g.email)
                    /\ \E e : mail' = [mail EXCEPT ![u] = e]
               \/ ~(\E g \in gone : mail[u] = g.email) /\ mail' = mail
         \/ Collide(w) /\ rows' = rows /\ mail' = mail
  BY <1>2, <1>6 DEF ReplaceRow, Done
<1>8. CASE Collide(w) /\ rows' = rows /\ mail' = mail
  <2>1. OnlyOf(u)
    BY <1>2, <1>7, <1>8, RowsUnchanged DEF OnlyOf, Collide, Managed, Tables
  <2>2. Managed'
    BY <1>2, <1>7, <1>8, <2>1, RequestCollides
  <2>. QED
    BY <1>2, <1>8, <2>1, <2>2, KeptBy, RowsUnchanged
<1>9. CASE /\ Fits(row, over) /\ rows' = over \cup {row} /\ Continue(w, Tail(t))
           /\ broken' = broken
           /\ \/ (\E g \in gone : mail[u] = g.email)
                   /\ \E e : mail' = [mail EXCEPT ![u] = e]
              \/ ~(\E g \in gone : mail[u] = g.email) /\ mail' = mail
  <2>1. left = {r \in over : r.user = u}
    BY <1>6 DEF RowsOf, Spared
  <2>2. \A r \in left : r.email # row.email
    BY <1>6, <1>9, <2>1 DEF Fits
  <2>3. RowsOf(u)' = Y
    BY <1>6, <1>9, <2>1 DEF RowsOf
  <2>4. \A v : v # u => RowsOf(v)' = RowsOf(v)
    BY <1>6, <1>9 DEF RowsOf
  <2>5. /\ mail' = [v \in User |-> mail'[v]]
        /\ \A v \in User : v # u => mail'[v] = mail[v]
        /\ (\A g \in gone : g.email # mail[u]) => mail'[u] = mail[u]
    BY <1>2, <1>9 DEF Managed, Tables
  <2>6. /\ Tidy(Y, made[u], u \in joined, u) /\ ~row.primary
        /\ Ready(Y, mode, mail'[u], made[u], u \in joined, u \notin broken, u, Tail(t))
    <3>. HIDE DEF X
    <3>1. Head(t).do = "replace" /\ t # <<>>
      BY <1>2
    <3>2. (\A g \in gone : g.email # mail[u]) => mail'[u] = mail[u]
      BY <2>5
    <3>4. /\ Tidy(Y, made[u], u \in joined, u)
          /\ Ready(Y, mode, mail'[u], made[u], u \in joined, u \notin broken, u, Tail(t))
      BY <1>4, <1>5, <2>2, <3>1, <3>2, ReplaceDone
    <3>5. ~row.primary
      BY <1>5, <3>1, MakingRest
    <3>. QED
      BY <3>4, <3>5
  <2>7. OnlyOf(u)
    <3>1. \A r \in rows' : r \in rows \/ r.user = u
      BY <1>6, <1>9
    <3>. QED
      BY <1>7, <1>9, <2>4, <2>5, <3>1 DEF OnlyOf, Managed, Tables
  <2>8. Orderly(u)
    BY <2>3, <2>6 DEF Orderly, Primary, Spared
  <2>9. IsFiniteSet(RowsOf(u)')
    BY <1>3, <2>3, StillFinite DEF UserSound, Spared
  <2>10. Tidy(RowsOf(u), made[u], u \in joined, u)' /\ ReadyFor(u, Tail(t))'
    <3>. HIDE DEF Y
    <3>. QED
      BY <1>7, <1>9, <2>3, <2>6 DEF ReadyFor
  <2>11. Managed'
    BY <1>2, <1>9, <2>7, <2>9, <2>10, RequestContinues
  <2>. QED
    BY <1>2, <2>7, <2>8, <2>11, KeptBy
<1>. QED
  BY <1>7, <1>8, <1>9

LEMMA CalmSound ==
    ASSUME Managed, NEW u \in User, ~Busy(u)
    PROVE  /\ IsFiniteSet(RowsOf(u)) /\ Tidy(RowsOf(u), made[u], u \in joined, u)
           /\ u \notin broken => Sound(RowsOf(u), mail[u])
           /\ made[u] \in Nat
BY DEF Managed, UserSound, Calm, Tidy

LEMMA NewRowIs ==
    ASSUME NEW u, NEW e, made[u] \in Nat, NEW row, row = NewRow(u, e)
    PROVE  /\ IsRow(row, u) /\ row.id = made[u] + 1 /\ row.email = e
           /\ ~row.verified /\ ~row.primary
BY DEF NewRow, IsRow

LEMMA JoinKeeps ==
    ASSUME Managed, NEW u \in User, Join(u)
    PROVE  Kept
<1>1. /\ UNCHANGED <<mode, rows, mail, made, request, broken>> /\ u \in joined'
      /\ \A v : v # u => (v \in joined') = (v \in joined)
  BY DEF Join
<1>2. \A v : RowsOf(v)' = RowsOf(v) /\ Orderly(v)
  BY <1>1, RowsUnchanged
<1>3. OnlyOf(u)
  BY <1>1, <1>2 DEF OnlyOf, Managed, Tables
<1>4. UserSound(u)
  BY DEF Managed
<1>5. Tidy(RowsOf(u), made[u], u \in joined, u)'
  BY <1>1, <1>2, <1>4 DEF UserSound, Tidy
<1>6. Calm(u)' => Sound(RowsOf(u), mail[u])'
  <2>1. Calm(u)' => Calm(u)
    BY <1>1 DEF Calm, Busy, Idle
  <2>. QED
    BY <1>1, <1>2, <1>4, <2>1 DEF UserSound
<1>7. ASSUME NEW t, ReadyFor(u, t) PROVE ReadyFor(u, t)'
  BY <1>1, <1>2, <1>7 DEF ReadyFor, Ready, Joining, Fresh
<1>8. \A w \in Server : Asks(w, u) => \A t : t = request[w].todo => ReadyFor(u, t)'
  BY <1>7 DEF Managed
<1>9. Managed'
  BY <1>1, <1>2, <1>3, <1>4, <1>5, <1>6, <1>8, QuietTurn DEF UserSound
<1>. QED
  BY <1>2, <1>9 DEF Kept

LEMMA SyncKeeps ==
    ASSUME Managed, NEW u \in User, Sync(u)
    PROVE  Kept
<1>. DEFINE row == NewRow(u, mail[u])
            X == RowsOf(u)
<1>1. /\ UNCHANGED <<mode, mail, joined, request, broken>>
      /\ rows' = rows \cup {row} /\ made' = [made EXCEPT ![u] = @ + 1]
      /\ ~Busy(u) /\ u \in joined /\ \A r \in X : r.email # mail[u]
  BY DEF Sync, Made, Synced
<1>2. /\ IsFiniteSet(X) /\ Tidy(X, made[u], u \in joined, u)
      /\ u \notin broken => Sound(X, mail[u])
      /\ made[u] \in Nat
  BY <1>1, CalmSound
<1>3. /\ IsRow(row, u) /\ row.id = made[u] + 1 /\ row.email = mail[u]
      /\ ~row.verified /\ ~row.primary
  BY <1>2, NewRowIs
<1>. HIDE DEF row
<1>4. RowsOf(u)' = X \cup {row} /\ \A v : v # u => RowsOf(v)' = RowsOf(v)
  BY <1>1, <1>3 DEF RowsOf, IsRow
<1>5. /\ made'[u] = made[u] + 1 /\ made' = [v \in User |-> made'[v]]
      /\ \A v \in User : v # u => made'[v] = made[v]
  BY <1>1 DEF Managed, Tables
<1>. HIDE DEF X
<1>6. OnlyOf(u)
  <2>1. \A r \in rows' : r \in rows \/ r.user = u
    BY <1>1, <1>3 DEF IsRow
  <2>. QED
    BY <1>1, <1>4, <1>5, <2>1 DEF OnlyOf, Managed, Tables
<1>7. Tidy(X \cup {row}, made[u] + 1, u \in joined, u)
  <2>1. Tidy(X, made[u] + 1, u \in joined, u) /\ \A r \in X : r.id # made[u] + 1
    BY <1>2, FreshTidy
  <2>. QED
    BY <1>1, <1>2, <1>3, <2>1 DEF Tidy
<1>8. Tidy(RowsOf(u), made[u], u \in joined, u)'
  BY <1>1, <1>4, <1>5, <1>7
<1>9. IsFiniteSet(RowsOf(u)')
  BY <1>2, <1>4, StillFinite
<1>10. Calm(u)' => Sound(RowsOf(u), mail[u])'
  <2>1. Calm(u)' => u \notin broken
    BY <1>1 DEF Calm
  <2>. QED
    BY <1>1, <1>2, <1>3, <1>4, <2>1 DEF Sound
<1>11. \A w \in Server : ~Asks(w, u)
  BY <1>1 DEF Asks, Busy
<1>12. Managed'
  BY <1>1, <1>6, <1>8, <1>9, <1>10, <1>11, QuietTurn
<1>13. Orderly(u)
  BY <1>3, <1>4 DEF Orderly, Primary, X
<1>. QED
  BY <1>6, <1>12, <1>13, KeptBy

LEMMA NothingKeeps ==
    ASSUME Managed, UNCHANGED <<mode, rows, mail, made, joined, request, broken>>
    PROVE  Kept
<1>1. Managed'
  BY DEF Managed, Tables, Apiece, UserSound, Calm, Busy, Idle, Asks, IsRequest,
         ReadyFor, RowsOf
<1>. QED
  BY <1>1, RowsUnchanged DEF Kept

LEMMA BeginKeeps ==
    ASSUME Managed, NEW w \in Server, NEW u \in User, NEW todo, Begin(w, u, todo),
           made' = made \/ Made(u), joined' = joined \/ joined' = joined \cup {u},
           todo # <<>>,
           Ready(RowsOf(u), mode, mail[u], made'[u], u \in joined', u \notin broken, u, todo)
    PROVE  Kept
<1>1. UNCHANGED <<mode, rows, mail, broken>> /\ ~Busy(u)
  BY DEF Begin
<1>2. \A v : RowsOf(v)' = RowsOf(v) /\ Orderly(v)
  BY <1>1, RowsUnchanged
<1>3. /\ made'[u] = made[u] \/ made'[u] = made[u] + 1
      /\ made' = [v \in User |-> made'[v]]
      /\ \A v \in User : v # u => made'[v] = made[v]
  BY DEF Made, Managed, Tables
<1>4. OnlyOf(u)
  BY <1>1, <1>2, <1>3 DEF OnlyOf, Managed, Tables
<1>5. Tidy(RowsOf(u), made[u], u \in joined, u)
  BY <1>1, CalmSound
<1>6. Tidy(RowsOf(u), made'[u], u \in joined, u)
  BY <1>3, <1>5, FreshTidy
<1>7. Tidy(RowsOf(u), made'[u], u \in joined', u)
  BY <1>6 DEF Tidy
<1>8. Tidy(RowsOf(u), made[u], u \in joined, u)'
  BY <1>2, <1>7
<1>9. ReadyFor(u, todo)'
  BY <1>1, <1>2 DEF ReadyFor
<1>10. Managed'
  BY <1>4, <1>8, <1>9, RequestBegins
<1>. QED
  BY <1>2, <1>10 DEF Kept

LEMMA AddKeeps ==
    ASSUME Managed, NEW w \in Server, NEW u \in User, NEW e, Add(w, u, e)
    PROVE  Kept
<1>. DEFINE row == NewRow(u, e)
            t == <<Create(row)>>
<1>1. /\ Begin(w, u, t) /\ Made(u) /\ joined' = joined /\ u \in joined
  BY DEF Add, MayManage
<1>2. ~Busy(u)
  BY <1>1 DEF Begin
<1>3. /\ IsRow(row, u) /\ row.id = made[u] + 1 /\ ~row.verified /\ ~row.primary
  BY <1>2, CalmSound, NewRowIs
<1>4. made'[u] = made[u] + 1
  BY <1>1 DEF Made, Managed, Tables
<1>. HIDE DEF row
<1>5. /\ Tidy(RowsOf(u), made[u], u \in joined, u)
      /\ u \notin broken => Sound(RowsOf(u), mail[u])
  BY <1>2, CalmSound
<1>6. Ready(RowsOf(u), mode, mail[u], made[u] + 1, u \in joined, u \notin broken, u, t)
  BY <1>1, <1>3, <1>5, CreateBegins
<1>7. t # <<>>
  OBVIOUS
<1>. HIDE DEF t
<1>. QED
  BY <1>1, <1>4, <1>6, <1>7, BeginKeeps

LEMMA AddNewKeeps ==
    ASSUME Managed, NEW w \in Server, NEW u \in User, NEW e, AddNew(w, u, e)
    PROVE  Kept
<1>. DEFINE row == NewRow(u, e)
            gone == GetNew(u)
            t == <<Replace(gone, row)>>
<1>1. /\ Begin(w, u, t) /\ Made(u) /\ joined' = joined /\ u \in joined
  BY DEF AddNew, MayManage
<1>2. ~Busy(u)
  BY <1>1 DEF Begin
<1>3. /\ IsRow(row, u) /\ row.id = made[u] + 1 /\ ~row.verified /\ ~row.primary
  BY <1>2, CalmSound, NewRowIs
<1>4. made'[u] = made[u] + 1
  BY <1>1 DEF Made, Managed, Tables
<1>5. gone \subseteq RowsOf(u)
  BY DEF GetNew
<1>. HIDE DEF row, gone
<1>6. /\ Tidy(RowsOf(u), made[u], u \in joined, u)
      /\ u \notin broken => Sound(RowsOf(u), mail[u])
  BY <1>2, CalmSound
<1>7. Ready(RowsOf(u), mode, mail[u], made[u] + 1, u \in joined, u \notin broken, u, t)
  BY <1>1, <1>3, <1>5, <1>6, ReplaceBegins
<1>8. t # <<>>
  OBVIOUS
<1>. HIDE DEF t
<1>. QED
  BY <1>1, <1>4, <1>7, <1>8, BeginKeeps

LEMMA ChangeToKeeps ==
    ASSUME Managed, NEW w \in Server, NEW u \in User, NEW e, ChangeTo(w, u, e)
    PROVE  Kept
<1>. DEFINE row == NewRow(u, e)
            gone == GetNew(u)
            t == <<Replace(gone, row), Mail(e)>>
<1>1. /\ Begin(w, u, t) /\ Made(u) /\ joined' = joined /\ u \notin joined
  BY DEF ChangeTo
<1>2. ~Busy(u)
  BY <1>1 DEF Begin
<1>3. /\ IsRow(row, u) /\ row.id = made[u] + 1 /\ ~row.verified /\ ~row.primary
  BY <1>2, CalmSound, NewRowIs
<1>4. made'[u] = made[u] + 1
  BY <1>1 DEF Made, Managed, Tables
<1>6. /\ Tidy(RowsOf(u), made[u], u \in joined, u)
      /\ u \notin broken => Sound(RowsOf(u), mail[u])
  BY <1>2, CalmSound
<1>5. gone = RowsOf(u)
  <2>1. \A r, s \in RowsOf(u) : ~r.verified /\ r = s /\ r.id \in Nat
    BY <1>1, <1>6 DEF Tidy, IsRow
  <2>. QED
    BY <2>1 DEF GetNew, Verified
<1>. HIDE DEF row, gone
<1>7. Ready(RowsOf(u), mode, mail[u], made[u] + 1, u \in joined, u \notin broken, u, t)
  BY <1>1, <1>3, <1>5, <1>6, ReplaceBegins
<1>8. t # <<>>
  OBVIOUS
<1>. HIDE DEF t
<1>. QED
  BY <1>1, <1>4, <1>7, <1>8, BeginKeeps

LEMMA RemoveKeeps ==
    ASSUME Managed, NEW w \in Server, NEW row \in rows, Remove(w, row)
    PROVE  Kept
<1>. DEFINE u == row.user
            t == <<Delete(row, mail[u])>>
<1>1. /\ Begin(w, u, t) /\ UNCHANGED <<made, joined>> /\ u \in joined /\ MayDelete(row)
  BY DEF Remove, MayManage
<1>2. ~Busy(u) /\ u \in User /\ row \in RowsOf(u)
  BY <1>1 DEF Begin, Managed, RowsOf
<1>3. mode.byEmail => Without(RowsOf(u), row) # {}
  <2>1. OthersOf(row) = Without(RowsOf(u), row)
    BY DEF OthersOf, Others, Without, RowsOf
  <2>. QED
    BY <1>1, <2>1 DEF MayDelete
<1>. HIDE DEF u
<1>4. /\ Tidy(RowsOf(u), made[u], u \in joined, u)
      /\ u \notin broken => Sound(RowsOf(u), mail[u])
  BY <1>2, CalmSound
<1>5. Ready(RowsOf(u), mode, mail[u], made[u], u \in joined, u \notin broken, u, t)
  BY <1>1, <1>2, <1>3, <1>4, DeleteBegins
<1>6. t # <<>>
  OBVIOUS
<1>. HIDE DEF t
<1>. QED
  BY <1>1, <1>2, <1>5, <1>6, BeginKeeps

LEMMA DemotedIs ==
    ASSUME NEW u, NEW k, NEW j, Tidy(RowsOf(u), k, j, u)
    PROVE  \E d : /\ Demotion(d, k, u, Demoted(u))
                  /\ Demoted(u) # <<>> =>
                       \E p \in RowsOf(u) :
                           d.id = p.id /\ d.email = p.email /\ d.verified = p.verified
<1>1. CASE Primary(u) = {}
  <2>1. Demoted(u) = <<>>
    BY <1>1 DEF Demoted
  <2>. QED
    BY <2>1 DEF Demotion
<1>2. CASE Primary(u) # {}
  <2>. DEFINE p == CHOOSE r \in Primary(u) : TRUE
              d == [p EXCEPT !.primary = FALSE]
  <2>1. p \in RowsOf(u)
    BY <1>2 DEF Primary
  <2>2. Demoted(u) = <<Save(d)>>
    BY <1>2 DEF Demoted
  <2>. HIDE DEF p
  <2>3. IsRow(p, u) /\ p.id <= k
    BY <2>1 DEF Tidy
  <2>4. /\ IsRow(d, u) /\ d.id = p.id /\ d.email = p.email /\ ~d.primary
        /\ d.verified = p.verified
    BY <2>3, DemotedRow
  <2>. HIDE DEF d
  <2>. QED
    BY <2>1, <2>2, <2>3, <2>4 DEF Demotion
<1>. QED
  BY <1>1, <1>2

(* set_as_primary() of a row that there is, or that is new *)
LEMMA PrimariedReady ==
    ASSUME NEW u, NEW X, X = RowsOf(u), NEW S, NEW m, NEW k, NEW j, j, NEW ok,
           Tidy(X, k, j, u),
           NEW row, IsRow(row, u), row.id <= k,
           \/ \E r \in X : r.id = row.id /\ r.email = row.email
           \/ \A r \in X : r.id # row.id,
           row.verified \/ \A r \in X : ~r.verified,
           NEW first, first = [row EXCEPT !.primary = TRUE],
           NEW c, NEW after, Rest(first, c, u, after),
           NEW t, t = Primaried(row) \o after
    PROVE  Ready(X, S, m, k, j, ok, u, t) /\ t # <<>>
<1>1. /\ IsRow(first, u) /\ first.id = row.id /\ first.email = row.email
      /\ first.primary /\ first.verified = row.verified
  BY PrimaryRow
<1>2. Primaried(row) = Demoted(u) \o <<Save(first), Mail(first.email)>>
  BY <1>1 DEF Primaried, IsRow
<1>3. PICK d : /\ Demotion(d, k, u, Demoted(u))
               /\ Demoted(u) # <<>> =>
                    \E p \in RowsOf(u) :
                        d.id = p.id /\ d.email = p.email /\ d.verified = p.verified
  BY DemotedIs
<1>. DEFINE before == Demoted(u)
<1>4. before # <<>> /\ d.id = first.id => d.email = first.email
  BY <1>1, <1>3 DEF Tidy
<1>5. \/ first.verified
      \/ /\ \A r \in X : ~r.verified
         /\ before # <<>> => ~d.verified
  BY <1>1, <1>3
<1>6. k \in Nat
  BY DEF Tidy
<1>7. t = (before \o <<Save(first), Mail(first.email)>>) \o after
  BY <1>2
<1>8. Demotion(d, k, u, before)
  BY <1>3
<1>. HIDE DEF before
<1>9. first.id <= k
  BY <1>1
<1>10. Ready(X, S, m, k, j, ok, u, t)
  BY <1>1, <1>4, <1>5, <1>6, <1>7, <1>8, <1>9, PromotionBegins
<1>11. t # <<>>
  BY <1>1, <1>4, <1>5, <1>6, <1>7, <1>8, <1>9, <1>10, PromotionBegins
<1>. QED
  BY <1>10, <1>11

LEMMA MarkAsPrimaryKeeps ==
    ASSUME Managed, NEW w \in Server, NEW row \in rows, MarkAsPrimary(w, row)
    PROVE  Kept
<1>. DEFINE u == row.user
            t == Primaried(row)
            first == [row EXCEPT !.primary = TRUE]
<1>1. /\ Begin(w, u, t) /\ UNCHANGED <<made, joined>> /\ u \in joined
      /\ row.verified \/ Verified(u) = {}
  BY DEF MarkAsPrimary, MayManage, CanMarkAsPrimary
<1>2. ~Busy(u) /\ u \in User /\ row \in RowsOf(u)
  BY <1>1 DEF Begin, Managed, RowsOf
<1>3. /\ Tidy(RowsOf(u), made[u], u \in joined, u)
  BY <1>2, CalmSound
<1>4. IsRow(row, u) /\ row.id <= made[u]
  BY <1>2, <1>3 DEF Tidy
<1>5. row.verified \/ \A r \in RowsOf(u) : ~r.verified
  BY <1>1 DEF Verified
<1>6. Rest(first, row, u, <<>>)
  BY DEF Rest
<1>7. t \o <<>> = t
  <2>1. PICK d : Demotion(d, made[u], u, Demoted(u))
    BY <1>3, DemotedIs
  <2>2. Demoted(u) \in Seq(Range(Demoted(u)))
    BY <2>1, DemotionSteps
  <2>. DEFINE both == <<Save(first), Mail(row.email)>>
  <2>3. both \in Seq(Range(both)) /\ t = Demoted(u) \o both
    BY TwoSteps DEF Primaried
  <2>. HIDE DEF both, t
  <2>4. t \in Seq(Range(t))
    BY <2>2, <2>3, JoinedSteps
  <2>. QED
    BY <2>4, ConcatEmptySeq
<1>. DEFINE q == t \o <<>>
<1>8. Ready(RowsOf(u), mode, mail[u], made[u], u \in joined, u \notin broken, u, q) /\ q # <<>>
  <2>. HIDE DEF u, first
  <2>1. first = [row EXCEPT !.primary = TRUE]
    BY DEF first
  <2>2. q = Primaried(row) \o <<>>
    OBVIOUS
  <2>. DEFINE after == <<>>
  <2>3. Rest(first, row, u, after) /\ q = Primaried(row) \o after
    BY <1>6, <2>2
  <2>. HIDE DEF q, after
  <2>. QED
    BY <1>1, <1>2, <1>3, <1>4, <1>5, <2>1, <2>3, PrimariedReady
<1>9. q = t
  BY <1>7
<1>. HIDE DEF u, q, t
<1>. QED
  BY <1>1, <1>2, <1>8, <1>9, BeginKeeps

LEMMA VerifyKeeps ==
    ASSUME Managed, NEW w \in Server, NEW u \in User, NEW row, Verify(w, row),
           made' = made \/ Made(u),
           IsRow(row, u), row.id <= made'[u],
           \/ row \in RowsOf(u)
           \/ ~row.primary /\ \A r \in RowsOf(u) : r.id # row.id
    PROVE  Kept
<1>. DEFINE verified == [row EXCEPT !.verified = TRUE]
            first == [verified EXCEPT !.primary = TRUE]
            X == RowsOf(u)
            k == made'[u]
<1>1. row.user = u
  BY DEF IsRow
<1>2. /\ joined' = joined \cup {u}
      /\ Begin(w, u, CASE mode.change -> Primaried(verified) \o <<Save(first), Clear(row)>>
                       [] ~mode.change /\ Primary(u) = {} ->
                            Primaried(verified) \o <<Save(first)>>
                       [] OTHER -> <<Save(verified)>>)
  BY <1>1 DEF Verify
<1>3. \/ \E t : /\ Begin(w, u, t)
                /\ \/ t = Primaried(verified) \o <<Save(first), Clear(row)>>
                   \/ t = Primaried(verified) \o <<Save(first)>>
      \/ Begin(w, u, <<Save(verified)>>)
  BY <1>2
<1>4. /\ IsRow(verified, u) /\ verified.id = row.id /\ verified.email = row.email
      /\ verified.verified /\ verified.primary = row.primary
  BY VerifiedRow
<1>5. IsRow(first, u) /\ first.id = row.id /\ first.email = row.email
  <2>. HIDE DEF verified
  <2>. QED
    BY <1>4, PrimaryRow
<1>6. ~Busy(u)
  BY <1>3 DEF Begin
<1>7. /\ Tidy(X, made[u], u \in joined, u)
      /\ u \notin broken => Sound(X, mail[u])
  BY <1>6, CalmSound
<1>8. Tidy(X, k, u \in joined', u) /\ u \in joined' /\ k \in Nat
  <2>1. k = made[u] \/ k = made[u] + 1
    BY DEF Made, Managed, Tables
  <2>2. Tidy(X, k, u \in joined, u)
    BY <1>7, <2>1, FreshTidy
  <2>. QED
    BY <1>2, <2>2 DEF Tidy
<1>9. first = [verified EXCEPT !.primary = TRUE]
  OBVIOUS
<1>10. ASSUME NEW t, NEW after, t = Primaried(verified) \o after, Rest(first, row, u, after)
       PROVE  Ready(X, mode, mail[u], k, u \in joined', u \notin broken, u, t) /\ t # <<>>
  <2>. HIDE DEF verified, first, k
  <2>1. \/ \E r \in X : r.id = verified.id /\ r.email = verified.email
        \/ \A r \in X : r.id # verified.id
    BY <1>4
  <2>2. verified.id <= k
    BY <1>4 DEF k
  <2>. QED
    BY <1>4, <1>8, <1>9, <1>10, <2>1, <2>2, PrimariedReady
<1>11. ASSUME NEW t, Begin(w, u, t), t # <<>>,
              Ready(X, mode, mail[u], k, u \in joined', u \notin broken, u, t)
       PROVE  Kept
  BY <1>2, <1>11, BeginKeeps
<1>12. Rest(first, row, u, <<Save(first), Clear(row)>>) /\ Rest(first, row, u, <<Save(first)>>)
  BY <1>1, <1>5 DEF Rest
<1>13. Ready(X, mode, mail[u], k, u \in joined', u \notin broken, u, <<Save(verified)>>)
  <2>1. u \notin broken /\ verified.primary => verified.email = mail[u]
    BY <1>4, <1>7 DEF Sound
  <2>2. verified.id <= k
    BY <1>4
  <2>3. u \notin broken => Sound(X, mail[u])
    BY <1>7
  <2>. HIDE DEF verified, X, k
  <2>. QED
    BY <1>4, <1>8, <2>1, <2>2, <2>3, SaveBegins
<1>. HIDE DEF X, k, first, verified
<1>14. CASE \E t : /\ Begin(w, u, t)
                  /\ \/ t = Primaried(verified) \o <<Save(first), Clear(row)>>
                     \/ t = Primaried(verified) \o <<Save(first)>>
  BY <1>10, <1>11, <1>12, <1>14
<1>15. CASE Begin(w, u, <<Save(verified)>>)
  BY <1>11, <1>13, <1>15
<1>. QED
  BY <1>3, <1>14, <1>15

LEMMA ConfirmKeeps ==
    ASSUME Managed, NEW w \in Server, NEW row \in rows, Confirm(w, row)
    PROVE  Kept
<1>1. Verify(w, row) /\ made' = made
  BY DEF Confirm
<1>2. \E t : Begin(w, row.user, t)
  BY <1>1 DEF Verify
<1>3. PICK u \in User : u = row.user
  BY DEF Managed
<1>4. ~Busy(u) /\ row \in RowsOf(u)
  BY <1>2, <1>3 DEF Begin, RowsOf
<1>5. IsRow(row, u) /\ row.id <= made'[u]
  BY <1>1, <1>4, CalmSound DEF Tidy
<1>. QED
  BY <1>1, <1>4, <1>5, VerifyKeeps

LEMMA EnterCodeKeeps ==
    ASSUME Managed, NEW w \in Server, NEW u \in User, NEW e, EnterCode(w, u, e)
    PROVE  Kept
<1>. DEFINE row == NewRow(u, e)
<1>1. Verify(w, row) /\ Made(u)
  BY DEF EnterCode
<1>2. \E t : Begin(w, u, t)
  BY <1>1 DEF Verify, NewRow
<1>3. ~Busy(u)
  BY <1>2 DEF Begin
<1>4. /\ IsRow(row, u) /\ row.id = made[u] + 1 /\ ~row.primary
  BY <1>3, CalmSound, NewRowIs
<1>5. made'[u] = made[u] + 1 /\ made[u] \in Nat
  BY <1>1, <1>3, CalmSound DEF Made, Managed, Tables
<1>6. \A r \in RowsOf(u) : r.id # row.id
  BY <1>3, <1>4, CalmSound, FreshTidy
<1>. HIDE DEF row
<1>7. row.id <= made'[u]
  BY <1>4, <1>5
<1>. QED
  BY <1>1, <1>4, <1>6, <1>7, VerifyKeeps

LEMMA FirstRowsSound ==
    ASSUME NEW u \in User, NEW kind \in {"admin", "signup", "verified"},
           NEW X, X = FirstRows(u, kind), NEW j, j = (kind # "signup")
    PROVE  IsFiniteSet(X) /\ Tidy(X, 1, j, u) /\ Sound(X, Home[u])
<1>1. CASE kind = "admin"
  <2>1. X = {}
    BY <1>1 DEF FirstRows
  <2>. QED
    BY <1>1, <2>1, FS_EmptySet DEF Tidy, Sound
<1>2. CASE kind # "admin"
  <2>. DEFINE row == [id |-> 1, user |-> u, email |-> Home[u], primary |-> TRUE,
                      verified |-> kind = "verified"]
  <2>1. X = {row}
    BY <1>2 DEF FirstRows
  <2>2. /\ IsRow(row, u) /\ row.id = 1 /\ row.email = Home[u] /\ row.primary
        /\ row.verified = (kind = "verified")
    BY DEF IsRow
  <2>. HIDE DEF row
  <2>3. IsFiniteSet(X)
    BY <2>1, FS_Singleton
  <2>4. \A r \in X : r = row
    BY <2>1
  <2>5. ~j => ~row.verified
    BY <2>2
  <2>6. row.id <= 1 /\ 1 \in Nat
    BY <2>2
  <2>7. Tidy(X, 1, j, u)
    BY <2>2, <2>4, <2>5, <2>6 DEF Tidy
  <2>8. Sound(X, Home[u])
    BY <2>2, <2>4 DEF Sound
  <2>. QED
    BY <2>3, <2>7, <2>8
<1>. QED
  BY <1>1, <1>2

LEMMA ManagedFirst ==
    ASSUME AddressInit
    PROVE  Managed
<1>1. PICK kind \in [User -> {"admin", "signup", "verified"}] :
        /\ rows = UNION {FirstRows(u, kind[u]) : u \in User}
        /\ joined = {u \in User : kind[u] # "signup"}
  BY DEF AddressInit
<1>2. /\ mail = Home /\ made = [u \in User |-> 1] /\ broken = {}
      /\ request = [w \in Server |-> NoRequest]
  BY DEF AddressInit
<1>3. \A u, k : \A r \in FirstRows(u, k) : r.user = u
  BY DEF FirstRows
<1>4. \A u \in User : RowsOf(u) = FirstRows(u, kind[u])
  BY <1>1, <1>3 DEF RowsOf
<1>5. ASSUME NEW u \in User PROVE UserSound(u)
  <2>1. /\ IsFiniteSet(RowsOf(u)) /\ Tidy(RowsOf(u), 1, kind[u] # "signup", u)
        /\ Sound(RowsOf(u), Home[u])
    BY <1>4, FirstRowsSound
  <2>2. made[u] = 1 /\ mail[u] = Home[u] /\ (u \in joined) = (kind[u] # "signup")
    BY <1>1, <1>2
  <2>. QED
    BY <2>1, <2>2 DEF UserSound
<1>6. \A w \in Server : Idle(w)
  BY <1>2 DEF Idle
<1>7. Tables
  BY <1>2, HomeAssumption DEF Tables
<1>8. \A r \in rows : r.user \in User
  BY <1>1, <1>3
<1>. QED
  BY <1>5, <1>6, <1>7, <1>8 DEF Managed, Apiece, Asks

LEMMA ManagedStep ==
    ASSUME Managed, [AddressNext]_addressVars
    PROVE  Kept
<1>1. CASE AddressNext
  <2>1. ASSUME NEW u \in User, Sync(u) \/ Join(u) \/ \E e \in Email : AddByCode(u, e)
        PROVE  Kept
    <3>1. CASE \E e \in Email : AddByCode(u, e)
      <4>1. UNCHANGED <<mode, rows, mail, made, joined, request, broken>>
        BY <3>1 DEF AddByCode
      <4>. QED
        BY <4>1, NothingKeeps
    <3>. QED
      BY <2>1, <3>1, SyncKeeps, JoinKeeps
  <2>2. ASSUME NEW w \in Server, NEW u \in User, NEW e \in Email,
               Add(w, u, e) \/ AddNew(w, u, e) \/ ChangeTo(w, u, e) \/ EnterCode(w, u, e)
        PROVE  Kept
    BY <2>2, AddKeeps, AddNewKeeps, ChangeToKeeps, EnterCodeKeeps
  <2>3. ASSUME NEW w \in Server, NEW row \in rows,
               Confirm(w, row) \/ Remove(w, row) \/ MarkAsPrimary(w, row)
        PROVE  Kept
    BY <2>3, ConfirmKeeps, RemoveKeeps, MarkAsPrimaryKeeps
  <2>4. ASSUME NEW w \in Server,
               \/ SaveRow(w) \/ SetMail(w) \/ DeleteRow(w) \/ CreateRow(w)
               \/ ReplaceRow(w) \/ ClearOthers(w) \/ Crash(w)
        PROVE  Kept
    BY <2>4, SaveRowKeeps, SetMailKeeps, DeleteRowKeeps, CreateRowKeeps,
       ReplaceRowKeeps, ClearOthersKeeps, CrashKeeps
  <2>. QED
    BY <1>1, <2>1, <2>2, <2>3, <2>4 DEF AddressNext
<1>2. CASE UNCHANGED addressVars
  BY <1>2, NothingKeeps DEF addressVars
<1>. QED
  BY <1>1, <1>2

(* THE PLAN HOLDS.  Whatever a request has left to do leads the addresses  *)
(* of its user to where they should be (set_as_primary, remove,            *)
(* add_new_email, verify_email).                                           *)
THEOREM ManagedInvariant == AddressSpec => []Managed
<1>1. Managed /\ [AddressNext]_addressVars => Managed'
  BY ManagedStep DEF Kept
<1>. QED
  BY <1>1, ManagedFirst, PTL DEF AddressSpec

(* MAIL IS PRIMARY.  Between requests that came to their end, the user's   *)
(* own row has the primary address (set_as_primary, remove).               *)
THEOREM MailIsPrimaryHolds == AddressSpec => []MailIsPrimary
<1>1. Managed => MailIsPrimary
  BY DEF Managed, UserSound, MailIsPrimary, Sound, Primary
<1>. QED
  BY <1>1, ManagedInvariant, PTL

(* THE LAST ADDRESS STAYS.  Who logs in by email is never left without an  *)
(* address, even by requests that are killed (can_delete_email).           *)
THEOREM LastAddressStaysHolds == AddressSpec => LastAddressStays
<1>1. Managed /\ [AddressNext]_addressVars
        => [\A u \in User : mode.byEmail /\ RowsOf(u) # {} => RowsOf(u)' # {}]_addressVars
  BY ManagedStep DEF Kept, Orderly
<1>. QED
  BY <1>1, ManagedInvariant, PTL DEF AddressSpec, LastAddressStays

(* PRIMARY IS WORTHY.  No address that is not verified becomes the primary *)
(* one of a user who has a verified one (can_mark_as_primary).             *)
THEOREM PrimaryWorthyHolds == AddressSpec => PrimaryWorthy
<1>1. Managed /\ [AddressNext]_addressVars
        => [\A u \in User :
              \A r \in Primary(u)' \ Primary(u) : r.verified \/ Verified(u) = {}]_addressVars
  BY ManagedStep DEF Kept, Orderly
<1>. QED
  BY <1>1, ManagedInvariant, PTL DEF AddressSpec, PrimaryWorthy

=============================================================================
