--------------------------- MODULE SessionsProofs ---------------------------
(***************************************************************************)
(* For all users, workers, settings and bounds: what waits for a proof     *)
(* runs for who asked for it; a replaced password never returns; a session *)
(* that was ended is gone; one that is logged in has a row; and its        *)
(* refresh tokens are those that were handed out and not exchanged. Each   *)
(* names the overlaps of requests that it needs apart.                     *)
(***************************************************************************)
EXTENDS Sessions, FiniteSetTheorems, TLAPS

(* The overlaps that ReplacedForGood needs apart. The others of Apart are   *)
(* not needed.                                                             *)
WholeRowsApart ==
    \A s \in Settings : s.apart /\ {{"connect", "change"}, {"connect", "reset"}} \subseteq Apart

Fields(r) ==
    {"op", "at", "key", "copy", "who", "me", "todo", "token", "link", "new"} \subseteq DOMAIN r

(* What waits was asked for by who is logged in, or before somebody was. *)
AskOk(s) ==
    /\ {"user", "hash", "tokens", "proof", "held", "origin"} \subseteq DOMAIN s
    /\ s.held \in {None, Nobody, s.user}

StoreOk(stored) ==
    /\ stored = [k \in Keys |-> stored[k]]
    /\ \A k \in Keys : stored[k] # Gone => AskOk(stored[k])

RowOk(row) == "password" \in DOMAIN row /\ row.password \in Nat

RequestOk(r) ==
    /\ Fields(r) /\ AskOk(r.copy)
    /\ r.who \in Users => RowOk(r.me)
    /\ r.at = "resetting" => r.op = "reset"

Active(r) == r.at # "idle"

(* A request that will write the user's row as it loaded it *)
WritesRow(r) == r.op = "connect" /\ r.at \in {"track", "work"}

Replaces(r) == Active(r) /\ r.op \in {"change", "reset"}

UsersOk ==
    /\ versions \in Nat
    /\ users = [u \in Users |-> users[u]]
    /\ \A u \in Users : RowOk(users[u])

(* The row that a request writes has the password that there is, and none  *)
(* that replaces it is at work.                                            *)
RowsCurrent ==
  /\ \A u \in Users : users[u].password <= versions
  /\ \A w \in Workers : WritesRow(req[w]) =>
        /\ req[w].who \in Users => req[w].me.password = users[req[w].who].password
        /\ \A v \in Workers : ~Replaces(req[v])

Inv ==
    /\ setting \in Settings
    /\ StoreOk(store)
    /\ req = [w \in Workers |-> req[w]]
    /\ \A w \in Workers : RequestOk(req[w])
    /\ RunsForAsker
    /\ UsersOk
    /\ WholeRowsApart => RowsCurrent

(* What ReplacedForGood says of a step *)
Grows ==
    WholeRowsApart => \A u \in Users : users'[u].password >= users[u].password

LEMMA BlankOk == AskOk(Blank)
BY DEF AskOk, Blank

LEMMA IdleOk == RequestOk(Idle) /\ Idle.at = "idle" /\ Idle.who = Nobody
BY BlankOk, NamesApart DEF RequestOk, Fields, Idle

LEMMA DropOk ==
    ASSUME StoreOk(store), NEW k
    PROVE  StoreOk(Drop(k))
BY DEF StoreOk, Drop

LEMMA PutOk ==
    ASSUME NEW stored, StoreOk(stored), NEW k, NEW s, AskOk(s)
    PROVE  StoreOk([stored EXCEPT ![k] = s])
BY DEF StoreOk

(* Who writes a user may leave the passwords as they are. *)
SamePasswords ==
    /\ users' = [u \in Users |-> users'[u]]
    /\ \A u \in Users : /\ "password" \in DOMAIN users'[u]
                        /\ users'[u].password = users[u].password

(* A step of a request that replaces no password *)
LEMMA MovesWith ==
    ASSUME Inv, NEW w \in Workers, NEW r, Goto(w, r), RequestOk(r), StoreOk(store'),
           UNCHANGED <<setting, versions>>, SamePasswords, RunsForAsker',
           Replaces(r) => Replaces(req[w]),
           WritesRow(r) => WritesRow(req[w]) /\ r.who = req[w].who /\ r.me = req[w].me
    PROVE  Inv' /\ Grows
<1>1. req' = [req EXCEPT ![w] = r]
  BY DEF Goto
<1>2. req' = [v \in Workers |-> req'[v]] /\ req'[w] = r
  BY <1>1 DEF Inv
<1>3. \A v \in Workers : v # w => req'[v] = req[v]
  BY <1>1 DEF Inv
<1>4. \A v \in Workers : RequestOk(req'[v])
  BY <1>2, <1>3 DEF Inv
<1>5. ASSUME WholeRowsApart
      PROVE  RowsCurrent'
  <2>. SUFFICES ASSUME NEW v \in Workers, WritesRow(req'[v])
                PROVE  /\ req'[v].who \in Users =>
                            req'[v].me.password = users'[req'[v].who].password
                       /\ \A x \in Workers : ~Replaces(req'[x])
    BY <1>5 DEF RowsCurrent, WritesRow, Replaces, Active, Inv, SamePasswords
  <2>1. WritesRow(req[v]) /\ req'[v].who = req[v].who /\ req'[v].me = req[v].me
    BY <1>2, <1>3
  <2>2. \A x \in Workers : Replaces(req'[x]) => Replaces(req[x])
    BY <1>2, <1>3
  <2>. QED
    BY <2>1, <2>2, <1>5 DEF Inv, RowsCurrent, SamePasswords
<1>6. Grows /\ UsersOk'
  BY DEF Grows, Inv, UsersOk, SamePasswords, RowOk
<1>. QED
  BY <1>2, <1>4, <1>5, <1>6 DEF Inv, WholeRowsApart

LEMMA Moves ==
    ASSUME Inv, NEW w \in Workers, NEW r, Goto(w, r), RequestOk(r), StoreOk(store'),
           UNCHANGED <<setting, users, versions>>, RunsForAsker',
           Replaces(r) => Replaces(req[w]),
           WritesRow(r) => WritesRow(req[w]) /\ r.who = req[w].who /\ r.me = req[w].me
    PROVE  Inv' /\ Grows
<1>1. SamePasswords
  BY DEF Inv, UsersOk, SamePasswords, RowOk
<1>. QED
  BY <1>1, MovesWith

LEMMA Stops ==
    ASSUME Inv, NEW w \in Workers, Goto(w, Idle), StoreOk(store'),
           UNCHANGED <<setting, users, versions>>, RunsForAsker'
    PROVE  Inv' /\ Grows
BY Moves, IdleOk DEF Replaces, Active, WritesRow

----------------------------------------------------------------------------

(* A request that connects begins when none replaces a password, and one    *)
(* that replaces it begins when none connects: they are apart.             *)
LEMMA BeginsOk ==
    ASSUME Inv, NEW w \in Workers, NEW r, Goto(w, r), RequestOk(r), StoreOk(store'),
           req[w].at = "idle", Free(w, r.op), UNCHANGED <<setting, users, versions, ran>>,
           r.op = "connect" /\ r.who \in Users => r.me = users[r.who]
    PROVE  Inv' /\ Grows
<1>1. req' = [req EXCEPT ![w] = r]
  BY DEF Goto
<1>2. req' = [v \in Workers |-> req'[v]] /\ req'[w] = r
  BY <1>1 DEF Inv
<1>3. \A v \in Workers : v # w => req'[v] = req[v]
  BY <1>1 DEF Inv
<1>4. \A v \in Workers : RequestOk(req'[v])
  BY <1>2, <1>3 DEF Inv
<1>5. ASSUME WholeRowsApart
      PROVE  RowsCurrent'
  <2>1. \A v \in Workers \ {w} : Active(req[v]) => {r.op, req[v].op} \notin Apart
    BY <1>5 DEF WholeRowsApart, Inv, Free, Active
  <2>2. {"connect", "change"} \in Apart /\ {"connect", "reset"} \in Apart
    BY <1>5 DEF WholeRowsApart, Inv
  <2>3. ASSUME WritesRow(r), NEW v \in Workers
        PROVE  ~Replaces(req'[v])
    <3>1. CASE v = w
      BY <3>1, <2>3, <1>2 DEF WritesRow, Replaces
    <3>2. CASE v # w
      <4>1. Active(req[v]) => req[v].op # "change" /\ req[v].op # "reset"
        BY <3>2, <2>1, <2>2, <2>3 DEF WritesRow
      <4>. QED
        BY <3>2, <4>1, <1>3 DEF Replaces
    <3>. QED
      BY <3>1, <3>2
  <2>4. ASSUME NEW v \in Workers \ {w}, WritesRow(req[v])
        PROVE  ~Replaces(r)
    <3>1. {r.op, "connect"} \notin Apart
      BY <2>1, <2>4 DEF WritesRow, Active
    <3>2. {"change", "connect"} = {"connect", "change"}
          /\ {"reset", "connect"} = {"connect", "reset"}
      OBVIOUS
    <3>. QED
      BY <3>1, <3>2, <2>2 DEF Replaces
  <2>. SUFFICES ASSUME NEW v \in Workers, WritesRow(req'[v])
                PROVE  /\ req'[v].who \in Users =>
                            req'[v].me.password = users[req'[v].who].password
                       /\ \A x \in Workers : ~Replaces(req'[x])
    BY <1>5 DEF RowsCurrent, WritesRow, Replaces, Active, Inv
  <2>5. CASE v = w
    BY <2>5, <2>3, <1>2 DEF WritesRow
  <2>6. CASE v # w
    BY <2>6, <2>4, <1>2, <1>3, <1>5 DEF Inv, RowsCurrent
  <2>. QED
    BY <2>5, <2>6
<1>6. Grows
  BY DEF Grows, Inv, UsersOk, RowOk
<1>. QED
  BY <1>2, <1>4, <1>5, <1>6 DEF Inv, UsersOk, WholeRowsApart, RunsForAsker

LEMMA BeginStep ==
    ASSUME Inv, NEW w \in Workers, NEW op, NEW k, NEW u, Begin(w, op, k, u)
    PROVE  Inv' /\ Grows
<1>. DEFINE dead == k # 0 /\ store[k].user # Nobody /\ ~Authentic(store[k])
            copy == IF k = 0 \/ dead THEN Blank ELSE store[k]
            who == IF u # Nobody THEN u ELSE copy.user
            key == IF dead THEN 0 ELSE k
            me == IF who = Nobody THEN Idle.me ELSE users[who]
            at == IF setting.track /\ copy.user # Nobody THEN "track" ELSE "work"
            r == [Idle EXCEPT !.op = op, !.key = key, !.copy = copy, !.who = who,
                              !.me = me, !.at = at]
<1>1. /\ req[w].at = "idle" /\ Free(w, op) /\ (k = 0 \/ Stored(k))
      /\ store' = IF dead THEN Drop(k) ELSE store
      /\ Goto(w, r) /\ UNCHANGED <<setting, users, versions, ran>>
  BY DEF Begin, history
<1>2. AskOk(copy)
  BY <1>1, BlankOk DEF Stored, Inv, StoreOk
<1>3. StoreOk(store')
  BY <1>1, DropOk DEF Inv
<1>4. at \in {"track", "work"}
  OBVIOUS
<1>5. who \in Users => me = users[who] /\ RowOk(me)
  BY NamesApart DEF Inv, UsersOk
<1>. HIDE DEF dead, copy, who, key, me, at
<1>6. /\ Fields(r) /\ r.op = op /\ r.at = at /\ r.copy = copy /\ r.who = who
      /\ r.me = me
  BY DEF Fields, Idle
<1>. HIDE DEF r
<1>7. RequestOk(r)
  BY <1>2, <1>4, <1>5, <1>6 DEF RequestOk
<1>. QED
  BY <1>1, <1>3, <1>5, <1>6, <1>7, BeginsOk

LEMMA TrackStep ==
    ASSUME Inv, NEW w \in Workers, Track(w)
    PROVE  Inv' /\ Grows
<1>. DEFINE r == Onward(w, "work")
<1>1. req[w].at = "track" /\ RequestOk(req[w])
  BY DEF Track, Inv
<1>2. /\ RequestOk(r) /\ r.op = req[w].op /\ r.who = req[w].who
      /\ r.me = req[w].me /\ r.at = "work"
  BY <1>1 DEF Onward, RequestOk, Fields
<1>. HIDE DEF r
<1>3. Replaces(r) => Replaces(req[w])
  BY <1>1, <1>2 DEF Replaces, Active
<1>4. WritesRow(r) => WritesRow(req[w])
  BY <1>1, <1>2 DEF WritesRow
<1>5. /\ Goto(w, r) /\ StoreOk(store') /\ RunsForAsker'
      /\ UNCHANGED <<setting, users, versions>>
  BY DEF Track, r, Inv, history, RunsForAsker, StoreOk
<1>. QED
  BY <1>2, <1>3, <1>4, <1>5, Moves

LEMMA SaveStep ==
    ASSUME Inv, NEW w \in Workers, Save(w)
    PROVE  Inv' /\ Grows
<1>. DEFINE r == req[w]
            token == Cardinality(DOMAIN issued) + 1
            exposed == [r.copy EXCEPT !.tokens = @ \cup {token}]
<1>1. AskOk(r.copy)
  BY DEF Inv, RequestOk
<1>2. AskOk(exposed)
  BY <1>1 DEF AskOk
<1>. HIDE DEF exposed
<1>3. \/ store' = store
      \/ \E s \in {r.copy, exposed} : \E k : store' = [store EXCEPT ![k] = s]
  BY DEF Save, exposed
<1>4. StoreOk(store')
  BY <1>1, <1>2, <1>3, PutOk DEF Inv
<1>5. Goto(w, Idle) /\ RunsForAsker' /\ UNCHANGED <<setting, users, versions>>
  BY DEF Save, Inv, history, RunsForAsker
<1>. QED
  BY <1>4, <1>5, Stops

(* A request goes on past its work, with the user that it has. *)
LEMMA MovesOn ==
    ASSUME Inv, NEW w \in Workers, Active(req[w]),
           NEW r, Goto(w, r), Fields(r), AskOk(r.copy), r.op = req[w].op,
           r.who = req[w].who, r.me = req[w].me,
           r.at \notin {"idle", "track", "work", "resetting"},
           StoreOk(store'), UNCHANGED <<setting, users, versions>>, RunsForAsker'
    PROVE  Inv' /\ Grows
<1>1. RequestOk(r)
  BY DEF Inv, RequestOk
<1>2. Replaces(r) => Replaces(req[w])
  BY DEF Replaces
<1>3. ~WritesRow(r)
  BY DEF WritesRow
<1>. QED
  BY <1>1, <1>2, <1>3, Moves

(* What a row's turn, at `at`, makes of a request that lists or ends sessions *)
Round(s, r, at) ==
    \/ s = Idle
    \/ /\ Fields(s) /\ s.copy = r.copy /\ s.op = r.op /\ s.who = r.who /\ s.me = r.me
       /\ s.key = r.key /\ s.new = r.new
       /\ s.at = at \/ (s.at = "record" /\ r.op \notin {"list", "end"})

LEMMA AfterOk ==
    ASSUME NEW r, Fields(r), NEW at
    PROVE  Round(After(r), r, at)
BY DEF Round, After, Fields

LEMMA TodoOk ==
    ASSUME NEW r, Fields(r), NEW ks, NEW at
    PROVE  Round(Todo(r, ks, at), r, at)
<1>1. CASE ks = {}
  BY <1>1, AfterOk DEF Todo
<1>2. CASE ks # {}
  <2>. DEFINE s == [r EXCEPT !.todo = ks, !.at = at]
  <2>1. /\ Fields(s) /\ s.copy = r.copy /\ s.op = r.op /\ s.who = r.who
        /\ s.me = r.me /\ s.key = r.key /\ s.new = r.new /\ s.at = at
    BY DEF Fields
  <2>2. Todo(r, ks, at) = s
    BY <1>2 DEF Todo
  <2>. HIDE DEF s
  <2>. QED
    BY <2>1, <2>2 DEF Round
<1>. QED
  BY <1>1, <1>2

LEMMA DidOk ==
    ASSUME NEW r, Fields(r), NEW k
    PROVE  Round(Did(r, k), r, r.at)
<1>1. CASE r.todo = {k}
  <2>. DEFINE s == [r EXCEPT !.todo = {}]
  <2>1. /\ Fields(s) /\ s.copy = r.copy /\ s.op = r.op /\ s.who = r.who
        /\ s.me = r.me /\ s.key = r.key /\ s.new = r.new
    BY DEF Fields
  <2>2. Did(r, k) = After(s)
    BY <1>1 DEF Did
  <2>. HIDE DEF s
  <2>. QED
    BY <2>1, <2>2, AfterOk DEF Round
<1>2. CASE r.todo # {k}
  <2>. DEFINE s == [r EXCEPT !.todo = r.todo \ {k}]
  <2>1. /\ Fields(s) /\ s.copy = r.copy /\ s.op = r.op /\ s.who = r.who
        /\ s.me = r.me /\ s.key = r.key /\ s.new = r.new /\ s.at = r.at
    BY DEF Fields
  <2>2. Did(r, k) = s
    BY <1>2 DEF Did
  <2>. HIDE DEF s
  <2>. QED
    BY <2>1, <2>2 DEF Round
<1>. QED
  BY <1>1, <1>2

LEMMA RoundMoves ==
    ASSUME Inv, NEW w \in Workers, Active(req[w]), NEW at \in {"purging", "ending"},
           NEW s, Round(s, req[w], at), Goto(w, s), StoreOk(store'),
           UNCHANGED <<setting, users, versions>>, RunsForAsker'
    PROVE  Inv' /\ Grows
<1>1. CASE s = Idle
  BY <1>1, Stops
<1>2. CASE s # Idle
  <2>1. AskOk(req[w].copy)
    BY DEF Inv, RequestOk
  <2>. QED
    BY <1>2, <2>1, MovesOn DEF Round
<1>. QED
  BY <1>1, <1>2

LEMMA Requested ==
    ASSUME Inv, NEW w \in Workers
    PROVE  Fields(req[w]) /\ AskOk(req[w].copy)
BY DEF Inv, RequestOk

LEMMA DoLoginStep ==
    ASSUME Inv, NEW w \in Workers, DoLogin(w)
    PROVE  Inv' /\ Grows
<1>. DEFINE r == req[w]
            fresh == [Blank EXCEPT !.user = r.who, !.hash = r.me.password]
            own == LoggedIn(r)
            first == [own EXCEPT !.origin = keys + 1]
            flushed == [Flushed(r) EXCEPT !.copy = fresh, !.at = "list", !.new = TRUE]
            cycled == [r EXCEPT !.copy = first, !.key = keys + 1, !.at = "list",
                                !.new = TRUE]
            kept == [r EXCEPT !.copy = own, !.at = "list"]
<1>1. /\ r.op = "login" /\ r.at = "work"
      /\ users' = [users EXCEPT ![r.who] = RowOnLogin(r)]
      /\ UNCHANGED <<setting, versions, ran>>
      /\ \/ store' = Drop(r.key) /\ Goto(w, flushed)
         \/ store' = Cycled(r) /\ r.copy.user = Nobody /\ Goto(w, cycled)
         \/ store' = store /\ r.copy.user = r.who /\ Goto(w, kept)
  BY DEF DoLogin, history
<1>2. Fields(r) /\ AskOk(r.copy)
  BY Requested
<1>3. AskOk(fresh)
  BY DEF AskOk, Blank
<1>4. ASSUME r.copy.user \in {Nobody, r.who}
      PROVE  AskOk(own) /\ AskOk(first)
  BY <1>2, <1>4 DEF LoggedIn, AskOk
<1>5. /\ flushed.copy = fresh /\ Fields(flushed) /\ flushed.op = r.op
      /\ flushed.who = r.who /\ flushed.me = r.me /\ flushed.at = "list"
  BY <1>2 DEF Flushed, Fields
<1>6. /\ cycled.copy = first /\ Fields(cycled) /\ cycled.op = r.op
      /\ cycled.who = r.who /\ cycled.me = r.me /\ cycled.at = "list"
  BY <1>2 DEF Fields
<1>7. /\ kept.copy = own /\ Fields(kept) /\ kept.op = r.op
      /\ kept.who = r.who /\ kept.me = r.me /\ kept.at = "list"
  BY <1>2 DEF Fields
<1>. HIDE DEF r, fresh, own, first, flushed, cycled, kept
<1>8. PICK s \in {flushed, cycled, kept} :
         /\ Goto(w, s) /\ Fields(s) /\ AskOk(s.copy) /\ s.op = r.op
         /\ s.who = r.who /\ s.me = r.me /\ s.at = "list"
  BY <1>1, <1>3, <1>4, <1>5, <1>6, <1>7
<1>9. StoreOk(store')
  BY <1>1, <1>2, DropOk, PutOk DEF Inv, Cycled
<1>10. RunsForAsker'
  BY <1>1 DEF Inv, RunsForAsker
<1>11. SamePasswords
  <2>1. r.who \in Users =>
           /\ "password" \in DOMAIN RowOnLogin(r)
           /\ RowOnLogin(r).password = users[r.who].password
    BY DEF RowOnLogin, Inv, UsersOk, RowOk
  <2>. QED
    BY <1>1, <2>1 DEF SamePasswords, Inv, UsersOk, RowOk
<1>12. RequestOk(s)
  BY <1>8 DEF Inv, RequestOk, r
<1>. QED
  BY <1>1, <1>8, <1>9, <1>10, <1>11, <1>12, MovesWith DEF Replaces, WritesRow

LEMMA ListStep ==
    ASSUME Inv, NEW w \in Workers, List(w)
    PROVE  Inv' /\ Grows
<1>1. /\ Active(req[w]) /\ UNCHANGED <<setting, users, versions, store, ran>>
      /\ Goto(w, Todo(req[w], {k \in Keys : rows[k] = req[w].who}, "purging"))
  BY DEF List, history, Active
<1>2. Round(Todo(req[w], {k \in Keys : rows[k] = req[w].who}, "purging"), req[w],
            "purging")
  BY Requested, TodoOk
<1>3. StoreOk(store') /\ RunsForAsker'
  BY <1>1 DEF Inv, RunsForAsker
<1>. QED
  BY <1>1, <1>2, <1>3, RoundMoves

LEMMA PurgeStep ==
    ASSUME Inv, NEW w \in Workers, NEW k, Purge(w, k)
    PROVE  Inv' /\ Grows
<1>1. /\ req[w].at = "purging" /\ UNCHANGED <<setting, users, versions, ran>>
      /\ store' = Drop(k) \/ store' = store
      /\ Goto(w, Did(req[w], k))
  BY DEF Purge, history
<1>2. Round(Did(req[w], k), req[w], req[w].at) /\ Active(req[w])
  BY <1>1, Requested, DidOk DEF Active
<1>3. StoreOk(store') /\ RunsForAsker'
  BY <1>1, DropOk DEF Inv, RunsForAsker
<1>. QED
  BY <1>1, <1>2, <1>3, RoundMoves

LEMMA RecordStep ==
    ASSUME Inv, NEW w \in Workers, Record(w)
    PROVE  Inv' /\ Grows
<1>. DEFINE r == req[w]
            k == IF r.key = 0 THEN keys + 1 ELSE r.key
            copy == IF r.key = 0 THEN [r.copy EXCEPT !.origin = k] ELSE r.copy
            s == [r EXCEPT !.key = k, !.copy = copy, !.at = "save"]
<1>1. /\ Active(r) /\ UNCHANGED <<setting, users, versions, ran>>
      /\ store' = store \/ store' = [store EXCEPT ![k] = copy]
      /\ Goto(w, s)
  BY DEF Record, history, Active
<1>2. Fields(r) /\ AskOk(r.copy)
  BY Requested
<1>3. AskOk(copy)
  BY <1>2 DEF AskOk
<1>. HIDE DEF copy
<1>4. StoreOk(store') /\ RunsForAsker'
  BY <1>1, <1>3, PutOk DEF Inv, RunsForAsker
<1>5. /\ Fields(s) /\ s.copy = copy /\ s.op = r.op /\ s.who = r.who
      /\ s.me = r.me /\ s.at = "save"
  BY <1>2 DEF Fields
<1>. HIDE DEF s
<1>. QED
  BY <1>1, <1>3, <1>4, <1>5, MovesOn

LEMMA LogsOutOk ==
    ASSUME NEW r, Fields(r)
    PROVE  /\ Fields(LogsOut(r)) /\ AskOk(LogsOut(r).copy) /\ LogsOut(r).op = r.op
           /\ LogsOut(r).who = r.who /\ LogsOut(r).me = r.me
           /\ LogsOut(r).at = "save"
<1>1. LogsOut(r).copy = Blank
  BY DEF LogsOut, Flushed, Fields
<1>. QED
  BY <1>1, BlankOk DEF LogsOut, Flushed, Fields

LEMMA LogoutStep ==
    ASSUME Inv, NEW w \in Workers, Logout(w)
    PROVE  Inv' /\ Grows
<1>1. /\ Active(req[w]) /\ store' = Drop(req[w].key) /\ Goto(w, LogsOut(req[w]))
      /\ UNCHANGED <<setting, users, versions, ran>>
  BY DEF Logout, Active
<1>2. StoreOk(store') /\ RunsForAsker'
  BY <1>1, DropOk DEF Inv, RunsForAsker
<1>. QED
  BY <1>1, <1>2, Requested, LogsOutOk, MovesOn

LEMMA EndStep ==
    ASSUME Inv, NEW w \in Workers, NEW chosen, End(w, chosen)
    PROVE  Inv' /\ Grows
<1>1. /\ Active(req[w]) /\ UNCHANGED <<setting, users, versions, store, ran>>
      /\ Goto(w, Todo(req[w], chosen, "ending"))
  BY DEF End, history, Active
<1>2. Round(Todo(req[w], chosen, "ending"), req[w], "ending")
  BY Requested, TodoOk
<1>3. StoreOk(store') /\ RunsForAsker'
  BY <1>1 DEF Inv, RunsForAsker
<1>. QED
  BY <1>1, <1>2, <1>3, RoundMoves

(* A step of nobody's request, or none of it that the request knows of *)
LEMMA Apartly ==
    ASSUME Inv, StoreOk(store'), UNCHANGED <<setting, users, versions, req, ran>>
    PROVE  Inv' /\ Grows
BY DEF Inv, Grows, UsersOk, WholeRowsApart, RowsCurrent, RunsForAsker, RowOk

LEMMA EndOneStep ==
    ASSUME Inv, NEW w \in Workers, NEW k, EndOne(w, k)
    PROVE  Inv' /\ Grows
<1>1. /\ req[w].at = "ending" /\ UNCHANGED <<setting, users, versions, ran>>
      /\ \/ store' = Drop(k) /\ UNCHANGED req
         \/ store' = store /\ Goto(w, Did(req[w], k))
  BY DEF EndOne, EndStored
<1>2. StoreOk(store') /\ RunsForAsker'
  BY <1>1, DropOk DEF Inv, RunsForAsker
<1>3. Round(Did(req[w], k), req[w], req[w].at) /\ Active(req[w])
  BY <1>1, Requested, DidOk DEF Active
<1>. QED
  BY <1>1, <1>2, <1>3, RoundMoves, Apartly

(* A new password has a version that none had, and no request is about to   *)
(* write the row as it was.                                                *)
LEMMA Replaced ==
    ASSUME Inv, NEW w \in Workers, Replaces(req[w]),
           users' = [users EXCEPT ![req[w].who] = NewRow(req[w])],
           versions' = versions + 1, UNCHANGED <<setting, ran>>,
           NEW r, Goto(w, r), RequestOk(r), ~WritesRow(r), StoreOk(store')
    PROVE  Inv' /\ Grows
<1>1. req' = [req EXCEPT ![w] = r]
  BY DEF Goto
<1>2. req' = [v \in Workers |-> req'[v]] /\ req'[w] = r
  BY <1>1 DEF Inv
<1>3. \A v \in Workers : v # w => req'[v] = req[v]
  BY <1>1 DEF Inv
<1>4. \A v \in Workers : RequestOk(req'[v])
  BY <1>2, <1>3 DEF Inv
<1>5. req[w].who \in Users => /\ RowOk(NewRow(req[w]))
                             /\ NewRow(req[w]).password = versions + 1
  BY DEF Inv, RequestOk, NewRow, RowOk, UsersOk
<1>6. UsersOk' /\ Grows
  BY <1>5 DEF Inv, UsersOk, Grows, RowOk, RowsCurrent
<1>7. ASSUME WholeRowsApart
      PROVE  RowsCurrent'
  <2>1. \A v \in Workers : ~WritesRow(req[v])
    BY <1>7 DEF Inv, RowsCurrent
  <2>2. \A v \in Workers : ~WritesRow(req'[v])
    BY <2>1, <1>2, <1>3
  <2>3. \A u \in Users : users'[u].password <= versions'
    BY <1>7, <1>5 DEF Inv, UsersOk, RowOk, RowsCurrent
  <2>. QED
    BY <2>2, <2>3 DEF RowsCurrent, WritesRow
<1>8. RunsForAsker'
  BY DEF Inv, RunsForAsker
<1>. QED
  BY <1>2, <1>4, <1>6, <1>7, <1>8 DEF Inv, WholeRowsApart

LEMMA ChangeStep ==
    ASSUME Inv, NEW w \in Workers, Change(w)
    PROVE  Inv' /\ Grows
<1>. DEFINE r == req[w]
            me == NewRow(r)
            s == [r EXCEPT !.me = me, !.at = "changed"]
<1>1. /\ r.at = "work" /\ r.op = "change"
      /\ users' = [users EXCEPT ![r.who] = me]
      /\ versions' = versions + 1 /\ Goto(w, s) /\ store' = store
      /\ UNCHANGED <<setting, ran>>
  BY DEF Change, history
<1>2. RequestOk(r)
  BY DEF Inv
<1>3. r.who \in Users => RowOk(me)
  BY <1>2 DEF RequestOk, NewRow, RowOk, Inv, UsersOk
<1>4. /\ Fields(s) /\ s.copy = r.copy /\ s.op = r.op /\ s.who = r.who /\ s.me = me
      /\ s.at = "changed"
  BY <1>2 DEF RequestOk, Fields
<1>. HIDE DEF s
<1>5. RequestOk(s) /\ ~WritesRow(s)
  BY <1>2, <1>3, <1>4 DEF RequestOk, WritesRow
<1>6. StoreOk(store') /\ Replaces(r)
  BY <1>1 DEF Inv, Replaces, Active
<1>. QED
  BY <1>1, <1>5, <1>6, Replaced

LEMMA ChangedStep ==
    ASSUME Inv, NEW w \in Workers, Changed(w)
    PROVE  Inv' /\ Grows
<1>. DEFINE r == req[w]
            copy == Rehash(r)
            s == [r EXCEPT !.copy = copy, !.key = keys + 1, !.at = "record",
                           !.new = TRUE]
<1>1. /\ Active(r) /\ UNCHANGED <<setting, users, versions, ran>>
      /\ \/ store' = Drop(r.key) /\ Goto(w, LogsOut(r))
         \/ store' = Cycled(r) /\ Goto(w, s)
  BY DEF Changed, history, Active
<1>2. Fields(r) /\ AskOk(r.copy)
  BY Requested
<1>3. StoreOk(store') /\ RunsForAsker'
  BY <1>1, <1>2, DropOk, PutOk DEF Inv, Cycled, RunsForAsker
<1>4. AskOk(copy)
  BY <1>2 DEF Rehash, AskOk
<1>. HIDE DEF copy
<1>5. /\ Fields(s) /\ s.copy = copy /\ s.op = r.op /\ s.who = r.who /\ s.me = r.me
      /\ s.at = "record"
  BY <1>2 DEF Fields
<1>. HIDE DEF s
<1>. QED
  BY <1>1, <1>2, <1>3, <1>4, <1>5, LogsOutOk, MovesOn

(* A row that is written as it was loaded has the password that there is. *)
LEMMA ConnectStep ==
    ASSUME Inv, NEW w \in Workers, Connect(w)
    PROVE  Inv' /\ Grows
<1>. DEFINE r == req[w]
<1>1. /\ WritesRow(r) /\ Active(r) /\ Goto(w, Idle) /\ store' = store
      /\ users' = [users EXCEPT ![r.who] = r.me]
      /\ UNCHANGED <<setting, versions, ran>>
  BY DEF Connect, WritesRow, Active, history
<1>2. RequestOk(r) /\ RequestOk(Idle)
  BY IdleOk DEF Inv
<1>3. StoreOk(store') /\ RunsForAsker'
  BY <1>1 DEF Inv, RunsForAsker
<1>4. UsersOk'
  BY <1>1, <1>2 DEF Inv, UsersOk, RequestOk
<1>5. CASE WholeRowsApart
  <2>1. SamePasswords
    BY <1>1, <1>2, <1>5 DEF SamePasswords, Inv, UsersOk, RowsCurrent, RequestOk, RowOk
  <2>2. ~Replaces(Idle) /\ ~WritesRow(Idle)
    BY IdleOk DEF Replaces, Active, WritesRow
  <2>. QED
    BY <1>1, <1>2, <1>3, <2>1, <2>2, MovesWith
<1>6. CASE ~WholeRowsApart
  <2>1. req' = [v \in Workers |-> req'[v]] /\ \A v \in Workers : RequestOk(req'[v])
    BY <1>1, <1>2 DEF Inv, Goto
  <2>. QED
    BY <1>1, <1>3, <1>4, <1>6, <2>1 DEF Inv, Grows, WholeRowsApart
<1>. QED
  BY <1>5, <1>6

LEMMA SendLinkStep ==
    ASSUME Inv, NEW u, SendLink(u)
    PROVE  Inv' /\ Grows
<1>1. StoreOk(store') /\ UNCHANGED <<setting, users, versions, req, ran>>
  BY DEF SendLink, history, Inv
<1>. QED
  BY <1>1, Apartly

LEMMA TickStep ==
    ASSUME Inv, Tick
    PROVE  Inv' /\ Grows
<1>1. StoreOk(store') /\ UNCHANGED <<setting, users, versions, req, ran>>
  BY DEF Tick, history, Inv
<1>. QED
  BY <1>1, Apartly

LEMMA PostLinkStep ==
    ASSUME Inv, NEW w \in Workers, NEW l, PostLink(w, l)
    PROVE  Inv' /\ Grows
<1>. DEFINE r == req[w]
            me == users[l.user]
            flushed == [Flushed(r) EXCEPT !.me = me, !.at = "resetting", !.link = l.row]
            kept == [r EXCEPT !.me = me, !.at = "resetting", !.link = l.row]
<1>1. /\ r.at = "work" /\ r.op = "reset" /\ r.who = l.user
      /\ UNCHANGED <<setting, users, versions, ran>>
      /\ store' = Drop(r.key) \/ store' = store
      /\ Goto(w, flushed) \/ Goto(w, kept) \/ Goto(w, Idle)
  BY DEF PostLink, history
<1>2. Fields(r) /\ AskOk(r.copy)
  BY Requested
<1>3. StoreOk(store') /\ RunsForAsker'
  BY <1>1, DropOk DEF Inv, RunsForAsker
<1>4. r.who \in Users => RowOk(me)
  BY <1>1 DEF Inv, UsersOk
<1>5. /\ Fields(flushed) /\ flushed.copy = Blank /\ flushed.op = r.op
      /\ flushed.who = r.who /\ flushed.me = me /\ flushed.at = "resetting"
  BY <1>2 DEF Flushed, Fields
<1>6. /\ Fields(kept) /\ kept.copy = r.copy /\ kept.op = r.op
      /\ kept.who = r.who /\ kept.me = me /\ kept.at = "resetting"
  BY <1>2 DEF Fields
<1>. HIDE DEF flushed, kept, me
<1>7. ASSUME NEW s \in {flushed, kept}
      PROVE  RequestOk(s) /\ ~WritesRow(s)
  BY <1>1, <1>2, <1>4, <1>5, <1>6, BlankOk DEF RequestOk, WritesRow
<1>8. Replaces(r)
  BY <1>1 DEF Replaces, Active
<1>. QED
  BY <1>1, <1>3, <1>7, <1>8, Moves, Stops

LEMMA ResetStep ==
    ASSUME Inv, NEW w \in Workers, Reset(w)
    PROVE  Inv' /\ Grows
<1>. DEFINE r == req[w]
            me == NewRow(r)
            s == [r EXCEPT !.me = me, !.op = "login", !.at = "work", !.link = None]
<1>1. /\ r.at = "resetting"
      /\ users' = [users EXCEPT ![r.who] = me] /\ versions' = versions + 1
      /\ UNCHANGED <<setting, ran>> /\ store' = store
      /\ Goto(w, s) \/ Goto(w, Idle)
  BY DEF Reset
<1>2. RequestOk(r)
  BY DEF Inv
<1>3. r.who \in Users => RowOk(me)
  BY <1>2 DEF RequestOk, NewRow, RowOk, Inv, UsersOk
<1>4. /\ Fields(s) /\ s.copy = r.copy /\ s.op = "login" /\ s.who = r.who
      /\ s.me = me /\ s.at = "work"
  BY <1>2 DEF RequestOk, Fields
<1>. HIDE DEF s
<1>5. RequestOk(s) /\ ~WritesRow(s)
  BY <1>2, <1>3, <1>4 DEF RequestOk, WritesRow
<1>6. RequestOk(Idle) /\ ~WritesRow(Idle)
  BY IdleOk DEF WritesRow
<1>7. StoreOk(store') /\ Replaces(r)
  BY <1>1, <1>2 DEF Inv, Replaces, Active, RequestOk
<1>. QED
  BY <1>1, <1>5, <1>6, <1>7, Replaced

LEMMA BeginRefreshStep ==
    ASSUME Inv, NEW w \in Workers, NEW t, BeginRefresh(w, t)
    PROVE  Inv' /\ Grows
<1>. DEFINE k == issued[t].sid
            copy == store[k]
            r == [Idle EXCEPT !.op = "refresh", !.at = "refreshing", !.key = k,
                              !.copy = copy, !.who = copy.user, !.token = t]
<1>1. /\ Stored(k) /\ Goto(w, r)
      /\ UNCHANGED <<setting, users, store, versions, ran>>
  BY DEF BeginRefresh, history
<1>2. AskOk(copy)
  BY <1>1 DEF Stored, Inv, StoreOk
<1>. HIDE DEF k, copy
<1>3. /\ Fields(r) /\ r.copy = copy /\ r.op = "refresh" /\ r.at = "refreshing"
      /\ r.me = Idle.me
  BY DEF Fields, Idle
<1>4. RowOk(Idle.me)
  BY DEF Idle, RowOk
<1>. HIDE DEF r
<1>5. RequestOk(r) /\ ~Replaces(r) /\ ~WritesRow(r)
  BY <1>2, <1>3, <1>4 DEF RequestOk, Replaces, WritesRow
<1>6. StoreOk(store') /\ RunsForAsker'
  BY <1>1 DEF Inv, RunsForAsker
<1>. QED
  BY <1>1, <1>5, <1>6, Moves

LEMMA RefreshStep ==
    ASSUME Inv, NEW w \in Workers, Refresh(w)
    PROVE  Inv' /\ Grows
<1>. DEFINE r == req[w]
            new == Cardinality(DOMAIN issued) + 1
<1>1. /\ Goto(w, Idle) /\ UNCHANGED <<setting, users, versions, ran>>
      /\ store' = store \/ store' = [store EXCEPT ![r.key] = Rotated(r, new)]
  BY DEF Refresh
<1>2. AskOk(Rotated(r, new))
  BY Requested DEF Rotated, AskOk
<1>3. StoreOk(store') /\ RunsForAsker'
  BY <1>1, <1>2, PutOk DEF Inv, RunsForAsker
<1>. QED
  BY <1>1, <1>3, Stops

LEMMA PostStep ==
    ASSUME Inv, NEW w \in Workers, Post(w)
    PROVE  Inv' /\ Grows
<1>. DEFINE r == req[w]
            copy == [r.copy EXCEPT !.held = r.copy.user]
            s == [r EXCEPT !.copy = copy, !.at = "save"]
<1>1. /\ Active(r) /\ UNCHANGED <<setting, users, store, versions>>
      /\ \/ /\ ran' = [asker |-> r.copy.user, runner |-> r.copy.user]
            /\ Goto(w, Idle)
         \/ ran' = ran /\ Goto(w, s)
  BY DEF Post, Active
<1>2. Fields(r) /\ AskOk(r.copy)
  BY Requested
<1>3. StoreOk(store') /\ RunsForAsker'
  BY <1>1 DEF Inv, RunsForAsker
<1>4. AskOk(copy)
  BY <1>2 DEF AskOk
<1>. HIDE DEF copy
<1>5. /\ Fields(s) /\ s.copy = copy /\ s.op = r.op /\ s.who = r.who /\ s.me = r.me
      /\ s.at = "save"
  BY <1>2 DEF Fields
<1>. HIDE DEF s
<1>. QED
  BY <1>1, <1>3, <1>4, <1>5, Stops, MovesOn

LEMMA ReauthenticateStep ==
    ASSUME Inv, NEW w \in Workers, NEW back, Reauthenticate(w, back)
    PROVE  Inv' /\ Grows
<1>. DEFINE r == req[w]
            copy == [r.copy EXCEPT !.proof = now, !.held = None]
            s == [r EXCEPT !.copy = copy, !.at = "save"]
<1>1. /\ Active(r) /\ UNCHANGED <<setting, users, store, versions>>
      /\ \/ /\ r.copy.held # None
            /\ ran' = [asker |-> r.copy.held, runner |-> r.copy.user]
         \/ ran' = ran
  BY DEF Reauthenticate, Active
<1>2. Fields(r) /\ AskOk(r.copy)
  BY Requested
<1>3. StoreOk(store') /\ RunsForAsker'
  BY <1>1, <1>2 DEF Inv, RunsForAsker, AskOk
<1>4. Goto(w, s)
  <2>1. [r EXCEPT !.copy.proof = now, !.copy.held = None, !.at = "save"] = s
    BY <1>2 DEF Fields, AskOk
  <2>. QED
    BY <2>1 DEF Reauthenticate
<1>5. AskOk(copy)
  BY <1>2 DEF AskOk
<1>. HIDE DEF copy
<1>6. /\ Fields(s) /\ s.copy = copy /\ s.op = r.op /\ s.who = r.who /\ s.me = r.me
      /\ s.at = "save"
  BY <1>2 DEF Fields
<1>. HIDE DEF s
<1>. QED
  BY <1>1, <1>3, <1>4, <1>5, <1>6, MovesOn

LEMMA DieStep ==
    ASSUME Inv, NEW w \in Workers, Die(w)
    PROVE  Inv' /\ Grows
<1>1. /\ Goto(w, Idle) /\ StoreOk(store') /\ RunsForAsker'
      /\ UNCHANGED <<setting, users, versions>>
  BY DEF Die, history, Inv, RunsForAsker
<1>. QED
  BY <1>1, Stops

----------------------------------------------------------------------------

LEMMA InvInit == Init => Inv
<1>. SUFFICES ASSUME Init
              PROVE  Inv
  OBVIOUS
<1>1. StoreOk(store)
  BY DEF Init, StoreOk
<1>2. req = [w \in Workers |-> req[w]] /\ \A w \in Workers : RequestOk(req[w])
  BY IdleOk DEF Init
<1>3. UsersOk /\ \A u \in Users : users[u].password <= versions
  BY DEF Init, UsersOk, RowOk
<1>4. RowsCurrent
  BY <1>3, IdleOk DEF Init, RowsCurrent, WritesRow
<1>. QED
  BY <1>1, <1>2, <1>3, <1>4 DEF Init, Inv, RunsForAsker

LEMMA InvStep ==
    ASSUME Inv, [Next]_vars
    PROVE  Inv' /\ Grows
<1>1. CASE UNCHANGED vars
  <2>1. StoreOk(store') /\ UNCHANGED <<setting, users, versions, req, ran>>
    BY <1>1 DEF vars, Inv
  <2>. QED
    BY <2>1, Apartly
<1>2. CASE \E u \in setting.users : SendLink(u)
  BY <1>2, SendLinkStep
<1>3. CASE Tick
  BY <1>3, TickStep
<1>4. CASE \E w \in setting.workers : Step(w)
  <2>1. PICK w \in Workers : Step(w)
    BY <1>4, ActorsKnown DEF Inv
  <2>2. \/ \E op, k, u : Begin(w, op, k, u)
        \/ Track(w) \/ DoLogin(w) \/ List(w) \/ Record(w) \/ Save(w) \/ Logout(w)
        \/ \E k : Purge(w, k) \/ EndOne(w, k)
        \/ \E chosen : End(w, chosen)
        \/ Change(w) \/ Changed(w) \/ Connect(w) \/ Reset(w)
        \/ \E l : PostLink(w, l)
        \/ \E t : BeginRefresh(w, t)
        \/ Refresh(w) \/ Post(w) \/ Die(w)
        \/ \E back : Reauthenticate(w, back)
    BY <2>1 DEF Step
  <2>3. CASE \E op, k, u : Begin(w, op, k, u)
    BY <2>3, BeginStep
  <2>4. CASE Track(w) \/ DoLogin(w) \/ List(w) \/ Record(w) \/ Save(w) \/ Logout(w)
    BY <2>4, TrackStep, DoLoginStep, ListStep, RecordStep, SaveStep, LogoutStep
  <2>5. CASE \E k : Purge(w, k) \/ EndOne(w, k)
    BY <2>5, PurgeStep, EndOneStep
  <2>6. CASE \E chosen : End(w, chosen)
    BY <2>6, EndStep
  <2>7. CASE Change(w) \/ Changed(w) \/ Connect(w) \/ Reset(w)
    BY <2>7, ChangeStep, ChangedStep, ConnectStep, ResetStep
  <2>8. CASE \E l : PostLink(w, l)
    BY <2>8, PostLinkStep
  <2>9. CASE \E t : BeginRefresh(w, t)
    BY <2>9, BeginRefreshStep
  <2>10. CASE Refresh(w) \/ Post(w) \/ Die(w)
    BY <2>10, RefreshStep, PostStep, DieStep
  <2>11. CASE \E back : Reauthenticate(w, back)
    BY <2>11, ReauthenticateStep
  <2>. QED
    BY <2>2, <2>3, <2>4, <2>5, <2>6, <2>7, <2>8, <2>9, <2>10, <2>11
<1>. QED
  BY <1>1, <1>2, <1>3, <1>4 DEF Next

(* The variables have their shapes, and what waits for a proof was asked    *)
(* for by who is logged in (suspend, resume_request).                      *)
THEOREM Invariance == Spec => []Inv
<1>1. Init => Inv
  BY InvInit
<1>2. Inv /\ [Next]_vars => Inv'
  BY InvStep
<1>. QED
  BY <1>1, <1>2, PTL DEF Spec

(* A form that waited for a proof runs for who posted it, whatever overlaps *)
(* and whoever logs in to the session in between (suspend_request and       *)
(* resume_request).                                                        *)
THEOREM RunsForAskerHolds == Spec => []RunsForAsker
<1>1. Inv => RunsForAsker
  BY DEF Inv
<1>. QED
  BY <1>1, Invariance, PTL

(* A replaced password never returns, though who connects an account saves  *)
(* the whole row of the user (SocialLogin.save), if that overlaps with no   *)
(* request that replaces a password. Nothing else has to be apart.         *)
THEOREM ReplacedForGoodHolds ==
    ASSUME WholeRowsApart
    PROVE  Spec => ReplacedForGood
<1>1. Inv /\ [Next]_vars =>
         [\A u \in Users : users'[u].password >= users[u].password]_users
  BY InvStep DEF Grows
<1>. QED
  BY <1>1, Invariance, PTL DEF Spec, ReplacedForGood

(***************************************************************************)
(* What every request knows: the base of the three invariants below        *)
(***************************************************************************)

(* ks keys and vs passwords were made. *)
SessionKnown(s, ks, vs) ==
    /\ s.user \in Owner
    /\ s.hash \in 0 .. vs
    /\ s.origin \in 0 .. ks
    /\ s.user = Nobody => s.origin = 0

StoreKnown(stored, ks, vs) ==
    \A k \in Keys : stored[k] # Gone =>
        /\ k <= ks
        /\ SessionKnown(stored[k], ks, vs)
        /\ stored[k].user # Nobody => stored[k].origin # 0

(* Where a request may be that does `op` *)
AtItsPlace(r) ==
    /\ r.at = "list" => r.op = "login"
    /\ r.at = "purging" => r.op \in {"login", "list"}
    /\ r.at = "ending" => r.op = "end"
    /\ r.at = "record" => r.op = "login" \/ (r.op = "change" /\ r.new /\ r.key # 0)
    /\ r.at = "changed" => r.op = "change"
    /\ r.at = "refreshing" <=> r.op = "refresh"
    /\ r.at = "save" => r.key = 0 \/ r.new \/ r.op \in {"login", "post", "reauthenticate"}
    /\ r.new => r.op \in {"login", "change"} /\ r.at \in {"list", "purging", "record", "save"}

(* Only a login has a session with a user and without a key. *)
KeyKnown(r, ks) ==
    /\ r.key \in 0 .. ks
    /\ r.key # 0 /\ r.copy.user # Nobody => r.copy.origin # 0
    /\ r.key = 0 => r.copy.user = Nobody \/ (r.new /\ r.at # "save")
    /\ r.key = 0 /\ r.new => r.at # "save"

WhoKnown(r) ==
    /\ r.op \in {"login", "change", "reset"} => r.who \in Users
    /\ r.op = "change" => r.at = "save" \/ r.copy.user = r.who
    /\ r.op = "login" /\ r.at \in {"list", "purging", "record", "save"} => r.copy.user = r.who

RequestKnown(r, ks, vs) ==
    /\ SessionKnown(r.copy, ks, vs)
    /\ r.me.password \in 0 .. vs
    /\ AtItsPlace(r)
    /\ KeyKnown(r, ks)
    /\ WhoKnown(r)

Known ==
    /\ keys \in Nat
    /\ \A u \in Users : users[u].password \in 0 .. versions
    /\ StoreKnown(store, keys, versions)
    /\ \A w \in Workers : RequestKnown(req[w], keys, versions)

(***************************************************************************)
(* The steps, by what they do to requests, sessions, rows and tokens       *)
(***************************************************************************)

Like(s, c) == s.user = c.user /\ s.hash = c.hash /\ s.origin = c.origin

(* A request that will continue a session under another key, and one that   *)
(* will end it whatever its key                                            *)
Moving(r) == r.op = "change" /\ r.at \in {"track", "work", "changed"}
Leaving(r) == r.op = "logout" /\ r.at \in {"track", "work"}

(* A request that will save a session whose key was handed out *)
Saves(r) ==
    /\ ~r.new /\ r.key # 0
    /\ \/ r.op \in {"post", "reauthenticate"}
       \/ /\ r.op = "login"
          /\ r.at \in {"track", "work"} => r.copy.user = r.who /\ r.copy.hash = r.me.password

(* A request begins beside those that are not apart from it, and keeps what *)
(* it does, but that a reset may log in.                                   *)
Takes(w, s) ==
    /\ Goto(w, s)
    /\ Active(s) =>
         \/ /\ Active(req[w])
            /\ s.op = req[w].op \/ (req[w].op = "reset" /\ s.op = "login")
         \/ ~Active(req[w]) /\ Free(w, s.op)

(* It goes on with the session that it has, *)
Continues(s, r) ==
    /\ s.key = r.key /\ s.new = r.new /\ s.who = r.who
    /\ Like(s.copy, r.copy) /\ s.copy.tokens = r.copy.tokens
    /\ s.at \notin {"idle", "track", "refreshing"}
    /\ Moving(s) => Moving(r)
    /\ Leaving(s) => Leaving(r)
    /\ Saves(s) => Saves(r)

(* or with one that has no key. *)
Restarts(s) ==
    s.key = 0 /\ s.at # "refreshing" /\ ~Moving(s) /\ ~Leaving(s)

(* What a step may do to the rows of sessions *)
RowsTurn(w, s) ==
    \/ rows' = rows /\ (s.at = "save" => ~s.new)
    \/ /\ rows' = [rows EXCEPT ![s.key] = s.copy.user]
       /\ s.key = req[w].key /\ Continues(s, req[w])
    \/ /\ \E k : /\ rows' = [rows EXCEPT ![k] = Nobody]
                 /\ \/ ~(k \in Keys /\ store[k] # Gone)
                    \/ /\ ~Authentic(store[k]) /\ req[w].at = "purging"
                       /\ store[k].user # Nobody => store'[k] = Gone
       /\ s.at # "save"

(* and to the passwords *)
UsersTurn(w, s) ==
    \/ /\ WholeRowsApart => SamePasswords
       /\ versions' = versions /\ \A u \in Users : users'[u].password \in 0 .. versions
       /\ s.at # "changed"
    \/ /\ users' = [users EXCEPT ![req[w].who] = NewRow(req[w])]
       /\ versions' = versions + 1
       /\ s.at = "changed" => s.me.password = versions + 1 /\ Continues(s, req[w])

(* Logging out *)
Outs(w, s) ==
    /\ Leaving(req[w]) /\ store' = Drop(req[w].key) /\ s.key = 0
    /\ ended' = ended \cup {req[w].copy.origin}

(* A request goes on or ends, with no session stored. *)
Goes(w, s) ==
    /\ Takes(w, s)
    /\ s = Idle \/ (Active(req[w]) /\ Continues(s, req[w])) \/ Restarts(s)
    /\ \A k \in Keys : store'[k] \in {store[k], Gone}
    /\ UNCHANGED <<keys, issued, rotated>>
    /\ ended' = ended \/ Outs(w, s)
    /\ RowsTurn(w, s) /\ UsersTurn(w, s)

(* The tokens of a session that is saved *)
NewToken == Cardinality(DOMAIN issued) + 1

IssuedTurn(r, c) ==
    \/ UNCHANGED <<issued, rotated>> /\ c.tokens = r.copy.tokens /\ r.at = "save"
    \/ /\ \E sub : issued' = [t \in DOMAIN issued \cup {NewToken} |->
                                 IF t = NewToken THEN [sid |-> r.key, sub |-> sub] ELSE issued[t]]
       /\ \/ /\ r.at = "save" /\ r.new /\ rotated' = rotated
             /\ c.tokens = r.copy.tokens \cup {NewToken}
          \/ /\ r.at = "refreshing" /\ rotated' = rotated \cup {r.token}
             /\ c.tokens = (r.copy.tokens \ {r.token}) \cup {NewToken}

(* A request ends and saves its session, if that is stored. *)
Puts(w, c) ==
    /\ Goto(w, Idle) /\ req[w].at \in {"save", "refreshing"} /\ req[w].key # 0
    /\ store' = IF Stored(req[w].key) THEN [store EXCEPT ![req[w].key] = c] ELSE store
    /\ Like(c, req[w].copy)
    /\ IssuedTurn(req[w], c)
    /\ UNCHANGED <<rows, keys, ended, users, versions>>

(* A request of a session begins. *)
Begins(w, s) ==
    /\ Takes(w, s) /\ ~Active(req[w]) /\ Stored(s.key) /\ Handed(s.key)
    /\ s.copy = store[s.key] /\ ~s.new /\ s.at \in {"track", "work", "refreshing"}
    /\ s.at = "refreshing" => s.token \in DOMAIN issued /\ issued[s.token].sid = s.key
    /\ UNCHANGED <<store, rows, keys, issued, ended, rotated, users, versions>>

(* A session is continued under a new key. *)
Rekeys(w, s) ==
    LET r == req[w]
    IN  /\ Takes(w, s) /\ Active(r) /\ ~r.new
        /\ s.key = keys + 1 /\ s.new /\ s.at \in {"list", "record"}
        /\ keys' = keys + 1 /\ store' = Cycled(r)
        /\ UNCHANGED <<rows, issued, ended, rotated, versions>> /\ SamePasswords
        /\ \/ /\ r.copy.user = Nobody /\ s.copy.origin = keys + 1
              /\ s.op = "login"
           \/ /\ r.at = "changed" /\ s.op = "change" /\ s.who = r.who
              /\ s.copy.origin = r.copy.origin /\ users' = users

(* A session without a key gets one. *)
Makes(w, s, c) ==
    LET r == req[w]
    IN  /\ Takes(w, s) /\ Active(r) /\ r.key = 0
        /\ keys' = keys + 1 /\ store' = [store EXCEPT ![keys + 1] = c]
        /\ UNCHANGED <<issued, ended, rotated, users, versions>>
        /\ \/ s = Idle /\ rows' = rows /\ c.user = Nobody /\ c.origin = 0
           \/ /\ s.op = "login" /\ s.key = keys + 1 /\ s.new /\ s.at = "save"
              /\ s.copy = c /\ c.origin = keys + 1
              /\ rows' = [rows EXCEPT ![keys + 1] = c.user]

(* A stored session is ended. *)
EndsOne(w, k) ==
    /\ req[w].op = "end" /\ Active(req[w]) /\ Stored(k)
    /\ store' = Drop(k) /\ ended' = ended \cup {store[k].origin}
    /\ UNCHANGED <<req, rows, keys, issued, rotated, users, versions>>

Passes == UNCHANGED <<req, store, rows, keys, issued, ended, rotated, users, versions>>

Turn ==
    \/ Passes
    \/ \E w \in Workers :
         \/ \E s : Goes(w, s) \/ Begins(w, s) \/ Rekeys(w, s)
         \/ \E c : Puts(w, c)
         \/ \E s, c : Makes(w, s, c)
         \/ \E k : EndsOne(w, k)

LEMMA IdleKnown ==
    ASSUME NEW ks \in Nat, NEW vs \in Nat
    PROVE  RequestKnown(Idle, ks, vs) /\ SessionKnown(Blank, ks, vs)
<1>1. SessionKnown(Blank, ks, vs)
  BY DEF SessionKnown, Blank, Owner
<1>2. /\ Idle.copy = Blank /\ Idle.key = 0 /\ Idle.me.password = 0 /\ Idle.at = "idle"
      /\ Idle.op = "none" /\ Idle.new = FALSE
  BY DEF Idle
<1>. HIDE DEF Idle
<1>3. AtItsPlace(Idle) /\ WhoKnown(Idle)
  BY <1>2 DEF AtItsPlace, WhoKnown
<1>4. KeyKnown(Idle, ks)
  BY <1>2 DEF KeyKnown, Blank
<1>. QED
  BY <1>1, <1>2, <1>3, <1>4 DEF RequestKnown

LEMMA Grown ==
    ASSUME NEW ks \in Nat, NEW vs \in Nat, NEW ls \in Nat, NEW ps \in Nat, ks <= ls, vs <= ps
    PROVE  /\ \A s : SessionKnown(s, ks, vs) => SessionKnown(s, ls, ps)
           /\ \A r : RequestKnown(r, ks, vs) => RequestKnown(r, ls, ps)
           /\ \A st : StoreKnown(st, ks, vs) => StoreKnown(st, ls, ps)
<1>1. ASSUME NEW s, SessionKnown(s, ks, vs)
      PROVE  SessionKnown(s, ls, ps)
  BY <1>1 DEF SessionKnown
<1>2. ASSUME NEW r, RequestKnown(r, ks, vs)
      PROVE  RequestKnown(r, ls, ps)
  <2>1. SessionKnown(r.copy, ls, ps)
    BY <1>1, <1>2 DEF RequestKnown
  <2>2. KeyKnown(r, ls)
    BY <1>2 DEF RequestKnown, KeyKnown
  <2>. QED
    BY <2>1, <2>2, <1>2 DEF RequestKnown
<1>3. ASSUME NEW st, StoreKnown(st, ks, vs)
      PROVE  StoreKnown(st, ls, ps)
  BY <1>1, <1>3 DEF StoreKnown, Keys
<1>. QED
  BY <1>1, <1>2, <1>3

LEMMA LikeKnown ==
    ASSUME NEW ks, NEW vs, NEW s, NEW c, Like(s, c), SessionKnown(c, ks, vs)
    PROVE  SessionKnown(s, ks, vs)
BY DEF Like, SessionKnown

(* How a step keeps what is known *)
LEMMA KnownOn ==
    ASSUME Inv, Known, NEW w \in Workers, NEW s, Goto(w, s),
           keys' \in Nat, versions' \in Nat, keys <= keys', versions <= versions',
           RequestKnown(s, keys', versions'), StoreKnown(store', keys', versions'),
           \A u \in Users : users'[u].password \in 0 .. versions'
    PROVE  Known'
<1>1. \A v \in Workers : RequestKnown(req[v], keys, versions)
  BY DEF Known
<1>2. \A v \in Workers : RequestKnown(req[v], keys', versions')
  BY <1>1, Grown DEF Known, Inv, UsersOk
<1>3. \A v \in Workers : req'[v] = IF v = w THEN s ELSE req[v]
  BY DEF Goto, Inv
<1>4. \A v \in Workers : RequestKnown(req'[v], keys', versions')
  BY <1>2, <1>3
<1>. QED
  BY <1>4 DEF Known

LEMMA LosesKnown ==
    ASSUME NEW st, NEW lost, NEW ks, NEW vs, StoreKnown(st, ks, vs),
           \A k \in Keys : lost[k] \in {st[k], Gone}
    PROVE  StoreKnown(lost, ks, vs)
BY DEF StoreKnown

LEMMA UsersTurnKnown ==
    ASSUME Inv, Known, NEW w \in Workers, NEW s, UsersTurn(w, s)
    PROVE  /\ versions' \in Nat /\ versions <= versions'
           /\ \A u \in Users : users'[u].password \in 0 .. versions'
<1>1. versions \in Nat /\ users = [u \in Users |-> users[u]]
  BY DEF Inv, UsersOk
<1>2. req[w].who \in Users => NewRow(req[w]).password = versions + 1
  BY DEF Inv, RequestOk, RowOk, NewRow
<1>. QED
  BY <1>1, <1>2 DEF UsersTurn, Known

LEMMA GoesKnown ==
    ASSUME Inv, Known, NEW w \in Workers, NEW s, Goes(w, s),
           RequestKnown(s, keys, versions')
    PROVE  Known'
<1>1. /\ versions \in Nat /\ versions' \in Nat /\ versions <= versions' /\ keys' = keys
      /\ \A u \in Users : users'[u].password \in 0 .. versions'
  BY UsersTurnKnown DEF Goes, Inv, UsersOk
<1>2. StoreKnown(store', keys, versions)
  BY LosesKnown DEF Goes, Known
<1>3. StoreKnown(store', keys', versions') /\ keys \in Nat
  BY <1>1, <1>2, Grown DEF Known
<1>. QED
  BY <1>1, <1>3, KnownOn DEF Goes, Takes

(* Who continues is known if its place is. *)
LEMMA ContinuesKnown ==
    ASSUME Inv, Known, NEW w \in Workers, NEW s, Continues(s, req[w]),
           AtItsPlace(s), WhoKnown(s), s.me.password \in 0 .. versions',
           versions' \in Nat, versions <= versions',
           s.at = "save" /\ req[w].key = 0 => req[w].copy.user = Nobody /\ ~req[w].new
    PROVE  RequestKnown(s, keys, versions')
<1>1. RequestKnown(req[w], keys, versions) /\ keys \in Nat /\ versions \in Nat
  BY DEF Known, Inv, UsersOk
<1>2. SessionKnown(s.copy, keys, versions)
  BY <1>1, LikeKnown DEF RequestKnown, Continues
<1>3. SessionKnown(s.copy, keys, versions')
  BY <1>1, <1>2, Grown
<1>4. KeyKnown(s, keys)
  BY <1>1 DEF RequestKnown, KeyKnown, Continues, Like
<1>. QED
  BY <1>3, <1>4 DEF RequestKnown

LEMMA Same ==
    ASSUME Inv, UNCHANGED users
    PROVE  SamePasswords
BY DEF Inv, UsersOk, SamePasswords, RowOk

LEMMA SameUsers ==
    ASSUME Inv, Known, NEW w, NEW s, UNCHANGED <<users, versions>>, s.at # "changed"
    PROVE  UsersTurn(w, s)
BY Same DEF UsersTurn, Known

(* A request ends and nothing is stored. *)
LEMMA QuitsTurn ==
    ASSUME Inv, Known, NEW w \in Workers, Goto(w, Idle),
           UNCHANGED <<users, versions, rows, keys, issued, rotated, ended>>,
           \A k \in Keys : store'[k] \in {store[k], Gone}
    PROVE  Known' /\ Turn
<1>1. Idle.at = "idle" /\ Idle.new = FALSE
  BY DEF Idle
<1>2. Goes(w, Idle)
  BY <1>1, SameUsers DEF Goes, Takes, Active, RowsTurn
<1>3. RequestKnown(Idle, keys, versions')
  BY IdleKnown DEF Known, Inv, UsersOk
<1>. QED
  BY <1>2, <1>3, GoesKnown DEF Turn

LEMMA DropLoses ==
    ASSUME Inv, NEW k
    PROVE  \A j \in Keys : Drop(k)[j] \in {store[j], Gone}
BY DEF Drop, Inv, StoreOk

LEMMA At ==
    ASSUME Inv, Known, NEW w \in Workers
    PROVE  /\ RequestKnown(req[w], keys, versions) /\ Fields(req[w]) /\ AskOk(req[w].copy)
           /\ keys \in Nat /\ versions \in Nat
BY Requested DEF Known, Inv, UsersOk

LEMMA TrackTurn ==
    ASSUME Inv, Known, NEW w \in Workers, Track(w)
    PROVE  Known' /\ Turn
<1>. DEFINE r == req[w]
            s == Onward(w, "work")
<1>1. /\ r.at = "track" /\ rows' = [rows EXCEPT ![r.key] = r.copy.user] /\ Goto(w, s)
      /\ UNCHANGED <<users, store, keys, issued, versions, ended, rotated>>
  BY DEF Track, Listed, history
<1>2. RequestKnown(r, keys, versions) /\ Fields(r) /\ keys \in Nat /\ versions \in Nat
  BY At
<1>3. /\ s.op = r.op /\ s.who = r.who /\ s.me = r.me /\ s.key = r.key /\ s.new = r.new
      /\ s.copy = r.copy /\ s.at = "work"
  BY <1>2 DEF Onward, Fields
<1>. HIDE DEF s
<1>4. Continues(s, r)
  BY <1>1, <1>3 DEF Continues, Like, Moving, Leaving, Saves
<1>5. AtItsPlace(s) /\ WhoKnown(s)
  BY <1>1, <1>2, <1>3 DEF RequestKnown, AtItsPlace, WhoKnown
<1>6. RequestKnown(s, keys, versions')
  BY <1>1, <1>2, <1>3, <1>4, <1>5, ContinuesKnown DEF RequestKnown
<1>7. Goes(w, s)
  BY <1>1, <1>3, <1>4, SameUsers DEF Goes, Takes, RowsTurn, Active
<1>. QED
  BY <1>6, <1>7, GoesKnown DEF Turn

LEMMA LogsInTurn ==
    ASSUME Inv, Known, NEW w \in Workers, DoLogin(w)
    PROVE  Known' /\ Turn
<1>. DEFINE r == req[w]
            fresh == [Blank EXCEPT !.user = r.who, !.hash = r.me.password]
            own == LoggedIn(r)
            first == [own EXCEPT !.origin = keys + 1]
            flushed == [Flushed(r) EXCEPT !.copy = fresh, !.at = "list", !.new = TRUE]
            cycled == [r EXCEPT !.copy = first, !.key = keys + 1, !.at = "list",
                                !.new = TRUE]
            kept == [r EXCEPT !.copy = own, !.at = "list"]
<1>1. /\ r.op = "login" /\ r.at = "work"
      /\ users' = [users EXCEPT ![r.who] = RowOnLogin(r)]
      /\ UNCHANGED <<versions, rows, issued, ended, rotated>>
      /\ \/ store' = Drop(r.key) /\ Goto(w, flushed) /\ keys' = keys
         \/ store' = Cycled(r) /\ r.copy.user = Nobody /\ Goto(w, cycled) /\ keys' = keys + 1
         \/ /\ store' = store /\ Goto(w, kept) /\ keys' = keys
            /\ r.copy.user = r.who /\ ~(r.copy.user # Nobody /\ r.copy.hash # r.me.password)
  BY DEF DoLogin, history
<1>2. RequestKnown(r, keys, versions) /\ Fields(r) /\ AskOk(r.copy) /\ keys \in Nat /\ versions \in Nat
  BY At
<1>3. r.who \in Users /\ r.who # Nobody /\ ~r.new /\ r.me.password \in 0 .. versions
  BY <1>1, <1>2, NamesApart DEF RequestKnown, AtItsPlace, WhoKnown
<1>4. SamePasswords
  <2>1. /\ "password" \in DOMAIN RowOnLogin(r)
        /\ RowOnLogin(r).password = users[r.who].password
    BY <1>3 DEF RowOnLogin, Inv, UsersOk, RowOk
  <2>. QED
    BY <1>1, <2>1 DEF SamePasswords, Inv, UsersOk, RowOk
<1>5. \A u \in Users : users'[u].password \in 0 .. versions
  BY <1>4 DEF SamePasswords, Known
<1>6. /\ fresh.user = r.who /\ fresh.hash = r.me.password /\ fresh.origin = 0
  BY DEF Blank
<1>7. /\ own.user = r.who /\ own.hash = r.me.password /\ own.origin = r.copy.origin
      /\ own.tokens = r.copy.tokens
      /\ first.user = r.who /\ first.hash = r.me.password /\ first.origin = keys + 1
  BY <1>2 DEF LoggedIn, AskOk
<1>8. /\ flushed.copy = fresh /\ flushed.key = 0 /\ flushed.new = TRUE /\ flushed.op = r.op
      /\ flushed.who = r.who /\ flushed.me = r.me /\ flushed.at = "list"
  BY <1>2 DEF Flushed, Fields
<1>9. /\ cycled.copy = first /\ cycled.key = keys + 1 /\ cycled.new = TRUE /\ cycled.op = r.op
      /\ cycled.who = r.who /\ cycled.me = r.me /\ cycled.at = "list"
  BY <1>2 DEF Fields
<1>10. /\ kept.copy = own /\ kept.key = r.key /\ kept.new = r.new /\ kept.op = r.op
       /\ kept.who = r.who /\ kept.me = r.me /\ kept.at = "list"
  BY <1>2 DEF Fields
<1>. HIDE DEF r, fresh, own, first, flushed, cycled, kept
<1>11. ASSUME NEW s, s.at = "list", s.op = r.op, s.who = r.who, s.me = r.me,
              s.copy.user = r.who
       PROVE  AtItsPlace(s) /\ WhoKnown(s)
  BY <1>1, <1>3, <1>11 DEF AtItsPlace, WhoKnown
<1>12. CASE store' = Drop(r.key) /\ Goto(w, flushed) /\ keys' = keys
  <2>1. SessionKnown(flushed.copy, keys, versions)
    BY <1>2, <1>3, <1>6, <1>8 DEF SessionKnown, Owner
  <2>2. KeyKnown(flushed, keys)
    BY <1>2, <1>8 DEF KeyKnown
  <2>3. RequestKnown(flushed, keys, versions')
    BY <1>1, <1>3, <1>6, <1>8, <1>11, <2>1, <2>2 DEF RequestKnown
  <2>4. Restarts(flushed)
    BY <1>1, <1>8 DEF Restarts, Moving, Leaving
  <2>5. \A k \in Keys : store'[k] \in {store[k], Gone}
    BY <1>12, DropLoses
  <2>6. UsersTurn(w, flushed)
    BY <1>1, <1>4, <1>5, <1>8 DEF UsersTurn
  <2>7. Goes(w, flushed)
    BY <1>1, <1>8, <1>12, <2>4, <2>5, <2>6 DEF Goes, Takes, RowsTurn, Active, r
  <2>. QED
    BY <2>3, <2>7, GoesKnown DEF Turn
<1>13. CASE store' = Cycled(r) /\ r.copy.user = Nobody /\ Goto(w, cycled) /\ keys' = keys + 1
  <2>1. SessionKnown(cycled.copy, keys', versions)
    BY <1>2, <1>3, <1>7, <1>9, <1>13 DEF SessionKnown, Owner
  <2>2. KeyKnown(cycled, keys')
    BY <1>2, <1>7, <1>9, <1>13 DEF KeyKnown
  <2>3. RequestKnown(cycled, keys', versions')
    BY <1>1, <1>3, <1>7, <1>9, <1>11, <2>1, <2>2 DEF RequestKnown
  <2>4. StoreKnown(store', keys', versions')
    <3>1. StoreKnown(Drop(r.key), keys, versions)
      BY LosesKnown, DropLoses DEF Known
    <3>2. StoreKnown(Drop(r.key), keys', versions')
      BY <3>1, <1>1, <1>2, <1>13, Grown
    <3>3. SessionKnown(r.copy, keys', versions')
      BY <1>1, <1>2, <1>13, Grown DEF RequestKnown
    <3>. QED
      BY <3>2, <3>3, <1>13, <1>2 DEF StoreKnown, Cycled, Drop, Inv, StoreOk
  <2>5. Rekeys(w, cycled)
    BY <1>1, <1>3, <1>4, <1>7, <1>9, <1>13 DEF Rekeys, Takes, Active, r
  <2>6. Known'
    BY <1>1, <1>2, <1>5, <1>13, <2>3, <2>4, KnownOn
  <2>. QED
    BY <2>5, <2>6 DEF Turn
<1>14. CASE /\ store' = store /\ Goto(w, kept) /\ keys' = keys
            /\ r.copy.user = r.who /\ ~(r.copy.user # Nobody /\ r.copy.hash # r.me.password)
  <2>1. Continues(kept, r)
    BY <1>1, <1>3, <1>7, <1>10, <1>14 DEF Continues, Like, Moving, Leaving, Saves
  <2>2. WhoKnown(kept)
    BY <1>1, <1>7, <1>10, <1>11
  <2>3. RequestKnown(kept, keys, versions')
    BY <1>1, <1>2, <1>3, <1>7, <1>10, <1>11, <2>1, <2>2, ContinuesKnown DEF r
  <2>4. UsersTurn(w, kept)
    BY <1>1, <1>4, <1>5, <1>10 DEF UsersTurn
  <2>5. Goes(w, kept)
    BY <1>1, <1>10, <1>14, <2>1, <2>4 DEF Goes, Takes, RowsTurn, Active, r
  <2>. QED
    BY <2>3, <2>5, GoesKnown DEF Turn
<1>. QED
  BY <1>1, <1>12, <1>13, <1>14

(* A turn of the rows that a login, a list or an end looks at *)
LEMMA RoundTurn ==
    ASSUME Inv, Known, NEW w \in Workers, Active(req[w]), NEW at,
           \/ /\ at = "purging" /\ req[w].op \in {"login", "list"}
              /\ req[w].op = "login" => req[w].at \in {"list", "purging"}
           \/ at = "ending" /\ req[w].op = "end",
           NEW s, Round(s, req[w], at), Goto(w, s),
           \A k \in Keys : store'[k] \in {store[k], Gone},
           UNCHANGED <<users, versions, keys, issued, ended, rotated>>,
           s.at # "save" => RowsTurn(w, s)
    PROVE  Known' /\ Turn
<1>. DEFINE r == req[w]
<1>1. RequestKnown(r, keys, versions) /\ keys \in Nat /\ versions \in Nat
  BY At
<1>2. CASE s = Idle
  <2>1. Idle.at = "idle"
    BY DEF Idle
  <2>2. RequestKnown(s, keys, versions')
    BY <1>1, <1>2, IdleKnown
  <2>3. Goes(w, s)
    BY <1>2, <2>1, SameUsers DEF Goes, Takes, Active
  <2>. QED
    BY <2>2, <2>3, GoesKnown DEF Turn
<1>3. CASE s # Idle
  <2>1. /\ s.copy = r.copy /\ s.op = r.op /\ s.who = r.who /\ s.me = r.me
        /\ s.key = r.key /\ s.new = r.new
        /\ s.at = at \/ (s.at = "record" /\ at = "purging" /\ s.op = "login")
    BY <1>3 DEF Round
  <2>2. s.at \notin {"save", "changed", "idle", "track", "work", "refreshing"}
    BY <2>1
  <2>3. Continues(s, r)
    BY <2>1, <2>2 DEF Continues, Like, Moving, Leaving, Saves
  <2>4. AtItsPlace(s)
    BY <1>1, <2>1, <2>2 DEF RequestKnown, AtItsPlace
  <2>5. WhoKnown(s)
    BY <1>1, <2>1 DEF RequestKnown, WhoKnown
  <2>6. RequestKnown(s, keys, versions')
    BY <1>1, <2>1, <2>2, <2>3, <2>4, <2>5, ContinuesKnown DEF RequestKnown
  <2>7. Goes(w, s)
    BY <2>1, <2>2, <2>3, SameUsers DEF Goes, Takes, Active
  <2>. QED
    BY <2>6, <2>7, GoesKnown DEF Turn
<1>. QED
  BY <1>2, <1>3

LEMMA ListTurn ==
    ASSUME Inv, Known, NEW w \in Workers, List(w)
    PROVE  Known' /\ Turn
<1>. DEFINE s == Todo(req[w], {k \in Keys : rows[k] = req[w].who}, "purging")
<1>1. /\ req[w].at = "list" \/ (req[w].at = "work" /\ req[w].op = "list")
      /\ Goto(w, s)
      /\ UNCHANGED <<users, store, rows, keys, issued, versions, ended, rotated>>
  BY DEF List, history
<1>2. RequestKnown(req[w], keys, versions) /\ Fields(req[w])
  BY At
<1>3. Round(s, req[w], "purging")
  BY <1>2, TodoOk
<1>. HIDE DEF s
<1>4. s.at # "save" => RowsTurn(w, s)
  BY <1>1 DEF RowsTurn
<1>5. /\ Active(req[w]) /\ req[w].op \in {"login", "list"}
      /\ req[w].op = "login" => req[w].at \in {"list", "purging"}
  BY <1>1, <1>2 DEF Active, RequestKnown, AtItsPlace
<1>. QED
  BY <1>1, <1>3, <1>4, <1>5, RoundTurn

LEMMA PurgeTurn ==
    ASSUME Inv, Known, NEW w \in Workers, NEW k \in Keys, Purge(w, k)
    PROVE  Known' /\ Turn
<1>. DEFINE s == Did(req[w], k)
            dead == Stored(k) /\ store[k].user # Nobody /\ ~Authentic(store[k])
<1>1. /\ req[w].at = "purging" /\ Goto(w, s)
      /\ store' = IF dead THEN Drop(k) ELSE store
      /\ rows' = IF Authentic(store[k]) THEN rows ELSE [rows EXCEPT ![k] = Nobody]
      /\ UNCHANGED <<users, keys, issued, versions, ended, rotated>>
  BY DEF Purge, history
<1>2. RequestKnown(req[w], keys, versions) /\ Fields(req[w])
  BY At
<1>3. Round(s, req[w], "purging")
  BY <1>1, <1>2, DidOk
<1>4. \A j \in Keys : store'[j] \in {store[j], Gone}
  BY <1>1, DropLoses
<1>5. dead => store'[k] = Gone
  BY <1>1 DEF Drop, Inv, StoreOk
<1>. HIDE DEF s
<1>6. s.at # "save" => RowsTurn(w, s)
  BY <1>1, <1>5 DEF RowsTurn, Stored
<1>7. /\ Active(req[w]) /\ req[w].op \in {"login", "list"}
      /\ req[w].op = "login" => req[w].at \in {"list", "purging"}
  BY <1>1, <1>2 DEF Active, RequestKnown, AtItsPlace
<1>. QED
  BY <1>1, <1>3, <1>4, <1>6, <1>7, RoundTurn

LEMMA EndTurn ==
    ASSUME Inv, Known, NEW w \in Workers, NEW chosen, End(w, chosen)
    PROVE  Known' /\ Turn
<1>. DEFINE s == Todo(req[w], chosen, "ending")
<1>1. /\ req[w].at = "work" /\ req[w].op = "end" /\ Goto(w, s)
      /\ UNCHANGED <<users, store, rows, keys, issued, versions, ended, rotated>>
  BY DEF End, history
<1>2. Fields(req[w])
  BY At
<1>3. Round(s, req[w], "ending")
  BY <1>2, TodoOk
<1>. HIDE DEF s
<1>4. s.at # "save" => RowsTurn(w, s)
  BY <1>1 DEF RowsTurn
<1>. QED
  BY <1>1, <1>3, <1>4, RoundTurn DEF Active

LEMMA EndOneTurn ==
    ASSUME Inv, Known, NEW w \in Workers, NEW k \in Keys, EndOne(w, k)
    PROVE  Known' /\ Turn
<1>. DEFINE s == Did(req[w], k)
<1>1. /\ req[w].at = "ending" /\ UNCHANGED <<users, keys, issued, versions, rotated>>
      /\ \/ /\ Stored(k) /\ store' = Drop(k) /\ ended' = ended \cup {store[k].origin}
            /\ UNCHANGED <<rows, req>>
         \/ /\ ~Stored(k) /\ rows' = [rows EXCEPT ![k] = Nobody] /\ Goto(w, s)
            /\ UNCHANGED <<store, ended>>
  BY DEF EndOne, EndStored
<1>2. RequestKnown(req[w], keys, versions) /\ Fields(req[w])
  BY At
<1>3. req[w].op = "end" /\ Active(req[w])
  BY <1>1, <1>2 DEF RequestKnown, AtItsPlace, Active
<1>4. Round(s, req[w], "ending")
  BY <1>1, <1>2, DidOk
<1>. HIDE DEF s
<1>5. CASE /\ Stored(k) /\ store' = Drop(k) /\ ended' = ended \cup {store[k].origin}
           /\ UNCHANGED <<rows, req>>
  <2>1. StoreKnown(store', keys, versions)
    BY <1>5, DropLoses, LosesKnown DEF Known
  <2>2. Known'
    BY <1>1, <1>5, <2>1 DEF Known
  <2>3. EndsOne(w, k)
    BY <1>1, <1>3, <1>5 DEF EndsOne
  <2>. QED
    BY <2>2, <2>3 DEF Turn
<1>6. CASE /\ ~Stored(k) /\ rows' = [rows EXCEPT ![k] = Nobody] /\ Goto(w, s)
           /\ UNCHANGED <<store, ended>>
  <2>1. s.at # "save" => RowsTurn(w, s)
    BY <1>6 DEF RowsTurn, Stored
  <2>. QED
    BY <1>1, <1>3, <1>4, <1>6, <2>1, RoundTurn
<1>. QED
  BY <1>1, <1>5, <1>6

(* A session without a key is stored under a new one. *)
LEMMA MadeKnown ==
    ASSUME Inv, Known, NEW c, SessionKnown(c, keys + 1, versions),
           c.user # Nobody => c.origin # 0
    PROVE  StoreKnown([store EXCEPT ![keys + 1] = c], keys + 1, versions)
<1>1. keys \in Nat /\ versions \in Nat
  BY DEF Known, Inv, UsersOk
<1>2. StoreKnown(store, keys + 1, versions)
  BY <1>1, Grown DEF Known
<1>. QED
  BY <1>1, <1>2 DEF StoreKnown, Inv, StoreOk

LEMMA RecordTurn ==
    ASSUME Inv, Known, NEW w \in Workers, Record(w)
    PROVE  Known' /\ Turn
<1>. DEFINE r == req[w]
            k == IF r.key = 0 THEN keys + 1 ELSE r.key
            made == [r.copy EXCEPT !.origin = k]
            copy == IF r.key = 0 THEN made ELSE r.copy
            s == [r EXCEPT !.key = k, !.copy = copy, !.at = "save"]
<1>1. /\ r.at = "record" /\ UNCHANGED <<users, versions, issued, ended, rotated>>
      /\ keys' = IF r.key = 0 THEN k ELSE keys
      /\ store' = IF r.key = 0 THEN [store EXCEPT ![k] = copy] ELSE store
      /\ rows' = [rows EXCEPT ![k] = r.copy.user]
      /\ Goto(w, s)
  BY DEF Record, Listed, history
<1>2. /\ RequestKnown(r, keys, versions) /\ Fields(r) /\ AskOk(r.copy)
      /\ keys \in Nat /\ versions \in Nat
  BY At
<1>3. /\ made.user = r.copy.user /\ made.hash = r.copy.hash /\ made.origin = k
  BY <1>2 DEF AskOk
<1>. HIDE DEF copy
<1>4. /\ s.op = r.op /\ s.who = r.who /\ s.me = r.me /\ s.key = k /\ s.new = r.new
      /\ s.copy = copy /\ s.at = "save"
  BY <1>2 DEF Fields
<1>. HIDE DEF s, made
<1>5. CASE r.key # 0
  <2>1. copy = r.copy
    BY <1>5 DEF copy
  <2>2. Continues(s, r)
    BY <1>1, <1>4, <1>5, <2>1 DEF Continues, Like, Moving, Leaving, Saves
  <2>3. AtItsPlace(s) /\ WhoKnown(s)
    BY <1>1, <1>2, <1>4, <1>5, <2>1 DEF RequestKnown, AtItsPlace, WhoKnown
  <2>4. RequestKnown(s, keys, versions')
    BY <1>1, <1>2, <1>4, <1>5, <2>1, <2>2, <2>3, ContinuesKnown DEF RequestKnown
  <2>5. Goes(w, s)
    BY <1>1, <1>4, <1>5, <2>1, <2>2, SameUsers DEF Goes, Takes, RowsTurn, Active
  <2>. QED
    BY <2>4, <2>5, GoesKnown DEF Turn
<1>6. CASE r.key = 0
  <2>1. copy = made /\ k = keys + 1
    BY <1>6 DEF copy
  <2>2. r.op = "login" /\ r.who \in Users /\ r.me.password \in 0 .. versions
    BY <1>1, <1>2, <1>6 DEF RequestKnown, AtItsPlace, WhoKnown
  <2>3. r.copy.user = r.who /\ r.who # Nobody
    BY <1>1, <1>2, <2>2, NamesApart DEF RequestKnown, WhoKnown
  <2>4. s.new
    BY <1>2, <1>4, <1>6, <2>3 DEF RequestKnown, KeyKnown
  <2>5. SessionKnown(made, keys + 1, versions)
    BY <1>2, <1>3, <2>1, <2>3 DEF RequestKnown, SessionKnown
  <2>12. /\ keys' = keys + 1 /\ store' = [store EXCEPT ![keys + 1] = made]
         /\ versions' = versions /\ made.origin # 0
    BY <1>1, <1>2, <1>3, <1>6, <2>1
  <2>6. StoreKnown(store', keys', versions')
    BY <2>5, <2>12, MadeKnown
  <2>7. KeyKnown(s, keys + 1)
    BY <1>2, <1>3, <1>4, <2>1 DEF KeyKnown
  <2>8. AtItsPlace(s) /\ WhoKnown(s)
    BY <1>3, <1>4, <2>1, <2>2, <2>3 DEF AtItsPlace, WhoKnown
  <2>13. RequestKnown(s, keys + 1, versions)
    BY <1>4, <2>1, <2>2, <2>5, <2>7, <2>8 DEF RequestKnown
  <2>9. RequestKnown(s, keys', versions')
    BY <2>12, <2>13
  <2>14. /\ keys' \in Nat /\ versions' \in Nat /\ keys <= keys' /\ versions <= versions'
         /\ \A u \in Users : users'[u].password \in 0 .. versions'
    BY <1>1, <1>2, <2>12 DEF Known
  <2>10. Known'
    BY <1>1, <2>6, <2>9, <2>14, KnownOn
  <2>11. Makes(w, s, made)
    BY <1>1, <1>3, <1>4, <1>6, <2>1, <2>2, <2>4 DEF Makes, Takes, Active
  <2>. QED
    BY <2>10, <2>11 DEF Turn
<1>. QED
  BY <1>1, <1>5, <1>6

LEMMA SaveTurn ==
    ASSUME Inv, Known, NEW w \in Workers, Save(w)
    PROVE  Known' /\ Turn
<1>. DEFINE r == req[w]
            exposed == [r.copy EXCEPT !.tokens = @ \cup {NewToken}]
            expose == r.new /\ r.op = "login" /\ setting.jwt /\ NewToken <= MaxTokens
            copy == IF expose THEN exposed ELSE r.copy
            new == r.key = 0 /\ r.copy # Blank
<1>1. /\ r.at = "save" /\ UNCHANGED <<users, versions, rows, ended, rotated>>
      /\ keys' = IF new THEN keys + 1 ELSE keys
      /\ store' = IF new THEN [store EXCEPT ![keys + 1] = copy]
                  ELSE IF Stored(r.key) THEN [store EXCEPT ![r.key] = copy] ELSE store
      /\ Goto(w, Idle)
  BY DEF Save, NewToken, history
<1>2. issued' = IF expose THEN [t \in DOMAIN issued \cup {NewToken} |->
                    IF t = NewToken THEN [sid |-> r.key, sub |-> copy.user] ELSE issued[t]]
                ELSE issued
  BY DEF Save, NewToken
<1>3. /\ RequestKnown(r, keys, versions) /\ Fields(r) /\ AskOk(r.copy)
      /\ keys \in Nat /\ versions \in Nat
  BY At
<1>4. Like(exposed, r.copy) /\ exposed.tokens = r.copy.tokens \cup {NewToken}
  BY <1>3 DEF AskOk, Like
<1>5. Like(copy, r.copy) /\ copy.tokens = IF expose THEN r.copy.tokens \cup {NewToken} ELSE r.copy.tokens
  BY <1>4 DEF Like
<1>6. \A u \in Users : users'[u].password \in 0 .. versions
  BY <1>1 DEF Known
<1>. HIDE DEF exposed
<1>7. CASE r.key = 0
  <2>1. r.copy.user = Nobody /\ ~r.new /\ r.copy.origin = 0
    BY <1>1, <1>3, <1>7 DEF RequestKnown, KeyKnown, SessionKnown
  <2>2. copy = r.copy /\ issued' = issued
    BY <1>2, <2>1
  <2>3. CASE new
    <3>1. store' = [store EXCEPT ![keys + 1] = r.copy] /\ keys' = keys + 1 /\ versions' = versions
      BY <1>1, <2>2, <2>3
    <3>2. SessionKnown(r.copy, keys + 1, versions)
      BY <1>3, <2>1 DEF RequestKnown, SessionKnown
    <3>3. StoreKnown(store', keys', versions')
      BY <3>1, <3>2, <2>1, MadeKnown
    <3>4. /\ keys' \in Nat /\ versions' \in Nat /\ keys <= keys' /\ versions <= versions'
          /\ \A u \in Users : users'[u].password \in 0 .. versions'
      BY <1>3, <1>6, <3>1
    <3>5. RequestKnown(Idle, keys', versions')
      BY <3>4, IdleKnown
    <3>6. Known'
      BY <1>1, <3>3, <3>4, <3>5, KnownOn
    <3>7. Makes(w, Idle, r.copy)
      BY <1>1, <1>7, <2>1, <2>2, <3>1, IdleOk DEF Makes, Takes, Active
    <3>. QED
      BY <3>6, <3>7 DEF Turn
  <2>4. CASE ~new
    <3>1. store' = store /\ keys' = keys
      BY <1>1, <1>7, <2>4 DEF Stored, Keys
    <3>. QED
      BY <1>1, <2>2, <3>1, QuitsTurn
  <2>. QED
    BY <2>3, <2>4
<1>8. CASE r.key # 0
  <2>1. /\ keys' = keys /\ versions' = versions
        /\ store' = IF Stored(r.key) THEN [store EXCEPT ![r.key] = copy] ELSE store
    BY <1>1, <1>8
  <2>2. IssuedTurn(r, copy)
    BY <1>1, <1>2, <1>5 DEF IssuedTurn
  <2>. HIDE DEF copy, expose
  <2>3. Puts(w, copy)
    BY <1>1, <1>5, <1>8, <2>1, <2>2 DEF Puts
  <2>4. SessionKnown(copy, keys, versions) /\ (copy.user # Nobody => copy.origin # 0)
    BY <1>3, <1>5, <1>8, LikeKnown DEF RequestKnown, KeyKnown, Like
  <2>5. StoreKnown(store', keys, versions)
    BY <2>1, <2>4 DEF StoreKnown, Known, Inv, StoreOk, Stored
  <2>6. RequestKnown(Idle, keys, versions)
    BY <1>3, IdleKnown
  <2>7. /\ keys' \in Nat /\ versions' \in Nat /\ keys <= keys' /\ versions <= versions'
        /\ \A u \in Users : users'[u].password \in 0 .. versions'
    BY <1>3, <1>6, <2>1
  <2>8. Known'
    BY <1>1, <2>1, <2>5, <2>6, <2>7, KnownOn
  <2>. QED
    BY <2>3, <2>8 DEF Turn
<1>. QED
  BY <1>7, <1>8

(* A request whose session is flushed *)
LEMMA FlushedTurn ==
    ASSUME Inv, Known, NEW w \in Workers, Active(req[w]), NEW s, Goto(w, s),
           s.copy = Blank, s.key = 0, ~s.new, s.op = req[w].op, s.who = req[w].who,
           s.me.password \in 0 .. versions, ~Moving(s), ~Leaving(s), AtItsPlace(s),
           s.at \notin {"changed", "list", "purging", "record", "refreshing"},
           \A k \in Keys : store'[k] \in {store[k], Gone},
           UNCHANGED <<users, versions, rows, keys, issued, rotated>>,
           ended' = ended \/ Outs(w, s), s.op = "login" => s.at # "save",
           s.op = "change" => s.at = "save"
    PROVE  Known' /\ Turn
<1>1. RequestKnown(req[w], keys, versions) /\ keys \in Nat /\ versions \in Nat
  BY At
<1>2. SessionKnown(s.copy, keys, versions)
  BY <1>1, IdleKnown
<1>3. KeyKnown(s, keys)
  BY <1>1 DEF KeyKnown, Blank
<1>4. WhoKnown(s)
  BY <1>1 DEF RequestKnown, WhoKnown
<1>5. RequestKnown(s, keys, versions')
  BY <1>2, <1>3, <1>4 DEF RequestKnown
<1>6. Restarts(s)
  BY DEF Restarts
<1>7. UsersTurn(w, s)
  BY SameUsers
<1>8. Goes(w, s)
  BY <1>6, <1>7 DEF Goes, Takes, RowsTurn
<1>. QED
  BY <1>5, <1>8, GoesKnown DEF Turn

LEMMA LogsOutFields ==
    ASSUME NEW r, Fields(r)
    PROVE  /\ LogsOut(r).copy = Blank /\ LogsOut(r).key = 0 /\ LogsOut(r).new = r.new
           /\ LogsOut(r).op = r.op /\ LogsOut(r).who = r.who /\ LogsOut(r).me = r.me
           /\ LogsOut(r).at = "save"
BY DEF LogsOut, Flushed, Fields

LEMMA LogoutTurn ==
    ASSUME Inv, Known, NEW w \in Workers, Logout(w)
    PROVE  Known' /\ Turn
<1>. DEFINE r == req[w]
            s == LogsOut(r)
<1>1. /\ r.at = "work" /\ r.op = "logout" /\ store' = Drop(r.key) /\ Goto(w, s)
      /\ ended' = ended \cup {r.copy.origin}
      /\ UNCHANGED <<users, versions, rows, keys, issued, rotated>>
  BY DEF Logout
<1>2. RequestKnown(r, keys, versions) /\ Fields(r)
  BY At
<1>3. /\ s.copy = Blank /\ s.key = 0 /\ s.new = r.new /\ s.op = r.op /\ s.who = r.who
      /\ s.me = r.me /\ s.at = "save"
  BY <1>2, LogsOutFields
<1>. HIDE DEF s
<1>4. ~s.new /\ AtItsPlace(s) /\ ~Moving(s) /\ ~Leaving(s) /\ s.me.password \in 0 .. versions
  BY <1>1, <1>2, <1>3 DEF RequestKnown, AtItsPlace, Moving, Leaving
<1>5. Outs(w, s) /\ \A k \in Keys : store'[k] \in {store[k], Gone}
  BY <1>1, <1>3, DropLoses DEF Outs, Leaving
<1>. QED
  BY <1>1, <1>3, <1>4, <1>5, FlushedTurn DEF Active

(* A new password, and what its request goes on to *)
LEMMA ReplacedTurn ==
    ASSUME Inv, Known, NEW w \in Workers, Active(req[w]), NEW s, Takes(w, s),
           users' = [users EXCEPT ![req[w].who] = NewRow(req[w])], versions' = versions + 1,
           UNCHANGED <<store, rows, keys, issued, ended, rotated>>,
           s = Idle \/ Continues(s, req[w]), s.at # "save",
           s.at = "changed" => s.me.password = versions + 1 /\ Continues(s, req[w]),
           RequestKnown(s, keys, versions')
    PROVE  Known' /\ Turn
<1>1. UsersTurn(w, s) /\ RowsTurn(w, s)
  BY DEF UsersTurn, RowsTurn
<1>2. Goes(w, s)
  BY <1>1 DEF Goes
<1>. QED
  BY <1>2, GoesKnown DEF Turn

LEMMA ChangeTurn ==
    ASSUME Inv, Known, NEW w \in Workers, Change(w)
    PROVE  Known' /\ Turn
<1>. DEFINE r == req[w]
            me == NewRow(r)
            s == [r EXCEPT !.me = me, !.at = "changed"]
<1>1. /\ r.at = "work" /\ r.op = "change" /\ Goto(w, s)
      /\ users' = [users EXCEPT ![r.who] = me] /\ versions' = versions + 1
      /\ UNCHANGED <<store, rows, keys, issued, ended, rotated>>
  BY DEF Change, history
<1>2. RequestKnown(r, keys, versions) /\ Fields(r) /\ keys \in Nat /\ versions \in Nat
  BY At
<1>3. me.password = versions + 1
  BY <1>1, <1>2 DEF RequestKnown, WhoKnown, Inv, RequestOk, RowOk, NewRow
<1>4. /\ s.op = r.op /\ s.who = r.who /\ s.me = me /\ s.key = r.key /\ s.new = r.new
      /\ s.copy = r.copy /\ s.at = "changed"
  BY <1>2 DEF Fields
<1>. HIDE DEF s, me
<1>5. Continues(s, r)
  BY <1>1, <1>4 DEF Continues, Like, Moving, Leaving, Saves
<1>6. AtItsPlace(s) /\ WhoKnown(s)
  BY <1>1, <1>2, <1>4 DEF RequestKnown, AtItsPlace, WhoKnown
<1>7. s.me.password \in 0 .. versions' /\ versions' \in Nat /\ versions <= versions'
  BY <1>1, <1>2, <1>3, <1>4
<1>8. RequestKnown(s, keys, versions')
  BY <1>4, <1>5, <1>6, <1>7, ContinuesKnown
<1>9. Takes(w, s) /\ Active(r) /\ s.at # "save"
  BY <1>1, <1>4 DEF Takes, Active
<1>. QED
  BY <1>1, <1>3, <1>4, <1>5, <1>8, <1>9, ReplacedTurn DEF me

LEMMA ChangedTurn ==
    ASSUME Inv, Known, NEW w \in Workers, Changed(w)
    PROVE  Known' /\ Turn
<1>. DEFINE r == req[w]
            out == LogsOut(r)
            copy == Rehash(r)
            s == [r EXCEPT !.copy = copy, !.key = keys + 1, !.at = "record",
                           !.new = TRUE]
<1>1. /\ r.at = "changed"
      /\ UNCHANGED <<users, versions, rows, issued, ended, rotated>>
      /\ \/ store' = Drop(r.key) /\ keys' = keys /\ Goto(w, out)
         \/ store' = Cycled(r) /\ keys' = keys + 1 /\ Goto(w, s)
  BY DEF Changed, history
<1>2. /\ RequestKnown(r, keys, versions) /\ Fields(r) /\ AskOk(r.copy)
      /\ keys \in Nat /\ versions \in Nat
  BY At
<1>3. r.op = "change" /\ ~r.new /\ (r.key = 0 => r.copy.user = Nobody)
  BY <1>1, <1>2 DEF RequestKnown, AtItsPlace, KeyKnown
<1>4. /\ out.copy = Blank /\ out.key = 0 /\ out.new = r.new /\ out.op = r.op /\ out.who = r.who
      /\ out.me = r.me /\ out.at = "save"
  BY <1>2, LogsOutFields
<1>5. /\ copy.user = r.copy.user /\ copy.hash = r.me.password /\ copy.origin = r.copy.origin
  BY <1>2 DEF Rehash, AskOk
<1>. HIDE DEF copy
<1>6. /\ s.op = r.op /\ s.who = r.who /\ s.me = r.me /\ s.key = keys + 1 /\ s.new
      /\ s.copy = copy /\ s.at = "record"
  BY <1>2 DEF Fields
<1>. HIDE DEF s, out
<1>7. CASE store' = Drop(r.key) /\ keys' = keys /\ Goto(w, out)
  <2>1. /\ ~out.new /\ AtItsPlace(out) /\ ~Moving(out) /\ ~Leaving(out)
        /\ out.me.password \in 0 .. versions /\ out.op # "login"
    BY <1>1, <1>2, <1>3, <1>4 DEF RequestKnown, AtItsPlace, Moving, Leaving
  <2>2. \A k \in Keys : store'[k] \in {store[k], Gone}
    BY <1>7, DropLoses
  <2>. QED
    BY <1>1, <1>4, <1>7, <2>1, <2>2, FlushedTurn DEF Active
<1>8. CASE store' = Cycled(r) /\ keys' = keys + 1 /\ Goto(w, s)
  <2>1. r.copy.user = r.who /\ r.who \in Users /\ r.who # Nobody /\ r.copy.origin # 0
    BY <1>1, <1>2, <1>3, NamesApart DEF RequestKnown, WhoKnown, KeyKnown
  <2>2. SessionKnown(r.copy, keys + 1, versions)
    BY <1>2, <2>1 DEF RequestKnown, SessionKnown
  <2>3. SessionKnown(copy, keys + 1, versions)
    BY <1>2, <1>5, <2>1, <2>2 DEF RequestKnown, SessionKnown
  <2>4. StoreKnown(store', keys + 1, versions)
    <3>1. StoreKnown(Drop(r.key), keys, versions)
      BY DropLoses, LosesKnown DEF Known
    <3>2. StoreKnown(Drop(r.key), keys + 1, versions)
      BY <1>2, <3>1, Grown
    <3>. QED
      BY <1>2, <1>8, <2>1, <2>2, <3>2 DEF StoreKnown, Cycled, Drop, Inv, StoreOk
  <2>5. KeyKnown(s, keys + 1)
    BY <1>2, <1>5, <1>6, <2>1 DEF KeyKnown
  <2>6. AtItsPlace(s) /\ WhoKnown(s)
    BY <1>2, <1>3, <1>5, <1>6, <2>1 DEF AtItsPlace, WhoKnown
  <2>7. RequestKnown(s, keys + 1, versions)
    BY <1>2, <1>6, <2>3, <2>5, <2>6 DEF RequestKnown
  <2>8. /\ keys' = keys + 1 /\ keys' \in Nat /\ versions' \in Nat /\ keys <= keys'
        /\ versions' = versions /\ versions <= versions'
        /\ \A u \in Users : users'[u].password \in 0 .. versions'
    BY <1>1, <1>2, <1>8 DEF Known
  <2>9. RequestKnown(s, keys', versions') /\ StoreKnown(store', keys', versions')
    BY <2>4, <2>7, <2>8
  <2>10. Known'
    BY <1>8, <2>8, <2>9, KnownOn
  <2>11. SamePasswords
    BY <1>1, Same
  <2>12. Rekeys(w, s)
    BY <1>1, <1>3, <1>5, <1>6, <1>8, <2>11 DEF Rekeys, Takes, Active
  <2>. QED
    BY <2>10, <2>12 DEF Turn
<1>. QED
  BY <1>1, <1>7, <1>8

LEMMA ConnectTurn ==
    ASSUME Inv, Known, NEW w \in Workers, Connect(w)
    PROVE  Known' /\ Turn
<1>. DEFINE r == req[w]
<1>1. /\ WritesRow(r) /\ Goto(w, Idle) /\ users' = [users EXCEPT ![r.who] = r.me]
      /\ UNCHANGED <<store, rows, keys, issued, versions, ended, rotated>>
  BY DEF Connect, WritesRow, history
<1>2. RequestKnown(r, keys, versions) /\ RequestOk(r) /\ keys \in Nat /\ versions \in Nat
  BY At DEF Inv
<1>3. WholeRowsApart => SamePasswords
  BY <1>1, <1>2 DEF SamePasswords, Inv, UsersOk, RowsCurrent, RequestOk, RowOk
<1>4. \A u \in Users : users'[u].password \in 0 .. versions
  BY <1>1, <1>2 DEF Known, Inv, UsersOk, RequestKnown
<1>5. Idle.at = "idle"
  BY DEF Idle
<1>6. UsersTurn(w, Idle)
  BY <1>1, <1>3, <1>4, <1>5 DEF UsersTurn
<1>7. Goes(w, Idle)
  BY <1>1, <1>5, <1>6 DEF Goes, Takes, Active, RowsTurn
<1>8. RequestKnown(Idle, keys, versions')
  BY <1>1, <1>2, IdleKnown
<1>. QED
  BY <1>7, <1>8, GoesKnown DEF Turn

LEMMA PostLinkTurn ==
    ASSUME Inv, Known, NEW w \in Workers, NEW l, PostLink(w, l)
    PROVE  Known' /\ Turn
<1>. DEFINE r == req[w]
            me == users[l.user]
            flushed == [Flushed(r) EXCEPT !.me = me, !.at = "resetting", !.link = l.row]
            kept == [r EXCEPT !.me = me, !.at = "resetting", !.link = l.row]
<1>1. /\ r.at = "work" /\ r.op = "reset" /\ r.who = l.user
      /\ UNCHANGED <<users, rows, keys, issued, versions, ended, rotated>>
      /\ \/ store' = Drop(r.key) /\ Goto(w, flushed)
         \/ store' = store /\ Goto(w, kept)
         \/ store' = store /\ Goto(w, Idle)
  BY DEF PostLink, history
<1>2. RequestKnown(r, keys, versions) /\ Fields(r) /\ keys \in Nat /\ versions \in Nat
  BY At
<1>3. me.password \in 0 .. versions
  BY <1>1, <1>2 DEF RequestKnown, WhoKnown, Known
<1>4. /\ flushed.copy = Blank /\ flushed.key = 0 /\ flushed.new = r.new /\ flushed.op = r.op
      /\ flushed.who = r.who /\ flushed.me = me /\ flushed.at = "resetting"
  BY <1>2 DEF Flushed, Fields
<1>5. /\ kept.copy = r.copy /\ kept.key = r.key /\ kept.new = r.new /\ kept.op = r.op
      /\ kept.who = r.who /\ kept.me = me /\ kept.at = "resetting"
  BY <1>2 DEF Fields
<1>6. ~r.new /\ Active(r)
  BY <1>1, <1>2 DEF RequestKnown, AtItsPlace, Active
<1>7. ASSUME NEW s, s.op = r.op, s.at = "resetting", s.who = r.who, s.new = r.new
      PROVE  AtItsPlace(s) /\ WhoKnown(s) /\ ~Moving(s) /\ ~Leaving(s) /\ ~Saves(s)
  BY <1>1, <1>2, <1>6, <1>7 DEF RequestKnown, AtItsPlace, WhoKnown, Moving, Leaving, Saves
<1>. HIDE DEF r, me, flushed, kept
<1>8. CASE store' = Drop(r.key) /\ Goto(w, flushed)
  <2>1. \A k \in Keys : store'[k] \in {store[k], Gone}
    BY <1>8, DropLoses
  <2>. QED
    BY <1>1, <1>3, <1>4, <1>6, <1>7, <1>8, <2>1, FlushedTurn DEF r
<1>9. CASE store' = store /\ Goto(w, kept)
  <2>1. Continues(kept, r)
    BY <1>1, <1>5, <1>7 DEF Continues, Like
  <2>2. RequestKnown(kept, keys, versions')
    BY <1>1, <1>2, <1>3, <1>5, <1>7, <2>1, ContinuesKnown DEF r
  <2>3. UsersTurn(w, kept)
    BY <1>1, <1>5, SameUsers
  <2>4. Goes(w, kept)
    BY <1>1, <1>5, <1>6, <1>9, <2>1, <2>3 DEF Goes, Takes, RowsTurn, r
  <2>. QED
    BY <2>2, <2>4, GoesKnown DEF Turn
<1>10. CASE store' = store /\ Goto(w, Idle)
  BY <1>1, <1>10, QuitsTurn
<1>. QED
  BY <1>1, <1>8, <1>9, <1>10

LEMMA ResetTurn ==
    ASSUME Inv, Known, NEW w \in Workers, Reset(w)
    PROVE  Known' /\ Turn
<1>. DEFINE r == req[w]
            me == NewRow(r)
            s == [r EXCEPT !.me = me, !.op = "login", !.at = "work", !.link = None]
<1>1. /\ r.at = "resetting"
      /\ Goto(w, s) \/ Goto(w, Idle)
      /\ users' = [users EXCEPT ![r.who] = me] /\ versions' = versions + 1
      /\ UNCHANGED <<store, rows, keys, issued, ended, rotated>>
  BY DEF Reset
<1>2. /\ RequestKnown(r, keys, versions) /\ Fields(r) /\ RequestOk(r)
      /\ keys \in Nat /\ versions \in Nat
  BY At DEF Inv
<1>3. r.op = "reset" /\ Active(r) /\ r.who \in Users
  BY <1>1, <1>2 DEF RequestOk, RequestKnown, WhoKnown, Active
<1>4. me.password = versions + 1
  BY <1>2, <1>3 DEF RequestOk, RowOk, NewRow
<1>5. /\ s.op = "login" /\ s.who = r.who /\ s.me = me /\ s.key = r.key /\ s.new = r.new
      /\ s.copy = r.copy /\ s.at = "work"
  BY <1>2 DEF Fields
<1>6. ~r.new
  BY <1>1, <1>2, <1>3 DEF RequestKnown, AtItsPlace
<1>. HIDE DEF s, me
<1>7. ~Saves(s)
  BY <1>2, <1>4, <1>5 DEF Saves, RequestKnown, SessionKnown
<1>8. Continues(s, r)
  BY <1>5, <1>7 DEF Continues, Like, Moving, Leaving
<1>9. AtItsPlace(s) /\ WhoKnown(s)
  BY <1>3, <1>5, <1>6 DEF AtItsPlace, WhoKnown
<1>10. s.me.password \in 0 .. versions' /\ versions' \in Nat /\ versions <= versions'
  BY <1>1, <1>2, <1>4, <1>5
<1>11. RequestKnown(s, keys, versions')
  BY <1>5, <1>8, <1>9, <1>10, ContinuesKnown
<1>12. RequestKnown(Idle, keys, versions') /\ Idle.at = "idle"
  BY <1>2, <1>10, IdleKnown DEF Idle
<1>13. Goto(w, s) => Takes(w, s)
  BY <1>3, <1>5 DEF Takes
<1>14. Goto(w, Idle) => Takes(w, Idle)
  BY <1>12 DEF Takes, Active
<1>15. CASE Goto(w, s)
  BY <1>1, <1>3, <1>5, <1>8, <1>11, <1>13, <1>15, ReplacedTurn DEF me
<1>16. CASE Goto(w, Idle)
  BY <1>1, <1>3, <1>12, <1>14, <1>16, ReplacedTurn DEF me
<1>. QED
  BY <1>1, <1>15, <1>16

LEMMA RefreshTurn ==
    ASSUME Inv, Known, NEW w \in Workers, Refresh(w)
    PROVE  Known' /\ Turn
<1>. DEFINE r == req[w]
            c == Rotated(r, NewToken)
<1>1. /\ r.at = "refreshing" /\ Goto(w, Idle)
      /\ UNCHANGED <<users, rows, keys, versions, ended>>
      /\ \/ /\ Stored(r.key) /\ store' = [store EXCEPT ![r.key] = c]
            /\ issued' = [t \in DOMAIN issued \cup {NewToken} |->
                              IF t = NewToken THEN [sid |-> r.key, sub |-> r.who] ELSE issued[t]]
            /\ rotated' = rotated \cup {r.token}
         \/ UNCHANGED <<store, issued, rotated>>
  BY DEF Refresh, NewToken
<1>2. /\ RequestKnown(r, keys, versions) /\ Fields(r) /\ AskOk(r.copy)
      /\ keys \in Nat /\ versions \in Nat
  BY At
<1>3. Like(c, r.copy) /\ c.tokens = (r.copy.tokens \ {r.token}) \cup {NewToken}
  BY <1>2 DEF Rotated, AskOk, Like
<1>4. CASE UNCHANGED <<store, issued, rotated>>
  BY <1>1, <1>4, QuitsTurn
<1>5. CASE /\ Stored(r.key) /\ store' = [store EXCEPT ![r.key] = c]
           /\ issued' = [t \in DOMAIN issued \cup {NewToken} |->
                             IF t = NewToken THEN [sid |-> r.key, sub |-> r.who] ELSE issued[t]]
           /\ rotated' = rotated \cup {r.token}
  <2>. HIDE DEF c
  <2>1. IssuedTurn(r, c)
    <3>1. \E sub : issued' = [t \in DOMAIN issued \cup {NewToken} |->
                IF t = NewToken THEN [sid |-> r.key, sub |-> sub] ELSE issued[t]]
      BY <1>5
    <3>. QED
      BY <1>1, <1>3, <1>5, <3>1 DEF IssuedTurn
  <2>2. r.key # 0
    BY <1>5 DEF Stored, Keys
  <2>3. Puts(w, c)
    BY <1>1, <1>3, <1>5, <2>1, <2>2 DEF Puts
  <2>4. SessionKnown(c, keys, versions) /\ (c.user # Nobody => c.origin # 0)
    BY <1>2, <1>3, <2>2, LikeKnown DEF RequestKnown, KeyKnown, Like
  <2>5. StoreKnown(store', keys, versions)
    BY <1>5, <2>4 DEF StoreKnown, Known, Inv, StoreOk, Stored
  <2>6. RequestKnown(Idle, keys, versions)
    BY <1>2, IdleKnown
  <2>7. /\ keys' = keys /\ versions' = versions /\ keys <= keys' /\ versions <= versions'
        /\ \A u \in Users : users'[u].password \in 0 .. versions'
    BY <1>1, <1>2 DEF Known
  <2>8. Known'
    BY <1>1, <1>2, <2>5, <2>6, <2>7, KnownOn
  <2>. QED
    BY <2>3, <2>8 DEF Turn
<1>. QED
  BY <1>1, <1>4, <1>5

(* A request goes on to save its session. *)
LEMMA WillSave ==
    ASSUME Inv, Known, NEW w \in Workers, req[w].at = "work",
           req[w].op \in {"post", "reauthenticate"},
           NEW s, Goto(w, s), s.op = req[w].op, s.who = req[w].who, s.me = req[w].me,
           s.key = req[w].key, s.new = req[w].new, Like(s.copy, req[w].copy),
           s.copy.tokens = req[w].copy.tokens, s.at = "save",
           UNCHANGED <<users, versions, store, rows, keys, issued, ended, rotated>>
    PROVE  Known' /\ Turn
<1>. DEFINE r == req[w]
<1>1. RequestKnown(r, keys, versions) /\ keys \in Nat /\ versions \in Nat
  BY At
<1>2. ~r.new /\ (r.key = 0 => r.copy.user = Nobody)
  BY <1>1 DEF RequestKnown, AtItsPlace, KeyKnown
<1>3. Continues(s, r)
  BY DEF Continues, Moving, Leaving, Saves
<1>4. AtItsPlace(s) /\ WhoKnown(s)
  BY <1>1, <1>2 DEF RequestKnown, AtItsPlace, WhoKnown
<1>5. RequestKnown(s, keys, versions')
  BY <1>1, <1>2, <1>3, <1>4, ContinuesKnown DEF RequestKnown
<1>6. UsersTurn(w, s)
  BY SameUsers
<1>7. Goes(w, s)
  BY <1>2, <1>3, <1>6 DEF Goes, Takes, RowsTurn, Active
<1>. QED
  BY <1>5, <1>7, GoesKnown DEF Turn

LEMMA PostTurn ==
    ASSUME Inv, Known, NEW w \in Workers, Post(w)
    PROVE  Known' /\ Turn
<1>. DEFINE r == req[w]
            copy == [r.copy EXCEPT !.held = r.copy.user]
            s == [r EXCEPT !.copy = copy, !.at = "save"]
<1>1. /\ r.at = "work" /\ r.op = "post"
      /\ UNCHANGED <<users, versions, store, rows, keys, issued, ended, rotated>>
      /\ Goto(w, Idle) \/ Goto(w, s)
  BY DEF Post
<1>2. Fields(r) /\ AskOk(r.copy)
  BY Requested
<1>3. Like(copy, r.copy) /\ copy.tokens = r.copy.tokens
  BY <1>2 DEF AskOk, Like
<1>. HIDE DEF copy
<1>4. /\ s.copy = copy /\ s.op = r.op /\ s.who = r.who /\ s.me = r.me /\ s.key = r.key
      /\ s.new = r.new /\ s.at = "save"
  BY <1>2 DEF Fields
<1>. HIDE DEF s
<1>. QED
  BY <1>1, <1>3, <1>4, WillSave, QuitsTurn

LEMMA ReauthenticateTurn ==
    ASSUME Inv, Known, NEW w \in Workers, NEW back, Reauthenticate(w, back)
    PROVE  Known' /\ Turn
<1>. DEFINE r == req[w]
            copy == [r.copy EXCEPT !.proof = now, !.held = None]
            s == [r EXCEPT !.copy = copy, !.at = "save"]
<1>1. /\ r.at = "work" /\ r.op = "reauthenticate"
      /\ UNCHANGED <<users, versions, store, rows, keys, issued, ended, rotated>>
      /\ Goto(w, [r EXCEPT !.copy.proof = now, !.copy.held = None, !.at = "save"])
  BY DEF Reauthenticate
<1>2. Fields(r) /\ AskOk(r.copy)
  BY Requested
<1>3. Goto(w, s)
  <2>1. [r EXCEPT !.copy.proof = now, !.copy.held = None, !.at = "save"] = s
    BY <1>2 DEF Fields, AskOk
  <2>. QED
    BY <1>1, <2>1
<1>4. Like(copy, r.copy) /\ copy.tokens = r.copy.tokens
  BY <1>2 DEF AskOk, Like
<1>. HIDE DEF copy
<1>5. /\ s.copy = copy /\ s.op = r.op /\ s.who = r.who /\ s.me = r.me /\ s.key = r.key
      /\ s.new = r.new /\ s.at = "save"
  BY <1>2 DEF Fields
<1>. HIDE DEF s
<1>. QED
  BY <1>1, <1>3, <1>4, <1>5, WillSave

LEMMA DieTurn ==
    ASSUME Inv, Known, NEW w \in Workers, Die(w)
    PROVE  Known' /\ Turn
<1>1. /\ Goto(w, Idle)
      /\ UNCHANGED <<users, versions, store, rows, keys, issued, ended, rotated>>
  BY DEF Die, history
<1>. QED
  BY <1>1, QuitsTurn

LEMMA PassesTurn ==
    ASSUME Known, UNCHANGED <<req, store, rows, keys, issued, ended, rotated, users, versions>>
    PROVE  Known' /\ Turn
BY DEF Known, Turn, Passes

(* A request of a session that was handed out *)
LEMMA LoadsKnown ==
    ASSUME Inv, Known, NEW k, k = 0 \/ Stored(k), NEW c, c = IF k = 0 THEN Blank ELSE store[k],
           NEW s, s.key = k, s.copy = c, ~s.new, s.me.password \in 0 .. versions,
           AtItsPlace(s), WhoKnown(s)
    PROVE  RequestKnown(s, keys, versions)
<1>1. keys \in Nat /\ versions \in Nat /\ StoreKnown(store, keys, versions)
  BY DEF Known, Inv, UsersOk
<1>2. SessionKnown(c, keys, versions)
  BY <1>1, IdleKnown DEF Stored, StoreKnown
<1>3. KeyKnown(s, keys)
  BY <1>1 DEF KeyKnown, StoreKnown, Stored, Keys, Blank
<1>. QED
  BY <1>2, <1>3 DEF RequestKnown

LEMMA BeginTurn ==
    ASSUME Inv, Known, NEW w \in Workers, NEW k, NEW u \in Users \cup {Nobody}, NEW op,
           op \in {"login", "reset", "logout", "change", "list", "end", "connect", "post",
                   "reauthenticate"},
           op \in {"login", "reset"} <=> u # Nobody,
           Begin(w, op, k, u)
    PROVE  Known' /\ Turn
<1>. DEFINE dead == k # 0 /\ store[k].user # Nobody /\ ~Authentic(store[k])
            key == IF dead THEN 0 ELSE k
            copy == IF k = 0 \/ dead THEN Blank ELSE store[k]
            who == IF u # Nobody THEN u ELSE copy.user
            me == IF who = Nobody THEN Idle.me ELSE users[who]
            at == IF setting.track /\ copy.user # Nobody THEN "track" ELSE "work"
            s == [Idle EXCEPT !.op = op, !.key = key, !.copy = copy, !.who = who,
                              !.me = me, !.at = at]
<1>1. /\ req[w].at = "idle" /\ Free(w, op) /\ (k = 0 \/ (Stored(k) /\ Handed(k)))
      /\ op \notin {"login", "reset", "post"} => copy.user # Nobody
      /\ store' = IF dead THEN Drop(k) ELSE store
      /\ Goto(w, s)
      /\ UNCHANGED <<users, versions, rows, keys, issued, ended, rotated>>
  BY DEF Begin, history
<1>2. keys \in Nat /\ versions \in Nat /\ StoreKnown(store, keys, versions)
  BY DEF Known, Inv, UsersOk
<1>3. copy.user \in Owner /\ who \in Owner
  <2>1. copy.user \in Owner
    BY <1>1, <1>2 DEF StoreKnown, SessionKnown, Stored, Owner, Blank
  <2>. QED
    BY <2>1 DEF Owner
<1>4. me.password \in 0 .. versions
  <2>1. Idle.me.password = 0
    BY DEF Idle
  <2>. QED
    BY <1>2, <1>3, <2>1 DEF Known, Owner
<1>5. at \in {"track", "work"}
  OBVIOUS
<1>6. copy = IF key = 0 THEN Blank ELSE store[key]
  OBVIOUS
<1>7. key = 0 \/ (Stored(key) /\ Handed(key))
  BY <1>1
<1>8. op \in {"change", "logout"} => key # 0
  BY <1>1, <1>6 DEF Blank
<1>9. /\ op \in {"login", "change", "reset"} => who \in Users
      /\ op = "change" => copy.user = who
  BY <1>1, <1>3 DEF Owner
<1>10. ~dead => store' = store
  BY <1>1
<1>11. \A j \in Keys : store'[j] \in {store[j], Gone}
  BY <1>1, DropLoses
<1>12. dead => key = 0
  OBVIOUS
<1>. HIDE DEF dead, key, copy, who, me, at
<1>13. /\ s.op = op /\ s.at = at /\ s.key = key /\ s.copy = copy /\ s.who = who
       /\ s.me = me /\ s.new = FALSE
  BY DEF Idle
<1>. HIDE DEF s
<1>14. AtItsPlace(s) /\ WhoKnown(s)
  BY <1>5, <1>9, <1>13 DEF AtItsPlace, WhoKnown
<1>15. RequestKnown(s, keys, versions')
  BY <1>1, <1>4, <1>6, <1>7, <1>13, <1>14, LoadsKnown
<1>16. Takes(w, s)
  BY <1>1, <1>13 DEF Takes, Active
<1>17. CASE key = 0
  <2>1. Restarts(s)
    BY <1>5, <1>8, <1>13, <1>17 DEF Restarts, Moving, Leaving
  <2>2. UsersTurn(w, s) /\ RowsTurn(w, s)
    BY <1>1, <1>5, <1>13, SameUsers DEF RowsTurn
  <2>3. Goes(w, s)
    BY <1>1, <1>11, <1>16, <2>1, <2>2 DEF Goes
  <2>. QED
    BY <1>15, <2>3, GoesKnown DEF Turn
<1>18. CASE key # 0
  <2>1. store' = store
    BY <1>10, <1>12, <1>18
  <2>2. Begins(w, s)
    BY <1>1, <1>5, <1>6, <1>7, <1>13, <1>16, <1>18, <2>1 DEF Begins, Active
  <2>3. StoreKnown(store', keys', versions') /\ RequestKnown(s, keys', versions')
    BY <1>1, <1>2, <1>15, <2>1
  <2>4. /\ keys' = keys /\ versions' = versions
        /\ \A v \in Users : users'[v].password \in 0 .. versions'
    BY <1>1 DEF Known
  <2>5. Known'
    BY <1>1, <1>2, <2>3, <2>4, KnownOn
  <2>. QED
    BY <2>2, <2>5 DEF Turn
<1>. QED
  BY <1>17, <1>18

(***************************************************************************)
(* A key that is handed out                                                *)
(***************************************************************************)

(* Nobody else has a key that is not handed out; and what a request loaded  *)
(* of a session that was handed out is what is stored.                     *)
Alone(reqs) ==
    \A v, w \in Workers : v # w /\ reqs[w].new /\ reqs[w].key # 0 => reqs[v].key # reqs[w].key

AsStored(r, stored) ==
    ~r.new /\ r.key \in Keys /\ stored[r.key] # Gone => Like(stored[r.key], r.copy)

Out(k, reqs) == \A w \in Workers : reqs[w].new => reqs[w].key # k

Agreed ==
    /\ Alone(req)
    /\ \A w \in Workers : AsStored(req[w], store)
    /\ \A t \in DOMAIN issued : issued[t].sid \in 1 .. keys /\ Out(issued[t].sid, req)

LEMMA Reqs ==
    ASSUME Inv, NEW w \in Workers, NEW s, Goto(w, s)
    PROVE  \A v \in Workers : req'[v] = IF v = w THEN s ELSE req[v]
BY DEF Goto, Inv

LEMMA KeysKnown ==
    ASSUME Known
    PROVE  keys \in Nat /\ \A v \in Workers : req[v].key \in 0 .. keys
BY DEF Known, RequestKnown, KeyKnown

LEMMA CycledAt ==
    ASSUME Inv, NEW r, NEW k \in Keys
    PROVE  /\ Cycled(r)[k] = IF k = keys + 1 THEN r.copy ELSE Drop(r.key)[k]
           /\ Drop(r.key)[k] = IF k = r.key THEN Gone ELSE store[k]
BY DEF Cycled, Drop, Inv, StoreOk

LEMMA BeginRefreshTurn ==
    ASSUME Inv, Known, Agreed, NEW w \in Workers, NEW t \in DOMAIN issued, BeginRefresh(w, t)
    PROVE  Known' /\ Turn
<1>. DEFINE k == issued[t].sid
            copy == store[k]
            s == [Idle EXCEPT !.op = "refresh", !.at = "refreshing", !.key = k,
                              !.copy = copy, !.who = copy.user, !.token = t]
<1>1. /\ req[w].at = "idle" /\ Free(w, "refresh") /\ Stored(k) /\ Goto(w, s)
      /\ UNCHANGED <<users, versions, store, rows, keys, issued, ended, rotated>>
  BY DEF BeginRefresh, history
<1>2. Handed(k) /\ k # 0 /\ k \in 1 .. keys
  BY DEF Agreed, Out, Handed
<1>3. keys \in Nat /\ versions \in Nat /\ Idle.me.password = 0
  BY DEF Known, Inv, UsersOk, Idle
<1>. HIDE DEF copy
<1>4. /\ s.op = "refresh" /\ s.at = "refreshing" /\ s.key = k /\ s.copy = copy /\ s.token = t
      /\ s.me = Idle.me /\ s.new = FALSE
  BY DEF Idle
<1>5. issued[s.token].sid = s.key
  BY <1>4
<1>. HIDE DEF s, k
<1>6. AtItsPlace(s) /\ WhoKnown(s)
  BY <1>4 DEF AtItsPlace, WhoKnown
<1>7. RequestKnown(s, keys, versions)
  BY <1>1, <1>2, <1>3, <1>4, <1>6, LoadsKnown DEF copy
<1>8. Begins(w, s)
  BY <1>1, <1>2, <1>4, <1>5 DEF Begins, Takes, Active, copy
<1>9. /\ RequestKnown(s, keys', versions') /\ StoreKnown(store', keys', versions')
      /\ keys' = keys /\ versions' = versions
      /\ \A u \in Users : users'[u].password \in 0 .. versions'
  BY <1>1, <1>7 DEF Known
<1>10. Known'
  BY <1>1, <1>3, <1>9, KnownOn
<1>. QED
  BY <1>8, <1>10 DEF Turn

LEMMA TurnStep ==
    ASSUME Inv, Known, Agreed, [Next]_vars
    PROVE  Known' /\ Turn
<1>1. CASE UNCHANGED vars
  BY <1>1, PassesTurn DEF vars
<1>2. CASE \E u \in setting.users : SendLink(u)
  BY <1>2, PassesTurn DEF SendLink, history
<1>3. CASE Tick
  BY <1>3, PassesTurn DEF Tick, history
<1>4. CASE \E w \in setting.workers : Step(w)
  <2>1. PICK w \in Workers : Step(w)
    BY <1>4, ActorsKnown DEF Inv
  <2>2. CASE \E op \in {"logout", "change", "list", "end", "connect", "post", "reauthenticate"},
                k \in 0 .. MaxKeys : Begin(w, op, k, Nobody)
    BY <2>2, BeginTurn
  <2>3. CASE \E op \in {"login", "reset"}, k \in 0 .. MaxKeys, u \in setting.users :
                Begin(w, op, k, u)
    BY <2>3, BeginTurn, ActorsKnown, NamesApart DEF Inv
  <2>4. CASE Track(w) \/ DoLogin(w) \/ List(w) \/ Record(w) \/ Save(w) \/ Logout(w)
    BY <2>4, TrackTurn, LogsInTurn, ListTurn, RecordTurn, SaveTurn, LogoutTurn
  <2>5. CASE \E k \in Keys : Purge(w, k) \/ EndOne(w, k)
    BY <2>5, PurgeTurn, EndOneTurn
  <2>6. CASE \E chosen \in SUBSET Keys : End(w, chosen)
    BY <2>6, EndTurn
  <2>7. CASE Change(w) \/ Changed(w) \/ Connect(w) \/ Reset(w)
    BY <2>7, ChangeTurn, ChangedTurn, ConnectTurn, ResetTurn
  <2>8. CASE \E l \in links : PostLink(w, l)
    BY <2>8, PostLinkTurn
  <2>9. CASE \E t \in DOMAIN issued : BeginRefresh(w, t)
    BY <2>9, BeginRefreshTurn
  <2>10. CASE Refresh(w) \/ Post(w) \/ Die(w)
    BY <2>10, RefreshTurn, PostTurn, DieTurn
  <2>11. CASE \E back \in BOOLEAN : Reauthenticate(w, back)
    BY <2>11, ReauthenticateTurn
  <2>. QED
    BY <2>1, <2>2, <2>3, <2>4, <2>5, <2>6, <2>7, <2>8, <2>9, <2>10, <2>11 DEF Step
<1>. QED
  BY <1>1, <1>2, <1>3, <1>4 DEF Next

LEMMA AgreedGoes ==
    ASSUME Inv, Known, Agreed, NEW w \in Workers, NEW s, Goes(w, s)
    PROVE  Agreed'
<1>1. /\ Goto(w, s) /\ \A k \in Keys : store'[k] \in {store[k], Gone}
      /\ keys' = keys /\ issued' = issued
  BY DEF Goes, Takes
<1>2. \A v \in Workers : req'[v] = IF v = w THEN s ELSE req[v]
  BY <1>1, Reqs
<1>3. \/ s.key = 0
      \/ s.key = req[w].key /\ s.new = req[w].new /\ Like(s.copy, req[w].copy)
  BY DEF Goes, Restarts, Continues, Idle
<1>4. Alone(req')
  BY <1>2, <1>3 DEF Alone, Agreed
<1>5. ASSUME NEW v \in Workers
      PROVE  AsStored(req'[v], store')
  BY <1>1, <1>2, <1>3 DEF AsStored, Agreed, Like, Keys
<1>6. ASSUME NEW t \in DOMAIN issued'
      PROVE  issued'[t].sid \in 1 .. keys' /\ Out(issued'[t].sid, req')
  BY <1>1, <1>2, <1>3 DEF Out, Agreed
<1>. QED
  BY <1>4, <1>5, <1>6 DEF Agreed

LEMMA AgreedPuts ==
    ASSUME Inv, Known, Agreed, NEW w \in Workers, NEW c, Puts(w, c)
    PROVE  Agreed'
<1>. DEFINE r == req[w]
<1>1. /\ Goto(w, Idle) /\ r.key # 0 /\ Like(c, r.copy) /\ keys' = keys
      /\ \A k \in Keys : store'[k] # Gone => store[k] # Gone /\ store'[k] = IF k = r.key THEN c ELSE store[k]
  BY DEF Puts, Stored, Inv, StoreOk
<1>2. \A v \in Workers : req'[v] = IF v = w THEN Idle ELSE req[v]
  BY <1>1, Reqs
<1>3. Idle.key = 0 /\ Idle.new = FALSE
  BY DEF Idle
<1>4. Alone(req')
  BY <1>2, <1>3 DEF Alone, Agreed
<1>5. ASSUME NEW v \in Workers
      PROVE  AsStored(req'[v], store')
  BY <1>1, <1>2, <1>3 DEF AsStored, Agreed, Alone, Like, Keys
<1>6. \A k : k # 0 /\ (k = r.key \/ Out(k, req)) => Out(k, req')
  BY <1>1, <1>2, <1>3 DEF Out, Agreed, Alone
<1>7. r.key \in 1 .. keys
  BY <1>1, KeysKnown
<1>8. ASSUME NEW t \in DOMAIN issued'
      PROVE  issued'[t].sid \in 1 .. keys /\ (issued'[t].sid = r.key \/ Out(issued'[t].sid, req))
  <2>1. CASE issued' = issued
    BY <1>8, <2>1 DEF Agreed
  <2>2. CASE issued' # issued
    <3>1. PICK sub : issued' = [x \in DOMAIN issued \cup {NewToken} |->
                         IF x = NewToken THEN [sid |-> r.key, sub |-> sub] ELSE issued[x]]
      BY <2>2 DEF Puts, IssuedTurn
    <3>2. issued'[t].sid = r.key \/ (t \in DOMAIN issued /\ issued'[t] = issued[t])
      BY <1>8, <3>1
    <3>. QED
      BY <1>7, <3>2 DEF Agreed
  <2>. QED
    BY <2>1, <2>2
<1>9. ASSUME NEW t \in DOMAIN issued'
      PROVE  issued'[t].sid \in 1 .. keys' /\ Out(issued'[t].sid, req')
  BY <1>1, <1>6, <1>8, KeysKnown
<1>. QED
  BY <1>4, <1>5, <1>9 DEF Agreed

LEMMA AgreedBegins ==
    ASSUME Inv, Known, Agreed, NEW w \in Workers, NEW s, Begins(w, s)
    PROVE  Agreed'
<1>1. /\ Goto(w, s) /\ store' = store /\ keys' = keys /\ issued' = issued
      /\ ~s.new /\ s.copy = store[s.key] /\ Out(s.key, req)
  BY DEF Begins, Takes, Handed, Out
<1>2. \A v \in Workers : req'[v] = IF v = w THEN s ELSE req[v]
  BY <1>1, Reqs
<1>3. Alone(req')
  BY <1>1, <1>2 DEF Alone, Agreed, Out
<1>4. ASSUME NEW v \in Workers
      PROVE  AsStored(req'[v], store')
  BY <1>1, <1>2 DEF AsStored, Agreed, Like
<1>5. ASSUME NEW t \in DOMAIN issued'
      PROVE  issued'[t].sid \in 1 .. keys' /\ Out(issued'[t].sid, req')
  BY <1>1, <1>2 DEF Out, Agreed
<1>. QED
  BY <1>3, <1>4, <1>5 DEF Agreed

(* The key of a new session is nobody else's. *)
LEMMA AgreedNew ==
    ASSUME Inv, Known, Agreed, NEW w \in Workers, NEW s, Goto(w, s),
           s = Idle \/ (s.key = keys + 1 /\ s.new), keys' = keys + 1, issued' = issued,
           \A k \in Keys \ {keys + 1} : store'[k] \in {store[k], Gone}
    PROVE  Agreed'
<1>1. \A v \in Workers : req'[v] = IF v = w THEN s ELSE req[v]
  BY Reqs
<1>2. keys \in Nat /\ \A v \in Workers : req[v].key \in 0 .. keys
  BY KeysKnown
<1>3. Idle.key = 0 /\ Idle.new = FALSE
  BY DEF Idle
<1>4. Alone(req')
  BY <1>1, <1>2, <1>3 DEF Alone, Agreed
<1>5. ASSUME NEW v \in Workers
      PROVE  AsStored(req'[v], store')
  BY <1>1, <1>2, <1>3 DEF AsStored, Agreed, Keys
<1>6. ASSUME NEW t \in DOMAIN issued'
      PROVE  issued'[t].sid \in 1 .. keys' /\ Out(issued'[t].sid, req')
  BY <1>1, <1>2, <1>3 DEF Out, Agreed
<1>. QED
  BY <1>4, <1>5, <1>6 DEF Agreed

LEMMA AgreedRekeys ==
    ASSUME Inv, Known, Agreed, NEW w \in Workers, NEW s, Rekeys(w, s)
    PROVE  Agreed'
<1>1. /\ Goto(w, s) /\ s.key = keys + 1 /\ s.new /\ keys' = keys + 1 /\ issued' = issued
      /\ store' = Cycled(req[w])
  BY DEF Rekeys, Takes
<1>2. \A k \in Keys \ {keys + 1} : store'[k] \in {store[k], Gone}
  BY <1>1, CycledAt
<1>. QED
  BY <1>1, <1>2, AgreedNew

LEMMA AgreedMakes ==
    ASSUME Inv, Known, Agreed, NEW w \in Workers, NEW s, NEW c, Makes(w, s, c)
    PROVE  Agreed'
<1>1. /\ Goto(w, s)
      /\ s = Idle \/ (s.key = keys + 1 /\ s.new)
      /\ keys' = keys + 1 /\ issued' = issued
      /\ store' = [store EXCEPT ![keys + 1] = c]
  BY DEF Makes, Takes
<1>2. \A k \in Keys \ {keys + 1} : store'[k] \in {store[k], Gone}
  BY <1>1 DEF Inv, StoreOk
<1>. QED
  BY <1>1, <1>2, AgreedNew

LEMMA AgreedRests ==
    ASSUME Inv, Known, Agreed, UNCHANGED <<req, keys, issued>>,
           \A k \in Keys : store'[k] \in {store[k], Gone}
    PROVE  Agreed'
<1>1. ASSUME NEW v \in Workers
      PROVE  AsStored(req[v], store')
  BY DEF AsStored, Agreed
<1>. QED
  BY <1>1 DEF Agreed

LEMMA AgreedTurn ==
    ASSUME Inv, Known, Agreed, Turn
    PROVE  Agreed'
<1>1. CASE Passes
  BY <1>1, AgreedRests DEF Passes
<1>2. ASSUME NEW w \in Workers, NEW k, EndsOne(w, k)
      PROVE  Agreed'
  BY <1>2, DropLoses, AgreedRests DEF EndsOne
<1>. QED
  BY <1>1, <1>2, AgreedGoes, AgreedPuts, AgreedBegins, AgreedRekeys, AgreedMakes DEF Turn

LEMMA BaseInit == Init => Known /\ Agreed
<1>. SUFFICES ASSUME Init
              PROVE  Known /\ Agreed
  OBVIOUS
<1>1. \A w \in Workers : req[w] = Idle
  BY DEF Init
<1>2. Idle.key = 0 /\ Idle.new = FALSE
  BY DEF Idle
<1>3. versions = 1 /\ keys = 0 /\ \A k \in Keys : store[k] = Gone
  BY DEF Init
<1>4. \A u \in Users : users[u].password \in 0 .. versions
  BY DEF Init
<1>5. \A w \in Workers : RequestKnown(req[w], keys, versions)
  BY <1>1, <1>3, IdleKnown
<1>6. StoreKnown(store, keys, versions)
  BY <1>3 DEF StoreKnown
<1>7. Known
  BY <1>3, <1>4, <1>5, <1>6 DEF Known
<1>8. Alone(req) /\ \A w \in Workers : AsStored(req[w], store)
  BY <1>1, <1>2, <1>3 DEF Alone, AsStored
<1>9. DOMAIN issued = {}
  BY DEF Init
<1>. QED
  BY <1>7, <1>8, <1>9 DEF Agreed

Base == Inv /\ Known /\ Agreed

LEMMA BaseStep ==
    ASSUME Base, [Next]_vars
    PROVE  Base' /\ Turn
BY InvStep, TurnStep, AgreedTurn DEF Base

(* Requests agree with each other and with the store on which keys there    *)
(* are and whose they are (cycle_key, SessionStore.save).                  *)
THEOREM BaseInvariance == Spec => []Base
<1>1. Init => Base
  BY InvInit, BaseInit DEF Base
<1>2. Base /\ [Next]_vars => Base'
  BY BaseStep
<1>. QED
  BY <1>1, <1>2, PTL DEF Spec

(***************************************************************************)
(* Ended sessions                                                          *)
(***************************************************************************)

(* The origin o is that of the session under the key k. *)
Bears(o, k, stored, reqs) ==
    \/ k \in Keys /\ stored[k] # Gone /\ stored[k].origin = o
    \/ \E w \in Workers : /\ reqs[w].key = k /\ reqs[w].copy.origin = o
                          /\ \/ k \in Keys /\ stored[k] # Gone
                             \/ Moving(reqs[w]) \/ Leaving(reqs[w])

OneKey(stored, reqs) ==
    \A o, j, k : o # 0 /\ Bears(o, j, stored, reqs) /\ Bears(o, k, stored, reqs) => j = k

EndedOut(stored, reqs, out) ==
    \A o \in out \ {0} :
        /\ \A k \in Keys : Bears(o, k, stored, reqs) => stored[k] = Gone
        /\ \A w \in Workers : Moving(reqs[w]) => reqs[w].copy.origin # o

(* The operations of A and of B never overlap. *)
NeverBoth(A, B, reqs) ==
    \A v, w \in Workers : v # w /\ Active(reqs[v]) /\ Active(reqs[w]) =>
        ~(reqs[v].op \in A /\ reqs[w].op \in B)

(* The overlaps that EndedIsGone needs apart *)
EndsApart ==
    \A s \in Settings : s.apart /\ {{"change"}, {"change", "end"}, {"change", "logout"}} \subseteq Apart

Origins ==
    /\ NeverBoth({"change"}, {"change", "end", "logout"}, req)
    /\ OneKey(store, req)
    /\ EndedOut(store, req, ended)
    /\ ended \subseteq 0 .. keys

LEMMA NeverBothOn ==
    ASSUME Inv, NEW w \in Workers, NEW s, Takes(w, s), \A t \in Settings : t.apart,
           NEW A, NEW B, \A a \in A, b \in B : {a, b} \in Apart,
           "login" \in A => "reset" \in A, "login" \in B => "reset" \in B,
           NeverBoth(A, B, req)
    PROVE  NeverBoth(A, B, req')
<1>1. \A v \in Workers : req'[v] = IF v = w THEN s ELSE req[v]
  BY Reqs DEF Takes
<1>2. ASSUME NEW v \in Workers, v # w, Active(req[v]), Active(s)
      PROVE  ~(s.op \in A /\ req[v].op \in B) /\ ~(s.op \in B /\ req[v].op \in A)
  <2>1. CASE Active(req[w]) /\ (s.op = req[w].op \/ (req[w].op = "reset" /\ s.op = "login"))
    BY <1>2, <2>1 DEF NeverBoth
  <2>2. CASE ~Active(req[w]) /\ Free(w, s.op)
    <3>1. {s.op, req[v].op} \notin Apart
      BY <1>2, <2>2 DEF Free, Active, Inv
    <3>2. {s.op, req[v].op} = {req[v].op, s.op}
      OBVIOUS
    <3>. QED
      BY <3>1, <3>2
  <2>. QED
    BY <1>2, <2>1, <2>2 DEF Takes
<1>. QED
  BY <1>1, <1>2 DEF NeverBoth

LEMMA IdleTakes ==
    ASSUME NEW w, Goto(w, Idle)
    PROVE  Takes(w, Idle)
BY DEF Takes, Active, Idle

(* A step that gives no session another key *)
LEMMA Fades ==
    ASSUME Inv, NEW w \in Workers, NEW s, Goto(w, s),
           \A k \in Keys : store'[k] # Gone =>
              /\ store[k] # Gone
              /\ \/ store'[k].origin = store[k].origin
                 \/ k = req[w].key /\ store'[k].origin = req[w].copy.origin,
           \/ s.key = 0 /\ ~Moving(s) /\ ~Leaving(s)
           \/ /\ s.key = req[w].key /\ s.copy.origin = req[w].copy.origin
              /\ Moving(s) => Moving(req[w])
              /\ Leaving(s) => Leaving(req[w])
           \/ s.key \in Keys /\ store[s.key] # Gone /\ s.copy.origin = store[s.key].origin,
           OneKey(store, req), EndedOut(store, req, ended)
    PROVE  /\ \A o, k : Bears(o, k, store', req') => Bears(o, k, store, req)
           /\ OneKey(store', req') /\ EndedOut(store', req', ended)
<1>1. \A v \in Workers : req'[v] = IF v = w THEN s ELSE req[v]
  BY Reqs
<1>2. ASSUME NEW o, NEW k, Bears(o, k, store', req')
      PROVE  Bears(o, k, store, req)
  <2>1. CASE k \in Keys /\ store'[k] # Gone /\ store'[k].origin = o
    BY <2>1 DEF Bears
  <2>2. CASE \E v \in Workers : /\ req'[v].key = k /\ req'[v].copy.origin = o
                               /\ \/ k \in Keys /\ store'[k] # Gone
                                  \/ Moving(req'[v]) \/ Leaving(req'[v])
    <3>1. PICK v \in Workers : /\ req'[v].key = k /\ req'[v].copy.origin = o
                               /\ \/ k \in Keys /\ store'[k] # Gone
                                  \/ Moving(req'[v]) \/ Leaving(req'[v])
      BY <2>2
    <3>2. CASE v # w
      BY <1>1, <3>1, <3>2 DEF Bears
    <3>3. CASE v = w
      BY <1>1, <3>1, <3>3 DEF Bears, Keys
    <3>. QED
      BY <3>2, <3>3
  <2>. QED
    BY <1>2, <2>1, <2>2 DEF Bears
<1>3. OneKey(store', req')
  BY <1>2 DEF OneKey
<1>4. ASSUME NEW o \in ended \ {0}, NEW v \in Workers, Moving(req'[v])
      PROVE  req'[v].copy.origin # o
  <2>1. CASE v # w
    BY <1>1, <1>4, <2>1 DEF EndedOut
  <2>2. CASE v = w
    <3>1. \A k \in Keys : store[k] # Gone => store[k].origin # o
      BY DEF EndedOut, Bears
    <3>. QED
      BY <1>1, <1>4, <2>2, <3>1 DEF EndedOut
  <2>. QED
    BY <2>1, <2>2
<1>5. EndedOut(store', req', ended)
  BY <1>2, <1>4 DEF EndedOut
<1>. QED
  BY <1>2, <1>3, <1>5

(* A step that gives a session a key and an origin that are new *)
LEMMA Arises ==
    ASSUME Base, Origins, NEW w \in Workers, NEW s, Goto(w, s), keys' = keys + 1,
           \A k \in Keys \ {keys + 1} : store'[k] \in {store[k], Gone},
           keys + 1 \in Keys => store'[keys + 1].origin \in {0, keys + 1},
           s.key = 0 \/ (s.key = keys + 1 /\ s.copy.origin = keys + 1),
           ~Moving(s), ~Leaving(s)
    PROVE  OneKey(store', req') /\ EndedOut(store', req', ended) /\ ended \subseteq 0 .. keys'
<1>1. \A v \in Workers : req'[v] = IF v = w THEN s ELSE req[v]
  BY Reqs DEF Base
<1>2. /\ keys \in Nat /\ \A v \in Workers : req[v].key \in 0 .. keys
      /\ \A v \in Workers : req[v].copy.origin \in 0 .. keys
      /\ \A k \in Keys : store[k] # Gone => k <= keys /\ store[k].origin \in 0 .. keys
  BY KeysKnown DEF Base, Known, RequestKnown, SessionKnown, StoreKnown
<1>3. ASSUME NEW o, o # 0, NEW k, Bears(o, k, store', req')
      PROVE  (o = keys + 1 /\ k = keys + 1) \/ (k # keys + 1 /\ Bears(o, k, store, req))
  <2>1. CASE k \in Keys /\ store'[k] # Gone /\ store'[k].origin = o
    BY <1>3, <2>1 DEF Bears
  <2>2. CASE \E v \in Workers : /\ req'[v].key = k /\ req'[v].copy.origin = o
                               /\ \/ k \in Keys /\ store'[k] # Gone
                                  \/ Moving(req'[v]) \/ Leaving(req'[v])
    <3>1. PICK v \in Workers : /\ req'[v].key = k /\ req'[v].copy.origin = o
                               /\ \/ k \in Keys /\ store'[k] # Gone
                                  \/ Moving(req'[v]) \/ Leaving(req'[v])
      BY <2>2
    <3>2. CASE v # w
      BY <1>1, <1>2, <3>1, <3>2 DEF Bears
    <3>3. CASE v = w
      BY <1>1, <1>2, <3>1, <3>3 DEF Keys
    <3>. QED
      BY <3>2, <3>3
  <2>. QED
    BY <1>3, <2>1, <2>2 DEF Bears
<1>4. \A k : ~Bears(keys + 1, k, store, req)
  BY <1>2 DEF Bears
<1>5. OneKey(store', req')
  BY <1>3, <1>4 DEF OneKey, Origins
<1>6. \A o \in ended : o # keys + 1
  BY <1>2 DEF Origins
<1>7. EndedOut(store', req', ended)
  BY <1>1, <1>3, <1>6 DEF EndedOut, Origins
<1>8. ended \subseteq 0 .. keys'
  BY <1>2 DEF Origins
<1>. QED
  BY <1>5, <1>7, <1>8

LEMMA ChangesApart ==
    ASSUME Inv, EndsApart, NEW w \in Workers, NEW s, Takes(w, s),
           NeverBoth({"change"}, {"change", "end", "logout"}, req)
    PROVE  NeverBoth({"change"}, {"change", "end", "logout"}, req')
<1>1. setting \in Settings
  BY DEF Inv
<1>2. \A a \in {"change"}, b \in {"change", "end", "logout"} : {a, b} \in Apart
  BY <1>1 DEF EndsApart
<1>3. \A t \in Settings : t.apart
  BY DEF EndsApart
<1>. QED
  BY <1>2, <1>3, NeverBothOn

LEMMA OriginsKnown ==
    ASSUME Base
    PROVE  /\ Inv /\ keys \in Nat /\ \A v \in Workers : req[v].key \in 0 .. keys
           /\ \A v \in Workers : req[v].copy.origin \in 0 .. keys
           /\ \A v \in Workers : req[v].copy.user = Nobody => req[v].copy.origin = 0
           /\ \A v \in Workers : req[v].at = "changed" => req[v].op = "change"
           /\ \A k \in Keys : store[k] # Gone => k <= keys /\ store[k].origin \in 0 .. keys
BY KeysKnown DEF Base, Known, RequestKnown, SessionKnown, StoreKnown, AtItsPlace

LEMMA OriginsGoes ==
    ASSUME Base, Origins, EndsApart, NEW w \in Workers, NEW s, Goes(w, s)
    PROVE  Origins'
<1>. DEFINE o == req[w].copy.origin
<1>1. /\ Goto(w, s) /\ Takes(w, s) /\ keys' = keys
      /\ \A k \in Keys : store'[k] \in {store[k], Gone}
      /\ ended' = ended \/ Outs(w, s)
  BY DEF Goes, Takes
<1>2. \/ s.key = 0 /\ ~Moving(s) /\ ~Leaving(s)
      \/ /\ s.key = req[w].key /\ s.copy.origin = o
         /\ Moving(s) => Moving(req[w])
         /\ Leaving(s) => Leaving(req[w])
  BY DEF Goes, Restarts, Continues, Like, Idle, Moving, Leaving
<1>3. \A k \in Keys : store'[k] # Gone => store[k] # Gone /\ store'[k].origin = store[k].origin
  BY <1>1
<1>4. /\ \A x, k : Bears(x, k, store', req') => Bears(x, k, store, req)
      /\ OneKey(store', req') /\ EndedOut(store', req', ended)
  BY <1>1, <1>2, <1>3, OriginsKnown, Fades DEF Origins
<1>5. NeverBoth({"change"}, {"change", "end", "logout"}, req')
  BY <1>1, ChangesApart, OriginsKnown DEF Origins
<1>6. CASE ended' = ended
  BY <1>1, <1>4, <1>5, <1>6 DEF Origins
<1>7. CASE Outs(w, s)
  <2>1. Bears(o, req[w].key, store, req)
    BY <1>7 DEF Outs, Bears
  <2>2. ASSUME o # 0, NEW k \in Keys, Bears(o, k, store', req')
        PROVE  store'[k] = Gone
    <3>1. k = req[w].key
      BY <1>4, <2>1, <2>2 DEF OneKey, Origins
    <3>. QED
      BY <1>7, <3>1, OriginsKnown DEF Outs, Drop, Inv, StoreOk
  <2>3. ASSUME NEW v \in Workers, Moving(req'[v])
        PROVE  v # w /\ Moving(req[v])
    BY <1>1, <1>2, <1>7, <2>3, Reqs, OriginsKnown DEF Outs, Moving, Leaving
  <2>4. ASSUME NEW v \in Workers, Moving(req'[v])
        PROVE  FALSE
    BY <1>7, <2>3, <2>4 DEF Origins, NeverBoth, Moving, Leaving, Active, Outs
  <2>5. EndedOut(store', req', ended')
    BY <1>4, <1>7, <2>2, <2>4 DEF EndedOut, Outs
  <2>6. ended' \subseteq 0 .. keys'
    BY <1>1, <1>7, OriginsKnown DEF Outs, Origins
  <2>. QED
    BY <1>4, <1>5, <2>5, <2>6 DEF Origins
<1>. QED
  BY <1>1, <1>6, <1>7

LEMMA OriginsPuts ==
    ASSUME Base, Origins, EndsApart, NEW w \in Workers, NEW c, Puts(w, c)
    PROVE  Origins'
<1>1. /\ Goto(w, Idle) /\ keys' = keys /\ ended' = ended /\ Inv
      /\ c.origin = req[w].copy.origin
  BY OriginsKnown DEF Puts, Like
<1>2. \A k \in Keys : store'[k] # Gone =>
          /\ store[k] # Gone
          /\ \/ store'[k].origin = store[k].origin
             \/ k = req[w].key /\ store'[k].origin = req[w].copy.origin
  BY <1>1 DEF Puts, Stored, Inv, StoreOk
<1>3. Idle.key = 0 /\ ~Moving(Idle) /\ ~Leaving(Idle)
  BY DEF Idle, Moving, Leaving
<1>4. OneKey(store', req') /\ EndedOut(store', req', ended)
  BY <1>1, <1>2, <1>3, Fades DEF Origins
<1>5. NeverBoth({"change"}, {"change", "end", "logout"}, req')
  BY <1>1, ChangesApart, IdleTakes DEF Origins
<1>. QED
  BY <1>1, <1>4, <1>5 DEF Origins

LEMMA OriginsBegins ==
    ASSUME Base, Origins, EndsApart, NEW w \in Workers, NEW s, Begins(w, s)
    PROVE  Origins'
<1>1. /\ Goto(w, s) /\ Takes(w, s) /\ keys' = keys /\ ended' = ended /\ store' = store /\ Inv
      /\ s.key \in Keys /\ store[s.key] # Gone /\ s.copy.origin = store[s.key].origin
  BY OriginsKnown DEF Begins, Takes, Stored
<1>2. OneKey(store', req') /\ EndedOut(store', req', ended)
  BY <1>1, Fades DEF Origins
<1>3. NeverBoth({"change"}, {"change", "end", "logout"}, req')
  BY <1>1, ChangesApart DEF Origins
<1>. QED
  BY <1>1, <1>2, <1>3 DEF Origins

LEMMA OriginsMakes ==
    ASSUME Base, Origins, EndsApart, NEW w \in Workers, NEW s, NEW c, Makes(w, s, c)
    PROVE  Origins'
<1>1. /\ Goto(w, s) /\ Takes(w, s) /\ keys' = keys + 1 /\ ended' = ended /\ Inv
      /\ store' = [store EXCEPT ![keys + 1] = c]
      /\ \/ s = Idle /\ c.origin = 0
         \/ /\ s.key = keys + 1 /\ s.at = "save" /\ s.copy = c /\ c.origin = keys + 1
  BY OriginsKnown DEF Makes, Takes
<1>2. ~Moving(s) /\ ~Leaving(s)
  BY <1>1 DEF Idle, Moving, Leaving
<1>3. s.key = 0 \/ (s.key = keys + 1 /\ s.copy.origin = keys + 1)
  BY <1>1 DEF Idle
<1>4. /\ \A k \in Keys \ {keys + 1} : store'[k] \in {store[k], Gone}
      /\ keys + 1 \in Keys => store'[keys + 1].origin \in {0, keys + 1}
  BY <1>1 DEF Inv, StoreOk
<1>5. OneKey(store', req') /\ EndedOut(store', req', ended) /\ ended \subseteq 0 .. keys'
  BY <1>1, <1>2, <1>3, <1>4, Arises
<1>6. NeverBoth({"change"}, {"change", "end", "logout"}, req')
  BY <1>1, ChangesApart DEF Origins
<1>. QED
  BY <1>1, <1>5, <1>6 DEF Origins

LEMMA OriginsRekeys ==
    ASSUME Base, Origins, EndsApart, NEW w \in Workers, NEW s, Rekeys(w, s)
    PROVE  Origins'
<1>. DEFINE r == req[w]
            o == r.copy.origin
<1>1. /\ Goto(w, s) /\ Takes(w, s) /\ keys' = keys + 1 /\ ended' = ended /\ Inv
      /\ s.key = keys + 1 /\ store' = Cycled(r) /\ Active(r)
      /\ ~Moving(s) /\ ~Leaving(s)
  BY OriginsKnown DEF Rekeys, Takes, Moving, Leaving
<1>2. NeverBoth({"change"}, {"change", "end", "logout"}, req')
  BY <1>1, ChangesApart DEF Origins
<1>3. \A k \in Keys : store'[k] = IF k = keys + 1 THEN r.copy
                                  ELSE IF k = r.key THEN Gone ELSE store[k]
  BY <1>1, CycledAt
<1>4. CASE r.copy.user = Nobody /\ s.copy.origin = keys + 1
  <2>1. o = 0
    BY <1>4, OriginsKnown
  <2>2. /\ \A k \in Keys \ {keys + 1} : store'[k] \in {store[k], Gone}
        /\ keys + 1 \in Keys => store'[keys + 1].origin \in {0, keys + 1}
    BY <1>3, <2>1
  <2>3. OneKey(store', req') /\ EndedOut(store', req', ended) /\ ended \subseteq 0 .. keys'
    BY <1>1, <1>4, <2>2, Arises
  <2>. QED
    BY <1>1, <1>2, <2>3 DEF Origins
<1>5. CASE r.at = "changed" /\ s.copy.origin = o
  <2>1. r.op = "change" /\ Moving(r)
    BY <1>5, OriginsKnown DEF Moving
  <2>2. \A v \in Workers : req'[v] = IF v = w THEN s ELSE req[v]
    BY <1>1, Reqs
  <2>3. Bears(o, r.key, store, req)
    BY <2>1 DEF Bears
  <2>4. \A v \in Workers \ {w} : ~Moving(req[v]) /\ ~Leaving(req[v])
    BY <1>1, <2>1 DEF Origins, NeverBoth, Moving, Leaving, Active
  <2>5. ASSUME NEW x, x # 0, NEW k, Bears(x, k, store', req')
        PROVE  \/ x = o /\ k = keys + 1
               \/ x # o /\ k # keys + 1 /\ Bears(x, k, store, req)
    <3>1. CASE k \in Keys /\ store'[k] # Gone /\ store'[k].origin = x
      <4>1. CASE k = keys + 1
        BY <1>3, <3>1, <4>1
      <4>2. CASE k # keys + 1
        <5>1. k # r.key /\ Bears(x, k, store, req)
          BY <1>3, <3>1, <4>2 DEF Bears
        <5>. QED
          BY <2>3, <2>5, <4>2, <5>1 DEF OneKey, Origins
      <4>. QED
        BY <4>1, <4>2
    <3>2. CASE \E v \in Workers : /\ req'[v].key = k /\ req'[v].copy.origin = x
                                  /\ \/ k \in Keys /\ store'[k] # Gone
                                     \/ Moving(req'[v]) \/ Leaving(req'[v])
      <4>1. PICK v \in Workers : /\ req'[v].key = k /\ req'[v].copy.origin = x
                                 /\ \/ k \in Keys /\ store'[k] # Gone
                                    \/ Moving(req'[v]) \/ Leaving(req'[v])
        BY <3>2
      <4>2. CASE v = w
        BY <1>1, <1>5, <2>2, <4>1, <4>2
      <4>3. CASE v # w
        <5>1. req[v].key = k /\ req[v].copy.origin = x /\ k \in Keys /\ store'[k] # Gone
          BY <2>2, <2>4, <4>1, <4>3
        <5>2. k # keys + 1 /\ k # r.key /\ store[k] # Gone
          BY <1>3, <5>1, OriginsKnown DEF Keys
        <5>3. Bears(x, k, store, req)
          BY <5>1, <5>2 DEF Bears
        <5>. QED
          BY <2>3, <2>5, <5>2, <5>3 DEF OneKey, Origins
      <4>. QED
        BY <4>2, <4>3
    <3>. QED
      BY <2>5, <3>1, <3>2 DEF Bears
  <2>6. OneKey(store', req')
    BY <2>5 DEF OneKey, Origins
  <2>7. ASSUME NEW x \in ended \ {0}
        PROVE  /\ \A k \in Keys : Bears(x, k, store', req') => store'[k] = Gone
               /\ \A v \in Workers : Moving(req'[v]) => req'[v].copy.origin # x
    <3>1. x # o
      BY <2>1 DEF EndedOut, Origins
    <3>2. ASSUME NEW k \in Keys, Bears(x, k, store', req')
          PROVE  store'[k] = Gone
      <4>1. k # keys + 1 /\ Bears(x, k, store, req)
        BY <2>5, <3>1, <3>2
      <4>. QED
        BY <1>3, <4>1 DEF EndedOut, Origins
    <3>3. \A v \in Workers : Moving(req'[v]) => req'[v].copy.origin # x
      BY <1>1, <2>2 DEF EndedOut, Origins
    <3>. QED
      BY <3>2, <3>3
  <2>8. EndedOut(store', req', ended')
    BY <1>1, <2>7 DEF EndedOut
  <2>9. ended' \subseteq 0 .. keys'
    BY <1>1, OriginsKnown DEF Origins
  <2>. QED
    BY <1>2, <2>6, <2>8, <2>9 DEF Origins
<1>. QED
  BY <1>4, <1>5 DEF Rekeys

LEMMA OriginsEndsOne ==
    ASSUME Base, Origins, NEW w \in Workers, NEW k, EndsOne(w, k)
    PROVE  Origins'
<1>. DEFINE o == store[k].origin
<1>1. /\ req' = req /\ keys' = keys /\ ended' = ended \cup {o} /\ Inv
      /\ k \in Keys /\ store[k] # Gone /\ store' = [store EXCEPT ![k] = Gone]
      /\ req[w].op = "end" /\ Active(req[w])
  BY OriginsKnown DEF EndsOne, Stored, Drop
<1>2. \A j \in Keys : store'[j] = IF j = k THEN Gone ELSE store[j]
  BY <1>1 DEF Inv, StoreOk
<1>3. Goto(w, req[w])
  BY <1>1 DEF Goto, Inv
<1>4. /\ \A x, j : Bears(x, j, store', req') => Bears(x, j, store, req)
      /\ OneKey(store', req') /\ EndedOut(store', req', ended)
  BY <1>1, <1>2, <1>3, Fades DEF Origins
<1>5. ASSUME o # 0, NEW j \in Keys, Bears(o, j, store', req')
      PROVE  store'[j] = Gone
  <2>1. Bears(o, k, store, req)
    BY <1>1 DEF Bears
  <2>2. j = k
    BY <1>4, <1>5, <2>1 DEF OneKey, Origins
  <2>. QED
    BY <1>2, <2>2
<1>6. \A v \in Workers : ~Moving(req[v])
  BY <1>1 DEF Origins, NeverBoth, Moving, Active
<1>7. EndedOut(store', req', ended')
  BY <1>1, <1>4, <1>5, <1>6 DEF EndedOut
<1>8. ended' \subseteq 0 .. keys'
  BY <1>1, OriginsKnown DEF Origins
<1>9. NeverBoth({"change"}, {"change", "end", "logout"}, req')
  BY <1>1 DEF Origins
<1>. QED
  BY <1>4, <1>7, <1>8, <1>9 DEF Origins

LEMMA OriginsStep ==
    ASSUME Base, Origins, EndsApart, Turn
    PROVE  Origins'
<1>1. CASE Passes
  BY <1>1 DEF Passes, Origins
<1>. QED
  BY <1>1, OriginsGoes, OriginsPuts, OriginsBegins, OriginsRekeys, OriginsMakes, OriginsEndsOne
     DEF Turn

LEMMA OriginsInit == Init => Origins
<1>. SUFFICES ASSUME Init
              PROVE  Origins
  OBVIOUS
<1>1. \A w \in Workers : req[w] = Idle
  BY DEF Init
<1>2. ~Active(Idle) /\ ~Moving(Idle) /\ ~Leaving(Idle)
  BY DEF Idle, Active, Moving, Leaving
<1>3. ended = {} /\ keys = 0 /\ \A k \in Keys : store[k] = Gone
  BY DEF Init
<1>4. \A o, k : ~Bears(o, k, store, req)
  BY <1>1, <1>2, <1>3 DEF Bears
<1>5. OneKey(store, req) /\ EndedOut(store, req, ended)
  BY <1>3, <1>4 DEF OneKey, EndedOut
<1>6. NeverBoth({"change"}, {"change", "end", "logout"}, req)
  BY <1>1, <1>2 DEF NeverBoth
<1>. QED
  BY <1>3, <1>5, <1>6 DEF Origins

(* A session that its user ended is gone for good: no request that was     *)
(* answered, is under way or begins later brings it back. It needs that a  *)
(* password change does not overlap another, an end or a logout.           *)
THEOREM EndedIsGoneHolds ==
    ASSUME EndsApart
    PROVE  Spec => []EndedIsGone
<1>1. Init => Base /\ Origins
  BY InvInit, BaseInit, OriginsInit DEF Base
<1>2. Base /\ Origins /\ [Next]_vars => (Base /\ Origins)'
  <2>. SUFFICES ASSUME Base, Origins, [Next]_vars
                PROVE  Base' /\ Origins'
    OBVIOUS
  <2>. QED
    BY BaseStep, OriginsStep
<1>3. Base /\ Origins => EndedIsGone
  <2>. SUFFICES ASSUME Base, Origins, NEW k \in Keys, Authentic(store[k]),
                       store[k].origin \in ended
                PROVE  FALSE
    BY DEF EndedIsGone
  <2>1. store[k] # Gone /\ store[k].user \in Users
    BY DEF Authentic
  <2>2. store[k].origin # 0
    BY <2>1, NamesApart DEF Base, Known, StoreKnown
  <2>3. Bears(store[k].origin, k, store, req)
    BY <2>1 DEF Bears
  <2>. QED
    BY <2>1, <2>2, <2>3 DEF EndedOut, Origins
<1>. QED
  BY <1>1, <1>2, <1>3, PTL DEF Spec

(***************************************************************************)
(* Rows of sessions                                                        *)
(***************************************************************************)

(* The overlaps that Listable needs apart, beside those of WholeRowsApart *)
ListsApart ==
    \A s \in Settings : s.apart /\
        {{"login"}, {"login", "list"}, {"login", "reset"}, {"reset"}, {"list", "reset"}} \subseteq Apart

Valid(s, us) == s # Gone /\ s.user \in Users /\ s.hash = us[s.user].password

(* A changed password is newer than the hash of the session, until that is  *)
(* saved with the new one.                                                 *)
Outdated(r, stored, us) ==
    r.op = "change" =>
      /\ r.at = "changed" => /\ r.copy.hash < r.me.password
                             /\ r.me.password <= us[r.who].password
      /\ r.new /\ r.key \in Keys /\ stored[r.key] # Gone =>
             /\ stored[r.key].user = r.who
             /\ stored[r.key].hash < us[r.who].password

(* A session under a new key has a row when it is saved, and a login's from *)
(* when it is stored with a user.                                          *)
Rowed(r, stored, listed) ==
    r.new /\ r.key \in Keys /\ stored[r.key] # Gone =>
        /\ r.at = "save" => listed[r.key] = r.copy.user
        /\ r.op = "login" => \/ stored[r.key].user = Nobody
                             \/ /\ stored[r.key].user = r.copy.user
                                /\ listed[r.key] = r.copy.user

HasRow(k, stored, us, reqs, listed) ==
    Valid(stored[k], us) /\ Out(k, reqs) => listed[k] = stored[k].user

Rows ==
    /\ rows = [k \in Keys |-> rows[k]]
    /\ NeverBoth({"login", "reset"}, {"login", "list", "reset"}, req)
    /\ \A w \in Workers : Outdated(req[w], store, users) /\ Rowed(req[w], store, rows)
    /\ \A k \in Keys : HasRow(k, store, users, req, rows)

LEMMA ListsNeverBoth ==
    ASSUME Inv, ListsApart, NEW w \in Workers, NEW s, Takes(w, s),
           NeverBoth({"login", "reset"}, {"login", "list", "reset"}, req)
    PROVE  NeverBoth({"login", "reset"}, {"login", "list", "reset"}, req')
<1>1. setting \in Settings
  BY DEF Inv
<1>2. {{"login"}, {"login", "list"}, {"login", "reset"}, {"reset"}, {"list", "reset"}} \subseteq Apart
  BY <1>1 DEF ListsApart
<1>3. /\ {"login", "login"} = {"login"} /\ {"reset", "reset"} = {"reset"}
      /\ {"reset", "login"} = {"login", "reset"} /\ {"reset", "list"} = {"list", "reset"}
  OBVIOUS
<1>4. \A a \in {"login", "reset"}, b \in {"login", "list", "reset"} : {a, b} \in Apart
  BY <1>2, <1>3
<1>5. \A t \in Settings : t.apart
  BY DEF ListsApart
<1>. QED
  BY <1>4, <1>5, NeverBothOn

LEMMA RowsKnown ==
    ASSUME Base
    PROVE  /\ Inv /\ Known /\ Agreed /\ keys \in Nat /\ versions \in Nat
           /\ \A v \in Workers : req[v].key \in 0 .. keys
           /\ \A v \in Workers : SessionKnown(req[v].copy, keys, versions)
           /\ \A v \in Workers : AtItsPlace(req[v]) /\ WhoKnown(req[v])
           /\ \A u \in Users : users[u].password \in 0 .. versions
           /\ \A k \in Keys : store[k] # Gone => k <= keys /\ SessionKnown(store[k], keys, versions)
           /\ 0 \notin Keys
BY KeysKnown DEF Base, Known, RequestKnown, StoreKnown, Inv, UsersOk, Keys

(* A password stays or is newer than all. *)
LEMMA Newer ==
    ASSUME Base, WholeRowsApart, NEW w \in Workers, NEW s, UsersTurn(w, s), NEW u \in Users
    PROVE  \/ users'[u].password = users[u].password
           \/ users'[u].password = versions + 1 /\ u = req[w].who
<1>1. req[w].who \in Users => NewRow(req[w]).password = versions + 1
  BY DEF Base, Inv, RequestOk, RowOk, NewRow
<1>2. users = [x \in Users |-> users[x]]
  BY DEF Base, Inv, UsersOk
<1>. QED
  BY <1>1, <1>2 DEF UsersTurn, SamePasswords

LEMMA StillValid ==
    ASSUME Base, WholeRowsApart, NEW w \in Workers, NEW s, UsersTurn(w, s),
           NEW k \in Keys, Valid(store[k], users')
    PROVE  Valid(store[k], users)
<1>1. store[k].hash \in 0 .. versions /\ versions \in Nat
  BY RowsKnown DEF Valid, SessionKnown
<1>2. store[k].user \in Users
  BY DEF Valid
<1>3. users'[store[k].user].password # versions + 1
  BY <1>1 DEF Valid
<1>4. users'[store[k].user].password = users[store[k].user].password
  BY <1>2, <1>3, Newer
<1>. QED
  BY <1>4 DEF Valid

LEMMA OutdatedGoes ==
    ASSUME Base, Rows, WholeRowsApart, NEW w \in Workers, NEW s, Goes(w, s), NEW v \in Workers
    PROVE  Outdated(req'[v], store', users')
<1>1. /\ Goto(w, s) /\ Takes(w, s) /\ UsersTurn(w, s)
      /\ \A k \in Keys : store'[k] # Gone => store'[k] = store[k]
  BY DEF Goes, Takes
<1>2. \A x \in Workers : req'[x] = IF x = w THEN s ELSE req[x]
  BY <1>1, Reqs, RowsKnown
<1>3. \A u \in Users : /\ users'[u].password \in Nat
                       /\ users[u].password <= users'[u].password
  BY <1>1, Newer, RowsKnown
<1>4. \A u \in Users : users[u].password \in Nat
  BY RowsKnown
<1>5. SUFFICES ASSUME req'[v].op = "change"
               PROVE  /\ req'[v].at = "changed" =>
                           /\ req'[v].copy.hash < req'[v].me.password
                           /\ req'[v].me.password <= users'[req'[v].who].password
                      /\ req'[v].new /\ req'[v].key \in Keys /\ store'[req'[v].key] # Gone =>
                           /\ store'[req'[v].key].user = req'[v].who
                           /\ store'[req'[v].key].hash < users'[req'[v].who].password
  BY DEF Outdated
<1>6. ASSUME NEW r, r = req[v], r.op = "change"
      PROVE  /\ r.who \in Users
             /\ r.at = "changed" => /\ r.copy.hash < r.me.password
                                    /\ r.me.password <= users'[r.who].password
             /\ r.new /\ r.key \in Keys /\ store'[r.key] # Gone =>
                           /\ store'[r.key].user = r.who
                           /\ store'[r.key].hash < users'[r.who].password
  <2>1. r.who \in Users
    BY <1>6, RowsKnown DEF WhoKnown
  <2>2. Outdated(r, store, users)
    BY <1>6 DEF Rows
  <2>3. r.me.password \in Nat
    BY <1>6, <2>1 DEF Base, Inv, RequestOk, RowOk
  <2>4. r.key \in Keys /\ store[r.key] # Gone => store[r.key].hash \in Nat
    BY RowsKnown DEF SessionKnown
  <2>. QED
    BY <1>1, <1>3, <1>4, <1>6, <2>1, <2>2, <2>3, <2>4 DEF Outdated
<1>7. CASE v # w
  BY <1>2, <1>5, <1>6, <1>7
<1>8. CASE v = w
  <2>1. req'[v] = s /\ s # Idle
    BY <1>2, <1>5, <1>8 DEF Idle
  <2>2. CASE Restarts(s)
    BY <1>5, <2>1, <2>2, RowsKnown DEF Restarts, Moving
  <2>3. CASE Active(req[w]) /\ Continues(s, req[w])
    <3>1. req[v].op = "change"
      BY <1>1, <1>5, <1>8, <2>1, <2>3 DEF Takes, Continues, Active
    <3>2. s.key = req[w].key /\ s.new = req[w].new /\ s.who = req[w].who /\ s.copy.hash = req[w].copy.hash
      BY <2>3 DEF Continues, Like
    <3>3. ASSUME s.at = "changed"
          PROVE  s.copy.hash < s.me.password /\ s.me.password <= users'[s.who].password
      <4>1. /\ users' = [users EXCEPT ![req[w].who] = NewRow(req[w])]
            /\ s.me.password = versions + 1
        BY <1>1, <3>3 DEF UsersTurn
      <4>2. s.who \in Users
        BY <1>6, <1>8, <3>1, <3>2
      <4>3. NewRow(req[w]).password = versions + 1
        BY <3>2, <4>2 DEF Base, Inv, RequestOk, RowOk, NewRow
      <4>4. users'[s.who].password = versions + 1
        BY <3>2, <4>1, <4>2, <4>3 DEF Base, Inv, UsersOk
      <4>5. s.copy.hash \in 0 .. versions /\ versions \in Nat
        BY <3>2, RowsKnown DEF SessionKnown
      <4>. QED
        BY <4>1, <4>4, <4>5
    <3>. QED
      BY <1>6, <1>8, <2>1, <3>1, <3>2, <3>3
  <2>. QED
    BY <2>1, <2>2, <2>3 DEF Goes
<1>. QED
  BY <1>7, <1>8

(* What a step leaves of a row of a session that stays *)
LEMMA RowStays ==
    ASSUME Base, Rows, NEW w \in Workers, NEW s, Goes(w, s),
           NEW k \in Keys, store'[k] # Gone
    PROVE  \/ rows'[k] = rows[k]
           \/ /\ k = s.key /\ rows'[k] = s.copy.user
              /\ s.key = req[w].key /\ Continues(s, req[w])
           \/ /\ rows'[k] = Nobody /\ ~Valid(store[k], users) /\ store[k] # Gone
              /\ req[w].at = "purging" /\ store[k].user = Nobody
<1>1. rows = [j \in Keys |-> rows[j]]
  BY DEF Rows
<1>2. store'[k] = store[k]
  BY DEF Goes
<1>3. CASE rows' = rows
  BY <1>3
<1>4. CASE /\ rows' = [rows EXCEPT ![s.key] = s.copy.user]
           /\ s.key = req[w].key /\ Continues(s, req[w])
  BY <1>1, <1>4
<1>5. CASE \E j : /\ rows' = [rows EXCEPT ![j] = Nobody]
                  /\ \/ ~(j \in Keys /\ store[j] # Gone)
                     \/ /\ ~Authentic(store[j]) /\ req[w].at = "purging"
                        /\ store[j].user # Nobody => store'[j] = Gone
  <2>1. PICK j : /\ rows' = [rows EXCEPT ![j] = Nobody]
                 /\ \/ ~(j \in Keys /\ store[j] # Gone)
                    \/ /\ ~Authentic(store[j]) /\ req[w].at = "purging"
                       /\ store[j].user # Nobody => store'[j] = Gone
    BY <1>5
  <2>2. CASE j # k
    BY <1>1, <2>1, <2>2
  <2>3. CASE j = k
    BY <1>1, <1>2, <2>1, <2>3 DEF Valid, Authentic
  <2>. QED
    BY <2>2, <2>3
<1>. QED
  BY <1>3, <1>4, <1>5 DEF Goes, RowsTurn

LEMMA RowedGoes ==
    ASSUME Base, Rows, NEW w \in Workers, NEW s, Goes(w, s), NEW v \in Workers
    PROVE  Rowed(req'[v], store', rows')
<1>1. /\ Goto(w, s) /\ Takes(w, s) /\ RowsTurn(w, s)
      /\ \A k \in Keys : store'[k] # Gone => store'[k] = store[k]
  BY DEF Goes, Takes
<1>2. \A x \in Workers : req'[x] = IF x = w THEN s ELSE req[x]
  BY <1>1, Reqs, RowsKnown
<1>3. CASE v # w
  <2>. DEFINE r == req[v]
  <2>. SUFFICES ASSUME r.new, r.key \in Keys, store'[r.key] # Gone
                PROVE  /\ r.at = "save" => rows'[r.key] = r.copy.user
                       /\ r.op = "login" => \/ store'[r.key].user = Nobody
                                            \/ /\ store'[r.key].user = r.copy.user
                                               /\ rows'[r.key] = r.copy.user
    BY <1>2, <1>3 DEF Rowed
  <2>1. req[w].key # r.key
    BY <1>3, RowsKnown DEF Agreed, Alone
  <2>2. Rowed(r, store, rows) /\ Outdated(r, store, users) /\ store'[r.key] = store[r.key] /\ store[r.key] # Gone
    BY <1>1 DEF Rows
  <2>3. CASE rows'[r.key] = rows[r.key]
    BY <2>2, <2>3 DEF Rowed
  <2>4. CASE req[w].at = "purging" /\ store[r.key].user = Nobody
    <3>1. req[w].op \in {"login", "list"} /\ Active(req[w])
      BY <2>4, RowsKnown DEF AtItsPlace, Active
    <3>2. r.op \in {"login", "change"} /\ Active(r)
      BY RowsKnown DEF AtItsPlace, Active
    <3>3. r.op = "change"
      BY <1>3, <3>1, <3>2 DEF Rows, NeverBoth
    <3>4. r.who \in Users /\ store[r.key].user = r.who
      BY <2>2, <3>3, RowsKnown DEF Outdated, WhoKnown
    <3>. QED
      BY <2>4, <3>4, NamesApart
  <2>. QED
    BY <2>1, <2>3, <2>4, RowStays
<1>4. CASE v = w
  <2>. SUFFICES ASSUME s.new, s.key \in Keys, store'[s.key] # Gone
                PROVE  /\ s.at = "save" => rows'[s.key] = s.copy.user
                       /\ s.op = "login" => \/ store'[s.key].user = Nobody
                                            \/ /\ store'[s.key].user = s.copy.user
                                               /\ rows'[s.key] = s.copy.user
    BY <1>2, <1>4 DEF Rowed
  <2>1. Active(req[w]) /\ Continues(s, req[w])
    BY RowsKnown DEF Goes, Idle, Restarts
  <2>2. s.key = req[w].key /\ req[w].new /\ s.copy.user = req[w].copy.user
    BY <2>1 DEF Continues, Like
  <2>3. store'[s.key] = store[s.key] /\ store[s.key] # Gone
    BY <1>1
  <2>4. s.at = "save" => rows'[s.key] = s.copy.user
    BY <1>1, <2>3, RowStays DEF RowsTurn, Rows
  <2>5. s.op = "login" => req[w].op = "login"
    <3>1. req[w].op # "reset"
      BY <2>2, RowsKnown DEF AtItsPlace
    <3>2. Active(s)
      BY <2>1 DEF Active, Continues
    <3>. QED
      BY <1>1, <2>1, <3>1, <3>2 DEF Takes
  <2>6. s.op = "login" => \/ store[s.key].user = Nobody
                          \/ /\ store[s.key].user = s.copy.user
                             /\ rows[s.key] = s.copy.user
    BY <2>2, <2>3, <2>5 DEF Rows, Rowed
  <2>. QED
    BY <2>3, <2>4, <2>6, RowStays
<1>. QED
  BY <1>3, <1>4

LEMMA HasRowGoes ==
    ASSUME Base, Rows, WholeRowsApart, NEW w \in Workers, NEW s, Goes(w, s), NEW k \in Keys
    PROVE  HasRow(k, store', users', req', rows')
<1>1. /\ Goto(w, s) /\ Takes(w, s) /\ UsersTurn(w, s)
      /\ \A j \in Keys : store'[j] # Gone => store'[j] = store[j]
  BY DEF Goes, Takes
<1>2. \A x \in Workers : req'[x] = IF x = w THEN s ELSE req[x]
  BY <1>1, Reqs, RowsKnown
<1>. SUFFICES ASSUME Valid(store'[k], users'), Out(k, req')
              PROVE  rows'[k] = store'[k].user
  BY DEF HasRow
<1>3. store'[k] = store[k] /\ store'[k] # Gone
  BY <1>1 DEF Valid
<1>4. Valid(store[k], users)
  BY <1>1, <1>3, StillValid
<1>5. \/ rows'[k] = rows[k]
      \/ /\ k = s.key /\ rows'[k] = s.copy.user
         /\ s.key = req[w].key /\ Continues(s, req[w])
  BY <1>3, <1>4, RowStays
<1>6. CASE Out(k, req)
  <2>1. rows[k] = store[k].user
    BY <1>4, <1>6 DEF Rows, HasRow
  <2>2. ASSUME k = s.key, s.key = req[w].key, Continues(s, req[w])
        PROVE  s.copy.user = store[k].user
    <3>1. ~req[w].new /\ s.copy.user = req[w].copy.user
      BY <1>6, <2>2 DEF Out, Continues, Like
    <3>2. AsStored(req[w], store)
      BY RowsKnown DEF Agreed
    <3>. QED
      BY <1>3, <2>2, <3>1, <3>2 DEF AsStored, Like
  <2>. QED
    BY <1>3, <1>5, <2>1, <2>2
<1>7. CASE ~Out(k, req)
  <2>1. req[w].new /\ req[w].key = k /\ ~(s.new /\ s.key = k)
    BY <1>2, <1>7 DEF Out
  <2>2. rows'[k] = rows[k]
    BY <1>5, <2>1 DEF Continues
  <2>3. CASE req[w].op = "login"
    <3>1. rows[k] = store[k].user
      BY <1>3, <1>4, <2>1, <2>3, NamesApart DEF Rows, Rowed, Valid
    <3>. QED
      BY <1>3, <2>2, <3>1
  <2>4. CASE req[w].op = "change"
    <3>1. /\ store[k].user = req[w].who
          /\ store[k].hash < users[req[w].who].password
      BY <1>3, <2>1, <2>4 DEF Rows, Outdated
    <3>2. store[k].hash \in 0 .. versions /\ versions \in Nat
      BY <1>3, RowsKnown DEF SessionKnown
    <3>. QED
      BY <1>4, <3>1, <3>2 DEF Valid
  <2>. QED
    BY <2>1, <2>3, <2>4, RowsKnown DEF AtItsPlace
<1>. QED
  BY <1>6, <1>7

LEMMA RowsGoes ==
    ASSUME Base, Rows, WholeRowsApart, ListsApart, NEW w \in Workers, NEW s, Goes(w, s)
    PROVE  Rows'
<1>1. NeverBoth({"login", "reset"}, {"login", "list", "reset"}, req')
  BY ListsNeverBoth, RowsKnown DEF Goes, Rows
<1>2. rows' = [k \in Keys |-> rows'[k]]
  BY DEF Goes, RowsTurn, Rows
<1>. QED
  BY <1>1, <1>2, OutdatedGoes, RowedGoes, HasRowGoes DEF Rows

(* A step after which the other requests find the rows, the passwords and   *)
(* their own sessions as before                                            *)
LEMMA OthersRowed ==
    ASSUME Base, Rows, NEW w \in Workers, NEW v \in Workers, v # w, SamePasswords,
           NEW k, \A j \in Keys : j # k => store'[j] \in {store[j], Gone} /\ rows'[j] = rows[j],
           k = keys + 1 \/ k = req[w].key
    PROVE  Outdated(req[v], store', users') /\ Rowed(req[v], store', rows')
<1>1. req[v].new /\ req[v].key \in Keys => req[v].key # k
  BY RowsKnown DEF Agreed, Alone
<1>2. req[v].op = "change" => req[v].who \in Users
  BY RowsKnown DEF WhoKnown
<1>3. Outdated(req[v], store, users) /\ Rowed(req[v], store, rows)
  BY DEF Rows
<1>4. Outdated(req[v], store', users')
  BY <1>1, <1>2, <1>3 DEF Outdated, SamePasswords
<1>5. Rowed(req[v], store', rows')
  BY <1>1, <1>3 DEF Rowed
<1>. QED
  BY <1>4, <1>5

LEMMA IdleRowed ==
    ASSUME NEW stored, NEW us, NEW listed
    PROVE  Outdated(Idle, stored, us) /\ Rowed(Idle, stored, listed)
BY DEF Outdated, Rowed, Idle

LEMMA RowsPuts ==
    ASSUME Base, Rows, ListsApart, NEW w \in Workers, NEW c, Puts(w, c)
    PROVE  Rows'
<1>. DEFINE r == req[w]
<1>1. /\ Goto(w, Idle) /\ rows' = rows /\ users' = users /\ Inv
      /\ store' = IF Stored(r.key) THEN [store EXCEPT ![r.key] = c] ELSE store
      /\ r.at \in {"save", "refreshing"} /\ Like(c, r.copy)
  BY RowsKnown DEF Puts
<1>2. \A x \in Workers : req'[x] = IF x = w THEN Idle ELSE req[x]
  BY <1>1, Reqs
<1>3. \A j \in Keys : store'[j] = IF Stored(r.key) /\ j = r.key THEN c ELSE store[j]
  BY <1>1 DEF Inv, StoreOk
<1>4. NeverBoth({"login", "reset"}, {"login", "list", "reset"}, req')
  BY <1>1, IdleTakes, ListsNeverBoth DEF Rows
<1>5. ASSUME NEW v \in Workers
      PROVE  Outdated(req'[v], store', users') /\ Rowed(req'[v], store', rows')
  <2>1. SamePasswords
    BY <1>1, Same
  <2>2. CASE v = w
    BY <1>2, <2>2, IdleRowed
  <2>3. CASE v # w
    <3>1. \A j \in Keys : j # r.key => store'[j] \in {store[j], Gone} /\ rows'[j] = rows[j]
      BY <1>1, <1>3
    <3>2. Outdated(req[v], store', users') /\ Rowed(req[v], store', rows')
      BY <2>1, <2>3, <3>1, OthersRowed
    <3>. QED
      BY <1>2, <2>3, <3>2
  <2>. QED
    BY <2>2, <2>3
<1>6. ASSUME NEW k \in Keys, Valid(store'[k], users'), Out(k, req')
      PROVE  rows'[k] = store'[k].user
  <2>1. Out(k, req) \/ (r.new /\ r.key = k)
    BY <1>2, <1>6 DEF Out
  <2>2. CASE Stored(r.key) /\ k = r.key
    <3>1. store'[k] = c /\ c.user = r.copy.user /\ c.hash = r.copy.hash /\ store[k] # Gone
      BY <1>1, <1>3, <2>2 DEF Like, Stored
    <3>2. CASE r.new
      <4>1. r.at = "save"
        BY <1>1, <3>2, RowsKnown DEF AtItsPlace
      <4>2. Rowed(r, store, rows)
        BY DEF Rows
      <4>. QED
        BY <1>1, <2>2, <3>1, <3>2, <4>1, <4>2 DEF Rowed
    <3>3. CASE ~r.new
      <4>1. store[k].user = r.copy.user /\ store[k].hash = r.copy.hash
        BY <2>2, <3>1, <3>3, RowsKnown DEF Agreed, AsStored, Like
      <4>2. Valid(store[k], users)
        BY <1>1, <1>6, <3>1, <4>1 DEF Valid
      <4>3. HasRow(k, store, users, req, rows)
        BY DEF Rows
      <4>. QED
        BY <1>1, <2>1, <3>1, <3>3, <4>1, <4>2, <4>3 DEF HasRow
    <3>. QED
      BY <3>2, <3>3
  <2>3. CASE ~(Stored(r.key) /\ k = r.key)
    <3>1. store'[k] = store[k]
      BY <1>3, <2>3
    <3>2. store[k] # Gone /\ Out(k, req)
      BY <1>6, <2>1, <2>3, <3>1 DEF Valid, Stored
    <3>. QED
      BY <1>1, <1>6, <3>1, <3>2 DEF Rows, HasRow
  <2>. QED
    BY <2>2, <2>3
<1>. QED
  BY <1>1, <1>4, <1>5, <1>6 DEF Rows, HasRow

LEMMA RowsBegins ==
    ASSUME Base, Rows, ListsApart, NEW w \in Workers, NEW s, Begins(w, s)
    PROVE  Rows'
<1>1. /\ Goto(w, s) /\ Takes(w, s) /\ UNCHANGED <<store, rows, users>> /\ Inv
      /\ ~s.new /\ s.at # "changed" /\ ~Active(req[w])
  BY RowsKnown DEF Begins, Takes
<1>2. \A x \in Workers : req'[x] = IF x = w THEN s ELSE req[x]
  BY <1>1, Reqs
<1>3. NeverBoth({"login", "reset"}, {"login", "list", "reset"}, req')
  BY <1>1, ListsNeverBoth DEF Rows
<1>4. Outdated(s, store, users) /\ Rowed(s, store, rows)
  BY <1>1 DEF Outdated, Rowed
<1>5. ~req[w].new
  BY <1>1, RowsKnown DEF AtItsPlace, Active
<1>6. \A k : Out(k, req') => Out(k, req)
  BY <1>2, <1>5 DEF Out
<1>. QED
  BY <1>1, <1>2, <1>3, <1>4, <1>6 DEF Rows, HasRow

LEMMA RowsRekeys ==
    ASSUME Base, Rows, ListsApart, NEW w \in Workers, NEW s, Rekeys(w, s)
    PROVE  Rows'
<1>. DEFINE r == req[w]
<1>1. /\ Goto(w, s) /\ Takes(w, s) /\ rows' = rows /\ SamePasswords /\ Inv
      /\ s.key = keys + 1 /\ s.new /\ ~r.new /\ s.at \in {"list", "record"}
      /\ store' = Cycled(r)
  BY RowsKnown DEF Rekeys, Takes
<1>2. \A x \in Workers : req'[x] = IF x = w THEN s ELSE req[x]
  BY <1>1, Reqs
<1>3. \A j \in Keys : store'[j] = IF j = keys + 1 THEN r.copy
                                  ELSE IF j = r.key THEN Gone ELSE store[j]
  BY <1>1, CycledAt
<1>4. NeverBoth({"login", "reset"}, {"login", "list", "reset"}, req')
  BY <1>1, ListsNeverBoth DEF Rows
<1>5. Outdated(s, store', users') /\ Rowed(s, store', rows')
  <2>1. CASE r.copy.user = Nobody /\ s.op = "login"
    BY <1>1, <1>3, <2>1 DEF Outdated, Rowed
  <2>2. CASE r.at = "changed" /\ s.op = "change" /\ s.who = r.who
    <3>1. r.op = "change" /\ r.who \in Users /\ r.copy.user = r.who
      BY <2>2, RowsKnown DEF AtItsPlace, WhoKnown
    <3>2. r.copy.hash < r.me.password /\ r.me.password <= users[r.who].password
      BY <2>2, <3>1 DEF Rows, Outdated
    <3>3. r.copy.hash \in 0 .. versions /\ users[r.who].password \in 0 .. versions /\ versions \in Nat
      BY <3>1, RowsKnown DEF SessionKnown
    <3>4. r.me.password \in Nat
      BY <3>1 DEF Base, Inv, RequestOk, RowOk
    <3>5. users'[r.who].password = users[r.who].password
      BY <1>1, <3>1 DEF SamePasswords
    <3>6. r.copy.hash < users'[s.who].password
      BY <2>2, <3>2, <3>3, <3>4, <3>5
    <3>. QED
      BY <1>1, <1>3, <2>2, <3>1, <3>6 DEF Outdated, Rowed
  <2>. QED
    BY <2>1, <2>2 DEF Rekeys
<1>6. ASSUME NEW v \in Workers
      PROVE  Outdated(req'[v], store', users') /\ Rowed(req'[v], store', rows')
  BY <1>1, <1>2, <1>3, <1>5, OthersRowed
<1>7. ASSUME NEW k \in Keys, Valid(store'[k], users'), Out(k, req')
      PROVE  rows'[k] = store'[k].user
  <2>1. k # keys + 1 /\ Out(k, req)
    BY <1>1, <1>2, <1>7 DEF Out
  <2>2. store'[k] = store[k]
    BY <1>3, <1>7, <2>1 DEF Valid
  <2>3. Valid(store[k], users)
    BY <1>1, <1>7, <2>2 DEF Valid, SamePasswords
  <2>. QED
    BY <1>1, <2>1, <2>2, <2>3 DEF Rows, HasRow
<1>. QED
  BY <1>1, <1>4, <1>6, <1>7 DEF Rows, HasRow

LEMMA RowsMakes ==
    ASSUME Base, Rows, ListsApart, NEW w \in Workers, NEW s, NEW c, Makes(w, s, c)
    PROVE  Rows'
<1>1. /\ Goto(w, s) /\ Takes(w, s) /\ users' = users /\ Inv
      /\ store' = [store EXCEPT ![keys + 1] = c] /\ req[w].key = 0
      /\ \/ s = Idle /\ rows' = rows /\ c.user = Nobody
         \/ /\ s.op = "login" /\ s.key = keys + 1 /\ s.new /\ s.at = "save" /\ s.copy = c
            /\ rows' = [rows EXCEPT ![keys + 1] = c.user]
  BY RowsKnown DEF Makes, Takes
<1>2. \A x \in Workers : req'[x] = IF x = w THEN s ELSE req[x]
  BY <1>1, Reqs
<1>3. /\ \A j \in Keys : store'[j] = IF j = keys + 1 THEN c ELSE store[j]
      /\ \A j \in Keys : j # keys + 1 => rows'[j] = rows[j]
      /\ rows' = [k \in Keys |-> rows'[k]]
  BY <1>1 DEF Inv, StoreOk, Rows
<1>4. NeverBoth({"login", "reset"}, {"login", "list", "reset"}, req')
  BY <1>1, ListsNeverBoth DEF Rows
<1>5. s # Idle => Outdated(s, store', users') /\ Rowed(s, store', rows')
  BY <1>1, <1>3 DEF Outdated, Rowed, Rows
<1>6. ASSUME NEW v \in Workers
      PROVE  Outdated(req'[v], store', users') /\ Rowed(req'[v], store', rows')
  <2>1. SamePasswords
    BY <1>1, Same
  <2>2. CASE v = w
    BY <1>2, <1>5, <2>2, IdleRowed
  <2>3. CASE v # w
    <3>1. \A j \in Keys : j # keys + 1 => store'[j] \in {store[j], Gone} /\ rows'[j] = rows[j]
      BY <1>3
    <3>2. Outdated(req[v], store', users') /\ Rowed(req[v], store', rows')
      BY <2>1, <2>3, <3>1, OthersRowed
    <3>. QED
      BY <1>2, <2>3, <3>2
  <2>. QED
    BY <2>2, <2>3
<1>7. ASSUME NEW k \in Keys, Valid(store'[k], users'), Out(k, req')
      PROVE  rows'[k] = store'[k].user
  <2>1. k # keys + 1
    BY <1>1, <1>2, <1>3, <1>7, NamesApart DEF Out, Valid
  <2>2. store'[k] = store[k] /\ rows'[k] = rows[k]
    BY <1>3, <2>1
  <2>3. Out(k, req)
    BY <1>1, <1>2, <1>7, RowsKnown DEF Out
  <2>. QED
    BY <1>1, <1>7, <2>2, <2>3 DEF Rows, HasRow
<1>. QED
  BY <1>3, <1>4, <1>6, <1>7 DEF Rows, HasRow

LEMMA RowsRests ==
    ASSUME Base, Rows, UNCHANGED <<req, rows, users>>,
           \A k \in Keys : store'[k] \in {store[k], Gone}
    PROVE  Rows'
<1>1. ASSUME NEW v \in Workers
      PROVE  Outdated(req[v], store', users) /\ Rowed(req[v], store', rows)
  BY DEF Rows, Outdated, Rowed
<1>2. ASSUME NEW k \in Keys
      PROVE  HasRow(k, store', users, req, rows)
  BY DEF Rows, HasRow, Valid
<1>. QED
  BY <1>1, <1>2 DEF Rows

LEMMA RowsStep ==
    ASSUME Base, Rows, WholeRowsApart, ListsApart, Turn
    PROVE  Rows'
<1>1. CASE Passes
  BY <1>1, RowsRests DEF Passes
<1>2. ASSUME NEW w \in Workers, NEW k, EndsOne(w, k)
      PROVE  Rows'
  BY <1>2, DropLoses, RowsRests, RowsKnown DEF EndsOne
<1>. QED
  BY <1>1, <1>2, RowsGoes, RowsPuts, RowsBegins, RowsRekeys, RowsMakes DEF Turn

LEMMA RowsInit == Init => Rows
<1>. SUFFICES ASSUME Init
              PROVE  Rows
  OBVIOUS
<1>1. \A w \in Workers : req[w] = Idle
  BY DEF Init
<1>2. ~Active(Idle)
  BY DEF Idle, Active
<1>3. \A k \in Keys : store[k] = Gone
  BY DEF Init
<1>4. NeverBoth({"login", "reset"}, {"login", "list", "reset"}, req)
  BY <1>1, <1>2 DEF NeverBoth
<1>5. rows = [k \in Keys |-> rows[k]]
  BY DEF Init
<1>. QED
  BY <1>1, <1>3, <1>4, <1>5, IdleRowed DEF Rows, HasRow, Valid

(* Every session that is logged in has a row of its user from when its key  *)
(* is handed out. It needs that logins overlap with no login, list or reset *)
(* and that no request saves a row of a user with a replaced password.     *)
THEOREM ListableHolds ==
    ASSUME WholeRowsApart, ListsApart
    PROVE  Spec => []Listable
<1>1. Init => Base /\ Rows
  BY InvInit, BaseInit, RowsInit DEF Base
<1>2. Base /\ Rows /\ [Next]_vars => (Base /\ Rows)'
  <2>. SUFFICES ASSUME Base, Rows, [Next]_vars
                PROVE  Base' /\ Rows'
    OBVIOUS
  <2>. QED
    BY BaseStep, RowsStep
<1>3. Base /\ Rows => Listable
  BY DEF Rows, HasRow, Valid, Out, Listable, Authentic, Handed
<1>. QED
  BY <1>1, <1>2, <1>3, PTL DEF Spec

(***************************************************************************)
(* Refresh tokens                                                          *)
(***************************************************************************)

(* The overlaps that TokensExact needs apart *)
TokensApart ==
    \A s \in Settings : s.apart /\
        {{"refresh"}, {"refresh", "reauthenticate"}, {"refresh", "login"}, {"post", "refresh"}} \subseteq Apart

SameTokens(r, stored) ==
    (Saves(r) \/ r.at = "refreshing") /\ r.key \in Keys /\ stored[r.key] # Gone =>
        stored[r.key].tokens = r.copy.tokens

Refreshes(r, toks) ==
    r.at = "refreshing" => r.token \in DOMAIN toks /\ toks[r.token].sid = r.key

Exact(t, toks, stored, out) ==
    stored[toks[t].sid] # Gone /\ stored[toks[t].sid].user = toks[t].sub =>
        (t \in stored[toks[t].sid].tokens <=> t \notin out)

(* While a token is refreshed, no other request will save a session whose   *)
(* key was handed out; so what it loaded are the tokens of the session.     *)
Tokens ==
    /\ \A v, w \in Workers : v # w /\ req[v].at = "refreshing" =>
            ~Saves(req[w]) /\ req[w].at # "refreshing"
    /\ \A w \in Workers : Saves(req[w]) => Active(req[w])
    /\ \A w \in Workers : Refreshes(req[w], issued) /\ SameTokens(req[w], store)
    /\ \E n \in Nat : DOMAIN issued = 1 .. n
    /\ rotated \subseteq DOMAIN issued
    /\ keys <= MaxKeys
    /\ \A t \in DOMAIN issued : Exact(t, issued, store, rotated)

LEMMA KeysFitOn ==
    ASSUME Inv, keys \in Nat, keys <= MaxKeys, [Next]_vars
    PROVE  keys' <= MaxKeys
<1>1. setting \in Settings
  BY DEF Inv
<1>2. CanCycle => keys + 1 <= MaxKeys
  BY <1>1, KeysFit, Bounds DEF CanCycle
<1>3. CASE UNCHANGED vars
  BY <1>3 DEF vars
<1>4. ASSUME NEW w \in Workers, Step(w)
      PROVE  keys' = keys \/ (CanCycle /\ keys' = keys + 1)
  <2>1. CASE \E op, k, u : Begin(w, op, k, u)
    BY <2>1 DEF Begin
  <2>2. CASE Track(w) \/ List(w) \/ Logout(w) \/ \E k \in Keys : Purge(w, k) \/ EndOne(w, k)
    BY <2>2 DEF Track, List, Logout, Purge, EndOne
  <2>3. CASE DoLogin(w)
    BY <2>3 DEF DoLogin
  <2>4. CASE Record(w)
    BY <2>4 DEF Record
  <2>5. CASE Save(w)
    BY <2>5 DEF Save
  <2>6. CASE Changed(w)
    BY <2>6 DEF Changed
  <2>7. CASE Change(w) \/ Connect(w) \/ Reset(w) \/ \E chosen : End(w, chosen)
    BY <2>7 DEF Change, Connect, Reset, End
  <2>8. CASE Refresh(w) \/ Post(w) \/ Die(w) \/ \E back : Reauthenticate(w, back)
    BY <2>8 DEF Refresh, Post, Die, Reauthenticate
  <2>9. CASE (\E l \in links : PostLink(w, l)) \/ \E t \in DOMAIN issued : BeginRefresh(w, t)
    BY <2>9 DEF PostLink, BeginRefresh
  <2>. QED
    BY <1>4, <2>1, <2>2, <2>3, <2>4, <2>5, <2>6, <2>7, <2>8, <2>9 DEF Step
<1>5. CASE \E u \in setting.users : SendLink(u)
  BY <1>5 DEF SendLink, history
<1>6. CASE Tick
  BY <1>6 DEF Tick, history
<1>. QED
  BY <1>1, <1>2, <1>3, <1>4, <1>5, <1>6, ActorsKnown DEF Next

(* A session under a key that was handed out stays as it is or goes. *)
LEMMA ExactStays ==
    ASSUME Base, Tokens,
           \A k \in 1 .. keys : k \in Keys => store'[k] \in {store[k], Gone},
           NEW t \in DOMAIN issued
    PROVE  Exact(t, issued, store', rotated)
<1>1. issued[t].sid \in 1 .. keys /\ issued[t].sid \in Keys
  BY RowsKnown, Bounds DEF Agreed, Tokens, Keys
<1>2. Exact(t, issued, store, rotated)
  BY DEF Tokens
<1>. QED
  BY <1>1, <1>2 DEF Exact

LEMMA TokensOn ==
    ASSUME Base, Tokens, keys' <= MaxKeys, NEW w \in Workers, NEW s, Goto(w, s),
           UNCHANGED <<issued, rotated>>,
           \A k \in 1 .. keys : k \in Keys => store'[k] \in {store[k], Gone},
           s.at # "refreshing",
           Saves(s) => /\ Active(s) /\ Saves(req[w])
                       /\ s.key = req[w].key /\ s.copy.tokens = req[w].copy.tokens
    PROVE  Tokens'
<1>1. \A x \in Workers : req'[x] = IF x = w THEN s ELSE req[x]
  BY Reqs, RowsKnown
<1>2. ASSUME NEW x \in Workers, NEW y \in Workers, x # y, req'[x].at = "refreshing"
      PROVE  ~Saves(req'[y]) /\ req'[y].at # "refreshing"
  <2>1. x # w /\ req[x].at = "refreshing" /\ ~Saves(req[y]) /\ req[y].at # "refreshing"
    BY <1>1, <1>2 DEF Tokens
  <2>. QED
    BY <1>1, <2>1
<1>3. \A x \in Workers : Saves(req'[x]) => Active(req'[x])
  BY <1>1 DEF Tokens
<1>4. ASSUME NEW x \in Workers
      PROVE  Refreshes(req'[x], issued) /\ SameTokens(req'[x], store')
  <2>1. req[x].key \in 0 .. keys /\ SameTokens(req[x], store) /\ Refreshes(req[x], issued)
    BY RowsKnown DEF Tokens
  <2>2. req[x].key \in Keys /\ store'[req[x].key] # Gone => store'[req[x].key] = store[req[x].key]
    BY <2>1, RowsKnown
  <2>3. CASE x # w
    BY <1>1, <2>1, <2>2, <2>3 DEF SameTokens
  <2>4. CASE x = w
    BY <1>1, <2>1, <2>2, <2>4 DEF SameTokens, Refreshes
  <2>. QED
    BY <2>3, <2>4
<1>5. \A t \in DOMAIN issued : Exact(t, issued, store', rotated)
  BY ExactStays
<1>. QED
  BY <1>2, <1>3, <1>4, <1>5 DEF Tokens

LEMMA TokensGoes ==
    ASSUME Base, Tokens, keys' <= MaxKeys, NEW w \in Workers, NEW s, Goes(w, s)
    PROVE  Tokens'
<1>1. /\ Goto(w, s) /\ UNCHANGED <<issued, rotated>>
      /\ \A k \in Keys : store'[k] \in {store[k], Gone}
  BY DEF Goes, Takes
<1>2. s.at # "refreshing"
  BY DEF Goes, Idle, Continues, Restarts
<1>3. Saves(s) => Active(req[w]) /\ Continues(s, req[w])
  BY DEF Goes, Idle, Restarts, Saves
<1>4. Continues(s, req[w]) => Active(s)
  BY DEF Continues, Active
<1>5. Continues(s, req[w]) => /\ s.key = req[w].key /\ s.copy.tokens = req[w].copy.tokens
                              /\ Saves(s) => Saves(req[w])
  BY DEF Continues
<1>. QED
  BY <1>1, <1>2, <1>3, <1>4, <1>5, TokensOn

LEMMA TokensRekeys ==
    ASSUME Base, Tokens, keys' <= MaxKeys, NEW w \in Workers, NEW s, Rekeys(w, s)
    PROVE  Tokens'
<1>1. /\ Goto(w, s) /\ UNCHANGED <<issued, rotated>> /\ s.at # "refreshing" /\ s.new
      /\ store' = Cycled(req[w])
  BY DEF Rekeys, Takes
<1>2. \A k \in 1 .. keys : k \in Keys => store'[k] \in {store[k], Gone}
  BY <1>1, CycledAt, RowsKnown
<1>3. ~Saves(s)
  BY <1>1 DEF Saves
<1>. QED
  BY <1>1, <1>2, <1>3, TokensOn

LEMMA TokensMakes ==
    ASSUME Base, Tokens, keys' <= MaxKeys, NEW w \in Workers, NEW s, NEW c, Makes(w, s, c)
    PROVE  Tokens'
<1>1. /\ Goto(w, s) /\ UNCHANGED <<issued, rotated>>
      /\ s = Idle \/ (s.at = "save" /\ s.new)
      /\ store' = [store EXCEPT ![keys + 1] = c]
  BY DEF Makes, Takes
<1>2. \A k \in 1 .. keys : k \in Keys => store'[k] \in {store[k], Gone}
  BY <1>1, RowsKnown DEF Inv, StoreOk
<1>3. ~Saves(s) /\ s.at # "refreshing"
  BY <1>1 DEF Saves, Idle
<1>. QED
  BY <1>1, <1>2, <1>3, TokensOn

LEMMA TokensRests ==
    ASSUME Base, Tokens, UNCHANGED <<req, issued, rotated, keys>>,
           \A k \in Keys : store'[k] \in {store[k], Gone}
    PROVE  Tokens'
<1>1. \A t \in DOMAIN issued : Exact(t, issued, store', rotated)
  BY ExactStays
<1>2. \A x \in Workers : Refreshes(req[x], issued) /\ SameTokens(req[x], store')
  BY DEF Tokens, SameTokens
<1>. QED
  BY <1>1, <1>2 DEF Tokens

LEMMA TokensBegins ==
    ASSUME Base, Tokens, TokensApart, Known', NEW w \in Workers, NEW s, Begins(w, s)
    PROVE  Tokens'
<1>1. /\ Goto(w, s) /\ Takes(w, s) /\ UNCHANGED <<store, issued, rotated, keys>>
      /\ ~s.new /\ s.copy = store[s.key] /\ s.at \in {"track", "work", "refreshing"}
      /\ ~Active(req[w]) /\ Refreshes(s, issued)
  BY DEF Begins, Takes, Refreshes
<1>2. \A x \in Workers : req'[x] = IF x = w THEN s ELSE req[x]
  BY <1>1, Reqs, RowsKnown
<1>3. Active(s) /\ Free(w, s.op)
  BY <1>1 DEF Active, Takes
<1>4. AtItsPlace(s)
  BY <1>2 DEF Known, RequestKnown
<1>5. setting \in Settings /\ setting.apart
      /\ {{"refresh"}, {"refresh", "reauthenticate"}, {"refresh", "login"}, {"post", "refresh"}} \subseteq Apart
  BY RowsKnown DEF Inv, TokensApart
<1>6. ASSUME NEW v \in Workers, v # w
      PROVE  /\ s.at = "refreshing" => ~Saves(req[v]) /\ req[v].at # "refreshing"
             /\ req[v].at = "refreshing" => ~Saves(s) /\ s.at # "refreshing"
  <2>1. Saves(req[v]) => Active(req[v])
    BY DEF Tokens
  <2>2. Active(req[v]) => {s.op, req[v].op} \notin Apart
    BY <1>3, <1>5, <1>6 DEF Free, Active
  <2>3. /\ {"refresh", "refresh"} = {"refresh"}
        /\ {"reauthenticate", "refresh"} = {"refresh", "reauthenticate"}
        /\ {"login", "refresh"} = {"refresh", "login"} /\ {"refresh", "post"} = {"post", "refresh"}
    OBVIOUS
  <2>4. AtItsPlace(req[v])
    BY RowsKnown
  <2>5. CASE s.at = "refreshing" /\ Saves(req[v])
    BY <1>4, <1>5, <2>1, <2>2, <2>3, <2>5 DEF AtItsPlace, Saves
  <2>6. CASE s.at = "refreshing" /\ req[v].at = "refreshing"
    BY <1>4, <1>5, <2>2, <2>3, <2>4, <2>6 DEF AtItsPlace, Active
  <2>7. CASE req[v].at = "refreshing" /\ Saves(s)
    BY <1>5, <2>2, <2>3, <2>4, <2>7 DEF AtItsPlace, Active, Saves
  <2>. QED
    BY <2>5, <2>6, <2>7
<1>7. \A x, y \in Workers : x # y /\ req'[x].at = "refreshing" =>
          ~Saves(req'[y]) /\ req'[y].at # "refreshing"
  BY <1>2, <1>6 DEF Tokens
<1>8. SameTokens(s, store)
  BY <1>1 DEF SameTokens
<1>9. \A x \in Workers : /\ Saves(req'[x]) => Active(req'[x])
                         /\ Refreshes(req'[x], issued) /\ SameTokens(req'[x], store)
  BY <1>1, <1>2, <1>3, <1>8 DEF Tokens
<1>. QED
  BY <1>1, <1>7, <1>9 DEF Tokens

(* A token that is handed out is new. *)
LEMMA TokenNew ==
    ASSUME Tokens
    PROVE  /\ NewToken \notin DOMAIN issued
           /\ \E n \in Nat : DOMAIN issued \cup {NewToken} = 1 .. n
<1>1. PICK n \in Nat : DOMAIN issued = 1 .. n
  BY DEF Tokens
<1>2. Cardinality(1 .. n) = n
  BY FS_Interval
<1>3. NewToken = n + 1
  BY <1>1, <1>2 DEF NewToken
<1>. QED
  BY <1>1, <1>3

(* A session is saved, with what was stored or with tokens exchanged. *)
LEMMA TokensPuts ==
    ASSUME Base, Tokens, keys' <= MaxKeys, NEW w \in Workers, NEW c, Puts(w, c)
    PROVE  Tokens'
<1>. DEFINE r == req[w]
            k == r.key
<1>1. /\ Goto(w, Idle) /\ r.at \in {"save", "refreshing"} /\ k # 0
      /\ Like(c, r.copy) /\ IssuedTurn(r, c) /\ keys' = keys
      /\ k \in Keys /\ store[k] # Gone => store'[k] = c
      /\ \A j \in Keys : store'[j] # store[j] => j = k /\ store[k] # Gone
  BY RowsKnown DEF Puts, Stored, Inv, StoreOk
<1>2. \A x \in Workers : req'[x] = IF x = w THEN Idle ELSE req[x]
  BY <1>1, Reqs, RowsKnown
<1>3. Idle.at = "idle" /\ ~Saves(Idle)
  BY DEF Idle, Saves
<1>4. AtItsPlace(r)
  BY RowsKnown
<1>5. ~r.new => Saves(r) \/ r.at = "refreshing"
  BY <1>1, <1>4 DEF AtItsPlace, Saves
<1>6. SameTokens(r, store) /\ AsStored(r, store)
  BY RowsKnown DEF Tokens, Agreed
<1>7. ~r.new /\ k \in Keys /\ store[k] # Gone =>
          store[k].tokens = r.copy.tokens /\ store[k].user = c.user
  BY <1>1, <1>5, <1>6 DEF SameTokens, AsStored, Like
<1>8. r.new => /\ \A v \in Workers \ {w} : req[v].key # k
               /\ \A t \in DOMAIN issued : issued[t].sid # k
  BY <1>1, RowsKnown DEF Agreed, Alone, Out
<1>9. \A t \in DOMAIN issued : issued[t].sid \in Keys /\ Exact(t, issued, store, rotated)
  BY RowsKnown, Bounds DEF Agreed, Tokens, Keys
<1>10. k \in Keys
  BY <1>1, RowsKnown, Bounds DEF Tokens, Keys
<1>11. \A x, y \in Workers : x # y /\ req'[x].at = "refreshing" =>
          ~Saves(req'[y]) /\ req'[y].at # "refreshing"
  BY <1>2, <1>3 DEF Tokens
<1>12. \A x \in Workers : Saves(req'[x]) => Active(req'[x])
  BY <1>2, <1>3 DEF Tokens
<1>13. CASE UNCHANGED <<issued, rotated>> /\ c.tokens = r.copy.tokens /\ r.at = "save"
  <2>1. ~r.new /\ store[k] # Gone => store[k].tokens = c.tokens /\ store[k].user = c.user
    BY <1>7, <1>10, <1>13
  <2>2. ASSUME NEW t \in DOMAIN issued
        PROVE  Exact(t, issued, store', rotated)
    <3>1. CASE store'[issued[t].sid] = store[issued[t].sid]
      BY <1>9, <3>1 DEF Exact
    <3>2. CASE store'[issued[t].sid] # store[issued[t].sid]
      <4>1. issued[t].sid = k /\ store[k] # Gone /\ store'[k] = c /\ ~r.new
        BY <1>1, <1>8, <1>9, <1>10, <3>2
      <4>. QED
        BY <1>9, <2>1, <4>1 DEF Exact
    <3>. QED
      BY <3>1, <3>2
  <2>3. ASSUME NEW x \in Workers
        PROVE  Refreshes(req'[x], issued) /\ SameTokens(req'[x], store')
    <3>1. CASE x = w
      BY <1>2, <1>3, <3>1 DEF Refreshes, SameTokens
    <3>2. CASE x # w
      <4>1. Refreshes(req[x], issued) /\ SameTokens(req[x], store)
        BY DEF Tokens
      <4>2. SameTokens(req[x], store')
        BY <1>1, <1>8, <1>10, <2>1, <3>2, <4>1 DEF SameTokens
      <4>. QED
        BY <1>2, <3>2, <4>1, <4>2
    <3>. QED
      BY <3>1, <3>2
  <2>. QED
    BY <1>1, <1>11, <1>12, <1>13, <2>2, <2>3 DEF Tokens
<1>14. ASSUME NEW sub, issued' = [t \in DOMAIN issued \cup {NewToken} |->
                         IF t = NewToken THEN [sid |-> k, sub |-> sub] ELSE issued[t]],
              \/ /\ r.at = "save" /\ r.new /\ rotated' = rotated
                 /\ c.tokens = r.copy.tokens \cup {NewToken}
              \/ /\ r.at = "refreshing" /\ rotated' = rotated \cup {r.token}
                 /\ c.tokens = (r.copy.tokens \ {r.token}) \cup {NewToken}
       PROVE  Tokens'
  <2>1. NewToken \notin DOMAIN issued /\ NewToken \notin rotated
    BY TokenNew DEF Tokens
  <2>2. /\ DOMAIN issued' = DOMAIN issued \cup {NewToken}
        /\ issued'[NewToken].sid = k
        /\ \A t \in DOMAIN issued : issued'[t] = issued[t]
    BY <1>14, <2>1
  <2>3. r.at = "refreshing" => /\ r.token \in DOMAIN issued /\ ~r.new /\ issued[r.token].sid = k
    BY <1>4 DEF AtItsPlace, Tokens, Refreshes
  <2>4. rotated' \subseteq DOMAIN issued'
    BY <1>14, <2>2, <2>3 DEF Tokens
  <2>5. \E n \in Nat : DOMAIN issued' = 1 .. n
    BY <2>2, TokenNew
  <2>6. Exact(NewToken, issued', store', rotated')
    <3>1. NewToken \notin rotated'
      BY <1>14, <2>1, <2>3
    <3>2. NewToken \in c.tokens
      BY <1>14
    <3>3. store'[k] # Gone => store'[k] = c
      BY <1>1, <1>10
    <3>. QED
      BY <2>2, <3>1, <3>2, <3>3 DEF Exact
  <2>7. ASSUME NEW t \in DOMAIN issued
        PROVE  Exact(t, issued', store', rotated')
    <3>1. t # NewToken /\ issued'[t] = issued[t] /\ issued[t].sid \in Keys
          /\ Exact(t, issued, store, rotated)
      BY <1>9, <2>1, <2>2
    <3>2. CASE issued[t].sid # k
      <4>1. store'[issued[t].sid] = store[issued[t].sid]
        BY <1>1, <3>1, <3>2
      <4>2. t \in rotated' <=> t \in rotated
        BY <1>14, <2>3, <3>2
      <4>. QED
        BY <3>1, <4>1, <4>2 DEF Exact
    <3>3. CASE issued[t].sid = k /\ store[k] = Gone
      <4>1. store'[k] = Gone
        BY <1>1, <1>10, <3>3
      <4>. QED
        BY <3>1, <3>3, <4>1 DEF Exact
    <3>4. CASE issued[t].sid = k /\ store[k] # Gone
      <4>1. ~r.new /\ r.at = "refreshing"
        BY <1>8, <1>14, <3>4
      <4>2. store[k].tokens = r.copy.tokens /\ store[k].user = c.user /\ store'[k] = c
        BY <1>1, <1>7, <1>10, <3>4, <4>1
      <4>3. t \in c.tokens <=> t \in r.copy.tokens /\ t # r.token
        BY <1>14, <3>1, <4>1
      <4>4. t \in rotated' <=> t \in rotated \/ t = r.token
        BY <1>14, <4>1
      <4>. QED
        BY <3>1, <3>4, <4>2, <4>3, <4>4 DEF Exact
    <3>. QED
      BY <3>2, <3>3, <3>4
  <2>8. ASSUME NEW x \in Workers
        PROVE  Refreshes(req'[x], issued') /\ SameTokens(req'[x], store')
    <3>1. CASE x = w
      BY <1>2, <1>3, <3>1 DEF Refreshes, SameTokens
    <3>2. CASE x # w
      <4>1. Refreshes(req[x], issued) /\ SameTokens(req[x], store)
        BY DEF Tokens
      <4>2. Refreshes(req[x], issued')
        BY <2>2, <4>1 DEF Refreshes
      <4>3. SameTokens(req[x], store')
        <5>1. CASE r.new
          BY <1>1, <1>8, <3>2, <4>1, <5>1 DEF SameTokens
        <5>2. CASE r.at = "refreshing"
          BY <3>2, <5>2 DEF Tokens, SameTokens
        <5>. QED
          BY <1>14, <5>1, <5>2
      <4>. QED
        BY <1>2, <3>2, <4>2, <4>3
    <3>. QED
      BY <3>1, <3>2
  <2>9. \A t \in DOMAIN issued' : Exact(t, issued', store', rotated')
    BY <2>2, <2>6, <2>7
  <2>. QED
    BY <1>11, <1>12, <2>4, <2>5, <2>8, <2>9 DEF Tokens
<1>. QED
  BY <1>1, <1>13, <1>14 DEF IssuedTurn

LEMMA TokensStep ==
    ASSUME Base, Tokens, TokensApart, [Next]_vars
    PROVE  Tokens'
<1>1. Turn /\ Known' /\ keys' <= MaxKeys
  BY BaseStep, KeysFitOn, RowsKnown DEF Base, Tokens
<1>2. CASE Passes
  BY <1>2, TokensRests DEF Passes
<1>3. ASSUME NEW w \in Workers, NEW k, EndsOne(w, k)
      PROVE  Tokens'
  BY <1>3, DropLoses, TokensRests, RowsKnown DEF EndsOne
<1>. QED
  BY <1>1, <1>2, <1>3, TokensGoes, TokensPuts, TokensBegins, TokensRekeys, TokensMakes DEF Turn

LEMMA TokensInit == Init => Tokens
<1>. SUFFICES ASSUME Init
              PROVE  Tokens
  OBVIOUS
<1>1. \A w \in Workers : req[w] = Idle
  BY DEF Init
<1>2. Idle.at = "idle" /\ ~Saves(Idle)
  BY DEF Idle, Saves
<1>3. DOMAIN issued = {} /\ rotated = {} /\ keys = 0
  BY DEF Init
<1>4. \E n \in Nat : DOMAIN issued = 1 .. n
  <2>1. 1 .. 0 = {} /\ 0 \in Nat
    OBVIOUS
  <2>. QED
    BY <1>3, <2>1
<1>. QED
  BY <1>1, <1>2, <1>3, <1>4, Bounds DEF Tokens, Refreshes, SameTokens

(* While a session lasts, its refresh tokens are those that were handed out *)
(* and not exchanged since. It needs that a refresh overlaps with no other  *)
(* and with no login, post or reauthentication.                            *)
THEOREM TokensExactHolds ==
    ASSUME TokensApart
    PROVE  Spec => []TokensExact
<1>1. Init => Base /\ Tokens
  BY InvInit, BaseInit, TokensInit DEF Base
<1>2. Base /\ Tokens /\ [Next]_vars => (Base /\ Tokens)'
  <2>. SUFFICES ASSUME Base, Tokens, [Next]_vars
                PROVE  Base' /\ Tokens'
    OBVIOUS
  <2>. QED
    BY BaseStep, TokensStep
<1>3. Base /\ Tokens => TokensExact
  <2>. SUFFICES ASSUME Tokens, NEW t \in DOMAIN issued,
                       Authentic(store[issued[t].sid]),
                       store[issued[t].sid].user = issued[t].sub
                PROVE  Accepted(t) <=> t \notin rotated
    BY DEF TokensExact
  <2>. QED
    BY DEF Tokens, Exact, Accepted, Authentic
<1>. QED
  BY <1>1, <1>2, <1>3, PTL DEF Spec
=============================================================================
