-------------------------- MODULE RateLimitProofs --------------------------
(***************************************************************************)
(* Theorems about RateLimit for any workers, keys, rates and bounds.  They *)
(* assume what the comment in cache_lock() asks for: that a critical       *)
(* section ends before its lock entry lapses.                              *)
(***************************************************************************)
EXTENDS RateLimit, FiniteSetTheorems, TLAPS

(* The hits of a key before now are finitely many, and so is any window.   *)
LEMMA LiveFinite ==
    ASSUME NEW S \in SUBSET Nat, NEW k \in Key, NEW n \in Nat,
           \A s \in S : s < n
    PROVE  /\ IsFiniteSet(S)
           /\ \A t : IsFiniteSet(Live(k, S, t))
<1>1. IsFiniteSet(0..n)
  BY FS_Interval
<1>2. S \subseteq 0..n
  OBVIOUS
<1>3. IsFiniteSet(S)
  BY <1>1, <1>2, FS_Subset
<1>4. ASSUME NEW t PROVE IsFiniteSet(Live(k, S, t))
  BY <1>3, FS_Subset DEF Live
<1> QED
  BY <1>3, <1>4

LEMMA RateTypes ==
    ASSUME NEW k \in Key
    PROVE  Amount(k) \in Nat /\ Duration(k) \in Nat \ {0}
BY RateAssumption DEF Amount, Duration

(* A hit that the rate allows keeps every window within the amount. *)
LEMMA AdmitKeepsWindow ==
    ASSUME NEW k \in Key, NEW S \in SUBSET Nat, NEW n \in Nat,
           \A s \in S : s < n,
           RateAllows(k, S, n),
           \A t \in 1..n : Cardinality({s \in Live(k, S, t) : s <= t}) <= Amount(k),
           NEW T \in SUBSET (S \cup {n}), NEW t \in 1..(n + 1)
    PROVE  Cardinality({s \in Live(k, T, t) : s <= t}) <= Amount(k)
<1> DEFINE W == {s \in Live(k, T, t) : s <= t}
           L == Live(k, S, n)
<1>1. IsFiniteSet(S) /\ IsFiniteSet(L)
  BY LiveFinite
<1>2. Cardinality(L) \in Nat /\ Cardinality(L) < Amount(k)
  BY <1>1, FS_CardinalityType DEF RateAllows
<1>3. Amount(k) \in Nat /\ Duration(k) \in Nat \ {0}
  BY RateTypes
<1>4. CASE t < n
  <2>1. W \subseteq {s \in Live(k, S, t) : s <= t}
    <3> SUFFICES ASSUME NEW s \in T, s + Duration(k) > t, s <= t
                 PROVE  s \in S
      BY DEF Live
    <3> QED
      BY <1>4
  <2>2. IsFiniteSet({s \in Live(k, S, t) : s <= t})
    BY <1>1, FS_Subset DEF Live
  <2>3. Cardinality(W) <= Cardinality({s \in Live(k, S, t) : s <= t})
    BY <2>1, <2>2, FS_Subset
  <2>4. /\ Cardinality(W) \in Nat
        /\ Cardinality({s \in Live(k, S, t) : s <= t}) \in Nat
    BY <2>1, <2>2, FS_Subset, FS_CardinalityType
  <2>5. t \in 1..n
    BY <1>4
  <2> QED
    BY <2>3, <2>4, <2>5, <1>3
<1>5. CASE t >= n
  <2>1. W \subseteq L \cup {n}
    <3> SUFFICES ASSUME NEW s \in T, s + Duration(k) > t, s <= t, s # n
                 PROVE  s \in S /\ s + Duration(k) > n
      BY DEF Live
    <3>1. s \in S /\ s \in Nat
      OBVIOUS
    <3> QED
      BY <3>1, <1>5, <1>3
  <2> HIDE DEF L
  <2>2. /\ IsFiniteSet(L \cup {n})
        /\ Cardinality(L \cup {n}) <= Cardinality(L) + 1
    <3>1. /\ IsFiniteSet(L \cup {n})
          /\ Cardinality(L \cup {n}) = IF n \in L THEN Cardinality(L)
                                                ELSE Cardinality(L) + 1
      BY <1>1, FS_AddElement, Zenon
    <3> QED
      BY <3>1, <1>2
  <2>3. Cardinality(W) <= Cardinality(L \cup {n})
    BY <2>1, <2>2, FS_Subset
  <2>4. Cardinality(W) \in Nat /\ Cardinality(L \cup {n}) \in Nat
    BY <2>1, <2>2, FS_Subset, FS_CardinalityType
  <2> QED
    BY <2>2, <2>3, <2>4, <1>2, <1>3
<1> QED
  BY <1>4, <1>5

(* Fewer hits, or a later clock, keep it too. *)
LEMMA FewerHitsKeepWindow ==
    ASSUME NEW k \in Key, NEW S \in SUBSET Nat, NEW n \in Nat,
           \A s \in S : s < n,
           \A t \in 1..n : Cardinality({s \in Live(k, S, t) : s <= t}) <= Amount(k),
           n > 0,
           NEW T \in SUBSET S, NEW t \in 1..(n + 1)
    PROVE  Cardinality({s \in Live(k, T, t) : s <= t}) <= Amount(k)
<1> DEFINE u == IF t = n + 1 THEN n ELSE t
           W == {s \in Live(k, T, t) : s <= t}
           V == {s \in Live(k, S, u) : s <= u}
<1>1. Amount(k) \in Nat /\ Duration(k) \in Nat \ {0}
  BY RateTypes
<1>2. u \in 1..n
  OBVIOUS
<1>3. W \subseteq V
  <2> SUFFICES ASSUME NEW s \in T, s + Duration(k) > t, s <= t
               PROVE  s \in S /\ s + Duration(k) > u /\ s <= u
    BY DEF Live
  <2>1. s \in S /\ s \in Nat /\ s < n
    OBVIOUS
  <2> QED
    BY <2>1, <1>1, <1>2
<1>4. IsFiniteSet(V)
  BY LiveFinite, FS_Subset DEF Live
<1>5. Cardinality(W) <= Cardinality(V)
  BY <1>3, <1>4, FS_Subset
<1>6. Cardinality(W) \in Nat /\ Cardinality(V) \in Nat
  BY <1>3, <1>4, FS_Subset, FS_CardinalityType
<1>7. Cardinality(V) <= Amount(k)
  BY <1>2
<1> QED
  BY <1>1, <1>5, <1>6, <1>7

----------------------------------------------------------------------------

(* The key of a worker that is busy is a key. *)
LEMMA KeyOfIsKey ==
    ASSUME TypeOK, RequestShape, NEW p \in Proc,
           pc[p] \in {"lock", "read", "write", "unlock"}
    PROVE  KeyOf(p) \in Key
BY DEF TypeOK, RequestShape, KeyOf

LEMMA LiveStamps ==
    ASSUME NEW k \in Key, NEW S \in SUBSET Nat, NEW t
    PROVE  Live(k, S, t) \in SUBSET Nat
BY DEF Live

LEMMA WalkTypes ==
    ASSUME TypeOK, NEW p \in Proc, Refuse(p) \/ Proceed(p)
    PROVE  pc' \in [Proc -> Locations] /\ idx' \in [Proc -> Nat \ {0}]
<1>1. CASE Refuse(p)
  BY <1>1 DEF Refuse, TypeOK, Locations
<1>2. CASE Proceed(p)
  BY <1>2 DEF Proceed, TypeOK, Locations
<1> QED
  BY <1>1, <1>2

LEMMA InitTypes == Init => TypeOK
BY BoundAssumption DEF Init, TypeOK, NoLock, Locations, Ops

LEMMA TypeStep ==
    ASSUME TypeOK, RequestShape, [Next]_vars
    PROVE  TypeOK'
<1> USE DEF Locations, Ops
<1>1. CASE Tick
  BY <1>1 DEF Tick, TypeOK
<1>2. ASSUME NEW p \in Proc, Begin(p) PROVE TypeOK'
  BY <1>2, RuleAssumption DEF Begin, TypeOK
<1>3. ASSUME NEW p \in Proc, Acquire(p) PROVE TypeOK'
  BY <1>3, BoundAssumption, KeyOfIsKey DEF Acquire, TypeOK
<1>4. ASSUME NEW p \in Proc, GiveUp(p) PROVE TypeOK'
  <2>1. pc' \in [Proc -> Locations] /\ idx' \in [Proc -> Nat \ {0}]
    BY <1>4, WalkTypes DEF GiveUp
  <2> QED
    BY <1>4, <2>1 DEF GiveUp, TypeOK
<1>5. ASSUME NEW p \in Proc, ReadHistory(p) PROVE TypeOK'
  BY <1>5, KeyOfIsKey DEF ReadHistory, Cached, TypeOK
<1>6. ASSUME NEW p \in Proc, ApplyConsume(p) PROVE TypeOK'
  <2> DEFINE k == KeyOf(p)
             live == Live(k, seen[p], now)
             ok == RateAllows(k, seen[p], now)
  <2>1. k \in Key /\ ok \in BOOLEAN
    BY <1>6, KeyOfIsKey DEF ApplyConsume, RateAllows
  <2>2. live \in SUBSET Nat
    BY <2>1, LiveStamps DEF TypeOK
  <2> HIDE DEF k, ok, live
  <2>3. CASE ok /\ op[p] = "consume"
    <3>1. /\ history' = [history EXCEPT ![k] = live \cup {now}]
          /\ granted' = [granted EXCEPT ![k] = @ \cup {now}]
          /\ usage' = [usage EXCEPT ![p] = Append(@, now)]
          /\ allowed' = [allowed EXCEPT ![p] = ok]
          /\ now' = now + 1
          /\ pc' = [pc EXCEPT ![p] = "unlock"]
          /\ UNCHANGED <<lock, op, rules, idx, seen, crashes>>
      BY <1>6, <2>3 DEF ApplyConsume, k, ok, live
    <3> QED
      BY <3>1, <2>1, <2>2 DEF TypeOK
  <2>4. CASE ~(ok /\ op[p] = "consume")
    BY <1>6, <2>1, <2>4 DEF ApplyConsume, k, ok, TypeOK
  <2> QED
    BY <2>3, <2>4
<1>7. ASSUME NEW p \in Proc, ApplyRollback(p) PROVE TypeOK'
  BY <1>7, KeyOfIsKey DEF ApplyRollback, TypeOK
<1>8. ASSUME NEW p \in Proc, ApplyClear(p) PROVE TypeOK'
  BY <1>8, KeyOfIsKey DEF ApplyClear, TypeOK
<1>9. ASSUME NEW p \in Proc, Release(p) PROVE TypeOK'
  <2>1. pc' \in [Proc -> Locations] /\ idx' \in [Proc -> Nat \ {0}]
    BY <1>9, WalkTypes DEF Release
  <2>2. lock' \in [Key -> [owner : Proc \cup {Nobody}, until : Nat]]
    BY <1>9, KeyOfIsKey DEF Release, NoLock, TypeOK
  <2> QED
    BY <1>9, <2>1, <2>2 DEF Release, TypeOK
<1>10. ASSUME NEW p \in Proc, Keep(p) PROVE TypeOK'
  BY <1>10 DEF Keep, TypeOK
<1>11. ASSUME NEW p \in Proc, BeginRollback(p) PROVE TypeOK'
  BY <1>11 DEF BeginRollback, Rewound, TypeOK
<1>12. ASSUME NEW p \in Proc, Crash(p) PROVE TypeOK'
  BY <1>12 DEF Crash, TypeOK
<1>13. CASE UNCHANGED vars
  BY <1>13 DEF vars, TypeOK
<1> QED
  BY <1>1, <1>2, <1>3, <1>4, <1>5, <1>6, <1>7, <1>8, <1>9, <1>10, <1>11,
     <1>12, <1>13 DEF Next, Step

(* A request goes through its keys in order, one time stamp for each. *)
LEMMA ShapeStep ==
    ASSUME TypeOK, RequestShape, [Next]_vars
    PROVE  RequestShape'
<1> USE DEF Locations, Ops
<1>1. CASE Tick
  BY <1>1 DEF Tick, RequestShape
<1>2. ASSUME NEW p \in Proc, Begin(p) PROVE RequestShape'
  BY <1>2, RuleAssumption DEF Begin, TypeOK, RequestShape
<1>3. ASSUME NEW p \in Proc, Acquire(p) PROVE RequestShape'
  BY <1>3 DEF Acquire, TypeOK, RequestShape
<1>4. ASSUME NEW p \in Proc, GiveUp(p) PROVE RequestShape'
  BY <1>4 DEF GiveUp, GivesUp, Refuse, Proceed, MoreKeys, TypeOK, RequestShape
<1>5. ASSUME NEW p \in Proc, ReadHistory(p) PROVE RequestShape'
  BY <1>5 DEF ReadHistory, TypeOK, RequestShape
<1>6. ASSUME NEW p \in Proc, ApplyConsume(p) PROVE RequestShape'
  <2> DEFINE ok == RateAllows(KeyOf(p), seen[p], now)
  <2>1. ok \in BOOLEAN
    BY DEF RateAllows
  <2>2. /\ pc[p] = "write"
        /\ op[p] \in {"consume", "dry"}
        /\ allowed' = [allowed EXCEPT ![p] = ok]
        /\ usage' = IF ok /\ op[p] = "consume"
                      THEN [usage EXCEPT ![p] = Append(@, now)] ELSE usage
        /\ pc' = [pc EXCEPT ![p] = "unlock"]
        /\ UNCHANGED <<op, rules, idx>>
    BY <1>6 DEF ApplyConsume
  <2> HIDE DEF ok
  <2>3. CASE ok /\ op[p] = "consume"
    BY <2>1, <2>2, <2>3 DEF TypeOK, RequestShape
  <2>4. CASE ~(ok /\ op[p] = "consume")
    BY <2>1, <2>2, <2>4 DEF TypeOK, RequestShape
  <2> QED
    BY <2>3, <2>4
<1>7. ASSUME NEW p \in Proc, ApplyRollback(p) PROVE RequestShape'
  BY <1>7 DEF ApplyRollback, TypeOK, RequestShape
<1>8. ASSUME NEW p \in Proc, ApplyClear(p) PROVE RequestShape'
  BY <1>8 DEF ApplyClear, TypeOK, RequestShape
<1>9. ASSUME NEW p \in Proc, Release(p) PROVE RequestShape'
  <2>1. CASE op[p] \in {"consume", "dry"} /\ ~allowed[p]
    BY <1>9, <2>1 DEF Release, Refuse, TypeOK, RequestShape
  <2>2. CASE ~(op[p] \in {"consume", "dry"} /\ ~allowed[p])
    <3>1. /\ pc[p] = "unlock"
          /\ idx' = [idx EXCEPT ![p] = @ + 1]
          /\ pc' = [pc EXCEPT ![p] = IF idx[p] < Len(rules[p]) THEN "lock"
                                     ELSE IF op[p] = "consume" THEN "granted"
                                     ELSE "idle"]
          /\ UNCHANGED <<op, rules, allowed, usage>>
      BY <1>9, <2>2 DEF Release, Proceed, MoreKeys
    <3>2. CASE idx[p] < Len(rules[p])
      BY <3>1, <3>2, <2>2 DEF TypeOK, RequestShape
    <3>3. CASE idx[p] >= Len(rules[p])
      BY <3>1, <3>3, <2>2 DEF TypeOK, RequestShape
    <3> QED
      BY <3>2, <3>3 DEF TypeOK
  <2> QED
    BY <2>1, <2>2
<1>10. ASSUME NEW p \in Proc, Keep(p) PROVE RequestShape'
  BY <1>10 DEF Keep, TypeOK, RequestShape
<1>11. ASSUME NEW p \in Proc, BeginRollback(p) PROVE RequestShape'
  BY <1>11 DEF BeginRollback, Rewound, TypeOK, RequestShape
<1>12. ASSUME NEW p \in Proc, Crash(p) PROVE RequestShape'
  BY <1>12 DEF Crash, TypeOK, RequestShape
<1>13. CASE UNCHANGED vars
  BY <1>13 DEF vars, RequestShape
<1> QED
  BY <1>1, <1>2, <1>3, <1>4, <1>5, <1>6, <1>7, <1>8, <1>9, <1>10, <1>11,
     <1>12, <1>13 DEF Next, Step

----------------------------------------------------------------------------

(* A worker at a key is not disturbed by a step of another one. *)
LEMMA OtherUntouched ==
    ASSUME TypeOK, NEW p \in Proc, NEW q \in Proc, q # p,
           Begin(p) \/ Step(p) \/ Crash(p)
    PROVE  /\ pc'[q] = pc[q] /\ op'[q] = op[q] /\ seen'[q] = seen[q]
           /\ KeyOf(q)' = KeyOf(q)
BY DEF TypeOK, KeyOf, Begin, Step, Acquire, GiveUp, ReadHistory, ApplyConsume,
       ApplyRollback, ApplyClear, Release, Keep, BeginRollback, Rewound, Crash, Refuse,
       Proceed

(* A worker in its section whose lock does not lapse under it keeps it:    *)
(* nobody else is in a section of the same key, so nobody else unlocks it. *)
LEMMA LockStep ==
    ASSUME PromptHolders, TypeOK, RequestShape, LockOwned, [Next]_vars
    PROVE  LockOwned'
<1> SUFFICES ASSUME NEW q \in Proc, InSection(q)'
             PROVE  (lock[KeyOf(q)].owner)' = q
  BY DEF LockOwned
<1>1. CASE Tick \/ UNCHANGED vars
  BY <1>1 DEF Tick, vars, LockOwned, InSection, KeyOf
<1>2. ASSUME NEW p \in Proc, p # q, Begin(p) \/ Step(p) \/ Crash(p)
      PROVE  (lock[KeyOf(q)].owner)' = q
  <2>1. InSection(q) /\ lock[KeyOf(q)].owner = q /\ KeyOf(q)' = KeyOf(q)
    BY <1>2, OtherUntouched DEF InSection, LockOwned
  <2>2. KeyOf(q) \in Key /\ Held(KeyOf(q))
    BY <2>1, KeyOfIsKey, NobodyAssumption DEF InSection, Held
  <2>3. CASE UNCHANGED lock
    BY <2>1, <2>3
  <2>4. CASE Acquire(p)
    <3>1. KeyOf(p) # KeyOf(q)
      BY <2>2, <2>4 DEF Acquire
    <3> QED
      BY <2>1, <2>2, <2>4, <3>1 DEF Acquire, TypeOK
  <2>5. CASE Release(p)
    <3>1. KeyOf(p) # KeyOf(q)
      BY <1>2, <2>1, <2>5 DEF Release, LockOwned, InSection
    <3> QED
      BY <2>1, <2>2, <2>5, <3>1 DEF Release, TypeOK
  <2> QED
    BY <1>2, <2>3, <2>4, <2>5
       DEF Begin, Step, GiveUp, ReadHistory, ApplyConsume, ApplyRollback,
           ApplyClear, Keep, BeginRollback, Rewound, Crash
<1>3. ASSUME Begin(q) \/ Step(q) \/ Crash(q)
      PROVE  (lock[KeyOf(q)].owner)' = q
  <2>1. CASE Acquire(q)
    BY <2>1, KeyOfIsKey DEF Acquire, TypeOK, KeyOf
  <2>2. CASE ReadHistory(q) \/ ApplyConsume(q) \/ ApplyRollback(q) \/ ApplyClear(q)
    BY <2>2 DEF ReadHistory, ApplyConsume, ApplyRollback, ApplyClear, LockOwned,
                InSection, KeyOf, TypeOK
  <2>3. CASE Begin(q) \/ GiveUp(q) \/ Release(q) \/ Keep(q)
             \/ BeginRollback(q) \/ Crash(q)
    <3>1. pc'[q] \in {"idle", "lock", "granted"}
      BY <2>3 DEF Begin, GiveUp, Release, Keep, BeginRollback, Rewound, Crash, Refuse,
                  Proceed, TypeOK
    <3> QED
      BY <3>1 DEF InSection
  <2> QED
    BY <1>3, <2>1, <2>2, <2>3 DEF Step
<1> QED
  BY <1>1, <1>2, <1>3 DEF Next

(* Two workers are never in a section of the same key. *)
LEMMA OwnersExclude == TypeOK /\ LockOwned => MutualExclusion
BY DEF LockOwned, MutualExclusion

(* The copy of the history that a worker holds stays the cached one. *)
LEMMA SeenStep ==
    ASSUME PromptHolders, TypeOK, RequestShape, LockOwned, SeenCurrent,
           [Next]_vars
    PROVE  SeenCurrent'
<1> SUFFICES ASSUME NEW q \in Proc, pc'[q] = "write", op'[q] # "clear"
             PROVE  seen'[q] = (history[KeyOf(q)])'
  BY DEF SeenCurrent
<1>1. CASE Tick \/ UNCHANGED vars
  BY <1>1 DEF Tick, vars, SeenCurrent, KeyOf
<1>2. ASSUME NEW p \in Proc, p # q, Begin(p) \/ Step(p) \/ Crash(p)
      PROVE  seen'[q] = (history[KeyOf(q)])'
  <2>1. /\ pc[q] = "write" /\ op[q] # "clear" /\ seen'[q] = seen[q]
        /\ KeyOf(q)' = KeyOf(q)
    BY <1>2, OtherUntouched
  <2>2. seen[q] = history[KeyOf(q)] /\ KeyOf(q) \in Key
    BY <2>1, KeyOfIsKey DEF SeenCurrent
  <2>3. CASE UNCHANGED history
    BY <2>1, <2>2, <2>3
  <2>4. CASE ApplyConsume(p) \/ ApplyRollback(p) \/ ApplyClear(p)
    <3>1. KeyOf(p) # KeyOf(q)
      BY <1>2, <2>1, <2>4, OwnersExclude
         DEF ApplyConsume, ApplyRollback, ApplyClear, MutualExclusion, InSection
    <3>2. history'[KeyOf(q)] = history[KeyOf(q)]
      BY <2>2, <2>4, <3>1 DEF ApplyConsume, ApplyRollback, ApplyClear, TypeOK
    <3> QED
      BY <2>1, <2>2, <3>2
  <2> QED
    BY <1>2, <2>3, <2>4
       DEF Begin, Step, Acquire, GiveUp, ReadHistory, Release, Keep,
           BeginRollback, Rewound, Crash
<1>3. ASSUME Begin(q) \/ Step(q) \/ Crash(q)
      PROVE  seen'[q] = (history[KeyOf(q)])'
  <2>1. CASE ReadHistory(q)
    BY <2>1 DEF ReadHistory, Cached, TypeOK, KeyOf
  <2>2. CASE Acquire(q)
    BY <2>2 DEF Acquire, TypeOK
  <2>3. CASE Begin(q) \/ GiveUp(q) \/ Release(q) \/ Keep(q)
             \/ BeginRollback(q) \/ Crash(q)
             \/ ApplyConsume(q) \/ ApplyRollback(q) \/ ApplyClear(q)
    <3>1. pc'[q] \in {"idle", "lock", "granted", "unlock"}
      BY <2>3 DEF Begin, GiveUp, Release, Keep, BeginRollback, Rewound, Crash, Refuse,
                  Proceed, ApplyConsume, ApplyRollback, ApplyClear, TypeOK
    <3> QED
      BY <3>1
  <2> QED
    BY <1>3, <2>1, <2>2, <2>3 DEF Step
<1> QED
  BY <1>1, <1>2, <1>3 DEF Next

----------------------------------------------------------------------------

(* What a step does to the histories, seen from the cache alone. *)
Quiet == UNCHANGED <<history, granted>> /\ now' \in {now, now + 1}

Hit(k) ==
    /\ RateAllows(k, history[k], now)
    /\ history' = [history EXCEPT ![k] = Live(k, @, now) \cup {now}]
    /\ granted' = [granted EXCEPT ![k] = @ \cup {now}]
    /\ now' = now + 1

TakenBack(k, ts) ==
    /\ history' = [history EXCEPT ![k] = @ \ {ts}]
    /\ granted' = [granted EXCEPT ![k] = @ \ {ts}]
    /\ now' = now

Cleared(k) ==
    /\ history' = [history EXCEPT ![k] = {}]
    /\ granted' = [granted EXCEPT ![k] = {}]
    /\ now' = now

LEMMA Effects ==
    ASSUME TypeOK, RequestShape, SeenCurrent, [Next]_vars
    PROVE  \/ Quiet
           \/ \E k \in Key : Hit(k) \/ Cleared(k) \/ \E ts \in Nat : TakenBack(k, ts)
<1>1. CASE Tick \/ UNCHANGED vars
  BY <1>1 DEF Tick, vars, Quiet
<1>2. ASSUME NEW p \in Proc, ApplyConsume(p)
      PROVE  Quiet \/ \E k \in Key : Hit(k)
  <2>1. KeyOf(p) \in Key /\ seen[p] = history[KeyOf(p)]
    BY <1>2, KeyOfIsKey DEF ApplyConsume, SeenCurrent
  <2>2. CASE RateAllows(KeyOf(p), seen[p], now) /\ op[p] = "consume"
    BY <1>2, <2>1, <2>2 DEF ApplyConsume, Hit
  <2>3. CASE ~(RateAllows(KeyOf(p), seen[p], now) /\ op[p] = "consume")
    BY <1>2, <2>3 DEF ApplyConsume, Quiet
  <2> QED
    BY <2>2, <2>3
<1>3. ASSUME NEW p \in Proc, ApplyRollback(p)
      PROVE  \E k \in Key : \E ts \in Nat : TakenBack(k, ts)
  <2>1. KeyOf(p) \in Key /\ seen[p] = history[KeyOf(p)]
    BY <1>3, KeyOfIsKey DEF ApplyRollback, SeenCurrent
  <2>2. usage[p][idx[p]] \in Nat
    BY <1>3 DEF ApplyRollback, TypeOK, RequestShape
  <2>3. TakenBack(KeyOf(p), usage[p][idx[p]])
    BY <1>3, <2>1 DEF ApplyRollback, TakenBack
  <2> QED
    BY <2>1, <2>2, <2>3
<1>4. ASSUME NEW p \in Proc, ApplyClear(p)
      PROVE  \E k \in Key : Cleared(k)
  BY <1>4, KeyOfIsKey DEF ApplyClear, Cleared
<1>5. ASSUME NEW p \in Proc,
             \/ Begin(p) \/ Acquire(p) \/ GiveUp(p) \/ ReadHistory(p)
             \/ Release(p) \/ Keep(p) \/ BeginRollback(p) \/ Crash(p)
      PROVE  Quiet
  BY <1>5 DEF Begin, Acquire, GiveUp, ReadHistory, Release, Keep,
              BeginRollback, Rewound, Crash, Quiet
<1> QED
  BY <1>1, <1>2, <1>3, <1>4, <1>5 DEF Next, Step

LEMMA StampsStep ==
    ASSUME TypeOK, RequestShape, SeenCurrent, StampsPast, [Next]_vars
    PROVE  StampsPast'
<1>1. CASE Quiet
  BY <1>1 DEF Quiet, StampsPast, TypeOK
<1>2. ASSUME NEW k \in Key, Hit(k) PROVE StampsPast'
  BY <1>2 DEF Hit, StampsPast, TypeOK
<1>3. ASSUME NEW k \in Key, NEW ts \in Nat, TakenBack(k, ts) PROVE StampsPast'
  BY <1>3 DEF TakenBack, StampsPast, TypeOK
<1>4. ASSUME NEW k \in Key, Cleared(k) PROVE StampsPast'
  BY <1>4 DEF Cleared, StampsPast, TypeOK
<1> QED
  BY <1>1, <1>2, <1>3, <1>4, Effects

(* The cached history and the hits that count agree on every live one. *)
LEMMA ExactStep ==
    ASSUME TypeOK, RequestShape, SeenCurrent, HistoryExact, [Next]_vars
    PROVE  HistoryExact'
<1> SUFFICES ASSUME NEW j \in Key
             PROVE  /\ history'[j] \subseteq granted'[j]
                    /\ Live(j, granted'[j], now') \subseteq history'[j]
  BY DEF HistoryExact, Live
<1>0. Duration(j) \in Nat /\ now \in Nat
  BY RateTypes DEF TypeOK
<1>1. /\ history[j] \subseteq granted[j] /\ granted[j] \in SUBSET Nat
      /\ \A s \in granted[j] : s + Duration(j) > now => s \in history[j]
  BY DEF HistoryExact, TypeOK, Live
<1>2. CASE Quiet
  BY <1>0, <1>1, <1>2 DEF Quiet, Live
<1>3. ASSUME NEW k \in Key, k # j,
             Hit(k) \/ Cleared(k) \/ \E ts \in Nat : TakenBack(k, ts)
      PROVE  /\ history'[j] \subseteq granted'[j]
             /\ Live(j, granted'[j], now') \subseteq history'[j]
  <2>1. /\ history'[j] = history[j] /\ granted'[j] = granted[j]
        /\ now' \in {now, now + 1}
    BY <1>3 DEF Hit, Cleared, TakenBack, TypeOK
  <2> QED
    BY <1>0, <1>1, <2>1 DEF Live
<1>4. CASE Hit(j)
  <2>1. /\ history'[j] = Live(j, history[j], now) \cup {now}
        /\ granted'[j] = granted[j] \cup {now}
        /\ now' = now + 1
    BY <1>4 DEF Hit, TypeOK
  <2> QED
    BY <1>0, <1>1, <2>1 DEF Live
<1>5. ASSUME NEW ts \in Nat, TakenBack(j, ts)
      PROVE  /\ history'[j] \subseteq granted'[j]
             /\ Live(j, granted'[j], now') \subseteq history'[j]
  <2>1. /\ history'[j] = history[j] \ {ts} /\ granted'[j] = granted[j] \ {ts}
        /\ now' = now
    BY <1>5 DEF TakenBack, TypeOK
  <2> QED
    BY <1>0, <1>1, <2>1 DEF Live
<1>6. CASE Cleared(j)
  BY <1>6 DEF Cleared, TypeOK, Live
<1> QED
  BY <1>2, <1>3, <1>4, <1>5, <1>6, Effects

(* What the worker tests is what counts. *)
LEMMA LiveAgree ==
    ASSUME TypeOK, HistoryExact, NEW k \in Key
    PROVE  Live(k, history[k], now) = Live(k, granted[k], now)
BY DEF HistoryExact, Live

LEMMA WindowStep ==
    ASSUME TypeOK, RequestShape, SeenCurrent, StampsPast, HistoryExact,
           WindowBound, now > 0, [Next]_vars
    PROVE  WindowBound'
<1> SUFFICES ASSUME NEW j \in Key, NEW t \in 1..now'
             PROVE  Cardinality({s \in Live(j, granted'[j], t) : s <= t}) <= Amount(j)
  BY DEF WindowBound, Live, Amount, Duration
<1>1. /\ granted[j] \in SUBSET Nat /\ now \in Nat
      /\ \A s \in granted[j] : s < now
      /\ \A u \in 1..now :
            Cardinality({s \in Live(j, granted[j], u) : s <= u}) <= Amount(j)
  BY DEF TypeOK, StampsPast, WindowBound
<1>2. CASE Hit(j)
  <2>1. RateAllows(j, granted[j], now)
    BY <1>2, LiveAgree DEF Hit, RateAllows
  <2>2. granted'[j] = granted[j] \cup {now} /\ t \in 1..(now + 1)
    BY <1>2 DEF Hit, TypeOK
  <2> QED
    BY <1>1, <2>1, <2>2, AdmitKeepsWindow
<1>3. CASE granted'[j] \subseteq granted[j] /\ now' \in {now, now + 1}
  <2>1. t \in 1..(now + 1)
    BY <1>1, <1>3
  <2> QED
    BY <1>1, <1>3, <2>1, FewerHitsKeepWindow
<1>4. Hit(j) \/ (granted'[j] \subseteq granted[j] /\ now' \in {now, now + 1})
  <2>1. CASE Quiet
    BY <2>1 DEF Quiet
  <2>2. ASSUME NEW k \in Key,
               Hit(k) \/ Cleared(k) \/ \E ts \in Nat : TakenBack(k, ts)
        PROVE  Hit(j) \/ (granted'[j] \subseteq granted[j] /\ now' \in {now, now + 1})
    BY <2>2 DEF Hit, Cleared, TakenBack, TypeOK
  <2> QED
    BY <2>1, <2>2, Effects
<1> QED
  BY <1>2, <1>3, <1>4

LEMMA ClockStep ==
    ASSUME TypeOK, RequestShape, SeenCurrent, now > 0, [Next]_vars
    PROVE  now' > 0
BY Effects DEF Quiet, Hit, Cleared, TakenBack, TypeOK

----------------------------------------------------------------------------

LEMMA InitIInv == Init => IInv
<1> SUFFICES ASSUME Init PROVE IInv
  OBVIOUS
<1>1. TypeOK
  BY InitTypes
<1>2. LockOwned /\ SeenCurrent /\ RequestShape
  BY DEF Init, LockOwned, SeenCurrent, RequestShape, InSection
<1>3. StampsPast /\ HistoryExact
  BY DEF Init, StampsPast, HistoryExact, Live
<1>4. WindowBound
  <2> SUFFICES ASSUME NEW k \in Key, NEW t \in 1..now
               PROVE  Cardinality({s \in Live(k, granted[k], t) : s <= t}) <= Amount(k)
    BY DEF WindowBound
  <2>1. {s \in Live(k, granted[k], t) : s <= t} = {}
    BY DEF Init, Live
  <2> QED
    BY <2>1, FS_EmptySet, RateTypes
<1> QED
  BY <1>1, <1>2, <1>3, <1>4 DEF Init, IInv

LEMMA StepIInv ==
    ASSUME PromptHolders, IInv, [Next]_vars
    PROVE  IInv'
BY TypeStep, ShapeStep, LockStep, SeenStep, StampsStep, ExactStep, WindowStep,
   ClockStep DEF IInv

(* The inductive invariant holds of every behaviour, for any workers,      *)
(* keys, rates and bounds.                                                 *)
THEOREM Invariance == ASSUME PromptHolders PROVE Spec => []IInv
<1>1. Init => IInv
  BY InitIInv
<1>2. IInv /\ [Next]_vars => IInv'
  BY StepIInv
<1> QED
  BY <1>1, <1>2, PTL DEF Spec

(* No window of a rate ever holds more hits that count than its amount     *)
(* (_consume_single_rate), whatever interleaves and whoever is killed.     *)
THEOREM WindowBoundHolds == ASSUME PromptHolders PROVE Spec => []WindowBound
<1>1. IInv => WindowBound
  BY DEF IInv
<1> QED
  BY <1>1, Invariance, PTL

(* No update of a history is lost and no stale one is written back         *)
(* (SingleRateLimitUsage.rollback, _consume_single_rate, clear).           *)
THEOREM HistoryExactHolds == ASSUME PromptHolders PROVE Spec => []HistoryExact
<1>1. IInv => HistoryExact
  BY DEF IInv
<1> QED
  BY <1>1, Invariance, PTL

(* Two workers are never inside cache_lock() of one key. *)
THEOREM MutualExclusionHolds ==
    ASSUME PromptHolders PROVE Spec => []MutualExclusion
<1>1. IInv => MutualExclusion
  BY OwnersExclude DEF IInv
<1> QED
  BY <1>1, Invariance, PTL

----------------------------------------------------------------------------

(* The instance's copies of the operators of Rates are those of Rates. *)
LEMMA SameRates ==
    ASSUME NEW k, NEW S, NEW t
    PROVE  Promise!RateAllows(k, S, t) = RateAllows(k, S, t)
<1>1. Promise!Live(k, S, t) = Live(k, S, t)
  BY DEF Promise!Live, Promise!Duration, Live, Duration
<1>2. \A T : Promise!Cardinality(T) = Cardinality(T)
  BY DEF Promise!Cardinality, Cardinality
<1> QED
  BY <1>1, <1>2 DEF Promise!RateAllows, Promise!Amount, RateAllows, Amount

(* Every step of the workers is a step of the sliding window or a stutter. *)
LEMMA StepRefines ==
    ASSUME IInv, [Next]_vars
    PROVE  [Promise!Next]_<<granted, now>>
<1> USE DEF IInv
<1>1. CASE Quiet
  BY <1>1 DEF Quiet, Promise!Next, Promise!Advance
<1>2. ASSUME NEW k \in Key, Hit(k) PROVE Promise!Admit(k)
  <2>1. RateAllows(k, granted[k], now)
    BY <1>2, LiveAgree DEF Hit, RateAllows
  <2> QED
    BY <1>2, <2>1, SameRates DEF Hit, Promise!Admit
<1>3. ASSUME NEW k \in Key, NEW ts \in Nat, TakenBack(k, ts)
      PROVE  Promise!Withdraw(k) \/ UNCHANGED <<granted, now>>
  <2>1. CASE ts \in granted[k]
    BY <1>3, <2>1 DEF TakenBack, Promise!Withdraw
  <2>2. CASE ts \notin granted[k]
    <3>1. granted[k] \ {ts} = granted[k]
      BY <2>2
    <3>2. granted' = granted
      BY <1>3, <3>1 DEF TakenBack, TypeOK
    <3> QED
      BY <1>3, <3>2 DEF TakenBack
  <2> QED
    BY <2>1, <2>2
<1>4. ASSUME NEW k \in Key, Cleared(k) PROVE Promise!Forget(k)
  BY <1>4 DEF Cleared, Promise!Forget
<1> QED
  BY <1>1, <1>2, <1>3, <1>4, Effects DEF Promise!Next

(* The limiter implements the sliding window of its rates. *)
THEOREM Refinement == ASSUME PromptHolders PROVE Spec => ImplementsWindow
<1>1. Init => Promise!Init
  BY DEF Init, Promise!Init
<1>2. IInv /\ [Next]_vars => [Promise!Next]_<<granted, now>>
  BY StepRefines
<1> QED
  BY <1>1, <1>2, Invariance, PTL DEF Spec, Promise!Spec, ImplementsWindow

(* TYPE CORRECTNESS.  The variables keep their types and a worker's place  *)
(* in its walk over the keys is one that exists, also when a lock lapses   *)
(* under its holder (cache_lock).                                          *)
THEOREM TypeCorrect == Spec => []TypeOK
<1>1. Init => TypeOK /\ RequestShape
  BY InitTypes DEF Init, RequestShape
<1>2. TypeOK /\ RequestShape /\ [Next]_vars => TypeOK' /\ RequestShape'
  BY TypeStep, ShapeStep
<1> QED
  BY <1>1, <1>2, PTL DEF Spec
=============================================================================
