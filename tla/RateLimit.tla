----------------------------- MODULE RateLimit -----------------------------
(***************************************************************************)
(* allauth/core/internal/ratelimit.py: processes (web workers) that share  *)
(* one cache consume rates, roll a usage back and clear an action.         *)
(*                                                                         *)
(* Every access to a history is bracketed by cache_lock(), an entry made   *)
(* with cache.add() that lapses after CACHE_LOCK_TIMEOUT and that the      *)
(* releasing process deletes whether or not the entry is still its own.    *)
(* A worker may be killed while it holds the lock.                         *)
(*                                                                         *)
(* Abstractions.  The history, a list of distinct time stamps with the     *)
(* newest first, is the set of its time stamps (ApplyRate relates the two).*)
(* The clock advances with every reading, so two readings differ.  The     *)
(* timeout of the history entry is left out: an entry lapses when its      *)
(* newest time stamp has, and apply_rate() would drop them all.  The       *)
(* monotonic deadline of a waiter is a choice: each retry that finds the   *)
(* lock taken may be its last.                                             *)
(***************************************************************************)
EXTENDS Rates, Sequences

CONSTANTS
    Proc,           \* the workers, each serving one request at a time
    Nobody,         \* no worker: the owner of a lock that is free
    RuleList,       \* the sequences of keys that a request may be limited by
    LockTimeout,    \* CACHE_LOCK_TIMEOUT
    PromptHolders,  \* whether a live holder always finishes within LockTimeout
    MaxTime,        \* bound: no request starts and no time idles after MaxTime
    MaxCrashes      \* bound: how many workers are killed

ASSUME RuleAssumption == RuleList \subseteq Seq(Key)

ASSUME NobodyAssumption == Nobody \notin Proc

ASSUME BoundAssumption ==
    /\ LockTimeout \in Nat
    /\ PromptHolders \in BOOLEAN
    /\ MaxTime \in Nat
    /\ MaxCrashes \in Nat

VARIABLES
    history,    \* the cache: per key, the recorded time stamps
    lock,       \* the cache: per key, who added the lock entry and when it lapses
    now,        \* the clock
    pc,         \* where each worker is
    op,         \* what it is doing: consume, dry (a dry run), rollback or clear
    rules,      \* the keys it goes through, in order
    idx,        \* the key it is at
    seen,       \* the copy of the history it read under the lock
    allowed,    \* what apply_rate() told it
    usage,      \* the time stamps it consumed, one per key: RateLimitUsage
    granted,    \* history variable: the hits that were admitted and still count
    crashes

vars == <<history, lock, now, pc, op, rules, idx, seen, allowed, usage,
          granted, crashes>>

----------------------------------------------------------------------------

Locations == {"idle", "lock", "read", "write", "unlock", "granted"}

Ops == {"consume", "dry", "rollback", "clear"}

TypeOK ==
    /\ history \in [Key -> SUBSET Nat]
    /\ lock \in [Key -> [owner : Proc \cup {Nobody}, until : Nat]]
    /\ now \in Nat
    /\ pc \in [Proc -> Locations]
    /\ op \in [Proc -> Ops]
    /\ rules \in [Proc -> Seq(Key)]
    /\ idx \in [Proc -> Nat \ {0}]
    /\ seen \in [Proc -> SUBSET Nat]
    /\ allowed \in [Proc -> BOOLEAN]
    /\ usage \in [Proc -> Seq(Nat)]
    /\ granted \in [Key -> SUBSET Nat]
    /\ crashes \in Nat

(* The key whose lock worker p wants or holds. *)
KeyOf(p) == rules[p][idx[p]]

InSection(p) == pc[p] \in {"read", "write", "unlock"}

NoLock == [owner |-> Nobody, until |-> 0]

(* Mutant: the lock is taken with cache.set() instead of cache.add(). *)
HeldNever(k) == FALSE

(* A holder that was killed keeps its lock until the entry lapses.         *)
(* PromptHolders says that the entry of a living holder does not lapse.    *)
Held(k) ==
    /\ lock[k].owner # Nobody
    /\ \/ now < lock[k].until
       \/ PromptHolders /\ \E p \in Proc : InSection(p) /\ KeyOf(p) = k
                                             /\ lock[k].owner = p

Init ==
    /\ history = [k \in Key |-> {}]
    /\ lock = [k \in Key |-> NoLock]
    /\ now = 1
    /\ pc = [p \in Proc |-> "idle"]
    /\ op = [p \in Proc |-> "consume"]
    /\ rules = [p \in Proc |-> <<>>]
    /\ idx = [p \in Proc |-> 1]
    /\ seen = [p \in Proc |-> {}]
    /\ allowed = [p \in Proc |-> FALSE]
    /\ usage = [p \in Proc |-> <<>>]
    /\ granted = [k \in Key |-> {}]
    /\ crashes = 0

----------------------------------------------------------------------------

(* consume() or clear() is called with the keys of the configured rates.   *)
Begin(p) ==
    /\ pc[p] = "idle"
    /\ now < MaxTime
    /\ \E o \in Ops \ {"rollback"}, r \in RuleList :
          /\ r # <<>>
          /\ op' = [op EXCEPT ![p] = o]
          /\ rules' = [rules EXCEPT ![p] = r]
    /\ idx' = [idx EXCEPT ![p] = 1]
    /\ usage' = [usage EXCEPT ![p] = <<>>]
    /\ pc' = [pc EXCEPT ![p] = "lock"]
    /\ UNCHANGED <<history, lock, now, seen, allowed, granted, crashes>>

(* cache.add() succeeded. *)
Acquire(p) ==
    /\ pc[p] = "lock"
    /\ ~Held(KeyOf(p))
    /\ lock' = [lock EXCEPT ![KeyOf(p)] =
                    [owner |-> p, until |-> now + LockTimeout]]
    /\ pc' = [pc EXCEPT ![p] = IF op[p] = "clear" THEN "write" ELSE "read"]
    /\ UNCHANGED <<history, now, op, rules, idx, seen, allowed, usage,
                   granted, crashes>>

MoreKeys(p) == idx[p] < Len(rules[p])

(* The next key, or the end: the RateLimitUsage of an admitted request     *)
(* stays with the worker, which may roll it back.                          *)
Proceed(p) ==
    /\ idx' = [idx EXCEPT ![p] = @ + 1]
    /\ pc' = [pc EXCEPT ![p] = IF MoreKeys(p) THEN "lock"
                               ELSE IF op[p] = "consume" THEN "granted"
                               ELSE "idle"]

Refuse(p) ==
    /\ pc' = [pc EXCEPT ![p] = "idle"]
    /\ UNCHANGED idx

(* Mutant: waiters retry for ever. *)
GivesUpNever(p) == FALSE

(* A waiter whose cache.add() failed may have reached its deadline. *)
GivesUp(p) == pc[p] = "lock" /\ Held(KeyOf(p))

(* Mutant: the finally clause also runs when the lock was not obtained. *)
GiveUpUnlocking(p) ==
    /\ GivesUp(p)
    /\ lock' = [lock EXCEPT ![KeyOf(p)] = NoLock]
    /\ IF op[p] \in {"consume", "dry"} THEN Refuse(p) ELSE Proceed(p)
    /\ UNCHANGED <<history, now, op, rules, seen, allowed, usage,
                   granted, crashes>>

(* The lock was not obtained in time: a consume fails closed, a rollback   *)
(* or a clear skips this key.                                              *)
GiveUp(p) ==
    /\ GivesUp(p)
    /\ IF op[p] \in {"consume", "dry"} THEN Refuse(p) ELSE Proceed(p)
    /\ UNCHANGED <<history, lock, now, op, rules, seen, allowed, usage,
                   granted, crashes>>

(* Mutant: a rollback edits the history that the consume had read. *)
CachedOnce(p) == IF op[p] = "rollback" THEN seen[p] ELSE history[KeyOf(p)]

(* cache.get(cache_key, []) *)
Cached(p) == history[KeyOf(p)]

ReadHistory(p) ==
    /\ pc[p] = "read"
    /\ seen' = [seen EXCEPT ![p] = Cached(p)]
    /\ pc' = [pc EXCEPT ![p] = "write"]
    /\ UNCHANGED <<history, lock, now, op, rules, idx, allowed, usage,
                   granted, crashes>>

(* The clock is read and apply_rate() called; an allowed hit is written    *)
(* back with the pruned history, unless this is a dry run.                 *)
ApplyConsume(p) ==
    LET k == KeyOf(p)
        ok == RateAllows(k, seen[p], now)
    IN  /\ pc[p] = "write"
        /\ op[p] \in {"consume", "dry"}
        /\ allowed' = [allowed EXCEPT ![p] = ok]
        /\ IF ok /\ op[p] = "consume"
             THEN /\ history' = [history EXCEPT ![k] = Live(k, seen[p], now) \cup {now}]
                  /\ granted' = [granted EXCEPT ![k] = @ \cup {now}]
                  /\ usage' = [usage EXCEPT ![p] = Append(@, now)]
             ELSE UNCHANGED <<history, granted, usage>>
        /\ now' = now + 1
        /\ pc' = [pc EXCEPT ![p] = "unlock"]
        /\ UNCHANGED <<lock, op, rules, idx, seen, crashes>>

(* SingleRateLimitUsage.rollback(): the time stamp leaves the history.     *)
ApplyRollback(p) ==
    LET k == KeyOf(p)
        ts == usage[p][idx[p]]
    IN  /\ pc[p] = "write"
        /\ op[p] = "rollback"
        /\ history' = [history EXCEPT ![k] = seen[p] \ {ts}]
        /\ granted' = [granted EXCEPT ![k] = @ \ {ts}]
        /\ pc' = [pc EXCEPT ![p] = "unlock"]
        /\ UNCHANGED <<lock, now, op, rules, idx, seen, allowed, usage, crashes>>

(* clear(): cache.delete(cache_key) *)
ApplyClear(p) ==
    LET k == KeyOf(p)
    IN  /\ pc[p] = "write"
        /\ op[p] = "clear"
        /\ history' = [history EXCEPT ![k] = {}]
        /\ granted' = [granted EXCEPT ![k] = {}]
        /\ pc' = [pc EXCEPT ![p] = "unlock"]
        /\ UNCHANGED <<lock, now, op, rules, idx, seen, allowed, usage, crashes>>

(* The finally clause of cache_lock() deletes the lock entry, whoever      *)
(* added it; the caller goes on with the next key or stops at a refusal.   *)
Release(p) ==
    /\ pc[p] = "unlock"
    /\ lock' = [lock EXCEPT ![KeyOf(p)] = NoLock]
    /\ IF op[p] \in {"consume", "dry"} /\ ~allowed[p] THEN Refuse(p)
                                                      ELSE Proceed(p)
    /\ UNCHANGED <<history, now, op, rules, seen, allowed, usage, granted,
                   crashes>>

(* The admitted request went well and keeps its usage... *)
Keep(p) ==
    /\ pc[p] = "granted"
    /\ pc' = [pc EXCEPT ![p] = "idle"]
    /\ UNCHANGED <<history, lock, now, op, rules, idx, seen, allowed, usage,
                   granted, crashes>>

Rewound(p) == [idx EXCEPT ![p] = 1]

(* ... or its caller rolls the usage back, key after key. *)
BeginRollback(p) ==
    /\ pc[p] = "granted"
    /\ pc' = [pc EXCEPT ![p] = "lock"]
    /\ op' = [op EXCEPT ![p] = "rollback"]
    /\ idx' = Rewound(p)
    /\ UNCHANGED <<history, lock, now, rules, seen, allowed, usage, granted,
                   crashes>>

(* The worker is killed; in a critical section its lock stays behind. *)
Crash(p) ==
    /\ crashes < MaxCrashes
    /\ pc[p] # "idle"
    /\ crashes' = crashes + 1
    /\ pc' = [pc EXCEPT ![p] = "idle"]
    /\ UNCHANGED <<history, lock, now, op, rules, idx, seen, allowed, usage,
                   granted>>

Tick ==
    /\ now < MaxTime
    /\ now' = now + 1
    /\ UNCHANGED <<history, lock, pc, op, rules, idx, seen, allowed, usage,
                   granted, crashes>>

(* What a worker does once its request has begun. *)
Step(p) ==
    \/ Acquire(p) \/ GiveUp(p) \/ ReadHistory(p)
    \/ ApplyConsume(p) \/ ApplyRollback(p) \/ ApplyClear(p)
    \/ Release(p) \/ Keep(p) \/ BeginRollback(p)

Next == Tick \/ \E p \in Proc : Begin(p) \/ Step(p) \/ Crash(p)

(* A worker that is not killed keeps running. *)
Fairness == \A p \in Proc : WF_vars(Step(p))

Spec == Init /\ [][Next]_vars /\ Fairness

----------------------------------------------------------------------------

(* WINDOW BOUND.  Whatever the workers do at the same time, no window of a *)
(* key's duration ever holds more than its amount of hits that were        *)
(* admitted and neither rolled back nor cleared (_consume_single_rate).    *)
WindowBound ==
    \A k \in Key : \A t \in 1..now :
        Cardinality({s \in Live(k, granted[k], t) : s <= t}) <= Amount(k)

(* NO LOST UPDATE.  The cached history holds exactly the hits that still   *)
(* count: a consume never overwrites another one's hit, and a hit that was *)
(* rolled back or cleared never comes back with a stale copy.              *)
HistoryExact ==
    \A k \in Key : /\ history[k] \subseteq granted[k]
                   /\ Live(k, granted[k], now) \subseteq history[k]

(* ONE AT A TIME.  Two workers that stay within LockTimeout are never both *)
(* between cache.get() and the release of the same key's lock.             *)
MutualExclusion ==
    \A p, q \in Proc :
        p # q /\ InSection(p) /\ InSection(q) => KeyOf(p) # KeyOf(q)

(* What makes the above inductive: whoever is between cache.get() and the  *)
(* release owns the lock, its copy is the cached history, and its usage    *)
(* has one time stamp per key that it went through.                        *)
LockOwned == \A p \in Proc : InSection(p) => lock[KeyOf(p)].owner = p

SeenCurrent ==
    \A p \in Proc : pc[p] = "write" /\ op[p] # "clear"
                        => seen[p] = history[KeyOf(p)]

StampsPast == \A k \in Key : \A s \in granted[k] : s < now

RequestShape ==
    \A p \in Proc :
        /\ pc[p] # "idle" => rules[p] # <<>>
        /\ pc[p] \in {"lock", "read", "write", "unlock"}
             => idx[p] <= Len(rules[p])
        /\ pc[p] = "granted" => op[p] = "consume"
        /\ pc[p] # "idle" /\ op[p] = "rollback"
             => Len(usage[p]) = Len(rules[p])
        /\ op[p] = "consume" =>
             /\ pc[p] \in {"lock", "read", "write"} => Len(usage[p]) = idx[p] - 1
             /\ pc[p] = "unlock" /\ allowed[p] => Len(usage[p]) = idx[p]
             /\ pc[p] = "granted" => Len(usage[p]) = Len(rules[p])

(* INDUCTIVE INVARIANT.  The facts above together, which no step breaks. *)
IInv ==
    /\ TypeOK
    /\ LockOwned
    /\ SeenCurrent
    /\ StampsPast
    /\ now > 0
    /\ RequestShape
    /\ HistoryExact
    /\ WindowBound

Promise == INSTANCE SlidingWindow WITH hits <- granted, clock <- now

(* The limiter implements the sliding window, step by step. *)
ImplementsWindow == Promise!Spec

(* EVERY REQUEST IS ANSWERED.  A request that has started comes to an end, *)
(* whatever the other workers do and whoever was killed holding a lock.    *)
Answered == \A p \in Proc : pc[p] # "idle" ~> pc[p] = "idle"
=============================================================================
