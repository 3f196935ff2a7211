-------------------------- MODULE SqliteStoreProofs --------------------------
(***************************************************************************)
(* Theorems about SqliteStore, for any processes, calls, retry policy and  *)
(* number of crashes: the caches and the answers are exact, no batch is    *)
(* committed on a stale snapshot, and the store implements LedgerLog.      *)
(***************************************************************************)
EXTENDS SqliteStore, TLAPS

------------------------------------------------------------------------------
(* Logs and prefixes.                                                       *)

(***************************************************************************)
(* The second statement of #refresh folds a cache that is a prefix of the  *)
(* committed rows to exactly the committed rows.                           *)
(***************************************************************************)
LEMMA FoldIsLog ==
    ASSUME NEW S, NEW s \in Seq(S), NEW l \in Seq(S), IsPrefix(s, l)
    PROVE  s \o SubSeq(l, Len(s) + 1, Len(l)) = l
<1> DEFINE rest == SubSeq(l, Len(s) + 1, Len(l))
<1> DEFINE t == s \o rest
<1>1. Len(s) \in Nat /\ Len(l) \in Nat /\ Len(s) <= Len(l)
  BY DEF IsPrefix
<1>2. rest \in Seq(S) /\ Len(rest) = Len(l) - Len(s)
  BY <1>1
<1>3. \A i \in 1 .. Len(rest) : rest[i] = l[Len(s) + i]
  BY <1>1, <1>2
<1>4. t \in Seq(S) /\ Len(t) = Len(l)
  BY <1>1, <1>2
<1>5. /\ \A i \in 1 .. Len(s) : t[i] = s[i]
      /\ \A i \in 1 .. Len(rest) : t[Len(s) + i] = rest[i]
  BY <1>1, <1>2
<1> HIDE DEF t, rest
<1>6. ASSUME NEW i \in 1 .. Len(l)
      PROVE  t[i] = l[i]
  <2>1. CASE i <= Len(s)
    BY <2>1, <1>1, <1>5 DEF IsPrefix
  <2>2. CASE i > Len(s)
    <3>1. i - Len(s) \in 1 .. Len(rest)
      BY <2>2, <1>1, <1>2
    <3>2. t[Len(s) + (i - Len(s))] = l[Len(s) + (i - Len(s))]
      BY <3>1, <1>3, <1>5
    <3>3. Len(s) + (i - Len(s)) = i
      BY <1>1
    <3> QED
      BY <3>2, <3>3
  <2> QED
    BY <2>1, <2>2, <1>1
<1>7. t = l
  BY <1>4, <1>6
<1> QED
  BY <1>7 DEF t, rest

(***************************************************************************)
(* A prefix of the log stays one when a batch is appended.                 *)
(***************************************************************************)
LEMMA PrefixOfAppend ==
    ASSUME NEW S, NEW s \in Seq(S), NEW l \in Seq(S), NEW c \in S, IsPrefix(s, l)
    PROVE  IsPrefix(s, Append(l, c))
BY DEF IsPrefix

\* A log is a prefix of itself.
LEMMA PrefixReflexive ==
    ASSUME NEW S, NEW l \in Seq(S)
    PROVE  IsPrefix(l, l)
BY DEF IsPrefix

(***************************************************************************)
(* The members of a log extended by one batch.                             *)
(***************************************************************************)
LEMMA MembersOfAppend ==
    ASSUME NEW S, NEW l \in Seq(S), NEW c \in S
    PROVE  {Append(l, c)[i] : i \in 1 .. Len(Append(l, c))} = {l[i] : i \in 1 .. Len(l)} \cup {c}
<1> DEFINE m == Append(l, c)
<1>1. /\ Len(m) = Len(l) + 1 /\ Len(l) \in Nat
      /\ \A i \in 1 .. Len(l) : m[i] = l[i]
      /\ m[Len(l) + 1] = c
  OBVIOUS
<1> HIDE DEF m
<1>2. {m[i] : i \in 1 .. Len(m)} \subseteq {l[i] : i \in 1 .. Len(l)} \cup {c}
  BY <1>1
<1>3. {l[i] : i \in 1 .. Len(l)} \subseteq {m[i] : i \in 1 .. Len(m)}
  BY <1>1
<1>4. c \in {m[i] : i \in 1 .. Len(m)}
  BY <1>1
<1> QED
  BY <1>2, <1>3, <1>4 DEF m

------------------------------------------------------------------------------
(* The inductive invariant.                                                 *)

\* A call between two statements holds its process's thread.
ThreadHeld ==
    \A c \in Calls :
        pc[c] \in {"refreshing", "beginning", "comparing", "inserted", "publishing"}
            => thread[ProcOf[c]] = c

\* A call inside the transaction holds the write lock of the file.
LockHeld == \A c \in Calls : pc[c] \in {"comparing", "inserted"} => lock = c

\* What is about to be committed was planned on, and is accepted by, the committed log.
InsertedIsCurrent ==
    \A c \in Calls : pc[c] = "inserted" =>
        snapshot[c] = log /\ cache[ProcOf[c]] = log /\ Accepts(log, c)

\* The cache of a call that has committed and not yet published ends right before its batch.
PublishIsNext ==
    \A c \in Calls : pc[c] = "publishing" =>
        /\ Len(cache[ProcOf[c]]) < Len(log)
        /\ log[Len(cache[ProcOf[c]]) + 1] = c

\* A caller that has heard something is back.
HeardIsReturned == \A c \in Calls : pc[c] # "returned" => outcome[c] = "none"

StoreInv ==
    /\ TypeOK
    /\ ThreadHeld
    /\ LockHeld
    /\ CacheIsCommitted
    /\ InsertedIsCurrent
    /\ PublishIsNext
    /\ HeardIsReturned
    /\ OutcomeIsExact

(***************************************************************************)
(* Under the invariant a refresh returns the committed log.                *)
(***************************************************************************)
LEMMA FoldedIsLog ==
    ASSUME TypeOK, CacheIsCommitted, NEW c \in Calls
    PROVE  Folded(c) = log
<1>1. /\ ProcOf[c] \in Procs
      /\ cache[ProcOf[c]] \in Seq(Calls) /\ log \in Seq(Calls)
      /\ IsPrefix(cache[ProcOf[c]], log)
  BY ProcAssumption DEF TypeOK, CacheIsCommitted
<1> QED
  BY <1>1, FoldIsLog DEF Folded

(***************************************************************************)
(* The state before any call satisfies the invariant.                      *)
(***************************************************************************)
LEMMA StoreInit == Init => StoreInv
<1> SUFFICES ASSUME Init PROVE StoreInv
  OBVIOUS
<1> USE ProcAssumption, StoreBoundsAssumption DEF Init
<1>1. TypeOK
  BY DEF TypeOK, Outcomes
<1>2. ThreadHeld /\ LockHeld /\ InsertedIsCurrent /\ PublishIsNext /\ HeardIsReturned
  BY DEF ThreadHeld, LockHeld, InsertedIsCurrent, PublishIsNext, HeardIsReturned
<1>3. CacheIsCommitted
  BY DEF CacheIsCommitted, IsPrefix
<1>4. OutcomeIsExact
  BY DEF OutcomeIsExact, Committed
<1> QED
  BY <1>1, <1>2, <1>3, <1>4 DEF StoreInv

(***************************************************************************)
(* Every step keeps the types.                                             *)
(***************************************************************************)
LEMMA StoreTypes == StoreInv /\ [Next]_vars => TypeOK'
<1> SUFFICES ASSUME StoreInv, [Next]_vars PROVE TypeOK'
  OBVIOUS
<1> USE ProcAssumption, StoreBoundsAssumption DEF Outcomes
<1>1. TypeOK /\ CacheIsCommitted
  BY DEF StoreInv
<1>2. ASSUME NEW c \in Calls, ReadHead(c) PROVE TypeOK'
  <2>1. /\ ProcOf[c] \in Procs
        /\ thread' = [thread EXCEPT ![ProcOf[c]] = NoCall] \/ thread' = [thread EXCEPT ![ProcOf[c]] = c]
    BY <1>2 DEF ReadHead, Yield, Hold
  <2>2. thread' \in [Procs -> Calls \cup {NoCall}]
    BY <1>1, <2>1 DEF TypeOK
  <2>3. head' \in [Calls -> Seq(Calls)]
    BY <1>1, <1>2 DEF TypeOK, ReadHead
  <2>4. snapshot' = snapshot \/ snapshot' = [snapshot EXCEPT ![c] = log]
    BY <1>2 DEF ReadHead
  <2>5. snapshot' \in [Calls -> Seq(Calls)]
    BY <1>1, <2>4 DEF TypeOK
  <2>6. pc' = [pc EXCEPT ![c] = "planning"] \/ pc' = [pc EXCEPT ![c] = "refreshing"]
    BY <1>2 DEF ReadHead
  <2>7. UNCHANGED <<log, lock, cache, attempt, outcome, unheard, crashes>>
    BY <1>2 DEF ReadHead
  <2> QED
    BY <1>1, <2>2, <2>3, <2>5, <2>6, <2>7 DEF TypeOK
<1>3. ASSUME NEW c \in Calls, ReadBatches(c) PROVE TypeOK'
  <2>1. Folded(c) \in Seq(Calls)
    BY <1>1, FoldedIsLog DEF TypeOK
  <2>2. ProcOf[c] \in Procs /\ thread' = [thread EXCEPT ![ProcOf[c]] = NoCall]
    BY <1>3 DEF ReadBatches, Yield
  <2>3. thread' \in [Procs -> Calls \cup {NoCall}]
    BY <1>1, <2>2 DEF TypeOK
  <2>4. cache' = cache \/ cache' = [cache EXCEPT ![ProcOf[c]] = Folded(c)]
    BY <1>3 DEF ReadBatches
  <2>5. cache' \in [Procs -> Seq(Calls)]
    BY <1>1, <2>1, <2>2, <2>4 DEF TypeOK
  <2>6. snapshot' = snapshot \/ snapshot' = [snapshot EXCEPT ![c] = Folded(c)]
    BY <1>3 DEF ReadBatches
  <2>7. snapshot' \in [Calls -> Seq(Calls)]
    BY <1>1, <2>1, <2>6 DEF TypeOK
  <2>8. /\ pc' = [pc EXCEPT ![c] = "planning"] \/ pc' = [pc EXCEPT ![c] = "returned"]
        /\ outcome' = outcome \/ outcome' = [outcome EXCEPT ![c] = "CORRUPTION"]
    BY <1>3 DEF ReadBatches, Return
  <2>9. UNCHANGED <<log, lock, head, attempt, unheard, crashes>>
    BY <1>3 DEF ReadBatches
  <2> QED
    BY <1>1, <2>3, <2>5, <2>7, <2>8, <2>9 DEF TypeOK
<1>4. ASSUME NEW c \in Calls, Plan(c) PROVE TypeOK'
  <2>1. /\ ProcOf[c] \in Procs
        /\ thread' = [thread EXCEPT ![ProcOf[c]] = NoCall] \/ thread' = [thread EXCEPT ![ProcOf[c]] = c]
    BY <1>4 DEF Plan, Yield, Hold
  <2>2. thread' \in [Procs -> Calls \cup {NoCall}]
    BY <1>1, <2>1 DEF TypeOK
  <2>3. /\ pc' = [pc EXCEPT ![c] = "beginning"] \/ pc' = [pc EXCEPT ![c] = "returned"]
        /\ outcome' = outcome \/ outcome' = [outcome EXCEPT ![c] = "REFUSED"]
        /\ UNCHANGED <<log, lock, cache, head, snapshot, attempt, unheard, crashes>>
    BY <1>4 DEF Plan, Return
  <2> QED
    BY <1>1, <2>2, <2>3 DEF TypeOK
<1>5. ASSUME NEW c \in Calls, BeginImmediate(c) \/ BusyTimeout(c) PROVE TypeOK'
  BY <1>1, <1>5 DEF TypeOK, BeginImmediate, BusyTimeout, Yield, Return
<1>6. ASSUME NEW c \in Calls, Compare(c) PROVE TypeOK'
  <2>1. Folded(c) \in Seq(Calls)
    BY <1>1, FoldedIsLog DEF TypeOK
  <2>2. CASE Folded(c) # snapshot[c] /\ attempt[c] < MaxAttempts
    <3>1. attempt' = [attempt EXCEPT ![c] = attempt[c] + 1] /\ attempt[c] + 1 \in 1 .. MaxAttempts
      BY <1>1, <1>6, <2>2 DEF TypeOK, Compare, Retry
    <3>2. attempt' \in [Calls -> 1 .. MaxAttempts]
      BY <1>1, <3>1 DEF TypeOK
    <3> QED
      BY <1>1, <1>6, <2>1, <2>2, <3>2 DEF TypeOK, Compare, Retry, Yield
  <2>3. CASE Folded(c) # snapshot[c] /\ ~(attempt[c] < MaxAttempts)
    BY <1>1, <1>6, <2>1, <2>3 DEF TypeOK, Compare, Retry, Yield, Return
  <2>4. CASE Folded(c) = snapshot[c] /\ Accepts(Folded(c), c)
    BY <1>1, <1>6, <2>1, <2>4 DEF TypeOK, Compare
  <2>5. CASE Folded(c) = snapshot[c] /\ ~Accepts(Folded(c), c)
    BY <1>1, <1>6, <2>1, <2>5 DEF TypeOK, Compare, Yield, Return
  <2> QED
    BY <2>2, <2>3, <2>4, <2>5
<1>7. ASSUME NEW c \in Calls, Commit(c) \/ CommitFails(c) PROVE TypeOK'
  <2>1. CASE Commit(c)
    BY <1>1, <2>1 DEF TypeOK, Commit
  <2>2. CASE CommitFails(c)
    BY <1>1, <2>2 DEF TypeOK, CommitFails, Yield, Return
  <2> QED
    BY <1>7, <2>1, <2>2
<1>8. ASSUME NEW c \in Calls, Publish(c) PROVE TypeOK'
  BY <1>1, <1>8 DEF TypeOK, Publish, Yield, Return
<1>9. ASSUME NEW p \in Procs, Crash(p) PROVE TypeOK'
  BY <1>1, <1>9 DEF TypeOK, Crash
<1>10. CASE UNCHANGED vars
  BY <1>1, <1>10 DEF TypeOK, vars
<1> QED
  BY <1>2, <1>3, <1>4, <1>5, <1>6, <1>7, <1>8, <1>9, <1>10 DEF Next, Step

------------------------------------------------------------------------------
(* Threads and the lock.                                                    *)

\* A call whose process runs another call is not between two statements.
LEMMA OneThread ==
    ASSUME ThreadHeld, NEW c \in Calls, NEW d \in Calls, d # c, ProcOf[d] = ProcOf[c],
           HasThread(c)
    PROVE  pc[d] \notin {"refreshing", "beginning", "comparing", "inserted", "publishing"}
BY CallAssumption DEF ThreadHeld, HasThread

(***************************************************************************)
(* A call that acts runs on its process's thread.                          *)
(***************************************************************************)
LEMMA StepHasThread ==
    ASSUME ThreadHeld, NEW c \in Calls, Step(c)
    PROVE  HasThread(c)
BY DEF ThreadHeld, HasThread, Step, ReadHead, ReadBatches, Plan, BeginImmediate, BusyTimeout,
       Compare, Commit, CommitFails, Publish

(***************************************************************************)
(* What a step of call c leaves alone: the locals of the other calls, and  *)
(* the thread and the cache of the other processes.                        *)
(***************************************************************************)
LEMMA StepIsLocal ==
    ASSUME TypeOK, NEW c \in Calls, Step(c)
    PROVE  /\ \A d \in Calls \ {c} :
                pc'[d] = pc[d] /\ snapshot'[d] = snapshot[d] /\ outcome'[d] = outcome[d]
           /\ \A p \in Procs \ {ProcOf[c]} : thread'[p] = thread[p] /\ cache'[p] = cache[p]
           /\ unheard' = unheard
<1> USE ProcAssumption DEF TypeOK
<1>1. CASE ReadHead(c)
  BY <1>1 DEF ReadHead, Yield, Hold
<1>2. CASE ReadBatches(c)
  BY <1>2 DEF ReadBatches, Yield, Return
<1>3. CASE Plan(c)
  BY <1>3 DEF Plan, Yield, Hold, Return
<1>4. CASE BeginImmediate(c) \/ BusyTimeout(c)
  BY <1>4 DEF BeginImmediate, BusyTimeout, Yield, Return
<1>5. CASE Compare(c)
  BY <1>5 DEF Compare, Retry, Yield, Return
<1>6. CASE Commit(c) \/ CommitFails(c)
  BY <1>6 DEF Commit, CommitFails, Yield, Return
<1>7. CASE Publish(c)
  BY <1>7 DEF Publish, Yield, Return
<1> QED
  BY <1>1, <1>2, <1>3, <1>4, <1>5, <1>6, <1>7 DEF Step

(***************************************************************************)
(* The acting call holds its thread afterwards when it stops between two   *)
(* statements, and the lock when it stops inside the transaction; the log  *)
(* changes only when it commits.                                           *)
(***************************************************************************)
LEMMA StepKeepsHolds ==
    ASSUME StoreInv, NEW c \in Calls, Step(c)
    PROVE  /\ pc'[c] \in {"refreshing", "beginning", "comparing", "inserted", "publishing"}
                => thread'[ProcOf[c]] = c
           /\ pc'[c] \in {"comparing", "inserted"} => lock' = c
           /\ lock' \in {lock, c, NoCall}
           /\ lock' # lock => lock \in {c, NoCall}
           /\ log' # log => Commit(c)
<1> USE ProcAssumption DEF TypeOK, StoreInv, ThreadHeld, LockHeld
<1>1. CASE ReadHead(c)
  BY <1>1 DEF ReadHead, Yield, Hold
<1>2. CASE ReadBatches(c)
  BY <1>2 DEF ReadBatches, Yield, Return
<1>3. CASE Plan(c)
  BY <1>3 DEF Plan, Yield, Hold, Return
<1>4. CASE BeginImmediate(c) \/ BusyTimeout(c)
  BY <1>4 DEF BeginImmediate, BusyTimeout, Yield, Return
<1>5. CASE Compare(c)
  BY <1>5 DEF Compare, Retry, Yield, Return
<1>6. CASE Commit(c) \/ CommitFails(c)
  BY <1>6 DEF Commit, CommitFails, Yield, Return
<1>7. CASE Publish(c)
  BY <1>7 DEF Publish, Yield, Return
<1> QED
  BY <1>1, <1>2, <1>3, <1>4, <1>5, <1>6, <1>7 DEF Step

(***************************************************************************)
(* Mutual exclusion is kept: of the thread within a process, of the write  *)
(* lock between processes.                                                 *)
(***************************************************************************)
LEMMA HoldsStep == StoreInv /\ [Next]_vars => ThreadHeld' /\ LockHeld'
<1> SUFFICES ASSUME StoreInv, [Next]_vars PROVE ThreadHeld' /\ LockHeld'
  OBVIOUS
<1>0. TypeOK /\ ThreadHeld /\ LockHeld
  BY DEF StoreInv
<1>1. ASSUME NEW c \in Calls, Step(c) PROVE ThreadHeld' /\ LockHeld'
  <2>1. HasThread(c)
    BY <1>0, <1>1, StepHasThread
  <2>2. ASSUME NEW d \in Calls,
               pc'[d] \in {"refreshing", "beginning", "comparing", "inserted", "publishing"}
        PROVE  thread'[ProcOf[d]] = d
    <3>1. CASE d = c
      BY <1>1, <2>2, <3>1, StepKeepsHolds
    <3>2. CASE d # c
      <4>1. pc'[d] = pc[d]
        BY <1>0, <1>1, <3>2, StepIsLocal
      <4>2. ProcOf[d] # ProcOf[c]
        BY <1>0, <2>1, <2>2, <3>2, <4>1, OneThread
      <4>3. ProcOf[d] \in Procs \ {ProcOf[c]}
        BY <4>2, ProcAssumption
      <4>4. thread'[ProcOf[d]] = thread[ProcOf[d]]
        BY <1>0, <1>1, <4>3, StepIsLocal
      <4> QED
        BY <1>0, <2>2, <4>1, <4>4 DEF ThreadHeld
    <3> QED
      BY <3>1, <3>2
  <2>3. ASSUME NEW d \in Calls, pc'[d] \in {"comparing", "inserted"}
        PROVE  lock' = d
    <3>1. CASE d = c
      BY <1>1, <2>3, <3>1, StepKeepsHolds
    <3>2. CASE d # c
      <4>1. pc'[d] = pc[d]
        BY <1>0, <1>1, <3>2, StepIsLocal
      <4>2. lock = d
        BY <1>0, <2>3, <4>1 DEF LockHeld
      <4> QED
        BY <1>1, <3>2, <4>2, CallAssumption, StepKeepsHolds
    <3> QED
      BY <3>1, <3>2
  <2> QED
    BY <2>2, <2>3 DEF ThreadHeld, LockHeld
<1>2. ASSUME NEW p \in Procs, Crash(p) PROVE ThreadHeld' /\ LockHeld'
  <2>1. ThreadHeld'
    BY <1>0, <1>2, ProcAssumption DEF TypeOK, ThreadHeld, Crash
  <2>2. LockHeld'
    BY <1>0, <1>2 DEF TypeOK, LockHeld, Crash
  <2> QED
    BY <2>1, <2>2
<1>3. CASE UNCHANGED vars
  BY <1>0, <1>3 DEF vars, ThreadHeld, LockHeld
<1> QED
  BY <1>1, <1>2, <1>3 DEF Next

------------------------------------------------------------------------------
(* Caches, snapshots and answers.                                           *)

(***************************************************************************)
(* No step writes the cache of a call that is inside its transaction or    *)
(* about to publish, except that call's own.                               *)
(***************************************************************************)
LEMMA CacheOfHolder ==
    ASSUME StoreInv, NEW c \in Calls, Step(c), NEW d \in Calls \ {c},
           pc[d] \in {"inserted", "publishing"}
    PROVE  cache'[ProcOf[d]] = cache[ProcOf[d]]
<1>1. TypeOK /\ ThreadHeld
  BY DEF StoreInv
<1>2. HasThread(c)
  BY <1>1, StepHasThread
<1>3. ProcOf[d] \in Procs \ {ProcOf[c]}
  BY <1>1, <1>2, OneThread, ProcAssumption
<1> QED
  BY <1>1, <1>3, StepIsLocal

(***************************************************************************)
(* The cache a step leaves its process with is a prefix of the log.        *)
(***************************************************************************)
LEMMA CacheStep ==
    ASSUME StoreInv, NEW c \in Calls, Step(c)
    PROVE  CacheIsCommitted'
<1> DEFINE p == ProcOf[c]
<1>0. /\ TypeOK /\ CacheIsCommitted /\ p \in Procs
      /\ log \in Seq(Calls) /\ cache[p] \in Seq(Calls) /\ IsPrefix(cache[p], log)
  BY ProcAssumption DEF StoreInv, TypeOK, CacheIsCommitted
<1>1. \A q \in Procs \ {p} : cache'[q] = cache[q]
  BY <1>0, StepIsLocal
<1>2. CASE Commit(c)
  <2>1. log' = Append(log, c) /\ cache' = cache
    BY <1>2 DEF Commit
  <2>2. ASSUME NEW q \in Procs PROVE IsPrefix(cache[q], Append(log, c))
    <3>1. cache[q] \in Seq(Calls) /\ IsPrefix(cache[q], log)
      BY <1>0 DEF TypeOK, CacheIsCommitted
    <3> QED
      BY <1>0, <3>1, PrefixOfAppend
  <2> QED
    BY <2>1, <2>2 DEF CacheIsCommitted
<1>3. CASE ~Commit(c)
  <2>1. log' = log
    BY <1>3, StepKeepsHolds
  <2>2. IsPrefix(cache'[p], log)
    <3>1. CASE Publish(c)
      <4>1. cache'[p] = Append(cache[p], c)
        BY <1>0, <3>1 DEF Publish, TypeOK
      <4>2. Len(cache[p]) < Len(log) /\ log[Len(cache[p]) + 1] = c
        BY <3>1 DEF Publish, StoreInv, PublishIsNext
      <4> HIDE DEF p
      <4> QED
        BY <1>0, <4>1, <4>2 DEF IsPrefix
    <3>2. CASE cache'[p] \in {cache[p], Folded(c)}
      BY <1>0, <3>2, FoldedIsLog, PrefixReflexive
    <3> QED
      BY <1>0, <1>3, <3>1, <3>2
         DEF Step, ReadHead, ReadBatches, Plan, BeginImmediate, BusyTimeout, Compare, CommitFails,
             TypeOK
  <2> QED
    BY <1>0, <1>1, <2>1, <2>2 DEF CacheIsCommitted
<1> QED
  BY <1>2, <1>3

(***************************************************************************)
(* What a call is about to commit stays current until it commits: the      *)
(* write lock keeps the log, and the thread keeps the cache.               *)
(***************************************************************************)
LEMMA InsertedStep ==
    ASSUME StoreInv, NEW c \in Calls, Step(c)
    PROVE  InsertedIsCurrent'
<1>0. TypeOK /\ CacheIsCommitted /\ LockHeld /\ InsertedIsCurrent
  BY DEF StoreInv
<1> SUFFICES ASSUME NEW d \in Calls, pc'[d] = "inserted"
             PROVE  snapshot'[d] = log' /\ cache'[ProcOf[d]] = log' /\ Accepts(log', d)
  BY DEF InsertedIsCurrent, Accepts
<1>1. CASE d = c
  <2>1. Compare(c)
    BY <1>0, <1>1 DEF TypeOK, Step, ReadHead, ReadBatches, Plan, BeginImmediate, BusyTimeout,
                      Commit, CommitFails, Publish, Return
  <2>2. Folded(c) = log
    BY <1>0, FoldedIsLog
  <2>3. log' = log /\ snapshot' = snapshot /\ cache'[ProcOf[c]] = log
    BY <1>0, <2>1, <2>2, ProcAssumption DEF Compare, TypeOK
  <2>4. Folded(c) = snapshot[c] /\ Accepts(Folded(c), c)
    BY <1>0, <1>1, <2>1 DEF Compare, Retry, Return, TypeOK
  <2> QED
    BY <1>1, <2>2, <2>3, <2>4
<1>2. CASE d # c
  <2>1. pc[d] = "inserted" /\ snapshot'[d] = snapshot[d]
    BY <1>0, <1>2, StepIsLocal
  <2>2. ~Commit(c)
    BY <1>0, <1>2, <2>1 DEF LockHeld, Commit
  <2>3. log' = log
    BY <2>2, StepKeepsHolds
  <2>4. cache'[ProcOf[d]] = cache[ProcOf[d]]
    BY <1>2, <2>1, CacheOfHolder
  <2> QED
    BY <1>0, <2>1, <2>3, <2>4 DEF InsertedIsCurrent
<1> QED
  BY <1>1, <1>2

(***************************************************************************)
(* A call that committed finds its batch right after its cache, also when  *)
(* others commit before it publishes.                                      *)
(***************************************************************************)
LEMMA PublishStep ==
    ASSUME StoreInv, NEW c \in Calls, Step(c)
    PROVE  PublishIsNext'
<1>0. /\ TypeOK /\ InsertedIsCurrent /\ PublishIsNext
      /\ log \in Seq(Calls) /\ cache \in [Procs -> Seq(Calls)]
  BY DEF StoreInv, TypeOK
<1> SUFFICES ASSUME NEW d \in Calls, pc'[d] = "publishing"
             PROVE  /\ Len(cache'[ProcOf[d]]) < Len(log')
                    /\ log'[Len(cache'[ProcOf[d]]) + 1] = d
  BY DEF PublishIsNext
<1>1. CASE d = c
  <2>1. Commit(c)
    BY <1>0, <1>1 DEF TypeOK, Step, ReadHead, ReadBatches, Plan, BeginImmediate, BusyTimeout,
                      Compare, Retry, CommitFails, Publish, Return
  <2>2. log' = Append(log, c) /\ cache'[ProcOf[c]] = log
    BY <1>0, <2>1 DEF Commit, InsertedIsCurrent
  <2> QED
    BY <1>0, <1>1, <2>2
<1>2. CASE d # c
  <2>1. pc[d] = "publishing"
    BY <1>0, <1>2, StepIsLocal
  <2>2. cache'[ProcOf[d]] = cache[ProcOf[d]]
    BY <1>2, <2>1, CacheOfHolder
  <2>3. log' = log \/ log' = Append(log, c)
    BY StepKeepsHolds DEF Commit
  <2>4. cache[ProcOf[d]] \in Seq(Calls)
    BY <1>0, ProcAssumption
  <2>5. Len(cache[ProcOf[d]]) < Len(log) /\ log[Len(cache[ProcOf[d]]) + 1] = d
    BY <1>0, <2>1 DEF PublishIsNext
  <2>6. CASE log' = log
    BY <2>2, <2>5, <2>6
  <2>7. CASE log' = Append(log, c)
    <3> DEFINE n == Len(cache[ProcOf[d]])
    <3>1. n \in Nat /\ n + 1 \in 1 .. Len(log)
      BY <1>0, <2>4, <2>5
    <3> HIDE DEF n
    <3>2. Len(Append(log, c)) = Len(log) + 1 /\ Append(log, c)[n + 1] = log[n + 1]
      BY <1>0, <3>1
    <3> QED
      BY <1>0, <2>2, <2>5, <2>7, <3>1, <3>2 DEF n
  <2> QED
    BY <2>3, <2>6, <2>7
<1> QED
  BY <1>1, <1>2

(***************************************************************************)
(* A call's answer comes with its return, and COMMITTED comes only from    *)
(* publishing.                                                             *)
(***************************************************************************)
LEMMA AnswerOfStep ==
    ASSUME TypeOK, NEW c \in Calls, Step(c)
    PROVE  /\ pc'[c] # "returned" => outcome'[c] = outcome[c]
           /\ outcome'[c] = "COMMITTED" <=> (outcome[c] = "COMMITTED" /\ pc'[c] # "returned")
                                             \/ pc[c] = "publishing"
           /\ pc'[c] = "publishing" <=> Commit(c)
           /\ pc[c] # "returned"
<1> USE DEF TypeOK
<1>1. CASE ReadHead(c)
  BY <1>1 DEF ReadHead, Commit
<1>2. CASE ReadBatches(c)
  BY <1>2 DEF ReadBatches, Return, Commit
<1>3. CASE Plan(c)
  BY <1>3 DEF Plan, Return, Commit
<1>4. CASE BeginImmediate(c) \/ BusyTimeout(c)
  BY <1>4 DEF BeginImmediate, BusyTimeout, Return, Commit
<1>5. CASE Compare(c)
  BY <1>5 DEF Compare, Retry, Return, Commit
<1>6. CASE Commit(c)
  BY <1>6 DEF Commit
<1>7. CASE CommitFails(c)
  BY <1>7 DEF CommitFails, Return, Commit
<1>8. CASE Publish(c)
  BY <1>8 DEF Publish, Return, Commit
<1> QED
  BY <1>1, <1>2, <1>3, <1>4, <1>5, <1>6, <1>7, <1>8 DEF Step

(***************************************************************************)
(* A step keeps the answers exact.                                         *)
(***************************************************************************)
LEMMA OutcomeStep ==
    ASSUME StoreInv, NEW c \in Calls, Step(c)
    PROVE  HeardIsReturned' /\ OutcomeIsExact'
<1>0. TypeOK /\ HeardIsReturned /\ OutcomeIsExact /\ InsertedIsCurrent
  BY DEF StoreInv
<1>1. HeardIsReturned'
  <2> SUFFICES ASSUME NEW d \in Calls, pc'[d] # "returned" PROVE outcome'[d] = "none"
    BY DEF HeardIsReturned
  <2> QED
    BY <1>0, StepIsLocal, AnswerOfStep DEF HeardIsReturned
<1>2. Committed' = IF Commit(c) THEN Committed \cup {c} ELSE Committed
  <2>1. CASE Commit(c)
    <3>1. log' = Append(log, c) /\ log \in Seq(Calls)
      BY <1>0, <2>1 DEF Commit, TypeOK
    <3> QED
      BY <2>1, <3>1, MembersOfAppend DEF Committed
  <2>2. CASE ~Commit(c)
    BY <2>2, StepKeepsHolds DEF Committed
  <2> QED
    BY <2>1, <2>2
<1>3. OutcomeIsExact'
  <2> SUFFICES ASSUME NEW d \in Calls
               PROVE  (d \in Committed' <=>
                         (outcome'[d] = "COMMITTED" \/ d \in unheard' \/ pc'[d] = "publishing"))
    BY DEF OutcomeIsExact
  <2>1. unheard' = unheard
    BY <1>0, StepIsLocal
  <2>2. CASE d # c
    BY <1>0, <1>2, <2>1, <2>2, StepIsLocal DEF OutcomeIsExact
  <2>3. CASE d = c
    <3>1. outcome[c] = "none"
      BY <1>0, AnswerOfStep DEF HeardIsReturned
    <3> QED
      BY <1>0, <1>2, <2>1, <2>3, <3>1, AnswerOfStep DEF OutcomeIsExact
  <2> QED
    BY <2>2, <2>3
<1> QED
  BY <1>1, <1>3

(***************************************************************************)
(* A crash leaves the log alone, empties the cache of one process and      *)
(* turns its committed calls without an answer into unheard ones.          *)
(***************************************************************************)
LEMMA CrashStep ==
    ASSUME StoreInv, NEW p \in Procs, Crash(p)
    PROVE  /\ CacheIsCommitted' /\ InsertedIsCurrent' /\ PublishIsNext'
           /\ HeardIsReturned' /\ OutcomeIsExact'
<1>0. TypeOK
  BY DEF StoreInv
<1>1. CacheIsCommitted'
  <2>1. log' = log /\ cache' = [cache EXCEPT ![p] = <<>>] /\ log \in Seq(Calls)
    BY <1>0 DEF Crash, TypeOK
  <2>2. ASSUME NEW q \in Procs PROVE IsPrefix(cache'[q], log)
    <3>1. CASE q = p
      <4>1. cache'[q] = <<>>
        BY <1>0, <2>1, <3>1 DEF TypeOK
      <4> QED
        BY <2>1, <4>1 DEF IsPrefix
    <3>2. CASE q # p
      BY <1>0, <2>1, <3>2 DEF TypeOK, StoreInv, CacheIsCommitted
    <3> QED
      BY <3>1, <3>2
  <2> QED
    BY <2>1, <2>2 DEF CacheIsCommitted
<1>2. InsertedIsCurrent' /\ PublishIsNext'
  <2>1. ASSUME NEW d \in Calls, pc'[d] \in {"inserted", "publishing"}
        PROVE  pc'[d] = pc[d] /\ cache'[ProcOf[d]] = cache[ProcOf[d]]
    BY <1>0, <2>1, ProcAssumption DEF TypeOK, Crash
  <2>2. log' = log /\ snapshot' = snapshot
    BY DEF Crash
  <2> QED
    BY <2>1, <2>2 DEF StoreInv, InsertedIsCurrent, PublishIsNext, Accepts
<1>3. HeardIsReturned'
  BY <1>0 DEF StoreInv, TypeOK, Crash, HeardIsReturned
<1>4. OutcomeIsExact'
  <2>1. Committed' = Committed /\ outcome' = outcome
    BY DEF Crash, Committed
  <2>2. ASSUME NEW d \in Calls
        PROVE  (d \in unheard' \/ pc'[d] = "publishing") <=> (d \in unheard \/ pc[d] = "publishing")
    BY <1>0 DEF TypeOK, Crash
  <2> QED
    BY <2>1, <2>2 DEF StoreInv, OutcomeIsExact
<1> QED
  BY <1>1, <1>2, <1>3, <1>4

(***************************************************************************)
(* Every step keeps the invariant.                                         *)
(***************************************************************************)
LEMMA StoreStep == StoreInv /\ [Next]_vars => StoreInv'
<1> SUFFICES ASSUME StoreInv, [Next]_vars PROVE StoreInv'
  OBVIOUS
<1>1. TypeOK' /\ ThreadHeld' /\ LockHeld'
  BY StoreTypes, HoldsStep
<1>2. ASSUME NEW c \in Calls, Step(c) PROVE StoreInv'
  BY <1>1, <1>2, CacheStep, InsertedStep, PublishStep, OutcomeStep DEF StoreInv
<1>3. ASSUME NEW p \in Procs, Crash(p) PROVE StoreInv'
  BY <1>1, <1>3, CrashStep DEF StoreInv
<1>4. CASE UNCHANGED vars
  <2>1. CacheIsCommitted'
    BY <1>4 DEF StoreInv, vars, CacheIsCommitted
  <2>2. InsertedIsCurrent' /\ PublishIsNext'
    BY <1>4 DEF StoreInv, vars, InsertedIsCurrent, PublishIsNext, Accepts
  <2>3. HeardIsReturned' /\ OutcomeIsExact'
    BY <1>4 DEF StoreInv, vars, HeardIsReturned, OutcomeIsExact, Committed
  <2> QED
    BY <1>1, <2>1, <2>2, <2>3 DEF StoreInv
<1> QED
  BY <1>2, <1>3, <1>4 DEF Next

(***************************************************************************)
(* The invariant holds of every state of the store.                        *)
(***************************************************************************)
LEMMA StoreInvariant == Spec => []StoreInv
BY StoreInit, StoreStep, PTL DEF Spec

------------------------------------------------------------------------------
(* Theorems.                                                                *)

(***************************************************************************)
(* store.ts, #refresh and append: whatever rolls back, dies or overlaps,   *)
(* the cache of every process is a prefix of the committed rows.           *)
(***************************************************************************)
THEOREM CachesAreCommitted == Spec => []CacheIsCommitted
<1>1. StoreInv => CacheIsCommitted
  BY DEF StoreInv
<1> QED
  BY <1>1, StoreInvariant, PTL

(***************************************************************************)
(* engine.ts, #commit: a caller hears COMMITTED exactly when its batch is  *)
(* durable, unless its process died before the answer.                     *)
(***************************************************************************)
THEOREM AnswersAreExact == Spec => []OutcomeIsExact
<1>1. StoreInv => OutcomeIsExact
  BY DEF StoreInv
<1> QED
  BY <1>1, StoreInvariant, PTL

(***************************************************************************)
(* The only step that changes the log is the commit of a batch that was    *)
(* planned on that log and that the reducer accepts there.                 *)
(***************************************************************************)
LEMMA LogStep ==
    ASSUME StoreInv, [Next]_vars
    PROVE  \/ log' = log
           \/ \E c \in Calls : log' = Append(log, c) /\ snapshot[c] = log /\ Accepts(log, c)
<1>1. ASSUME NEW c \in Calls, Step(c)
      PROVE  log' = log \/ (log' = Append(log, c) /\ snapshot[c] = log /\ Accepts(log, c))
  <2>1. CASE Commit(c)
    BY <2>1 DEF Commit, StoreInv, InsertedIsCurrent
  <2>2. CASE ~Commit(c)
    BY <1>1, <2>2, StepKeepsHolds
  <2> QED
    BY <2>1, <2>2
<1>2. ASSUME NEW p \in Procs, Crash(p) PROVE log' = log
  BY <1>2 DEF Crash
<1>3. CASE UNCHANGED vars
  BY <1>3 DEF vars
<1> QED
  BY <1>1, <1>2, <1>3 DEF Next

(***************************************************************************)
(* CONC-1 of engine.ts: a batch is committed only on the state it was      *)
(* planned from.                                                           *)
(***************************************************************************)
THEOREM CommitsAreCurrent == Spec => NoStaleCommit
<1>1. ASSUME StoreInv, [Next]_vars
      PROVE  [\A c \in Calls : log' = Append(log, c) => snapshot[c] = log]_vars
  <2> SUFFICES ASSUME NEW c \in Calls, log' = Append(log, c) PROVE snapshot[c] = log
    OBVIOUS
  <2>1. log \in Seq(Calls)
    BY <1>1 DEF StoreInv, TypeOK
  <2>2. log' # log
    BY <2>1
  <2>3. PICK d \in Calls : log' = Append(log, d) /\ snapshot[d] = log
    BY <1>1, <2>2, LogStep
  <2>4. c = d
    <3>1. Append(log, c)[Len(log) + 1] = c /\ Append(log, d)[Len(log) + 1] = d
      BY <2>1
    <3> QED
      BY <2>3, <3>1
  <2> QED
    BY <2>3, <2>4
<1> QED
  BY <1>1, StoreInvariant, PTL DEF Spec, NoStaleCommit

(***************************************************************************)
(* The SQLite store under concurrent engines, retries and crashes          *)
(* implements the abstract log of store.ts: one whole batch at a time,     *)
(* accepted by the reducer in the state it extends.                        *)
(***************************************************************************)
THEOREM StoreImplementsLog == Spec => ImplementsLog
<1>1. Init => Abstract!LogInit
  BY DEF Init, Abstract!LogInit
<1>2. ASSUME StoreInv, [Next]_vars PROVE [Abstract!LogNext]_log
  <2>1. CASE log' = log
    BY <2>1
  <2>2. ASSUME NEW c \in Calls, log' = Append(log, c), Accepts(log, c)
        PROVE  Abstract!LogNext
    BY <2>2 DEF Accepts, Abstract!LogNext, Abstract!AppendBatch, Abstract!Accepts,
                Abstract!Committed
  <2> QED
    BY <1>2, <2>1, <2>2, LogStep
<1> QED
  BY <1>1, <1>2, StoreInvariant, PTL DEF Spec, ImplementsLog, Abstract!LogSpec
==============================================================================
