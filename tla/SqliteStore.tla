----------------------------- MODULE SqliteStore -----------------------------
(***************************************************************************)
(* Engines that commit by compare-and-append to one SQLite file:           *)
(* AuthorityLedger.#commit of packages/ledger/src/engine.ts over           *)
(* SqliteLedgerStore of packages/ledger-sqlite/src/store.ts, for one       *)
(* principal.                                                              *)
(*                                                                         *)
(* Several processes open the file.  The calls of one process share its    *)
(* thread and its cache and interleave only at an await; processes         *)
(* interleave at every statement, except that BEGIN IMMEDIATE admits one   *)
(* writer at a time.  A process may die between any two statements.        *)
(*                                                                         *)
(* The head digest chains over the whole history, so a head is modelled by *)
(* the sequence of batches it commits to.                                  *)
(***************************************************************************)
EXTENDS Naturals, Sequences, FiniteSets

CONSTANTS
    Procs,        \* the processes that opened the file
    Calls,        \* the calls in flight; a call's batch is named by the call
    ProcOf,       \* Calls -> Procs
    NoCall,       \* nobody
    MaxAttempts,  \* retry.maxAttempts
    Limit,        \* how many batches the reducer accepts
    MaxCrashes    \* bound: processes that die

ASSUME ProcAssumption == ProcOf \in [Calls -> Procs]
ASSUME CallAssumption == NoCall \notin Calls
ASSUME StoreBoundsAssumption ==
    MaxAttempts \in Nat \ {0} /\ Limit \in Nat /\ MaxCrashes \in Nat

VARIABLES
    log,       \* the committed rows of ledger_batches
    lock,      \* the call holding the write lock, or NoCall
    cache,     \* per process: the batches folded into the cached state
    thread,    \* per process: the call its thread is running, or NoCall
    pc,        \* per call: where it is
    head,      \* per call: the head row it read
    snapshot,  \* per call: the state its plan was computed from
    attempt,   \* per call: the attempt it is making
    outcome,   \* per call: what its caller heard
    unheard,   \* the calls that died between COMMIT and their answer
    crashes    \* processes that died

vars == <<log, lock, cache, thread, pc, head, snapshot, attempt, outcome, unheard, crashes>>

Init ==
    /\ log = <<>>
    /\ lock = NoCall
    /\ cache = [p \in Procs |-> <<>>]
    /\ thread = [p \in Procs |-> NoCall]
    /\ pc = [c \in Calls |-> "called"]
    /\ head = [c \in Calls |-> <<>>]
    /\ snapshot = [c \in Calls |-> <<>>]
    /\ attempt = [c \in Calls |-> 1]
    /\ outcome = [c \in Calls |-> "none"]
    /\ unheard = {}
    /\ crashes = 0

Committed == {log[i] : i \in 1 .. Len(log)}

\* applyBatch: the reducer accepts the call's batch in a state.
Accepts(state, c) == c \notin {state[i] : i \in 1 .. Len(state)} /\ Len(state) < Limit

\* The call runs, or may take, its process's thread.
HasThread(c) == thread[ProcOf[c]] \in {NoCall, c}

Yield(c) == thread' = [thread EXCEPT ![ProcOf[c]] = NoCall]
Hold(c) == thread' = [thread EXCEPT ![ProcOf[c]] = c]

\* The call ends: its caller hears result.
Return(c, result) ==
    /\ outcome' = [outcome EXCEPT ![c] = result]
    /\ pc' = [pc EXCEPT ![c] = "returned"]

(***************************************************************************)
(* #refresh, the second statement: the rows after the cached version, each *)
(* decoded, re-applied and folded onto the cache.                          *)
(***************************************************************************)
Folded(c) == LET seen == cache[ProcOf[c]] IN seen \o SubSeq(log, Len(seen) + 1, Len(log))

------------------------------------------------------------------------------

(***************************************************************************)
(* read, the first statement of #refresh: the head row.  A cache that is   *)
(* already at the head is the snapshot.                                    *)
(***************************************************************************)
ReadHead(c) ==
    /\ pc[c] = "called" /\ HasThread(c)
    /\ head' = [head EXCEPT ![c] = log]
    /\ IF cache[ProcOf[c]] = log
       THEN /\ snapshot' = [snapshot EXCEPT ![c] = log]
            /\ pc' = [pc EXCEPT ![c] = "planning"]
            /\ Yield(c)
       ELSE /\ pc' = [pc EXCEPT ![c] = "refreshing"]
            /\ Hold(c)
            /\ UNCHANGED snapshot
    /\ UNCHANGED <<log, lock, cache, attempt, outcome, unheard, crashes>>

(***************************************************************************)
(* read, the second statement: outside a transaction another process may   *)
(* have committed since the head row was read.                             *)
(***************************************************************************)
ReadBatches(c) ==
    /\ pc[c] = "refreshing"
    /\ Yield(c)
    /\ IF Folded(c) = head[c]
       THEN /\ cache' = [cache EXCEPT ![ProcOf[c]] = Folded(c)]
            /\ snapshot' = [snapshot EXCEPT ![c] = Folded(c)]
            /\ pc' = [pc EXCEPT ![c] = "planning"]
            /\ UNCHANGED outcome
       ELSE Return(c, "CORRUPTION") /\ UNCHANGED <<cache, snapshot>>
    /\ UNCHANGED <<log, lock, head, attempt, unheard, crashes>>

(***************************************************************************)
(* plan and projection, from the snapshot alone.                           *)
(***************************************************************************)
Plan(c) ==
    /\ pc[c] = "planning" /\ HasThread(c)
    /\ IF Accepts(snapshot[c], c)
       THEN pc' = [pc EXCEPT ![c] = "beginning"] /\ Hold(c) /\ UNCHANGED outcome
       ELSE Return(c, "REFUSED") /\ Yield(c)
    /\ UNCHANGED <<log, lock, cache, head, snapshot, attempt, unheard, crashes>>

\* A faulty variant: the comparison is made without the write lock.
FaultyBeginDeferred(c) ==
    /\ pc[c] = "beginning"
    /\ pc' = [pc EXCEPT ![c] = "comparing"]
    /\ UNCHANGED <<log, lock, cache, thread, head, snapshot, attempt, outcome, unheard, crashes>>

\* BEGIN IMMEDIATE takes the write lock of the file.
BeginImmediate(c) ==
    /\ pc[c] = "beginning" /\ lock = NoCall
    /\ lock' = c
    /\ pc' = [pc EXCEPT ![c] = "comparing"]
    /\ UNCHANGED <<log, cache, thread, head, snapshot, attempt, outcome, unheard, crashes>>

\* busy_timeout bounds the wait for the lock; nothing was written.
BusyTimeout(c) ==
    /\ pc[c] = "beginning" /\ lock # NoCall
    /\ Return(c, "THROWN") /\ Yield(c)
    /\ UNCHANGED <<log, lock, cache, head, snapshot, attempt, unheard, crashes>>

\* A faulty variant: the same, without counting.
FaultyRetryForever(c) ==
    /\ pc' = [pc EXCEPT ![c] = "planning"]
    /\ UNCHANGED <<attempt, outcome>>

\* A lost race: read again, or give up after the last attempt.
Retry(c) ==
    IF attempt[c] < MaxAttempts
    THEN /\ attempt' = [attempt EXCEPT ![c] = @ + 1]
         /\ pc' = [pc EXCEPT ![c] = "called"]
         /\ UNCHANGED outcome
    ELSE Return(c, "CONFLICT") /\ UNCHANGED attempt

\* A faulty variant: the committed head is not compared with the snapshot.
FaultyCompareAlwaysMatches(c) ==
    /\ pc[c] = "comparing"
    /\ cache' = [cache EXCEPT ![ProcOf[c]] = Folded(c)]
    /\ IF Accepts(Folded(c), c)
       THEN pc' = [pc EXCEPT ![c] = "inserted"] /\ UNCHANGED <<lock, thread, outcome>>
       ELSE lock' = NoCall /\ Return(c, "REFUSED") /\ Yield(c)
    /\ UNCHANGED <<log, head, snapshot, attempt, unheard, crashes>>

\* A faulty variant: the cache is advanced before the transaction commits.
FaultyCompareCachesFirst(c) ==
    /\ pc[c] = "comparing"
    /\ IF Folded(c) # snapshot[c]
       THEN /\ lock' = NoCall /\ Retry(c) /\ Yield(c)
            /\ cache' = [cache EXCEPT ![ProcOf[c]] = Folded(c)]
       ELSE /\ pc' = [pc EXCEPT ![c] = "inserted"]
            /\ cache' = [cache EXCEPT ![ProcOf[c]] = Append(Folded(c), c)]
            /\ UNCHANGED <<lock, thread, attempt, outcome>>
    /\ UNCHANGED <<log, head, snapshot, unheard, crashes>>

(***************************************************************************)
(* Inside the transaction: refresh, compare with the snapshot, re-apply    *)
(* the batch to the committed state, insert the rows.  Under the write     *)
(* lock both statements of the refresh see the same head.                  *)
(***************************************************************************)
Compare(c) ==
    /\ pc[c] = "comparing"
    /\ cache' = [cache EXCEPT ![ProcOf[c]] = Folded(c)]
    /\ IF Folded(c) # snapshot[c]
       THEN lock' = NoCall /\ Retry(c) /\ Yield(c)
       ELSE IF Accepts(Folded(c), c)
            THEN pc' = [pc EXCEPT ![c] = "inserted"] /\ UNCHANGED <<lock, thread, attempt, outcome>>
            ELSE lock' = NoCall /\ Return(c, "REFUSED") /\ Yield(c) /\ UNCHANGED attempt
    /\ UNCHANGED <<log, head, snapshot, unheard, crashes>>

\* COMMIT: the batch and the head are durable together, and the lock is free.
Commit(c) ==
    /\ pc[c] = "inserted"
    /\ log' = Append(log, c)
    /\ lock' = NoCall
    /\ pc' = [pc EXCEPT ![c] = "publishing"]
    /\ UNCHANGED <<cache, thread, head, snapshot, attempt, outcome, unheard, crashes>>

\* A faulty variant: the failure is swallowed.
FaultyCommitFailureSwallowed(c) ==
    /\ pc[c] = "inserted"
    /\ lock' = NoCall
    /\ Return(c, "COMMITTED") /\ Yield(c)
    /\ UNCHANGED <<log, cache, head, snapshot, attempt, unheard, crashes>>

\* A statement of the transaction throws: ROLLBACK, and the caller hears the error.
CommitFails(c) ==
    /\ pc[c] = "inserted"
    /\ lock' = NoCall
    /\ Return(c, "THROWN") /\ Yield(c)
    /\ UNCHANGED <<log, cache, head, snapshot, attempt, unheard, crashes>>

\* After COMMIT: the cache follows and the caller hears COMMITTED.
Publish(c) ==
    /\ pc[c] = "publishing"
    /\ cache' = [cache EXCEPT ![ProcOf[c]] = Append(@, c)]
    /\ Return(c, "COMMITTED") /\ Yield(c)
    /\ UNCHANGED <<log, lock, head, snapshot, attempt, unheard, crashes>>

(***************************************************************************)
(* A process dies and is started again: its open transaction rolls back,   *)
(* its cache is empty, and the callers that heard nothing call again.      *)
(***************************************************************************)
Crash(p) ==
    LET lost == {c \in Calls : ProcOf[c] = p /\ pc[c] # "returned"}
    IN  /\ crashes < MaxCrashes /\ lost # {}
        /\ crashes' = crashes + 1
        /\ lock' = IF lock \in lost THEN NoCall ELSE lock
        /\ cache' = [cache EXCEPT ![p] = <<>>]
        /\ thread' = [thread EXCEPT ![p] = NoCall]
        /\ pc' = [c \in Calls |-> IF c \in lost THEN "called" ELSE pc[c]]
        /\ attempt' = [c \in Calls |-> IF c \in lost THEN 1 ELSE attempt[c]]
        /\ unheard' = unheard \cup {c \in lost : pc[c] = "publishing"}
        /\ UNCHANGED <<log, head, snapshot, outcome>>

Step(c) ==
    \/ ReadHead(c) \/ ReadBatches(c) \/ Plan(c)
    \/ BeginImmediate(c) \/ BusyTimeout(c)
    \/ Compare(c) \/ Commit(c) \/ CommitFails(c) \/ Publish(c)

Next == (\E c \in Calls : Step(c)) \/ (\E p \in Procs : Crash(p))

(***************************************************************************)
(* A call that can take a step eventually takes one: the event loop runs   *)
(* ready callbacks, and SQLite answers a statement or times it out.        *)
(***************************************************************************)
Spec == Init /\ [][Next]_vars /\ \A c \in Calls : WF_vars(Step(c))

------------------------------------------------------------------------------
(* Properties.                                                              *)

Outcomes == {"none", "COMMITTED", "REFUSED", "CONFLICT", "THROWN", "CORRUPTION"}

(***************************************************************************)
(* Type invariant; the attempts of a call stay within its retry policy.    *)
(***************************************************************************)
TypeOK ==
    /\ log \in Seq(Calls)
    /\ lock \in Calls \cup {NoCall}
    /\ cache \in [Procs -> Seq(Calls)]
    /\ thread \in [Procs -> Calls \cup {NoCall}]
    /\ pc \in [Calls -> {"called", "refreshing", "planning", "beginning", "comparing",
                         "inserted", "publishing", "returned"}]
    /\ head \in [Calls -> Seq(Calls)]
    /\ snapshot \in [Calls -> Seq(Calls)]
    /\ attempt \in [Calls -> 1 .. MaxAttempts]
    /\ outcome \in [Calls -> Outcomes]
    /\ unheard \subseteq Calls
    /\ crashes \in 0 .. MaxCrashes

IsPrefix(s, t) == Len(s) <= Len(t) /\ \A i \in 1 .. Len(s) : s[i] = t[i]

(***************************************************************************)
(* Every cache is a prefix of the committed log, also after a rolled-back  *)
(* transaction and while another process commits ("it is still exactly     *)
(* committed state", store.ts:296).                                        *)
(***************************************************************************)
CacheIsCommitted == \A p \in Procs : IsPrefix(cache[p], log)

(***************************************************************************)
(* A caller hears COMMITTED exactly when its batch is durable, except for  *)
(* the calls that died before the answer; a call that heard a conflict, a  *)
(* refusal or an error left nothing behind.                                *)
(***************************************************************************)
OutcomeIsExact ==
    \A c \in Calls :
        c \in Committed <=>
            (outcome[c] = "COMMITTED" \/ c \in unheard \/ pc[c] = "publishing")

(***************************************************************************)
(* A batch commits only on the very state its plan was computed from       *)
(* (CONC-1): nothing computed from an older snapshot is reused.            *)
(***************************************************************************)
NoStaleCommit ==
    [][\A c \in Calls : log' = Append(log, c) => snapshot[c] = log]_vars

\* The store implements the abstract log.
Abstract == INSTANCE LedgerLog WITH Requests <- Calls

(***************************************************************************)
(* Whatever the interleaving, the retries and the crashes, the file only   *)
(* ever grows by one whole batch that the reducer accepts in the state it  *)
(* extends, so a request is never applied twice and the limit never        *)
(* exceeded.                                                               *)
(***************************************************************************)
ImplementsLog == Abstract!LogSpec

(***************************************************************************)
(* Every call returns: the retry loop is bounded, no lock is held for      *)
(* ever, and a process that dies is called again.                          *)
(***************************************************************************)
EveryCallReturns == \A c \in Calls : <>[](pc[c] = "returned")

(***************************************************************************)
(* The store throws corruption only for a history that is corrupt (the     *)
(* header of store.ts); no history here is.                                *)
(***************************************************************************)
NoSpuriousCorruption == \A c \in Calls : outcome[c] # "CORRUPTION"
=============================================================================
