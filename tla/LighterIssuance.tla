--------------------------- MODULE LighterIssuance ---------------------------
(***************************************************************************)
(* Orders and cancels on the Lighter perpetuals venue: the staged issuance *)
(* of packages/perp-lighter/src/issuance.ts, its pre-execution evidence,   *)
(* the separate key-custody process of packages/perp-lighter/custody (its  *)
(* own check of the ledger and its slot journal), recovery, and the venue, *)
(* which executes the transactions of one key strictly in nonce order.     *)
(*                                                                         *)
(* Time is in milliseconds; the ledger and the authorizations count        *)
(* seconds of Ms milliseconds, and every conversion rounds as the code's.  *)
(* The ledger is reduced to what issuance reads of it, and its             *)
(* compare-and-append is one step (SqliteStore).  Custody dies with the    *)
(* signer that spawned it.                                                 *)
(***************************************************************************)
EXTENDS Integers, FiniteSets

CONSTANTS
    Records,       \* the authorization records, one reservation each
    ValidUntil,    \* Records -> the end of the authorization, in seconds
    OrderExpiry,   \* Records -> when its order stops resting, in ms; 0: a cancel or an IOC order
    Procs,         \* the signer processes, each with its custody process
    Calls,         \* calls of issueAuthorizedPerpOrder and issueAuthorizedCancel
    ProcOf,        \* Calls -> Procs
    RecordOf,      \* Calls -> Records
    Ms,            \* milliseconds in a second
    TxTtl,         \* config.txTtlMs
    MinOrderLife,  \* MIN_ORDER_LIFE_MS
    MaxAttempts,   \* config.retry.maxAttempts
    NoAttempt,     \* a reservation without an attempt
    FirstNonce,    \* the venue's next nonce at the start
    MaxTime,       \* bound: milliseconds
    MaxCrashes,    \* bound: processes that die
    MaxForeign     \* bound: transactions something else signs with this key

ASSUME LighterRecordAssumption ==
    /\ IsFiniteSet(Records)
    /\ ValidUntil \in [Records -> Nat] /\ OrderExpiry \in [Records -> Nat]
    /\ ProcOf \in [Calls -> Procs] /\ RecordOf \in [Calls -> Records]
ASSUME LighterBoundsAssumption ==
    /\ Ms \in Nat \ {0} /\ TxTtl \in Nat /\ MinOrderLife \in Nat
    /\ MaxAttempts \in Nat \ {0} /\ FirstNonce \in Nat
    /\ MaxTime \in Nat /\ MaxCrashes \in Nat /\ MaxForeign \in Nat
ASSUME NoAttemptAssumption == NoAttempt \notin [slot : Nat, expiredAt : Nat, validUntil : Nat]

VARIABLES
    nowMs,      \* the clock
    ledger,     \* the committed ledger: [closed, attempt, lastAt]
    disabled,   \* the module or the adapter is not ACTIVE or RETIRING
    journal,    \* per record's attempt: its row of issuance_journal, or "none"
    slotFile,   \* custody's slot journal on disk: [slot, record, expiredAt]
    slotMem,    \* per custody process: the slots it knows
    signed,     \* the transactions that were ever signed
    mempool,    \* the records whose transaction the venue holds
    executed,   \* the records whose transaction the venue executed
    nextNonce,  \* the venue's next nonce for the signer's key
    foreign,    \* transactions something else signed with the key
    pc,         \* per call: where it is
    work,       \* per call: the transaction it is building
    snapshot,   \* per call: the ledger it read
    tries,      \* per call: the compare-and-append it is making
    custody,    \* the processes whose custody process is running
    down,       \* the processes that died and were not started again
    crashes     \* processes and custody processes that died

vars == <<nowMs, ledger, disabled, journal, slotFile, slotMem, signed, mempool, executed,
          nextNonce, foreign, pc, work, snapshot, tries, custody, down, crashes>>

venueVars == <<mempool, executed, nextNonce, foreign>>
callVars == <<work, snapshot, tries>>
procVars == <<custody, down, crashes>>
slotVars == <<slotFile, slotMem, signed>>

NoWork == [at |-> 0, slot |-> 0, expiredAt |-> 0, validUntil |-> 0, pass |-> TRUE]
EmptyLedger == [closed |-> {}, attempt |-> [r \in Records |-> NoAttempt], lastAt |-> 0]

Init ==
    /\ nowMs = 0
    /\ ledger = EmptyLedger
    /\ disabled = FALSE
    /\ journal = [r \in Records |-> "none"]
    /\ slotFile = {} /\ slotMem = [p \in Procs |-> {}] /\ signed = {}
    /\ mempool = {} /\ executed = {}
    /\ nextNonce = FirstNonce /\ foreign = 0
    /\ pc = [c \in Calls |-> "called"]
    /\ work = [c \in Calls |-> NoWork]
    /\ snapshot = [c \in Calls |-> EmptyLedger]
    /\ tries = [c \in Calls |-> 1]
    /\ custody = Procs /\ down = {} /\ crashes = 0

Admitted(l) == {r \in Records : l.attempt[r] # NoAttempt}

\* The transaction the call hashes, admits and has signed: its hash covers all of it.
Tx(c) == [slot |-> work[c].slot, record |-> RecordOf[c], expiredAt |-> work[c].expiredAt]

Goto(c, label) == pc' = [pc EXCEPT ![c] = label]
ForgetSnapshot(c) == snapshot' = [snapshot EXCEPT ![c] = EmptyLedger]
Return(c) == Goto(c, "returned") /\ work' = [work EXCEPT ![c] = NoWork]

\* The process is up and not between two statements of another call.
HasThread(c) ==
    /\ ProcOf[c] \notin down
    /\ \A d \in Calls \ {c} : ProcOf[d] = ProcOf[c] => pc[d] \notin {"unsigned", "opening", "sending"}

\* Custody runs and is not inside another request: requests are strictly serialized.
CustodyFree(c) ==
    /\ ProcOf[c] \in custody
    /\ \A d \in Calls \ {c} : ProcOf[d] = ProcOf[c] => pc[d] \notin {"verified", "slotted"}

------------------------------------------------------------------------------
(* 1 to 4: resolve, evidence, construct, hash.                              *)

\* A faulty variant: the last second is cut off.
FaultyAttemptEndsEarly(endMs) == endMs \div Ms

\* The second by whose start everything the artifact may do has ended.
AttemptEnd(endMs) == (endMs + Ms - 1) \div Ms

(***************************************************************************)
(* resolveIntent refuses a lifetime that has ended, a resting order that   *)
(* would outlive it, and one that is too short for the venue.              *)
(***************************************************************************)
Resolvable(r, t) ==
    /\ TxTtl > 0 /\ ValidUntil[r] * Ms > t
    /\ OrderExpiry[r] > 0 => OrderExpiry[r] <= ValidUntil[r] * Ms /\ OrderExpiry[r] >= t + MinOrderLife

Intent(r, t) ==
    LET expiredAt == IF t + TxTtl < ValidUntil[r] * Ms THEN t + TxTtl ELSE ValidUntil[r] * Ms
        endMs == IF OrderExpiry[r] > expiredAt THEN OrderExpiry[r] ELSE expiredAt
    IN  [at |-> t \div Ms, slot |-> 0, expiredAt |-> expiredAt, validUntil |-> AttemptEnd(endMs),
         pass |-> TRUE]

\* A generation with an attempt gets that attempt, never another.
Resolve(c) ==
    LET r == RecordOf[c]
    IN  /\ pc[c] = "called" /\ HasThread(c)
        /\ IF Resolvable(r, nowMs) /\ r \notin Admitted(ledger)
           THEN Goto(c, "evidence") /\ work' = [work EXCEPT ![c] = Intent(r, nowMs)]
           ELSE Return(c)
        /\ UNCHANGED <<nowMs, venueVars, procVars, slotVars, snapshot, tries, ledger, disabled, journal>>

\* Exactly one live key, at the signer's index, with custody's public key.
CredentialScope(keys) == keys = {"signer"}

(***************************************************************************)
(* The registered keys, the next nonce and custody's public key, awaited   *)
(* together; or one of the three cannot be read.                           *)
(***************************************************************************)
ReadVenue(c, keys) ==
    /\ pc[c] = "evidence" /\ HasThread(c)
    /\ \/ /\ ProcOf[c] \in custody
          /\ work' = [work EXCEPT ![c].slot = nextNonce, ![c].pass = CredentialScope(keys)]
          /\ Goto(c, "constructing")
       \/ Return(c)
    /\ UNCHANGED <<nowMs, venueVars, procVars, slotVars, snapshot, tries, ledger, disabled, journal>>

SlotsOf(l) == {l.attempt[r].slot : r \in Admitted(l)}

\* One past the highest slot ever admitted on the lane: neither LANE_BUSY nor NONCE_AHEAD_OF_LEDGER.
NonceSlot(next, l) ==
    SlotsOf(l) = {} \/ ((next - 1) \in SlotsOf(l) /\ \A s \in SlotsOf(l) : s < next)

\* A faulty variant: a busy lane is pipelined, one past the highest slot of the ledger.
FaultyConstructPipelined(c) ==
    LET past == {s + 1 : s \in SlotsOf(ledger)} \cup {work[c].slot}
    IN  /\ pc[c] = "constructing" /\ HasThread(c)
        /\ work' = [work EXCEPT ![c].slot = CHOOSE s \in past : \A t \in past : t <= s]
        /\ Goto(c, "hashing")
        /\ UNCHANGED <<nowMs, venueVars, procVars, slotVars, snapshot, tries, ledger, disabled, journal>>

(***************************************************************************)
(* The rest of readPreExecution, with the ledger as it is now, and         *)
(* construct: the transaction is rebuilt from the authorized action and    *)
(* compared field by field, so it is the one Tx names.                     *)
(***************************************************************************)
Construct(c) ==
    /\ pc[c] = "constructing" /\ HasThread(c)
    /\ work' = [work EXCEPT ![c].pass = @ /\ NonceSlot(work[c].slot, ledger)]
    /\ Goto(c, "hashing")
    /\ UNCHANGED <<nowMs, venueVars, procVars, slotVars, snapshot, tries, ledger, disabled, journal>>

\* Custody builds and hashes the transaction, or is gone.
HashTx(c) ==
    /\ pc[c] = "hashing" /\ HasThread(c)
    /\ \/ CustodyFree(c) /\ Goto(c, "admitting") /\ UNCHANGED work
       \/ ProcOf[c] \notin custody /\ Return(c)
    /\ UNCHANGED <<nowMs, venueVars, procVars, slotVars, snapshot, tries, ledger, disabled, journal>>

------------------------------------------------------------------------------
(* 5: admit, by Control's compare-and-append.                               *)

\* A faulty variant: a slot is free again once its transaction was executed.
FaultyMayAdmitUsedSlot(l, r, w, ok) ==
    /\ ~disabled /\ r \notin l.closed /\ ok /\ w.pass
    /\ w.at < ValidUntil[r] /\ w.at < w.validUntil /\ w.validUntil <= ValidUntil[r]
    /\ w.at >= l.lastAt
    /\ \A s \in Admitted(l) \ executed : l.attempt[s].slot # w.slot

(***************************************************************************)
(* admitAttempt's decision on a snapshot without an attempt for r: it      *)
(* revalidates (ok: state, lineage and policy still allow it), both        *)
(* pre-execution results passed, and the reducer accepts time and slot.    *)
(***************************************************************************)
MayAdmit(l, r, w, ok) ==
    /\ ~disabled
    /\ r \notin l.closed
    /\ ok /\ w.pass
    /\ w.at < ValidUntil[r] /\ w.at < w.validUntil /\ w.validUntil <= ValidUntil[r]
    /\ w.at >= l.lastAt
    /\ w.slot \notin SlotsOf(l)

AdmitRead(c) ==
    /\ pc[c] = "admitting" /\ HasThread(c)
    /\ snapshot' = [snapshot EXCEPT ![c] = ledger]
    /\ Goto(c, "deciding")
    /\ UNCHANGED <<nowMs, venueVars, procVars, slotVars, work, tries, ledger, disabled, journal>>

MayRetry(c) == tries[c] < MaxAttempts

Admission(c) ==
    [ledger EXCEPT !.attempt[RecordOf[c]] = [slot |-> work[c].slot, expiredAt |-> work[c].expiredAt,
                                             validUntil |-> work[c].validUntil],
                   !.lastAt = work[c].at]

(***************************************************************************)
(* The existing attempt, a refusal, or ADMIT_ATTEMPT; a lost race decides  *)
(* again on a new snapshot with the same evidence, up to the last try.     *)
(***************************************************************************)
AdmitAttempt(c, ok) ==
    LET r == RecordOf[c]
    IN  /\ pc[c] = "deciding" /\ HasThread(c)
        /\ IF r \in Admitted(snapshot[c]) \/ ~MayAdmit(snapshot[c], r, work[c], ok)
           THEN Return(c) /\ UNCHANGED <<ledger, tries>>
           ELSE IF snapshot[c] = ledger
           THEN ledger' = Admission(c) /\ Goto(c, "signing") /\ UNCHANGED <<work, tries>>
           ELSE IF MayRetry(c)
           THEN tries' = [tries EXCEPT ![c] = @ + 1] /\ Goto(c, "admitting") /\ UNCHANGED <<ledger, work>>
           ELSE Return(c) /\ UNCHANGED <<ledger, tries>>
        /\ ForgetSnapshot(c)
        /\ UNCHANGED <<nowMs, venueVars, procVars, slotVars, disabled, journal>>

\* Control releases a reservation that has no attempt and no longer revalidates.
CloseNeverIssued(r) ==
    /\ r \notin Admitted(ledger) /\ r \notin ledger.closed /\ nowMs \div Ms >= ledger.lastAt
    /\ ledger' = [ledger EXCEPT !.closed = @ \cup {r}, !.lastAt = nowMs \div Ms]
    /\ UNCHANGED <<nowMs, venueVars, procVars, slotVars, callVars, disabled, journal, pc>>

------------------------------------------------------------------------------
(* 6: the custody process (ledger.go, main.go).                             *)

(***************************************************************************)
(* One consistent read of committed state: exactly this artifact and slot  *)
(* is an admitted attempt, live, not closed, not yet in the issuance       *)
(* journal, and module and adapter are usable.                             *)
(***************************************************************************)
VerifyAdmitted(c) ==
    LET r == RecordOf[c]
    IN  /\ r \in Admitted(ledger)
        /\ ledger.attempt[r].slot = Tx(c).slot /\ ledger.attempt[r].expiredAt = Tx(c).expiredAt
        /\ nowMs \div Ms < ledger.attempt[r].validUntil
        /\ Tx(c).expiredAt <= ledger.attempt[r].validUntil * Ms
        /\ r \notin ledger.closed
        /\ journal[r] = "none"
        /\ ~disabled

\* A sign request is answered, unless custody is gone.
CustodyVerify(c) ==
    /\ pc[c] = "signing" /\ ProcOf[c] \notin down
    /\ \/ CustodyFree(c) /\ Goto(c, IF VerifyAdmitted(c) THEN "verified" ELSE "unsigned")
       \/ ProcOf[c] \notin custody /\ Goto(c, "unsigned")
    /\ UNCHANGED <<nowMs, venueVars, procVars, slotVars, callVars, ledger, disabled, journal>>

\* The slot was never signed for, or was signed for exactly this transaction.
SlotIsFree(c) == \A line \in slotMem[ProcOf[c]] : line.slot = Tx(c).slot => line = Tx(c)

\* recordSlot: the line is written and synced before the key is used, or nothing is signed.
RecordSlot(c) ==
    /\ pc[c] = "verified"
    /\ \/ /\ SlotIsFree(c)
          /\ slotFile' = slotFile \cup {Tx(c)}
          /\ slotMem' = [slotMem EXCEPT ![ProcOf[c]] = @ \cup {Tx(c)}]
          /\ Goto(c, "slotted")
       \/ Goto(c, "unsigned") /\ UNCHANGED <<slotFile, slotMem>>
    /\ UNCHANGED <<nowMs, venueVars, procVars, callVars, signed, ledger, disabled, journal>>

\* The signature; the reply carries the committed hash.
Sign(c) ==
    /\ pc[c] = "slotted"
    /\ signed' = signed \cup {Tx(c)}
    /\ Goto(c, "opening")
    /\ UNCHANGED <<nowMs, venueVars, procVars, callVars, slotFile, slotMem, ledger, disabled, journal>>

------------------------------------------------------------------------------
(* 7 and 8: the issuance journal and the submission.                        *)

NextStates ==
    [none |-> {},
     ARTIFACT_ISSUED |-> {"SUBMISSION_SENT", "OUTCOME_UNKNOWN"},
     SUBMISSION_SENT |-> {"SUBMISSION_ACKNOWLEDGED", "SUBMISSION_REJECTED", "OUTCOME_UNKNOWN"},
     SUBMISSION_ACKNOWLEDGED |-> {}, SUBMISSION_REJECTED |-> {}, OUTCOME_UNKNOWN |-> {}]

CanOpen(r) == r \in Admitted(ledger) /\ journal[r] = "none"

Open(r, s) == journal' = IF CanOpen(r) THEN [journal EXCEPT ![r] = s] ELSE journal
Transition(r, s) ==
    journal' = IF s \in NextStates[journal[r]] THEN [journal EXCEPT ![r] = s] ELSE journal

\* Signing failed, so an artifact may exist: the attempt is recorded as unknown.
RecordUnsigned(c) ==
    /\ pc[c] = "unsigned" /\ ProcOf[c] \notin down
    /\ Open(RecordOf[c], "OUTCOME_UNKNOWN")
    /\ Return(c)
    /\ UNCHANGED <<nowMs, venueVars, procVars, slotVars, snapshot, tries, ledger, disabled>>

\* The signed bytes are recorded before they leave; if they cannot be, nothing is sent.
OpenIssued(c) ==
    /\ pc[c] = "opening" /\ ProcOf[c] \notin down
    /\ Open(RecordOf[c], "ARTIFACT_ISSUED")
    /\ IF CanOpen(RecordOf[c]) THEN Goto(c, "sending") /\ UNCHANGED work ELSE Return(c)
    /\ UNCHANGED <<nowMs, venueVars, procVars, slotVars, snapshot, tries, ledger, disabled>>

RecordSent(c) ==
    /\ pc[c] = "sending" /\ ProcOf[c] \notin down
    /\ Transition(RecordOf[c], "SUBMISSION_SENT")
    /\ Goto(c, "submitting")
    /\ UNCHANGED <<nowMs, venueVars, procVars, slotVars, callVars, ledger, disabled>>

(***************************************************************************)
(* sendTx: acknowledged under the committed hash; refused with a code; or  *)
(* unknown (no answer, an unreadable one, another hash), taken or not.     *)
(***************************************************************************)
SendTx(c) ==
    LET r == RecordOf[c]
        taken == mempool' = mempool \cup {r}
    IN  /\ pc[c] = "submitting" /\ HasThread(c)
        /\ \/ taken /\ Transition(r, "SUBMISSION_ACKNOWLEDGED")
           \/ UNCHANGED mempool /\ Transition(r, "SUBMISSION_REJECTED")
           \/ taken /\ Transition(r, "OUTCOME_UNKNOWN")
           \/ UNCHANGED mempool /\ Transition(r, "OUTCOME_UNKNOWN")
        /\ Return(c)
        /\ UNCHANGED <<nowMs, executed, nextNonce, foreign, procVars, slotVars, snapshot, tries, ledger, disabled>>

------------------------------------------------------------------------------
(* The venue, time and failures.                                            *)

\* The sequencer takes the key's next nonce, executes the transaction or rejects it, up to ExpiredAt.
VenueSequence(r) ==
    /\ r \in mempool
    /\ ledger.attempt[r].slot = nextNonce
    /\ nowMs <= ledger.attempt[r].expiredAt
    /\ nextNonce' = nextNonce + 1
    /\ mempool' = mempool \ {r}
    /\ \/ executed' = executed \cup {r}
       \/ UNCHANGED executed
    /\ UNCHANGED <<nowMs, foreign, procVars, slotVars, callVars, ledger, disabled, journal, pc>>

\* Something else signs with the key and consumes the next nonce.
VenueForeign ==
    /\ foreign < MaxForeign
    /\ foreign' = foreign + 1
    /\ nextNonce' = nextNonce + 1
    /\ UNCHANGED <<nowMs, mempool, executed, procVars, slotVars, callVars, ledger, disabled, journal, pc>>

Tick ==
    /\ nowMs < MaxTime
    /\ nowMs' = nowMs + 1
    /\ UNCHANGED <<venueVars, procVars, slotVars, callVars, ledger, disabled, journal, pc>>

\* A lifecycle row is rewritten, either way.
SetLifecycle ==
    /\ disabled' = ~disabled
    /\ UNCHANGED <<nowMs, venueVars, procVars, slotVars, callVars, ledger, journal, pc>>

\* Custody exits: what it was doing is answered with CUSTODY_EXITED, and it is not started again.
CustodyExit(p) ==
    /\ crashes < MaxCrashes /\ p \in custody
    /\ crashes' = crashes + 1
    /\ custody' = custody \ {p}
    /\ pc' = [c \in Calls |-> IF ProcOf[c] = p /\ pc[c] \in {"verified", "slotted"} THEN "unsigned" ELSE pc[c]]
    /\ UNCHANGED <<nowMs, venueVars, slotVars, callVars, down, ledger, disabled, journal>>

Crash(p) ==
    /\ crashes < MaxCrashes /\ p \notin down
    /\ crashes' = crashes + 1
    /\ down' = down \cup {p} /\ custody' = custody \ {p}
    /\ LET lost == {c \in Calls : ProcOf[c] = p /\ pc[c] # "called"}
       IN  /\ pc' = [c \in Calls |-> IF c \in lost THEN "returned" ELSE pc[c]]
           /\ work' = [c \in Calls |-> IF c \in lost THEN NoWork ELSE work[c]]
           /\ snapshot' = [c \in Calls |-> IF c \in lost THEN EmptyLedger ELSE snapshot[c]]
    /\ UNCHANGED <<nowMs, venueVars, slotVars, tries, ledger, disabled, journal>>

\* loadJournal: custody refuses to start on a journal with two hashes for one slot.
JournalLoads == \A a, b \in slotFile : a.slot = b.slot => a = b

(***************************************************************************)
(* The process starts again: a new custody process loads the slot journal, *)
(* and recover() marks every interrupted issuance as unknown.              *)
(***************************************************************************)
Restart(p) ==
    /\ p \in down
    /\ JournalLoads
    /\ down' = down \ {p} /\ custody' = custody \cup {p}
    /\ slotMem' = [slotMem EXCEPT ![p] = slotFile]
    /\ journal' = [r \in Records |->
           IF CanOpen(r) \/ "OUTCOME_UNKNOWN" \in NextStates[journal[r]] THEN "OUTCOME_UNKNOWN" ELSE journal[r]]
    /\ UNCHANGED <<nowMs, venueVars, callVars, crashes, slotFile, signed, ledger, disabled, pc>>

IssueStep(c) ==
    \/ Resolve(c) \/ (\E keys \in SUBSET {"signer", "other"} : ReadVenue(c, keys))
    \/ Construct(c) \/ HashTx(c)
    \/ AdmitRead(c) \/ (\E ok \in BOOLEAN : AdmitAttempt(c, ok))
    \/ CustodyVerify(c) \/ RecordSlot(c) \/ Sign(c) \/ RecordUnsigned(c)
    \/ OpenIssued(c) \/ RecordSent(c) \/ SendTx(c)

Next ==
    \/ \E c \in Calls : IssueStep(c)
    \/ \E p \in Procs : CustodyExit(p) \/ Crash(p) \/ Restart(p)
    \/ \E r \in Records : CloseNeverIssued(r) \/ VenueSequence(r)
    \/ VenueForeign \/ SetLifecycle \/ Tick

(***************************************************************************)
(* A call that can go on does: the venue's answers time out, and custody   *)
(* answers or exits.  Nothing makes the venue sequence a transaction.      *)
(***************************************************************************)
Spec == Init /\ [][Next]_vars /\ \A c \in Calls : WF_vars(IssueStep(c))

------------------------------------------------------------------------------
(* Properties.                                                              *)

Attempts == [slot : Nat, expiredAt : Nat, validUntil : Nat]
Txs == [slot : Nat, record : Records, expiredAt : Nat]
Ledgers == [closed : SUBSET Records, attempt : [Records -> Attempts \cup {NoAttempt}], lastAt : Nat]

\* Type invariant.
TypeOK ==
    /\ nowMs \in 0 .. MaxTime
    /\ ledger \in Ledgers
    /\ disabled \in BOOLEAN
    /\ journal \in [Records -> DOMAIN NextStates]
    /\ slotFile \subseteq Txs /\ slotMem \in [Procs -> SUBSET Txs] /\ signed \subseteq Txs
    /\ mempool \subseteq Records /\ executed \subseteq Records
    /\ nextNonce \in Nat /\ foreign \in 0 .. MaxForeign
    /\ pc \in [Calls -> {"called", "evidence", "constructing", "hashing", "admitting", "deciding", "signing",
                         "verified", "slotted", "unsigned", "opening", "sending", "submitting", "returned"}]
    /\ work \in [Calls -> [at : Nat, slot : Nat, expiredAt : Nat, validUntil : Nat, pass : BOOLEAN]]
    /\ snapshot \in [Calls -> Ledgers]
    /\ tries \in [Calls -> 1 .. MaxAttempts]
    /\ custody \subseteq Procs /\ down \subseteq Procs /\ crashes \in 0 .. MaxCrashes

\* The admitted attempts whose nonce the venue has not consumed.
Outstanding == {r \in Admitted(ledger) : ledger.attempt[r].slot >= nextNonce}

(***************************************************************************)
(* The lane is serialized: of all the attempts ever admitted on the key,   *)
(* at most one can still be executed by the venue.  A lost reply, a        *)
(* refusal, a failed signature or a crash leaves its attempt holding the   *)
(* lane, however stale the nonce another call is working with              *)
(* (evidence.ts:64, issuance.ts:238).                                      *)
(***************************************************************************)
OneOutstanding == \A r, s \in Outstanding : r = s

(***************************************************************************)
(* A nonce is signed for one transaction ever, although each custody       *)
(* process knows only the slot journal it loaded and its own lines, and    *)
(* both of two signer processes may work on the same nonce                 *)
(* (main.go:205).                                                          *)
(***************************************************************************)
OneHashPerSlot == \A a, b \in signed : a.slot = b.slot => a = b

(***************************************************************************)
(* Everything a signed artifact may do ends with the attempt the ledger    *)
(* holds, and that with the authorization: the transaction's ExpiredAt and *)
(* the resting order's expiry, in milliseconds, against lifetimes in       *)
(* seconds (issuance.ts:115).                                              *)
(***************************************************************************)
ArtifactDiesWithAttempt ==
    \A tx \in signed :
        LET a == ledger.attempt[tx.record]
        IN  /\ a # NoAttempt
            /\ tx.expiredAt <= a.validUntil * Ms /\ OrderExpiry[tx.record] <= a.validUntil * Ms
            /\ a.validUntil <= ValidUntil[tx.record]
=============================================================================
