------------------------------ MODULE Issuance -------------------------------
(***************************************************************************)
(* From an authorization to at most one settlement on the gate: the attempt*)
(* boundary of packages/control/src/engine.ts, the staged issuance of      *)
(* packages/evm-robinhood/src/issuance.ts with its key custody, the        *)
(* issuance journal of packages/ledger-sqlite/src/journal.ts, recovery     *)
(* after a restart, and the gate contract the artifact is for.             *)
(*                                                                         *)
(* Several signer processes share one ledger file.  The calls of a process *)
(* interleave at an await; processes interleave at every transaction.      *)
(* The ledger is reduced to what issuance reads of it: see AuthorityLedger *)
(* for the ledger itself and SqliteStore for its compare-and-append, which *)
(* here is one step.                                                       *)
(***************************************************************************)
EXTENDS Naturals, FiniteSets

CONSTANTS
    Records,         \* the authorization records, one reservation each
    ValidUntil,      \* Records -> the end of the authorization's lifetime
    Procs,           \* the signer processes
    Calls,           \* calls of issueAuthorizedBuy
    Closers,         \* calls of closeNeverIssued
    ProcOf,          \* Calls -> Procs
    RecordOf,        \* Calls \cup Closers -> Records
    DeadlineSeconds, \* config.deadlineSeconds
    MaxAttempts,     \* retry.maxAttempts
    NoAttempt,       \* a reservation without an attempt
    MaxTime,         \* bound: chain time
    MaxCrashes       \* bound: processes that die

ASSUME RecordAssumption ==
    /\ IsFiniteSet(Records)
    /\ ValidUntil \in [Records -> Nat]
    /\ NoAttempt \notin [slot : Nat, deadline : Nat]
ASSUME CallerAssumption ==
    /\ Calls \cap Closers = {}
    /\ ProcOf \in [Calls -> Procs]
    /\ RecordOf \in [Calls \cup Closers -> Records]
ASSUME IssuanceBoundsAssumption ==
    /\ DeadlineSeconds \in Nat /\ MaxAttempts \in Nat \ {0}
    /\ MaxTime \in Nat /\ MaxCrashes \in Nat

VARIABLES
    now,        \* chain time
    ledger,     \* the committed ledger: [closed, revoked, attempt, lastAt]
    disabled,   \* the adapter's or the module's lifecycle status is DISABLED
    journal,    \* per record's attempt: its row of issuance_journal, or "none"
    signed,     \* the records with a signed artifact
    sends,      \* per record: how often its artifact was broadcast
    landed,     \* per record: how often the gate executed it
    pc,         \* per caller: where it is
    work,       \* per call: the evidence and the artifact it is building
    snapshot,   \* per caller: the ledger it read
    tries,      \* per caller: the compare-and-append it is making
    down,       \* processes that died and were not started again
    todo,       \* per process: the attempts recover() has not visited yet
    crashes     \* processes that died

vars == <<now, ledger, disabled, journal, signed, sends, landed, pc, work, snapshot,
          tries, down, todo, crashes>>

callVars == <<work, snapshot, tries>>
procVars == <<down, todo, crashes>>
chainVars == <<now, sends, landed>>

NoWork == [at |-> 0, slot |-> 0, deadline |-> 0, pass |-> TRUE]
EmptyLedger == [closed |-> {}, revoked |-> {}, attempt |-> [r \in Records |-> NoAttempt],
                lastAt |-> 0]

Init ==
    /\ now = 0
    /\ ledger = EmptyLedger
    /\ disabled = FALSE
    /\ journal = [r \in Records |-> "none"]
    /\ signed = {}
    /\ sends = [r \in Records |-> 0]
    /\ landed = [r \in Records |-> 0]
    /\ pc = [c \in Calls \cup Closers |-> "called"]
    /\ work = [c \in Calls |-> NoWork]
    /\ snapshot = [c \in Calls \cup Closers |-> EmptyLedger]
    /\ tries = [c \in Calls \cup Closers |-> 1]
    /\ down = {}
    /\ todo = [p \in Procs |-> {}]
    /\ crashes = 0

Admitted(l) == {r \in Records : l.attempt[r] # NoAttempt}

Artifact(c) == [slot |-> work[c].slot, deadline |-> work[c].deadline]

(***************************************************************************)
(* The call may run: its process is up, is not inside recover() and is not *)
(* between two statements of another call.                                 *)
(***************************************************************************)
HasThread(c) ==
    /\ ProcOf[c] \notin down
    /\ todo[ProcOf[c]] = {}
    /\ \A d \in Calls \ {c} : ProcOf[d] = ProcOf[c] => pc[d] \notin {"opening", "unsigned"}

Goto(c, label) == pc' = [pc EXCEPT ![c] = label]

\* A local that is no longer read: the snapshot after a decision, the artifact once signed.
ForgetSnapshot(c) == snapshot' = [snapshot EXCEPT ![c] = EmptyLedger]
ForgetWork(c) == work' = [work EXCEPT ![c] = NoWork]

------------------------------------------------------------------------------
(* The issuance journal (journal.ts).                                       *)

\* The closed transition table.
NextStates ==
    [none |-> {},
     ARTIFACT_ISSUED |-> {"SUBMISSION_SENT", "OUTCOME_UNKNOWN"},
     SUBMISSION_SENT |-> {"SUBMISSION_ACKNOWLEDGED", "SUBMISSION_REJECTED", "OUTCOME_UNKNOWN"},
     SUBMISSION_ACKNOWLEDGED |-> {}, SUBMISSION_REJECTED |-> {}, OUTCOME_UNKNOWN |-> {}]

Terminal == {s \in DOMAIN NextStates : s # "none" /\ NextStates[s] = {}}

CanOpen(r) == r \in Admitted(ledger) /\ journal[r] = "none"

\* open and transition; a refused one writes nothing, and the callers below ignore it.
Open(r, s) == journal' = IF CanOpen(r) THEN [journal EXCEPT ![r] = s] ELSE journal
Transition(r, s) ==
    journal' = IF s \in NextStates[journal[r]] THEN [journal EXCEPT ![r] = s] ELSE journal

------------------------------------------------------------------------------
(* Control (engine.ts, revalidation.ts).                                    *)

(***************************************************************************)
(* revalidateWith on an active reservation passes at time t: inside the    *)
(* lifetime, lineage valid, and what the caller supplied is good (ok): the *)
(* state is re-admitted and, for an attempt, the credential checks pass.   *)
(***************************************************************************)
Revalidates(l, r, t, ok) == t < ValidUntil[r] /\ r \notin l.revoked /\ ok

CommitLedger(c, next) ==
    /\ ledger' = next
    /\ UNCHANGED tries

\* A lost race re-runs everything from a new snapshot, up to the last try.
LostRace(c, again) ==
    /\ IF tries[c] < MaxAttempts
       THEN tries' = [tries EXCEPT ![c] = @ + 1] /\ Goto(c, again)
       ELSE Goto(c, "returned") /\ UNCHANGED tries
    /\ UNCHANGED ledger

Read(c, from, to) ==
    /\ pc[c] = from
    /\ snapshot' = [snapshot EXCEPT ![c] = ledger]
    /\ Goto(c, to)
    /\ UNCHANGED <<chainVars, procVars, ledger, disabled, journal, signed, work, tries>>

(***************************************************************************)
(* NEVER_ISSUED is open to a reservation that is active, has no attempt    *)
(* and no longer revalidates, at a time the ledger accepts.                *)
(***************************************************************************)
MayClose(l, r, t, ok) ==
    /\ r \notin Admitted(l)
    /\ r \notin l.closed
    /\ ~Revalidates(l, r, t, ok)
    /\ t >= l.lastAt

CloseRead(k) == Read(k, "called", "closing")

CloseNeverIssued(k, t, ok) ==
    LET r == RecordOf[k]
    IN  /\ pc[k] = "closing"
        /\ IF ~MayClose(snapshot[k], r, t, ok)
           THEN Goto(k, "returned") /\ UNCHANGED <<ledger, tries>>
           ELSE IF snapshot[k] = ledger
           THEN /\ CommitLedger(k, [ledger EXCEPT !.closed = @ \cup {r}, !.lastAt = t])
                /\ Goto(k, "returned")
           ELSE LostRace(k, "called")
        /\ ForgetSnapshot(k)
        /\ UNCHANGED <<chainVars, procVars, disabled, journal, signed, work>>

\* A faulty variant: a slot may be bound twice.
FaultyMayAdmitAnySlot(l, r, w, ok) ==
    /\ ~disabled /\ r \notin l.closed /\ Revalidates(l, r, w.at, ok)
    /\ w.at < w.deadline + 1 /\ w.deadline + 1 <= ValidUntil[r]
    /\ w.pass /\ w.at >= l.lastAt

(***************************************************************************)
(* admitAttempt's decision on a snapshot that holds no attempt for r, with *)
(* the reducer's own refusals: an evaluation time that regresses, a slot   *)
(* some attempt already bound.                                             *)
(***************************************************************************)
MayAdmit(l, r, w, ok) ==
    /\ ~disabled
    /\ r \notin l.closed
    /\ Revalidates(l, r, w.at, ok)
    /\ w.at < w.deadline + 1 /\ w.deadline + 1 <= ValidUntil[r]
    /\ w.pass
    /\ w.at >= l.lastAt
    /\ \A s \in Admitted(l) : l.attempt[s].slot # w.slot

AdmitRead(c) == HasThread(c) /\ Read(c, "admitting", "deciding")

\* A faulty variant: the commit does not compare the ledger with the snapshot.
FaultyAdmitBlindly(c, ok) ==
    LET r == RecordOf[c]
    IN  /\ pc[c] = "deciding" /\ HasThread(c)
        /\ IF r \in Admitted(snapshot[c]) \/ ~MayAdmit(snapshot[c], r, work[c], ok)
           THEN Goto(c, "returned") /\ UNCHANGED <<ledger, tries>>
           ELSE /\ CommitLedger(c, [ledger EXCEPT !.attempt[r] = Artifact(c), !.lastAt = work[c].at])
                /\ Goto(c, "signing")
        /\ ForgetSnapshot(c)
        /\ IF pc'[c] = "returned" THEN ForgetWork(c) ELSE UNCHANGED work
        /\ UNCHANGED <<chainVars, procVars, disabled, journal, signed>>

(***************************************************************************)
(* The existing attempt (EXISTING), a refusal, or ADMIT_ATTEMPT by         *)
(* compare-and-append; only an admission goes on to signing.               *)
(***************************************************************************)
AdmitAttempt(c, ok) ==
    LET r == RecordOf[c]
    IN  /\ pc[c] = "deciding" /\ HasThread(c)
        /\ IF r \in Admitted(snapshot[c]) \/ ~MayAdmit(snapshot[c], r, work[c], ok)
           THEN Goto(c, "returned") /\ UNCHANGED <<ledger, tries>>
           ELSE IF snapshot[c] = ledger
           THEN /\ CommitLedger(c, [ledger EXCEPT !.attempt[r] = Artifact(c), !.lastAt = work[c].at])
                /\ Goto(c, "signing")
           ELSE LostRace(c, "admitting")
        /\ ForgetSnapshot(c)
        /\ IF pc'[c] = "returned" THEN ForgetWork(c) ELSE UNCHANGED work
        /\ UNCHANGED <<chainVars, procVars, disabled, journal, signed>>

------------------------------------------------------------------------------
(* Issuance (issuance.ts).                                                  *)

\* A generation with an attempt gets that attempt, never another.
Resolve(c) ==
    /\ pc[c] = "called" /\ HasThread(c)
    /\ Goto(c, IF RecordOf[c] \in Admitted(ledger) THEN "returned" ELSE "evidence")
    /\ UNCHANGED <<chainVars, procVars, callVars, ledger, disabled, journal, signed>>

\* One past the highest slot the ledger ever admitted.
NextSlot(l) ==
    LET used == {l.attempt[r].slot : r \in Admitted(l)}
    IN  IF used = {} THEN 1 ELSE 1 + CHOOSE s \in used : \A u \in used : u <= s

\* The deadline of an artifact built at time t, inside the authorization's lifetime.
DeadlineFor(r, t) ==
    IF t + DeadlineSeconds < ValidUntil[r] - 1 THEN t + DeadlineSeconds ELSE ValidUntil[r] - 1

(***************************************************************************)
(* Chain time and the next slot; or the chain cannot be read, or the       *)
(* lifetime has ended.                                                     *)
(***************************************************************************)
ReadEvidence(c) ==
    LET r == RecordOf[c]
    IN  /\ pc[c] = "evidence" /\ HasThread(c)
        /\ \/ /\ now < ValidUntil[r]
              /\ work' = [work EXCEPT ![c] = [at |-> now, slot |-> NextSlot(ledger),
                                              deadline |-> DeadlineFor(r, now), pass |-> TRUE]]
              /\ Goto(c, "slot")
           \/ Goto(c, "returned") /\ UNCHANGED work
        /\ UNCHANGED <<chainVars, procVars, ledger, disabled, journal, signed, snapshot, tries>>

\* The gate's replay key for the artifact is unused, or cannot be read.
CheckSlot(c) ==
    /\ pc[c] = "slot" /\ HasThread(c)
    /\ \/ /\ work' = [work EXCEPT ![c].pass = @ /\ landed[RecordOf[c]] = 0]
          /\ Goto(c, "admitting")
       \/ Goto(c, "returned") /\ ForgetWork(c)
    /\ UNCHANGED <<chainVars, procVars, ledger, disabled, journal, signed, snapshot, tries>>

(***************************************************************************)
(* Custody's own check: the committed attempt, for exactly this artifact,  *)
(* live, not closed, not yet in the journal, under a usable adapter.       *)
(***************************************************************************)
VerifyAdmitted(c) ==
    LET r == RecordOf[c]
    IN  /\ r \in Admitted(ledger)
        /\ ledger.attempt[r] = Artifact(c)
        /\ now < work[c].deadline + 1
        /\ r \notin ledger.closed
        /\ journal[r] = "none"
        /\ ~disabled

\* Both signatures, or a refusal of custody or of the agent's signer.
SignAdmitted(c) ==
    /\ pc[c] = "signing" /\ HasThread(c)
    /\ \/ /\ VerifyAdmitted(c)
          /\ signed' = signed \cup {RecordOf[c]}
          /\ Goto(c, "opening")
       \/ Goto(c, "unsigned") /\ UNCHANGED signed
    /\ ForgetWork(c)
    /\ UNCHANGED <<chainVars, procVars, snapshot, tries, ledger, disabled, journal>>

\* Signing failed: the attempt is recorded as unknown, unless it is recorded already.
RecordUnsigned(c) ==
    /\ pc[c] = "unsigned" /\ ProcOf[c] \notin down
    /\ Open(RecordOf[c], "OUTCOME_UNKNOWN")
    /\ Goto(c, "returned")
    /\ UNCHANGED <<chainVars, procVars, callVars, ledger, disabled, signed>>

\* submit: the signed bytes are recorded before they can leave; if they cannot be, stop.
OpenIssued(c) ==
    /\ pc[c] = "opening" /\ ProcOf[c] \notin down
    /\ Open(RecordOf[c], "ARTIFACT_ISSUED")
    /\ Goto(c, IF CanOpen(RecordOf[c]) THEN "preflight" ELSE "returned")
    /\ UNCHANGED <<chainVars, procVars, callVars, ledger, disabled, signed>>

\* A faulty variant: the submission is recorded only once it is acknowledged.
FaultyPreflightUnrecorded(c) ==
    /\ pc[c] = "preflight" /\ HasThread(c)
    /\ \/ Transition(RecordOf[c], "OUTCOME_UNKNOWN") /\ Goto(c, "returned")
       \/ Goto(c, "submitting") /\ UNCHANGED journal
    /\ UNCHANGED <<chainVars, procVars, callVars, ledger, disabled, signed>>

(***************************************************************************)
(* The simulation reverts and nothing is broadcast, or SUBMISSION_SENT is  *)
(* recorded (a refusal of the journal is ignored) and the call goes out.   *)
(***************************************************************************)
Preflight(c) ==
    /\ pc[c] = "preflight" /\ HasThread(c)
    /\ \/ Transition(RecordOf[c], "OUTCOME_UNKNOWN") /\ Goto(c, "returned")
       \/ Transition(RecordOf[c], "SUBMISSION_SENT") /\ Goto(c, "submitting")
    /\ UNCHANGED <<chainVars, procVars, callVars, ledger, disabled, signed>>

(***************************************************************************)
(* The broadcast is accepted; or an error is reported, whether or not the  *)
(* network took it.                                                        *)
(***************************************************************************)
Submit(c) ==
    LET r == RecordOf[c]
        taken == sends' = [sends EXCEPT ![r] = @ + 1]
        failed == Transition(r, "OUTCOME_UNKNOWN") /\ Goto(c, "returned")
    IN  /\ pc[c] = "submitting" /\ HasThread(c)
        /\ \/ taken /\ Goto(c, "receipt") /\ UNCHANGED journal
           \/ taken /\ failed
           \/ failed /\ UNCHANGED sends
        /\ UNCHANGED <<now, landed, procVars, callVars, ledger, disabled, signed>>

(***************************************************************************)
(* Mined and successful, mined and reverted, or no receipt.                *)
(***************************************************************************)
Receipt(c) ==
    LET r == RecordOf[c]
    IN  /\ pc[c] = "receipt" /\ HasThread(c)
        /\ \/ landed[r] > 0 /\ Transition(r, "SUBMISSION_ACKNOWLEDGED")
           \/ Transition(r, "SUBMISSION_REJECTED")
           \/ Transition(r, "OUTCOME_UNKNOWN")
        /\ Goto(c, "returned")
        /\ UNCHANGED <<chainVars, procVars, callVars, ledger, disabled, signed>>

------------------------------------------------------------------------------
(* The gate, the other users of the ledger, and failures.                   *)

\* A faulty variant: the deadline is not compared with the block's time.
FaultyGateAcceptsLate(r) == landed[r] = 0

(***************************************************************************)
(* execute: anyone may submit what was broadcast, before or after a        *)
(* revert; the gate accepts it up to its deadline and once.                *)
(***************************************************************************)
GateAccepts(r) == now <= ledger.attempt[r].deadline /\ landed[r] = 0

Execute(r) ==
    /\ sends[r] > 0
    /\ GateAccepts(r)
    /\ landed' = [landed EXCEPT ![r] = @ + 1]
    /\ UNCHANGED <<now, sends, procVars, callVars, ledger, disabled, journal, signed, pc>>

Tick ==
    /\ now < MaxTime
    /\ now' = now + 1
    /\ UNCHANGED <<sends, landed, procVars, callVars, ledger, disabled, journal, signed, pc>>

\* The lineage of a record is revoked in the ledger.
Revoke(r) ==
    /\ r \notin ledger.revoked /\ now >= ledger.lastAt
    /\ ledger' = [ledger EXCEPT !.revoked = @ \cup {r}, !.lastAt = now]
    /\ UNCHANGED <<chainVars, procVars, callVars, disabled, journal, signed, pc>>

\* The lifecycle row of the adapter (or of the module) is rewritten, either way.
SetAdapter ==
    /\ disabled' = ~disabled
    /\ UNCHANGED <<chainVars, procVars, callVars, ledger, journal, signed, pc>>

\* A process dies; the calls it was making are lost.
Crash(p) ==
    /\ crashes < MaxCrashes /\ p \notin down
    /\ crashes' = crashes + 1
    /\ down' = down \cup {p}
    /\ todo' = [todo EXCEPT ![p] = {}]
    /\ LET lost == {c \in Calls : ProcOf[c] = p /\ pc[c] \notin {"called", "returned"}}
       IN  /\ pc' = [c \in DOMAIN pc |-> IF c \in lost THEN "lost" ELSE pc[c]]
           /\ work' = [c \in Calls |-> IF c \in lost THEN NoWork ELSE work[c]]
           /\ snapshot' = [c \in DOMAIN pc |-> IF c \in lost THEN EmptyLedger ELSE snapshot[c]]
    /\ UNCHANGED <<chainVars, tries, ledger, disabled, journal, signed>>

\* The process starts again, and recover() lists the admitted attempts.
Restart(p) ==
    /\ p \in down
    /\ down' = down \ {p}
    /\ todo' = [todo EXCEPT ![p] = Admitted(ledger)]
    /\ UNCHANGED <<chainVars, callVars, crashes, ledger, disabled, journal, signed, pc>>

\* A faulty variant: an attempt the journal does not know is passed over.
FaultyRecoverRecordedOnly(p, r) ==
    /\ r \in todo[p]
    /\ todo' = [todo EXCEPT ![p] = @ \ {r}]
    /\ Transition(r, "OUTCOME_UNKNOWN")
    /\ UNCHANGED <<chainVars, callVars, down, crashes, ledger, disabled, signed, pc>>

\* A faulty variant: what was signed and not sent is sent again.
FaultyRecoverResubmits(p, r) ==
    /\ r \in todo[p]
    /\ todo' = [todo EXCEPT ![p] = @ \ {r}]
    /\ IF journal[r] = "SUBMISSION_SENT" THEN sends' = [sends EXCEPT ![r] = @ + 1] ELSE UNCHANGED sends
    /\ IF journal[r] = "none" THEN Open(r, "OUTCOME_UNKNOWN") ELSE Transition(r, "OUTCOME_UNKNOWN")
    /\ UNCHANGED <<now, landed, callVars, down, crashes, ledger, disabled, signed, pc>>

\* One iteration of recover(): whatever was interrupted becomes unknown.
Recover(p, r) ==
    /\ r \in todo[p]
    /\ todo' = [todo EXCEPT ![p] = @ \ {r}]
    /\ IF journal[r] = "none" THEN Open(r, "OUTCOME_UNKNOWN") ELSE Transition(r, "OUTCOME_UNKNOWN")
    /\ UNCHANGED <<chainVars, callVars, down, crashes, ledger, disabled, signed, pc>>

IssueStep(c) ==
    \/ Resolve(c) \/ ReadEvidence(c) \/ CheckSlot(c)
    \/ AdmitRead(c) \/ (\E ok \in BOOLEAN : AdmitAttempt(c, ok))
    \/ SignAdmitted(c) \/ RecordUnsigned(c) \/ OpenIssued(c)
    \/ Preflight(c) \/ Submit(c) \/ Receipt(c)

CloseStep(k) ==
    \/ CloseRead(k)
    \/ \E t \in 0 .. MaxTime, ok \in BOOLEAN : CloseNeverIssued(k, t, ok)

RecoverStep(p) == \E r \in Records : Recover(p, r)

Next ==
    \/ \E c \in Calls : IssueStep(c)
    \/ \E k \in Closers : CloseStep(k)
    \/ \E p \in Procs : RecoverStep(p) \/ Crash(p) \/ Restart(p)
    \/ \E r \in Records : Execute(r) \/ Revoke(r)
    \/ SetAdapter
    \/ Tick

(***************************************************************************)
(* A call that can go on does, and so does a recovery pass that started:   *)
(* both are program code whose awaits all return or time out.  Nothing     *)
(* makes a process start again or a transaction be mined.                  *)
(***************************************************************************)
Spec ==
    /\ Init /\ [][Next]_vars
    /\ \A c \in Calls : WF_vars(IssueStep(c))
    /\ \A k \in Closers : WF_vars(CloseStep(k))
    /\ \A p \in Procs : WF_vars(RecoverStep(p))

------------------------------------------------------------------------------
(* Properties.                                                              *)

Artifacts == [slot : Nat, deadline : Nat]
Labels == {"called", "evidence", "slot", "admitting", "deciding", "signing", "opening",
           "unsigned", "preflight", "submitting", "receipt", "closing", "returned", "lost"}
Ledgers == [closed : SUBSET Records, revoked : SUBSET Records, lastAt : 0 .. MaxTime,
            attempt : [Records -> Artifacts \cup {NoAttempt}]]

(***************************************************************************)
(* Type invariant; a caller's compare-and-appends stay within its retry    *)
(* policy.                                                                 *)
(***************************************************************************)
TypeOK ==
    /\ now \in 0 .. MaxTime
    /\ ledger \in Ledgers
    /\ disabled \in BOOLEAN
    /\ journal \in [Records -> DOMAIN NextStates]
    /\ signed \subseteq Records
    /\ sends \in [Records -> Nat] /\ landed \in [Records -> Nat]
    /\ pc \in [Calls \cup Closers -> Labels]
    /\ work \in [Calls -> [at : 0 .. MaxTime, slot : Nat, deadline : Nat, pass : BOOLEAN]]
    /\ snapshot \in [Calls \cup Closers -> Ledgers]
    /\ tries \in [Calls \cup Closers -> 1 .. MaxAttempts]
    /\ down \subseteq Procs
    /\ todo \in [Procs -> SUBSET Records]
    /\ crashes \in 0 .. MaxCrashes

(***************************************************************************)
(* A reservation released as NEVER_ISSUED never has an attempt, a          *)
(* signature, a broadcast or a settlement, whoever was issuing it while it *)
(* was being closed and whatever crashed (engine.ts:287).                  *)
(***************************************************************************)
NeverIssuedMeansNever ==
    \A r \in ledger.closed :
        r \notin Admitted(ledger) /\ r \notin signed /\ sends[r] = 0 /\ landed[r] = 0

(***************************************************************************)
(* However many calls, processes and recoveries work on one authorization, *)
(* its artifact is broadcast at most once (no resubmission, signer.ts:11). *)
(***************************************************************************)
SentAtMostOnce == \A r \in Records : sends[r] <= 1

(***************************************************************************)
(* Distinct attempts hold distinct slots, although concurrent calls read   *)
(* the same next slot before either is admitted.                           *)
(***************************************************************************)
SlotsDistinct ==
    \A r, s \in Admitted(ledger) : r # s => ledger.attempt[r].slot # ledger.attempt[s].slot

(***************************************************************************)
(* What may be on the network is in the journal as more than issued: after *)
(* any crash, recovery can tell that it may execute.                       *)
(***************************************************************************)
BroadcastIsJournaled ==
    \A r \in Records : sends[r] > 0 => journal[r] \in {"SUBMISSION_SENT"} \cup Terminal

\* An acknowledged attempt was executed; a rejected one may still be, until its deadline.
AcknowledgedWasExecuted ==
    \A r \in Records : journal[r] = "SUBMISSION_ACKNOWLEDGED" => landed[r] > 0

(***************************************************************************)
(* The gate executes an authorization only inside its lifetime, however    *)
(* late its artifact was built, admitted, signed and mined.                *)
(***************************************************************************)
ExecutedInLifetime ==
    [][\A r \in Records : landed'[r] # landed[r] => now < ValidUntil[r]]_vars

(***************************************************************************)
(* With one signer process, an artifact goes out only while its row says   *)
(* SUBMISSION_SENT, so nothing is broadcast after recovery declared it     *)
(* unknown.                                                                *)
(***************************************************************************)
SendIsRecorded ==
    [][\A r \in Records : sends'[r] # sends[r] => journal[r] = "SUBMISSION_SENT"]_vars

(***************************************************************************)
(* Every attempt that recover() lists ends accounted for, recorded or not  *)
(* when the process died.                                                  *)
(***************************************************************************)
RecoveryAccounts ==
    \A p \in Procs, r \in Records :
        r \in todo[p] ~> (journal[r] \in Terminal \/ p \in down)

=============================================================================
