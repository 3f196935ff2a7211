--------------------------- MODULE LiveSettlement ---------------------------
(***************************************************************************)
(* The settlement of one reserved execution (packages/live-settlement): the*)
(* write-ahead journal (journal.ts), the run that signs, simulates and     *)
(* broadcasts (settlement.ts, settlement-chain.ts, spine-settlement.ts),   *)
(* restart reconciliation from chain evidence (reconcile.ts), the writes   *)
(* to the portfolio ledger (portfolio-ledger.ts) and the requests that     *)
(* start all of these (ui-settle.ts).                                      *)
(*                                                                         *)
(* One server process; its jobs interleave at awaits, and a crash ends all *)
(* of them.  The journal and the ledger survive it.  Issuance models the   *)
(* gate signer that runs between signing and the simulation in full.       *)
(***************************************************************************)
EXTENDS Naturals, FiniteSets

CONSTANTS
    Jobs,             \* requests the server may be serving at a time
    AuthoritySeconds, \* DOMAIN_AUTHORITY_SECONDS
    MarginSeconds,    \* what bindDomain adds to it
    AttemptSeconds,   \* ATTEMPT_DEADLINE_SECONDS
    MaxTime,          \* bound: chain time
    MaxRuns,          \* bound: dry runs and sends
    MaxCrashes,       \* bound: crashes of the process
    MaxUnreadable     \* bound: reads of the chain that fail

ASSUME SettlementAssumption ==
    /\ AuthoritySeconds \in Nat \ {0} /\ MarginSeconds \in Nat /\ AttemptSeconds \in Nat
    /\ MaxTime \in Nat /\ MaxRuns \in Nat /\ MaxCrashes \in Nat /\ MaxUnreadable \in Nat

VARIABLES
    now,         \* chain time
    status,      \* the reservation in the portfolio ledger
    authorized,  \* the version is active, not paused, superseded, revoked or expired
    row,         \* the attempt's row in the settlement journal
    artifacts,   \* the journal's artifacts table
    left,        \* the signed artifacts an eth_call or a broadcast carried out
    executed,    \* the artifacts the gate has recorded a commitment for
    txs,         \* per run: what became of its transaction
    broadcasts,  \* eth_sendRawTransaction calls for this reservation
    pc,          \* per job: where it is
    local,       \* per job: what it has read and built
    runs,        \* dry runs and sends started
    crashes,     \* crashes so far
    unreadable   \* failed reads so far

vars == <<now, status, authorized, row, artifacts, left, executed, txs, broadcasts, pc,
          local, runs, crashes, unreadable>>

chainVars == <<now, left, executed, txs, broadcasts>>
boundVars == <<runs, crashes, unreadable>>

NoRow == [state |-> "none", quarantine |-> "null", deadAfter |-> 0, tx |-> 0, sendArtifact |-> {}]
NoEvidence == [readable |-> TRUE, time |-> 0, commits |-> {}, receipt |-> "null", known |-> FALSE]
NoLocal == [mode |-> "none", run |-> 0, passing |-> TRUE, a |-> NoRow, artifacts |-> {},
            ev |-> NoEvidence, seen |-> "RESERVED", legAt |-> 0, artifact |-> {}]

Init ==
    /\ now = 0
    /\ status = "RESERVED"
    /\ authorized = TRUE
    /\ row = NoRow
    /\ artifacts = {} /\ left = {} /\ executed = {}
    /\ txs = [n \in 1 .. MaxRuns |-> "none"]
    /\ broadcasts = 0
    /\ pc = [j \in Jobs |-> "idle"]
    /\ local = [j \in Jobs |-> NoLocal]
    /\ runs = 0 /\ crashes = 0 /\ unreadable = 0

Goto(j, label) == pc' = [pc EXCEPT ![j] = label]
Keep(j, l) == local' = [local EXCEPT ![j] = l]

\* The job returns, or an exception ends it.
Return(j) == Goto(j, "idle") /\ Keep(j, NoLocal)

\* The job goes on at label with locals l; nothing is kept once it is over.
Continue(j, label, l) == Goto(j, label) /\ Keep(j, IF label = "idle" THEN NoLocal ELSE l)

------------------------------------------------------------------------------
(* The settlement journal (journal.ts).                                     *)

\* The closed transition table.
NextStates ==
    [PREPARED |-> {"SUBMISSION_STARTED", "PREPARATION_FAILED", "RELEASED", "RECONCILIATION_REQUIRED"},
     SUBMISSION_STARTED |-> {"SUBMITTED", "RECONCILIATION_REQUIRED", "CONFIRMED_SUCCESS",
                             "CONFIRMED_REVERT", "RELEASED"},
     SUBMITTED |-> {"CONFIRMED_SUCCESS", "CONFIRMED_REVERT", "RECONCILIATION_REQUIRED", "RELEASED"},
     RECONCILIATION_REQUIRED |-> {"SUBMITTED", "CONFIRMED_SUCCESS", "CONFIRMED_REVERT", "RELEASED"},
     CONFIRMED_SUCCESS |-> {"SETTLED", "RECONCILIATION_REQUIRED"},
     CONFIRMED_REVERT |-> {"RELEASED"},
     SETTLED |-> {"CONSUMED"},
     CONSUMED |-> {}, RELEASED |-> {}, PREPARATION_FAILED |-> {}]

TerminalQuarantines == {"POSTCONDITION_ANOMALY", "EXECUTED_OUTSIDE_ATTEMPT"}

IsTerminal(a) ==
    IF a.state = "RECONCILIATION_REQUIRED" THEN a.quarantine \in TerminalQuarantines
    ELSE NextStates[a.state] = {}

\* What #update accepts; anything else throws.
MayUpdate(to) ==
    /\ row.state # "none" /\ ~IsTerminal(row)
    /\ to = row.state \/ to \in NextStates[row.state]

\* transition (q is the reason of a reconciliation), then the job goes on at label.
Transition(j, to, q, label) ==
    LET a == [row EXCEPT !.state = to,
                         !.quarantine = IF to = "RECONCILIATION_REQUIRED" THEN q ELSE "null"]
    IN  IF MayUpdate(to) THEN row' = a /\ Continue(j, label, [local[j] EXCEPT !.a = a])
        ELSE UNCHANGED row /\ Return(j)

------------------------------------------------------------------------------
(* Requests (ui-settle.ts).                                                 *)

Opening == {"opening"}
Running == {j \in Jobs : pc[j] \notin {"idle"} \cup Opening}

(***************************************************************************)
(* A request is refused while a job runs or reconciles; then the session   *)
(* is opened, which may read it from disk.                                 *)
(***************************************************************************)
Request(j, mode) ==
    /\ pc[j] = "idle" /\ Running = {}
    /\ IF mode = "RECONCILE" THEN UNCHANGED runs ELSE runs < MaxRuns /\ runs' = runs + 1
    /\ Goto(j, "opening")
    /\ Keep(j, [NoLocal EXCEPT !.mode = mode, !.run = IF mode = "RECONCILE" THEN 0 ELSE runs + 1])
    /\ UNCHANGED <<chainVars, status, authorized, row, artifacts, crashes, unreadable>>

\* The session is open: the job is entered and its reconciliation pass begins.
Enter(j) ==
    /\ pc[j] = "opening"
    /\ Goto(j, "load")
    /\ UNCHANGED <<chainVars, boundVars, status, authorized, row, artifacts, local>>

------------------------------------------------------------------------------
(* The portfolio ledger (portfolio-ledger.ts, eligibility.ts).              *)

\* Condition 6 (the reservation, as last read) and the rest as it is now.
Eligible(seen) == authorized /\ seen \in {"RESERVED", "ADMITTED"}

\* Where a job goes when its reconciliation, or its run, has nothing more to do.
Done(l) == IF l.passing /\ l.mode # "RECONCILE" THEN "check" ELSE "idle"

\* account: consume or release what is still held; the same outcome again is accepted.
MayAccount(outcome) == status \in {"RESERVED", "ADMITTED", outcome}

\* A faulty variant: the journal is written first.
FaultyAccountLater(j, outcome, label, next) ==
    /\ pc[j] = label
    /\ IF MayAccount(outcome) THEN Goto(j, next) /\ UNCHANGED <<status, local>>
       ELSE UNCHANGED status /\ Continue(j, Done(local[j]), local[j])
    /\ UNCHANGED <<chainVars, boundVars, authorized, row, artifacts>>

Account(j, outcome, label, next) ==
    /\ pc[j] = label
    /\ IF MayAccount(outcome) THEN status' = outcome /\ Goto(j, next) /\ UNCHANGED local
       ELSE UNCHANGED status /\ Continue(j, Done(local[j]), local[j])
    /\ UNCHANGED <<chainVars, boundVars, authorized, row, artifacts>>

------------------------------------------------------------------------------
(* Reconciliation (reconcile.ts).                                           *)

\* Steps 2 to 4 of reconcileOne, by the state the attempt is in.
AfterEvidence(l, a) ==
    CASE a.state = "CONFIRMED_SUCCESS" -> "post"
      [] a.state = "SETTLED" -> "consume"
      [] a.state = "CONFIRMED_REVERT" /\ l.passing -> "latest"
      [] OTHER -> Done(l)

\* A faulty variant: a leg that died before its hash was journaled is passed over.
FaultyNeedsHash(a) ==
    \/ a.state \in {"SUBMISSION_STARTED", "SUBMITTED"}
    \/ a.state = "RECONCILIATION_REQUIRED" /\ ~IsTerminal(a)

NeedsEvidence(a) ==
    \/ a.state \in {"SUBMISSION_STARTED", "SUBMITTED"}
    \/ a.state = "RECONCILIATION_REQUIRED" /\ ~IsTerminal(a)
    \/ a.state = "PREPARED" /\ a.deadAfter # 0

\* The attempt and its artifacts are read from the journal.
Load(j) ==
    LET l == [local[j] EXCEPT !.a = row, !.artifacts = artifacts]
    IN  /\ pc[j] = "load"
        /\ Continue(j, IF NeedsEvidence(row) THEN "latest" ELSE AfterEvidence(l, row), l)
        /\ UNCHANGED <<chainVars, boundVars, status, authorized, row, artifacts>>

\* One bounded read of the chain succeeds (ok) or not.
Reads(ok) ==
    \/ ok /\ UNCHANGED unreadable
    \/ ~ok /\ unreadable < MaxUnreadable /\ unreadable' = unreadable + 1

\* A confirmed revert is judged without its transaction.
TxOf(a) == IF a.state = "CONFIRMED_REVERT" THEN 0 ELSE a.tx

\* The latest block: its time, and the commitments a read pinned to it will see.
ReadLatest(j, ok) ==
    LET l == local[j]
    IN  /\ pc[j] = "latest" /\ Reads(ok)
        /\ Continue(j, IF TxOf(l.a) # 0 THEN "receipt" ELSE "commitments",
                    [l EXCEPT !.ev = [NoEvidence EXCEPT !.readable = ok,
                                                        !.time = IF ok THEN now ELSE 0,
                                                        !.commits = IF ok THEN executed ELSE {}]])
        /\ UNCHANGED <<chainVars, status, authorized, row, artifacts, runs, crashes>>

Mined == {"SUCCESS", "ANOMALY", "REVERTED"}

ReceiptOf(n) ==
    CASE txs[n] \in {"SUCCESS", "ANOMALY"} -> "SUCCESS"
      [] txs[n] = "REVERTED" -> "REVERTED"
      [] OTHER -> "null"

\* The receipt, if there is one.
ReadReceipt(j, ok) ==
    LET l == local[j]
        receipt == IF ok THEN ReceiptOf(l.a.tx) ELSE "UNREADABLE"
    IN  /\ pc[j] = "receipt" /\ Reads(ok)
        /\ Continue(j, IF receipt = "null" THEN "known" ELSE "commitments",
                    [l EXCEPT !.ev.receipt = receipt])
        /\ UNCHANGED <<chainVars, status, authorized, row, artifacts, runs, crashes>>

\* Without a receipt, whether the node knows the hash; judge treats a failure like the other's.
ReadTransaction(j, ok) ==
    LET l == local[j]
    IN  /\ pc[j] = "known" /\ Reads(ok)
        /\ Continue(j, "commitments",
                    IF ok THEN [l EXCEPT !.ev.known = txs[l.a.tx] \in {"pool"} \cup Mined]
                    ELSE [l EXCEPT !.ev.receipt = "UNREADABLE"])
        /\ UNCHANGED <<chainVars, status, authorized, row, artifacts, runs, crashes>>

\* The latest time at which an artifact of the attempt could still execute; all are dead after it.
DeadAt(a, arts, t) == \A b \in {x.deadline : x \in arts} \cup {a.deadAfter} : t > b

\* A faulty variant: the deadline is taken as proof that nothing executed.
FaultyJudgeByTimeOnly(l, ok) ==
    CASE TxOf(l.a) # 0 /\ l.ev.receipt = "UNREADABLE" -> "UNREADABLE"
      [] TxOf(l.a) # 0 /\ l.ev.receipt = "SUCCESS" -> "CONFIRMED_SUCCESS"
      [] TxOf(l.a) # 0 /\ l.ev.receipt = "REVERTED" -> "CONFIRMED_REVERT"
      [] TxOf(l.a) # 0 /\ l.ev.receipt = "null" /\ l.ev.known -> "STILL_PENDING"
      [] OTHER -> IF l.ev.readable /\ DeadAt(l.a, l.artifacts, l.ev.time) THEN "NEVER_SUBMITTED"
                  ELSE "AWAITING_DEADLINE"

(***************************************************************************)
(* judge: what the evidence proves.  Commitments are read at the latest    *)
(* block, or at the head if that block could not be read; ok says that     *)
(* they could be.                                                          *)
(***************************************************************************)
Judge(l, ok) ==
    LET commits == IF l.ev.readable THEN l.ev.commits ELSE executed
    IN  CASE TxOf(l.a) # 0 /\ l.ev.receipt = "UNREADABLE" -> "UNREADABLE"
          [] TxOf(l.a) # 0 /\ l.ev.receipt = "SUCCESS" -> "CONFIRMED_SUCCESS"
          [] TxOf(l.a) # 0 /\ l.ev.receipt = "REVERTED" -> "CONFIRMED_REVERT"
          [] TxOf(l.a) # 0 /\ l.ev.receipt = "null" /\ l.ev.known -> "STILL_PENDING"
          [] OTHER ->
              CASE l.artifacts # {} /\ ~ok -> "UNREADABLE"
                [] l.artifacts \cap commits # {} /\ ok -> "EXECUTED_OUTSIDE_ATTEMPT"
                [] OTHER -> IF ~l.ev.readable THEN "UNREADABLE"
                            ELSE IF DeadAt(l.a, l.artifacts, l.ev.time) THEN "NEVER_SUBMITTED"
                            ELSE "AWAITING_DEADLINE"

(***************************************************************************)
(* Step 1 of reconcileOne after the last read: the attempt moves as far as *)
(* the judgement allows.  Step 4 is the same evidence for a revert, which  *)
(* is released or left alone.                                              *)
(***************************************************************************)
Resolve(j, ok) ==
    LET l == local[j]
        reverted == l.a.state = "CONFIRMED_REVERT"
        verdict == Judge(l, ok)
        stay == UNCHANGED row /\ Continue(j, Done(l), l)
        hold(q) == Transition(j, "RECONCILIATION_REQUIRED", q, Done(l))
    IN  /\ pc[j] = "commitments" /\ Reads(ok)
        /\ CASE verdict \in {"CONFIRMED_SUCCESS", "CONFIRMED_REVERT"} ->
                  Transition(j, verdict, "null", AfterEvidence(l, [l.a EXCEPT !.state = verdict]))
             [] verdict = "STILL_PENDING" ->
                  IF l.a.state \in {"SUBMISSION_STARTED", "RECONCILIATION_REQUIRED"}
                  THEN Transition(j, "SUBMITTED", "null", Done(l)) ELSE stay
             [] verdict = "NEVER_SUBMITTED" -> Continue(j, "release", l) /\ UNCHANGED row
             [] OTHER ->
                  CASE reverted -> stay
                    [] ~reverted /\ verdict = "EXECUTED_OUTSIDE_ATTEMPT" -> hold(verdict)
                    [] ~reverted /\ verdict = "AWAITING_DEADLINE" ->
                         IF l.a.state = "RECONCILIATION_REQUIRED" /\ l.a.quarantine = verdict
                         THEN stay
                         ELSE IF l.a.state = "RECONCILIATION_REQUIRED" /\ row.state # l.a.state
                         THEN UNCHANGED row /\ Return(j)
                         ELSE hold(verdict)
                    [] OTHER ->
                         IF l.a.state # "RECONCILIATION_REQUIRED" THEN hold("AMBIGUOUS_BROADCAST")
                         ELSE stay
        /\ UNCHANGED <<chainVars, status, authorized, artifacts, runs, crashes>>

ReleaseReservation(j) == Account(j, "RELEASED", "release", "released")

Released(j) ==
    /\ pc[j] = "released"
    /\ Transition(j, "RELEASED", "null", Done(local[j]))
    /\ UNCHANGED <<chainVars, boundVars, status, authorized, artifacts>>

\* A faulty variant: a success settles before its postconditions are looked at.
FaultySettleUnchecked(j, ok) ==
    /\ pc[j] = "post" /\ Reads(ok)
    /\ Transition(j, "SETTLED", "null", "consume")
    /\ UNCHANGED <<chainVars, status, authorized, artifacts, runs, crashes>>

(***************************************************************************)
(* A confirmed success settles only if, at the receipt's block, the        *)
(* artifact's commitment and the exact balance changes can be read; if not *)
(* it is quarantined.                                                      *)
(***************************************************************************)
CheckPostconditions(j, ok) ==
    LET a == local[j].a
    IN  /\ pc[j] = "post" /\ Reads(ok)
        /\ IF a.sendArtifact = {} THEN UNCHANGED row /\ Continue(j, Done(local[j]), local[j])
           ELSE IF ok /\ txs[a.tx] = "SUCCESS" /\ a.sendArtifact \subseteq executed
           THEN Transition(j, "SETTLED", "null", "consume")
           ELSE Transition(j, "RECONCILIATION_REQUIRED", "POSTCONDITION_ANOMALY", Done(local[j]))
        /\ UNCHANGED <<chainVars, status, authorized, artifacts, runs, crashes>>

ConsumeReservation(j) == Account(j, "CONSUMED", "consume", "consumed")

Consumed(j) ==
    /\ pc[j] = "consumed"
    /\ Transition(j, "CONSUMED", "null", Done(local[j]))
    /\ UNCHANGED <<chainVars, boundVars, status, authorized, artifacts>>

------------------------------------------------------------------------------
(* A run (settlement.ts, spine-settlement.ts).                              *)

\* Past PREPARED, or with a send leg opened, an attempt is only reconciled.
Runnable(a) == a.state \in {"none", "PREPARED"} /\ a.deadAfter = 0

Check(j) ==
    /\ pc[j] = "check"
    /\ IF Runnable(row) THEN Continue(j, "eligible", [local[j] EXCEPT !.a = row, !.passing = FALSE,
                                                                     !.artifacts = {},
                                                                     !.ev = NoEvidence])
       ELSE Return(j)
    /\ UNCHANGED <<chainVars, boundVars, status, authorized, row, artifacts>>

(***************************************************************************)
(* The ledger is read again; an ineligible execution, and a send whose     *)
(* attempt the journal never recorded, stop here.  Then the journal holds  *)
(* the attempt, created or as it is.                                       *)
(***************************************************************************)
Prepare(j) ==
    LET l == local[j]
        unrecorded == l.mode = "SEND" /\ l.a.state = "none" /\ status # "RESERVED"
    IN  /\ pc[j] = "eligible"
        /\ IF ~Eligible(status) \/ unrecorded THEN UNCHANGED row /\ Return(j)
           ELSE /\ row' = IF row.state = "none" THEN [row EXCEPT !.state = "PREPARED"] ELSE row
                /\ Continue(j, "admit", [l EXCEPT !.a = NoRow])
        /\ UNCHANGED <<chainVars, boundVars, status, authorized, artifacts>>

\* admitSettlement: the one portfolio attempt, made now or made before; then preflight.
AdmitSettlement(j) ==
    /\ pc[j] = "admit"
    /\ IF status = "RESERVED" /\ ~authorized THEN UNCHANGED status /\ Return(j)
       ELSE /\ status' = IF status = "RESERVED" THEN "ADMITTED" ELSE status
            /\ Goto(j, "open") /\ UNCHANGED local
    /\ UNCHANGED <<chainVars, boundVars, authorized, row, artifacts>>

\* A faulty variant: only the state is compared, not whether a leg was opened.
FaultyMayBind == row.state = "PREPARED"

MayBind == row.state = "PREPARED" /\ row.deadAfter = 0

\* Any of the checks and reads between two writes stops the run.
Stop(j) ==
    /\ pc[j] \in {"open", "leg", "sign", "simulate", "call", "submit"}
    /\ Return(j)
    /\ UNCHANGED <<chainVars, boundVars, status, authorized, row, artifacts>>

(***************************************************************************)
(* Chain time is read and, for a send, bindDomain writes that an artifact  *)
(* may exist and when it is dead; then the domain leg is opened.           *)
(***************************************************************************)
OpenLeg(j) ==
    LET l == local[j]
    IN  /\ pc[j] = "open"
        /\ l.mode = "SEND" => MayBind
        /\ row' = IF l.mode = "SEND"
                  THEN [row EXCEPT !.deadAfter = now + AuthoritySeconds + MarginSeconds] ELSE row
        /\ Continue(j, "leg", [l EXCEPT !.legAt = now])
        /\ UNCHANGED <<chainVars, boundVars, status, authorized, artifacts>>

\* The leg is open and any gate signature presented: the ledger is read once more.
Refresh(j) ==
    /\ pc[j] = "leg"
    /\ Continue(j, "sign", [local[j] EXCEPT !.seen = status])
    /\ UNCHANGED <<chainVars, boundVars, status, authorized, row, artifacts>>

\* The gate deadline of an artifact signed at time t under a leg opened at legAt.
DeadlineFor(legAt, t) ==
    LET end == legAt + AuthoritySeconds - 1
    IN  IF t + AttemptSeconds < end THEN t + AttemptSeconds ELSE end

\* Custody signs inside the leg's lifetime, if the execution is still eligible.
Sign(j) ==
    LET l == local[j]
    IN  /\ pc[j] = "sign"
        /\ Eligible(l.seen) /\ now < l.legAt + AuthoritySeconds
        /\ Continue(j, "simulate",
                    [l EXCEPT !.artifact = {[run |-> l.run, deadline |-> DeadlineFor(l.legAt, now)]},
                              !.seen = "RESERVED", !.legAt = 0])
        /\ UNCHANGED <<chainVars, boundVars, status, authorized, row, artifacts>>

\* A faulty variant: the artifact is journaled only when it is to be sent.
FaultyRecordSendsOnly(j) ==
    /\ pc[j] = "simulate"
    /\ artifacts' = IF local[j].mode = "SEND" THEN artifacts \cup local[j].artifact ELSE artifacts
    /\ row' = IF local[j].mode = "SEND" /\ row.sendArtifact = {}
              THEN [row EXCEPT !.sendArtifact = local[j].artifact] ELSE row
    /\ Goto(j, "call")
    /\ UNCHANGED <<chainVars, boundVars, status, authorized, local>>

\* recordArtifact, before eth_call carries the artifact to the node.
RecordArtifact(j) ==
    /\ pc[j] = "simulate"
    /\ artifacts' = artifacts \cup local[j].artifact
    /\ row' = IF local[j].mode = "SEND" /\ row.sendArtifact = {}
              THEN [row EXCEPT !.sendArtifact = local[j].artifact] ELSE row
    /\ Goto(j, "call")
    /\ UNCHANGED <<chainVars, boundVars, status, authorized, local>>

\* eth_call and estimateGas: a dry run stops here, and so does a call that reverts.
Simulate(j) ==
    /\ pc[j] = "call"
    /\ left' = left \cup local[j].artifact
    /\ \/ Return(j)
       \/ local[j].mode = "SEND" /\ Goto(j, "submit") /\ UNCHANGED local
    /\ UNCHANGED <<now, executed, txs, broadcasts, boundVars, status, authorized, row, artifacts>>

\* startSubmission: the signed transaction's hash is on disk before the one broadcast.
StartSubmission(j) ==
    /\ pc[j] = "submit"
    /\ IF MayUpdate("SUBMISSION_STARTED")
       THEN /\ row' = [row EXCEPT !.state = "SUBMISSION_STARTED", !.tx = local[j].run]
            /\ Goto(j, "broadcast") /\ UNCHANGED local
       ELSE UNCHANGED row /\ Return(j)
    /\ UNCHANGED <<chainVars, boundVars, status, authorized, artifacts>>

\* The node takes the transaction; or it is on its way unknown to the node; or it is lost.
Broadcast(j) ==
    /\ pc[j] = "broadcast"
    /\ \E fate \in {"pool", "wild", "lost"} : txs' = [txs EXCEPT ![local[j].run] = fate]
    /\ broadcasts' = broadcasts + 1
    /\ Goto(j, "answer")
    /\ UNCHANGED <<now, left, executed, boundVars, status, authorized, row, artifacts, local>>

\* The answer: accepted or known, or an error the node gave, or none at all.
Answer(j) ==
    /\ pc[j] = "answer"
    /\ \/ txs[local[j].run] # "wild" /\ Transition(j, "SUBMITTED", "null", "mined")
       \/ \E q \in {"BROADCAST_REJECTED", "AMBIGUOUS_BROADCAST"} :
            Transition(j, "RECONCILIATION_REQUIRED", q, "mined")
    /\ UNCHANGED <<chainVars, boundVars, status, authorized, artifacts>>

\* The receipt is waited for; without one the attempt stays as it is.
AwaitReceipt(j) ==
    LET receipt == ReceiptOf(local[j].run)
    IN  /\ pc[j] = "mined"
        /\ \/ receipt = "SUCCESS" /\ Transition(j, "CONFIRMED_SUCCESS", "null", "post")
           \/ receipt = "REVERTED" /\ Transition(j, "CONFIRMED_REVERT", "null", "idle")
           \/ UNCHANGED row /\ Return(j)
        /\ UNCHANGED <<chainVars, boundVars, status, authorized, artifacts>>

------------------------------------------------------------------------------
(* The chain, the session's principal, and the process.                     *)

\* The gate executes an artifact up to its deadline, once.
GateAccepts(x) == x \in left /\ x \notin executed /\ now <= x.deadline

(***************************************************************************)
(* The transaction of run n is mined: it executes its artifact, whose      *)
(* balance changes may be mixed with others, or it reverts.                *)
(***************************************************************************)
Mine(n) ==
    /\ txs[n] \in {"pool", "wild"}
    /\ \/ \E x \in left, fate \in {"SUCCESS", "ANOMALY"} :
            /\ x.run = n /\ GateAccepts(x)
            /\ executed' = executed \cup {x}
            /\ txs' = [txs EXCEPT ![n] = fate]
       \/ txs' = [txs EXCEPT ![n] = "REVERTED"] /\ UNCHANGED executed
    /\ UNCHANGED <<now, left, broadcasts, boundVars, status, authorized, row, artifacts, pc, local>>

\* The node drops the transaction from its pool.
Drop(n) ==
    /\ txs[n] = "pool"
    /\ txs' = [txs EXCEPT ![n] = "lost"]
    /\ UNCHANGED <<now, left, executed, broadcasts, boundVars, status, authorized, row, artifacts,
                   pc, local>>

\* Someone else submits an artifact that left the process.
ExecuteOutside(x) ==
    /\ GateAccepts(x)
    /\ executed' = executed \cup {x}
    /\ UNCHANGED <<now, left, txs, broadcasts, boundVars, status, authorized, row, artifacts,
                   pc, local>>

Tick ==
    /\ now < MaxTime
    /\ now' = now + 1
    /\ UNCHANGED <<left, executed, txs, broadcasts, boundVars, status, authorized, row, artifacts,
                   pc, local>>

\* The version is paused, superseded or revoked, or resumed.
SetAuthority ==
    /\ authorized' = ~authorized
    /\ UNCHANGED <<chainVars, boundVars, status, row, artifacts, pc, local>>

\* The process dies and starts again: jobs are lost, the journal and the ledger are not.
Crash ==
    /\ crashes < MaxCrashes
    /\ crashes' = crashes + 1
    /\ pc' = [j \in Jobs |-> "idle"]
    /\ local' = [j \in Jobs |-> NoLocal]
    /\ UNCHANGED <<chainVars, status, authorized, row, artifacts, runs, unreadable>>

ReconcileStep(j) ==
    \/ Load(j)
    \/ \E ok \in BOOLEAN : ReadLatest(j, ok) \/ ReadReceipt(j, ok) \/ ReadTransaction(j, ok)
                           \/ Resolve(j, ok) \/ CheckPostconditions(j, ok)
    \/ ReleaseReservation(j) \/ Released(j) \/ ConsumeReservation(j) \/ Consumed(j)

RunStep(j) ==
    \/ Check(j) \/ Prepare(j) \/ AdmitSettlement(j) \/ Stop(j) \/ OpenLeg(j) \/ Refresh(j)
    \/ Sign(j) \/ RecordArtifact(j) \/ Simulate(j) \/ StartSubmission(j) \/ Broadcast(j)
    \/ Answer(j) \/ AwaitReceipt(j)

JobStep(j) == Enter(j) \/ ReconcileStep(j) \/ RunStep(j)

Reconcile == \E j \in Jobs : Request(j, "RECONCILE")

Next ==
    \/ \E j \in Jobs : JobStep(j) \/ Request(j, "DRY_RUN") \/ Request(j, "SEND")
    \/ Reconcile
    \/ \E n \in 1 .. MaxRuns : Mine(n) \/ Drop(n)
    \/ \E x \in left : ExecuteOutside(x)
    \/ Tick \/ SetAuthority \/ Crash

(***************************************************************************)
(* A job that can go on does: its awaits all return, throw or time out.    *)
(* Chain time passes, a transaction the node knows is mined or dropped in  *)
(* the end, and reconciliation is asked for again and again (every start   *)
(* and every request of a settlement begins with it).                      *)
(***************************************************************************)
Spec ==
    /\ Init /\ [][Next]_vars
    /\ \A j \in Jobs : WF_vars(JobStep(j))
    /\ WF_vars(Tick) /\ WF_vars(Reconcile)
    /\ \A n \in 1 .. MaxRuns : WF_vars(Mine(n) \/ Drop(n))

------------------------------------------------------------------------------
(* Properties.                                                              *)

Artifacts == [run : 1 .. MaxRuns, deadline : Nat]
Quarantines == {"null", "AMBIGUOUS_BROADCAST", "BROADCAST_REJECTED", "AWAITING_DEADLINE"}
                 \cup TerminalQuarantines
Rows == [state : DOMAIN NextStates \cup {"none"}, quarantine : Quarantines, deadAfter : Nat,
         tx : 0 .. MaxRuns, sendArtifact : SUBSET Artifacts]
Evidence == [readable : BOOLEAN, time : Nat, commits : SUBSET Artifacts,
             receipt : {"null", "SUCCESS", "REVERTED", "UNREADABLE"}, known : BOOLEAN]
Statuses == {"RESERVED", "ADMITTED", "CONSUMED", "RELEASED"}
Locals == [mode : {"none", "DRY_RUN", "SEND", "RECONCILE"}, run : 0 .. MaxRuns, passing : BOOLEAN,
           a : Rows, artifacts : SUBSET Artifacts, ev : Evidence, seen : Statuses, legAt : Nat,
           artifact : SUBSET Artifacts]
Labels == {"idle", "opening", "load", "latest", "receipt", "known", "commitments", "release",
           "released", "post", "consume", "consumed", "check", "eligible", "admit", "open", "leg",
           "sign", "simulate", "call", "submit", "broadcast", "answer", "mined"}

\* Type invariant.
TypeOK ==
    /\ now \in 0 .. MaxTime
    /\ status \in Statuses /\ authorized \in BOOLEAN
    /\ row \in Rows
    /\ artifacts \subseteq Artifacts /\ left \subseteq Artifacts /\ executed \subseteq left
    /\ txs \in [1 .. MaxRuns -> {"none", "pool", "wild", "lost"} \cup Mined]
    /\ broadcasts \in Nat
    /\ pc \in [Jobs -> Labels] /\ local \in [Jobs -> Locals]
    /\ runs \in 0 .. MaxRuns /\ crashes \in 0 .. MaxCrashes /\ unreadable \in 0 .. MaxUnreadable

(***************************************************************************)
(* One reservation is broadcast at most once, whatever dry runs, sends,    *)
(* reconciliations and crashes interleave (settlement.ts:204, 287).        *)
(***************************************************************************)
BroadcastOnce == broadcasts <= 1

(***************************************************************************)
(* A released reservation has not executed and never will: no artifact of  *)
(* it that ever left the process is recorded by the gate or could still be *)
(* accepted (reconcile.ts:21-24).                                            *)
(***************************************************************************)
ReleasedNeverExecutes ==
    status = "RELEASED" => executed = {} /\ \A x \in left : ~GateAccepts(x)

(***************************************************************************)
(* What is consumed was executed by this attempt's own transaction, with   *)
(* exactly the balance changes it was authorized for (settlement.ts:576).  *)
(***************************************************************************)
ConsumedWasSettled ==
    status = "CONSUMED" => /\ row.tx # 0 /\ txs[row.tx] = "SUCCESS"
                           /\ row.sendArtifact # {} /\ row.sendArtifact \subseteq executed

(***************************************************************************)
(* The journal closes an attempt only after the portfolio ledger has: a    *)
(* crash between the two is found again by reconciliation (reconcile.ts:9).*)
(***************************************************************************)
JournalFollowsLedger ==
    row.state \in {"CONSUMED", "RELEASED"} => status = row.state

(***************************************************************************)
(* Nothing leaves the process unrecorded: an artifact is in the journal    *)
(* before eth_call carries it out, a transaction's hash before it is       *)
(* broadcast (journal.ts:24).                                              *)
(***************************************************************************)
WriteAhead ==
    /\ left \subseteq artifacts
    /\ \A n \in 1 .. MaxRuns : txs[n] # "none" => row.tx = n /\ row.state # "PREPARED"

\* The attempt has its last state; a revert whose artifact someone else executed stays held.
Resolved == IsTerminal(row) \/ (row.state = "CONFIRMED_REVERT" /\ executed # {})

(***************************************************************************)
(* An attempt whose send leg was opened is resolved in the end, wherever   *)
(* the run stopped: settled, released or quarantined (reconcile.ts:60).    *)
(***************************************************************************)
HeldIsResolved ==
    (row.deadAfter # 0 /\ row.deadAfter < MaxTime) ~> (row.state # "none" /\ Resolved)

=============================================================================
