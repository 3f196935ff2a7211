------------------------ MODULE LiveSettlementProofs -------------------------
(***************************************************************************)
(* Theorems about LiveSettlement, for any number of overlapping jobs,      *)
(* runs, crashes and failed reads and any lifetimes: one broadcast, a      *)
(* write-ahead journal, a journal that follows the portfolio ledger, and   *)
(* consumption only of what settled; and, for jobs that run one at a time, *)
(* that what was released can never execute.                               *)
(***************************************************************************)
EXTENDS LiveSettlement, TLAPS

------------------------------------------------------------------------------
(* The inductive invariant.                                                 *)

LegLabels == {"leg", "sign", "simulate", "call", "submit"}
SentLabels == {"broadcast", "answer", "mined"}
RunLabels == {"admit", "open"} \cup LegLabels \cup SentLabels

\* The job of a send whose leg is open.
Sending(j) == local[j].mode = "SEND" /\ pc[j] \in LegLabels \cup SentLabels

\* The attempt's own transaction executed its own artifact, and nothing else moved.
Good ==
    /\ row.tx # 0 /\ txs[row.tx] = "SUCCESS"
    /\ row.sendArtifact # {} /\ row.sendArtifact \subseteq executed

\* bindDomain lets one send through, ever.
OneSender == \A j, k \in Jobs : Sending(j) /\ Sending(k) => j = k

(***************************************************************************)
(* The journal, the ledger and the chain: what was broadcast is the        *)
(* transaction whose hash the row holds, an artifact is in the journal     *)
(* before it is carried out, and the ledger is written before the row.     *)
(***************************************************************************)
SharedInv ==
    /\ row.deadAfter = 0 => row.tx = 0
    /\ broadcasts \in {0, 1}
    /\ row.tx = 0 => broadcasts = 0
    /\ broadcasts = 0 => \A n \in 1 .. MaxRuns : txs[n] = "none"
    /\ \A n \in 1 .. MaxRuns : txs[n] # "none" => row.tx = n
    /\ row.tx # 0 => row.state \notin {"none", "PREPARED"}
    /\ left \subseteq artifacts
    /\ row.state \in {"CONFIRMED_SUCCESS", "SETTLED", "CONSUMED"} => row.tx # 0
    /\ row.state \in {"SETTLED", "CONSUMED"} => Good
    /\ status = "CONSUMED" => Good
    /\ JournalFollowsLedger

\* A run has a number, and a send that has written its hash has the row's.
NumberedInv(j) ==
    /\ pc[j] # "idle" => local[j].mode # "none"
    /\ local[j].mode \in {"DRY_RUN", "SEND"} => local[j].run # 0
    /\ pc[j] \in {"check", "eligible"} \cup RunLabels => local[j].mode # "RECONCILE"
    /\ pc[j] \in SentLabels \cup {"submit"} => local[j].mode = "SEND"

\* A send has bound its leg, and its hash is not in the row before its submission starts.
SenderInv(j) ==
    /\ Sending(j) => row.deadAfter # 0
    /\ Sending(j) /\ pc[j] \in LegLabels => row.tx = 0
    /\ pc[j] \in SentLabels => row.tx = local[j].run
    /\ pc[j] = "broadcast" => broadcasts = 0
    /\ pc[j] = "call" => local[j].artifact \subseteq artifacts

(***************************************************************************)
(* A job's copy of the row, however old, has the row's hash and artifact   *)
(* or none; a job consumes only what settled, and closes the row only when *)
(* the ledger has been written.                                            *)
(***************************************************************************)
CloserInv(j) ==
    /\ local[j].a.tx # 0 => local[j].a.tx = row.tx
    /\ local[j].a.sendArtifact # {} => local[j].a.sendArtifact = row.sendArtifact
    /\ pc[j] = "post" => local[j].a.tx # 0
    /\ pc[j] \in {"consume", "consumed"} => Good
    /\ pc[j] = "released" => status = "RELEASED"
    /\ pc[j] = "consumed" => status = "CONSUMED"

JobInv(j) == NumberedInv(j) /\ SenderInv(j) /\ CloserInv(j)

SettlementInv ==
    /\ TypeOK
    /\ SharedInv
    /\ OneSender
    /\ \A j \in Jobs : JobInv(j)

(***************************************************************************)
(* No two jobs are past the opening of their session: what the refusal of  *)
(* a request while another runs is for (ui-settle.ts), and what two        *)
(* requests that open the session together escape.                         *)
(***************************************************************************)
Serial == \A j, k \in Running : j = k

\* Nothing executed, and nothing in the journal can execute any more.
AllDead == executed = {} /\ \A x \in artifacts : x.deadline < now

\* Evidence a reconciliation has gathered stays decisive once the artifacts are dead.
EvidenceHolds(j) ==
    LET ev == local[j].ev
    IN  ev.readable => /\ ev.time <= now /\ ev.commits \subseteq executed
                       /\ (\A x \in artifacts : x.deadline < ev.time) => executed = ev.commits

JobRelease(j) ==
    /\ pc[j] \in RunLabels => status # "RELEASED"
    /\ pc[j] \in {"release", "released"} => AllDead
    /\ pc[j] \in {"latest", "receipt", "known", "commitments"} => local[j].artifacts = artifacts
    /\ pc[j] \in {"receipt", "known", "commitments"} => EvidenceHolds(j)

(***************************************************************************)
(* While jobs run one at a time, a reservation is released on evidence     *)
(* that still holds, and no run goes on once it is.                        *)
(***************************************************************************)
ReleaseInv ==
    /\ status = "RELEASED" => AllDead
    /\ \A j \in Jobs : JobRelease(j)

------------------------------------------------------------------------------
(* Types.                                                                   *)

States == DOMAIN NextStates

(***************************************************************************)
(* The states of the journal's transition table.                           *)
(***************************************************************************)
LEMMA StatesAre ==
    States = {"PREPARED", "SUBMISSION_STARTED", "SUBMITTED", "RECONCILIATION_REQUIRED",
              "CONFIRMED_SUCCESS", "CONFIRMED_REVERT", "SETTLED", "CONSUMED", "RELEASED",
              "PREPARATION_FAILED"}
BY DEF States, NextStates

(***************************************************************************)
(* The empty row, evidence and locals are well typed.                      *)
(***************************************************************************)
LEMMA EmptyTyped == NoRow \in Rows /\ NoEvidence \in Evidence /\ NoLocal \in Locals
<1>1. NoRow \in Rows
  BY SettlementAssumption DEF NoRow, Rows, Quarantines
<1>2. NoEvidence \in Evidence
  BY DEF NoEvidence, Evidence
<1>3. NoLocal \in Locals
  BY <1>1, <1>2, SettlementAssumption DEF NoLocal, Locals, Statuses
<1> QED
  BY <1>1, <1>2, <1>3

(***************************************************************************)
(* Where a job goes on after its reconciliation is a label.                *)
(***************************************************************************)
LEMMA LabelsTyped ==
    ASSUME NEW l \in Locals, NEW a \in Rows
    PROVE  Done(l) \in {"check", "idle"}
           /\ AfterEvidence(l, a) \in {"post", "consume", "latest", "check", "idle"}
BY DEF Done, AfterEvidence

(***************************************************************************)
(* A job that goes on with typed locals leaves the jobs typed.             *)
(***************************************************************************)
LEMMA ContinueTyped ==
    ASSUME pc \in [Jobs -> Labels], local \in [Jobs -> Locals], NEW j \in Jobs,
           NEW label \in Labels, NEW l \in Locals, Continue(j, label, l)
    PROVE  pc' \in [Jobs -> Labels] /\ local' \in [Jobs -> Locals]
BY EmptyTyped DEF Continue, Goto, Keep

\* So does one that returns.
LEMMA ReturnTyped ==
    ASSUME pc \in [Jobs -> Labels], local \in [Jobs -> Locals], NEW j \in Jobs, Return(j)
    PROVE  pc' \in [Jobs -> Labels] /\ local' \in [Jobs -> Locals]
BY EmptyTyped DEF Return, Goto, Keep, Labels

(***************************************************************************)
(* The row after a transition.                                             *)
(***************************************************************************)
LEMMA RowUpdateTyped ==
    ASSUME NEW r \in Rows, NEW to \in States, NEW q \in Quarantines
    PROVE  [r EXCEPT !.state = to, !.quarantine = IF to = "RECONCILIATION_REQUIRED" THEN q ELSE "null"]
             \in Rows
BY DEF Rows, States, Quarantines

\* A transition keeps the row and the jobs typed.
LEMMA TransitionTyped ==
    ASSUME pc \in [Jobs -> Labels], local \in [Jobs -> Locals], row \in Rows, NEW j \in Jobs,
           NEW to \in States, NEW q \in Quarantines, NEW label \in Labels,
           Transition(j, to, q, label)
    PROVE  pc' \in [Jobs -> Labels] /\ local' \in [Jobs -> Locals] /\ row' \in Rows
<1> DEFINE a == [row EXCEPT !.state = to,
                            !.quarantine = IF to = "RECONCILIATION_REQUIRED" THEN q ELSE "null"]
<1>1. a \in Rows
  BY RowUpdateTyped
<1>2. [local[j] EXCEPT !.a = a] \in Locals
  <2> HIDE DEF a
  <2>1. local[j] \in Locals
    OBVIOUS
  <2> QED
    BY <1>1, <2>1 DEF Locals
<1>3. \/ row' = a /\ Continue(j, label, [local[j] EXCEPT !.a = a])
      \/ row' = row /\ Return(j)
  BY Zenon DEF Transition
<1> HIDE DEF a
<1> QED
  BY <1>1, <1>2, <1>3, ContinueTyped, ReturnTyped

\* What is neither the row nor a job's.
RestTyped ==
    /\ now \in 0 .. MaxTime
    /\ status \in Statuses /\ authorized \in BOOLEAN
    /\ artifacts \subseteq Artifacts /\ left \subseteq Artifacts /\ executed \subseteq left
    /\ txs \in [1 .. MaxRuns -> {"none", "pool", "wild", "lost"} \cup Mined]
    /\ broadcasts \in Nat
    /\ runs \in 0 .. MaxRuns /\ crashes \in 0 .. MaxCrashes /\ unreadable \in 0 .. MaxUnreadable

JobsTyped == pc \in [Jobs -> Labels] /\ local \in [Jobs -> Locals]

(***************************************************************************)
(* The type invariant in three parts.                                      *)
(***************************************************************************)
LEMMA TypeParts == TypeOK <=> RestTyped /\ JobsTyped /\ row \in Rows
BY DEF TypeOK, RestTyped, JobsTyped

(***************************************************************************)
(* A read of the chain counts its failures within the bound.               *)
(***************************************************************************)
LEMMA ReadsTyped ==
    ASSUME unreadable \in 0 .. MaxUnreadable, NEW ok, Reads(ok)
    PROVE  unreadable' \in 0 .. MaxUnreadable
BY SettlementAssumption DEF Reads

(***************************************************************************)
(* Requests and reconciliation keep the types.                             *)
(***************************************************************************)
LEMMA RequestTyped ==
    ASSUME TypeOK, NEW j \in Jobs, NEW mode \in {"DRY_RUN", "SEND", "RECONCILE"}, Request(j, mode)
    PROVE  TypeOK'
<1>0. RestTyped /\ JobsTyped /\ row \in Rows
  BY TypeParts
<1>1. RestTyped' /\ row' \in Rows
  BY <1>0, SettlementAssumption DEF RestTyped, Request, chainVars
<1> DEFINE n == IF mode = "RECONCILE" THEN 0 ELSE runs + 1
<1>2. n \in 0 .. MaxRuns
  BY <1>0, SettlementAssumption DEF RestTyped, Request
<1>3. [NoLocal EXCEPT !.mode = mode, !.run = n] \in Locals
  <2> HIDE DEF n
  <2> QED
    BY <1>2, EmptyTyped DEF Locals
<1>4. JobsTyped'
  BY <1>0, <1>3 DEF JobsTyped, Request, Goto, Keep, Labels
<1> QED
  BY <1>1, <1>4, TypeParts DEF TypeOK, RestTyped, JobsTyped

\* Entering a job and loading the attempt.
LEMMA EnterLoadTyped ==
    ASSUME TypeOK, NEW j \in Jobs, Enter(j) \/ Load(j)
    PROVE  TypeOK'
<1>0. RestTyped /\ JobsTyped /\ row \in Rows
  BY TypeParts
<1>1. CASE Enter(j)
  BY <1>0, <1>1 DEF TypeOK, RestTyped, JobsTyped, Enter, Goto, chainVars, boundVars, Labels
<1>2. CASE Load(j)
  <2> DEFINE l == [local[j] EXCEPT !.a = row, !.artifacts = artifacts]
  <2>1. local[j] \in Locals /\ artifacts \subseteq Artifacts
    BY <1>0 DEF JobsTyped, RestTyped
  <2>2. l \in Locals
    BY <1>0, <2>1 DEF Locals
  <2>3. PICK label \in {"post", "consume", "latest", "check", "idle"} : Continue(j, label, l)
    BY <1>0, <1>2, <2>2, LabelsTyped DEF Load
  <2> HIDE DEF l
  <2>4. JobsTyped'
    BY <1>0, <2>2, <2>3, ContinueTyped DEF JobsTyped, Labels
  <2>5. RestTyped' /\ row' \in Rows
    BY <1>0, <1>2 DEF RestTyped, Load, chainVars, boundVars
  <2> QED
    BY <2>4, <2>5 DEF TypeOK, RestTyped, JobsTyped
<1> QED
  BY <1>1, <1>2

\* The reads of the chain.
LEMMA ReadTyped ==
    ASSUME TypeOK, NEW j \in Jobs, NEW ok \in BOOLEAN,
           ReadLatest(j, ok) \/ ReadReceipt(j, ok) \/ ReadTransaction(j, ok)
    PROVE  TypeOK'
<1>0. RestTyped /\ JobsTyped /\ row \in Rows /\ local[j] \in Locals
  BY TypeParts DEF JobsTyped
<1>1. RestTyped' /\ row' \in Rows
  <2>1. Reads(ok)
    BY DEF ReadLatest, ReadReceipt, ReadTransaction
  <2>2. unreadable' \in 0 .. MaxUnreadable
    BY <1>0, <2>1, ReadsTyped DEF RestTyped
  <2>3. /\ UNCHANGED <<now, left, executed, txs, broadcasts, status, authorized, row, artifacts>>
        /\ UNCHANGED <<runs, crashes>>
    BY DEF ReadLatest, ReadReceipt, ReadTransaction, chainVars
  <2> QED
    BY <1>0, <2>2, <2>3 DEF RestTyped
<1>2. local[j].ev \in Evidence
  BY <1>0 DEF Locals
<1>3. \E l \in Locals : \E label \in Labels : Continue(j, label, l)
  <2>1. CASE ReadLatest(j, ok)
    <3> DEFINE ev == [NoEvidence EXCEPT !.readable = ok, !.time = IF ok THEN now ELSE 0,
                                        !.commits = IF ok THEN executed ELSE {}]
    <3>1. executed \subseteq Artifacts /\ now \in Nat
      BY <1>0, SettlementAssumption DEF RestTyped
    <3>2. ev \in Evidence
      BY <3>1, EmptyTyped DEF Evidence
    <3> HIDE DEF ev
    <3>3. [local[j] EXCEPT !.ev = ev] \in Locals
      BY <1>0, <3>2 DEF Locals
    <3>4. \E label \in Labels : Continue(j, label, [local[j] EXCEPT !.ev = ev])
      BY <2>1 DEF ReadLatest, Labels, ev
    <3> QED
      BY <3>3, <3>4
  <2>2. CASE ReadReceipt(j, ok)
    <3> DEFINE receipt == IF ok THEN ReceiptOf(local[j].a.tx) ELSE "UNREADABLE"
    <3>1. receipt \in {"null", "SUCCESS", "REVERTED", "UNREADABLE"}
      BY DEF ReceiptOf
    <3>2. \E label \in Labels : Continue(j, label, [local[j] EXCEPT !.ev.receipt = receipt])
      BY <2>2 DEF ReadReceipt, Labels
    <3> HIDE DEF receipt
    <3>3. [local[j].ev EXCEPT !.receipt = receipt] \in Evidence
      BY <1>2, <3>1 DEF Evidence
    <3>4. [local[j] EXCEPT !.ev.receipt = receipt] \in Locals
      BY <1>0, <3>3 DEF Locals
    <3> QED
      BY <3>2, <3>4
  <2>3. CASE ReadTransaction(j, ok)
    <3> DEFINE known == txs[local[j].a.tx] \in {"pool"} \cup Mined
    <3>0. /\ known \in BOOLEAN
          /\ Continue(j, "commitments", IF ok THEN [local[j] EXCEPT !.ev.known = known]
                                        ELSE [local[j] EXCEPT !.ev.receipt = "UNREADABLE"])
      BY <2>3 DEF ReadTransaction
    <3> HIDE DEF known
    <3>1. [local[j].ev EXCEPT !.known = known] \in Evidence
      BY <1>2, <3>0 DEF Evidence
    <3>2. [local[j].ev EXCEPT !.receipt = "UNREADABLE"] \in Evidence
      BY <1>2 DEF Evidence
    <3>3. [local[j] EXCEPT !.ev.known = known] \in Locals
      BY <1>0, <3>1 DEF Locals
    <3>4. [local[j] EXCEPT !.ev.receipt = "UNREADABLE"] \in Locals
      BY <1>0, <3>2 DEF Locals
    <3>5. "commitments" \in Labels
      BY DEF Labels
    <3> QED
      BY <3>0, <3>3, <3>4, <3>5
  <2> QED
    BY <2>1, <2>2, <2>3
<1>4. JobsTyped'
  BY <1>0, <1>3, ContinueTyped DEF JobsTyped
<1> QED
  BY <1>1, <1>4 DEF TypeOK, RestTyped, JobsTyped

------------------------------------------------------------------------------
(* What the steps of a job do to it and to the row.                         *)

\* The other jobs stay where they are.
Frame(j) == \A k \in Jobs : k # j => pc'[k] = pc[k] /\ local'[k] = local[k]

(***************************************************************************)
(* A job goes on at a label with its locals, or is over with none.         *)
(***************************************************************************)
LEMMA ContinueEffect ==
    ASSUME JobsTyped, NEW j \in Jobs, NEW label, NEW l, Continue(j, label, l)
    PROVE  /\ Frame(j) /\ pc'[j] = label
           /\ local'[j] = IF label = "idle" THEN NoLocal ELSE l
BY DEF JobsTyped, Continue, Goto, Keep, Frame

\* A job that returns is over.
LEMMA ReturnEffect ==
    ASSUME JobsTyped, NEW j \in Jobs, Return(j)
    PROVE  Frame(j) /\ pc'[j] = "idle" /\ local'[j] = NoLocal
BY DEF JobsTyped, Return, Goto, Keep, Frame

\* The fields of the row that no transition writes.
RowKept == /\ row'.tx = row.tx /\ row'.deadAfter = row.deadAfter
           /\ row'.sendArtifact = row.sendArtifact

(***************************************************************************)
(* A transition writes the state the job asked for and the job goes on     *)
(* with the new row, or the journal refuses and the job is over.           *)
(***************************************************************************)
LEMMA TransitionEffect ==
    ASSUME JobsTyped, row \in Rows, NEW j \in Jobs, NEW to \in States, NEW q \in Quarantines,
           NEW label, Transition(j, to, q, label)
    PROVE  /\ RowKept /\ Frame(j)
           /\ \/ /\ row'.state = to /\ MayUpdate(to) /\ pc'[j] = label
                 /\ local'[j] = IF label = "idle" THEN NoLocal ELSE [local[j] EXCEPT !.a = row']
              \/ row' = row /\ pc'[j] = "idle" /\ local'[j] = NoLocal
<1> DEFINE a == [row EXCEPT !.state = to,
                            !.quarantine = IF to = "RECONCILIATION_REQUIRED" THEN q ELSE "null"]
<1>1. a.tx = row.tx /\ a.deadAfter = row.deadAfter /\ a.sendArtifact = row.sendArtifact /\ a.state = to
  BY DEF Rows
<1>2. \/ MayUpdate(to) /\ row' = a /\ Continue(j, label, [local[j] EXCEPT !.a = a])
      \/ row' = row /\ Return(j)
  BY Zenon DEF Transition
<1> HIDE DEF a
<1>3. CASE MayUpdate(to) /\ row' = a /\ Continue(j, label, [local[j] EXCEPT !.a = a])
  BY <1>1, <1>3, ContinueEffect DEF RowKept
<1>4. CASE row' = row /\ Return(j)
  BY <1>4, ReturnEffect DEF RowKept
<1> QED
  BY <1>2, <1>3, <1>4

\* What reconciliation may write once the evidence is in, and where the job goes on.
Verdicts == {"CONFIRMED_SUCCESS", "CONFIRMED_REVERT", "STILL_PENDING", "NEVER_SUBMITTED",
             "UNREADABLE", "EXECUTED_OUTSIDE_ATTEMPT", "AWAITING_DEADLINE"}

\* The judgement is one of seven, and a success is of the copy's transaction.
LEMMA JudgeVerdicts ==
    ASSUME NEW l \in Locals, NEW ok \in BOOLEAN
    PROVE  /\ Judge(l, ok) \in Verdicts
           /\ Judge(l, ok) = "CONFIRMED_SUCCESS" => l.a.tx # 0
BY DEF Judge, TxOf, Verdicts

(***************************************************************************)
(* Resolve: the four ways in which a reconciliation writes, the one in     *)
(* which it goes on to release, and the one in which nothing is written.   *)
(***************************************************************************)
LEMMA ResolveEffect ==
    ASSUME NEW j \in Jobs, local[j] \in Locals, NEW ok \in BOOLEAN, Resolve(j, ok)
    PROVE  LET l == local[j] IN
           \/ l.a.tx # 0 /\ Transition(j, "CONFIRMED_SUCCESS", "null", "post")
           \/ \E label \in {"latest", "check", "idle"} :
                  /\ Transition(j, "CONFIRMED_REVERT", "null", label)
                  /\ label = "check" => l.mode # "RECONCILE"
           \/ \E label \in {"check", "idle"} :
                  /\ Transition(j, "SUBMITTED", "null", label)
                  /\ label = "check" => l.mode # "RECONCILE"
           \/ \E q \in Quarantines, label \in {"check", "idle"} :
                  /\ Transition(j, "RECONCILIATION_REQUIRED", q, label)
                  /\ label = "check" => l.mode # "RECONCILE"
           \/ Judge(l, ok) = "NEVER_SUBMITTED" /\ row' = row /\ Continue(j, "release", l)
           \/ \E label \in {"check", "idle"} :
                  /\ row' = row /\ Continue(j, label, l)
                  /\ label = "check" => l.mode # "RECONCILE"
           \/ row' = row /\ Return(j)
<1> DEFINE l == local[j]
           verdict == Judge(l, ok)
<1>1. verdict \in Verdicts /\ (verdict = "CONFIRMED_SUCCESS" => l.a.tx # 0)
  BY JudgeVerdicts
<1>2. Done(l) \in {"check", "idle"} /\ (Done(l) = "check" => l.mode # "RECONCILE")
  BY DEF Done
<1>3. CASE verdict = "CONFIRMED_SUCCESS"
  <2>1. AfterEvidence(l, [l.a EXCEPT !.state = "CONFIRMED_SUCCESS"]) = "post"
    BY DEF AfterEvidence, Locals, Rows
  <2>2. Transition(j, "CONFIRMED_SUCCESS", "null",
                   AfterEvidence(l, [l.a EXCEPT !.state = "CONFIRMED_SUCCESS"]))
    BY <1>3, Zenon DEF Resolve
  <2> QED
    BY <1>1, <1>3, <2>1, <2>2
<1>4. CASE verdict = "CONFIRMED_REVERT"
  <2>1. /\ AfterEvidence(l, [l.a EXCEPT !.state = "CONFIRMED_REVERT"]) \in {"latest", "check", "idle"}
        /\ AfterEvidence(l, [l.a EXCEPT !.state = "CONFIRMED_REVERT"]) = "check" => l.mode # "RECONCILE"
    BY <1>2 DEF AfterEvidence, Locals, Rows
  <2>2. Transition(j, "CONFIRMED_REVERT", "null",
                   AfterEvidence(l, [l.a EXCEPT !.state = "CONFIRMED_REVERT"]))
    BY <1>4, Zenon DEF Resolve
  <2> QED
    BY <2>1, <2>2
<1>5. CASE verdict = "STILL_PENDING"
  <2>1. \/ Transition(j, "SUBMITTED", "null", Done(l))
        \/ UNCHANGED row /\ Continue(j, Done(l), l)
    BY <1>5 DEF Resolve
  <2> QED
    BY <1>2, <2>1
<1>6. CASE verdict = "NEVER_SUBMITTED"
  BY <1>6 DEF Resolve
<1>7. CASE verdict \in {"UNREADABLE", "EXECUTED_OUTSIDE_ATTEMPT", "AWAITING_DEADLINE"}
  <2>1. \/ \E q \in Quarantines : Transition(j, "RECONCILIATION_REQUIRED", q, Done(l))
        \/ UNCHANGED row /\ Continue(j, Done(l), l)
        \/ UNCHANGED row /\ Return(j)
    BY <1>7 DEF Resolve, Quarantines, TerminalQuarantines
  <2> QED
    BY <1>2, <2>1
<1> QED
  BY <1>1, <1>3, <1>4, <1>5, <1>6, <1>7 DEF Verdicts

------------------------------------------------------------------------------
(* The other steps keep the types.                                          *)

(***************************************************************************)
(* A step of a job that touches the row and the job only.                  *)
(***************************************************************************)
LEMMA RestKept ==
    ASSUME RestTyped, unreadable' \in 0 .. MaxUnreadable,
           UNCHANGED <<now, left, executed, txs, broadcasts, status, authorized, artifacts, runs,
                       crashes>>
    PROVE  RestTyped'
BY DEF RestTyped

\* Reconciliation after the reads.
LEMMA ResolveTyped ==
    ASSUME TypeOK, NEW j \in Jobs, NEW ok \in BOOLEAN, Resolve(j, ok)
    PROVE  TypeOK'
<1>0. RestTyped /\ JobsTyped /\ row \in Rows /\ local[j] \in Locals
  BY TypeParts DEF JobsTyped
<1>1. RestTyped'
  <2>1. /\ Reads(ok)
        /\ UNCHANGED <<now, left, executed, txs, broadcasts, status, authorized, artifacts, runs,
                       crashes>>
    BY DEF Resolve, chainVars
  <2> QED
    BY <1>0, <2>1, ReadsTyped, RestKept DEF RestTyped
<1>2. {"check", "idle", "latest", "post", "release"} \subseteq Labels
  BY DEF Labels
<1>3. {"CONFIRMED_SUCCESS", "CONFIRMED_REVERT", "SUBMITTED", "RECONCILIATION_REQUIRED"} \subseteq States
  BY StatesAre
<1>4. "null" \in Quarantines
  BY DEF Quarantines
<1>5. \/ \E to \in States, q \in Quarantines, label \in Labels : Transition(j, to, q, label)
      \/ row' = row /\ \E label \in Labels : Continue(j, label, local[j])
      \/ row' = row /\ Return(j)
  BY <1>0, <1>2, <1>3, <1>4, ResolveEffect
<1>6. JobsTyped' /\ row' \in Rows
  BY <1>0, <1>5, TransitionTyped, ContinueTyped, ReturnTyped DEF JobsTyped
<1> QED
  BY <1>1, <1>6 DEF TypeOK, RestTyped, JobsTyped

\* The postconditions, and the steps that close an attempt.
LEMMA ClosingTyped ==
    ASSUME TypeOK, NEW j \in Jobs, NEW ok \in BOOLEAN,
           CheckPostconditions(j, ok) \/ Released(j) \/ Consumed(j)
    PROVE  TypeOK'
<1>0. RestTyped /\ JobsTyped /\ row \in Rows /\ local[j] \in Locals
  BY TypeParts DEF JobsTyped
<1>1. RestTyped'
  <2>1. /\ Reads(ok) \/ UNCHANGED unreadable
        /\ UNCHANGED <<now, left, executed, txs, broadcasts, status, authorized, artifacts, runs,
                       crashes>>
    BY DEF CheckPostconditions, Released, Consumed, chainVars, boundVars
  <2> QED
    BY <1>0, <2>1, ReadsTyped, RestKept DEF RestTyped
<1>2. Done(local[j]) \in Labels /\ "consume" \in Labels
  BY DEF Done, Labels
<1>3. {"SETTLED", "RECONCILIATION_REQUIRED", "RELEASED", "CONSUMED"} \subseteq States
  BY StatesAre
<1>4. "null" \in Quarantines /\ "POSTCONDITION_ANOMALY" \in Quarantines
  BY DEF Quarantines, TerminalQuarantines
<1>5. \/ \E to \in States, q \in Quarantines, label \in Labels : Transition(j, to, q, label)
      \/ row' = row /\ \E label \in Labels : Continue(j, label, local[j])
  BY <1>2, <1>3, <1>4 DEF CheckPostconditions, Released, Consumed
<1>6. JobsTyped' /\ row' \in Rows
  BY <1>0, <1>5, TransitionTyped, ContinueTyped DEF JobsTyped
<1> QED
  BY <1>1, <1>6 DEF TypeOK, RestTyped, JobsTyped

\* The writes to the portfolio ledger.
LEMMA AccountTyped ==
    ASSUME TypeOK, NEW j \in Jobs, NEW outcome \in Statuses, NEW at, NEW next \in Labels,
           Account(j, outcome, at, next)
    PROVE  TypeOK'
<1>0. RestTyped /\ JobsTyped /\ row \in Rows /\ local[j] \in Locals
  BY TypeParts DEF JobsTyped
<1>1. RestTyped' /\ row' = row
  BY <1>0 DEF Account, RestTyped, chainVars, boundVars
<1>2. Done(local[j]) \in Labels
  BY DEF Done, Labels
<1>3. \/ Goto(j, next) /\ local' = local
      \/ Continue(j, Done(local[j]), local[j])
  BY DEF Account
<1>4. JobsTyped'
  BY <1>0, <1>2, <1>3, ContinueTyped DEF JobsTyped, Goto
<1> QED
  BY <1>0, <1>1, <1>4 DEF TypeOK, RestTyped, JobsTyped

\* The steps of a run up to the open leg.
LEMMA RunStartTyped ==
    ASSUME TypeOK, NEW j \in Jobs,
           Check(j) \/ Prepare(j) \/ AdmitSettlement(j) \/ Stop(j) \/ OpenLeg(j)
    PROVE  TypeOK'
<1>0. RestTyped /\ JobsTyped /\ row \in Rows /\ local[j] \in Locals
  BY TypeParts DEF JobsTyped
<1>n. now \in Nat /\ now + AuthoritySeconds + MarginSeconds \in Nat
  BY <1>0, SettlementAssumption DEF RestTyped
<1>1. CASE Check(j)
  <2> DEFINE l == [local[j] EXCEPT !.a = row, !.passing = FALSE, !.artifacts = {}, !.ev = NoEvidence]
  <2>1. l \in Locals
    BY <1>0, EmptyTyped DEF Locals
  <2>2. Continue(j, "eligible", l) \/ Return(j)
    BY <1>1 DEF Check
  <2> HIDE DEF l
  <2>3. JobsTyped'
    BY <1>0, <2>1, <2>2, ContinueTyped, ReturnTyped DEF JobsTyped, Labels
  <2>4. RestTyped' /\ row' = row
    BY <1>0, <1>1 DEF Check, RestTyped, chainVars, boundVars
  <2> QED
    BY <1>0, <2>3, <2>4 DEF TypeOK, RestTyped, JobsTyped
<1>2. CASE Prepare(j)
  <2> DEFINE l == [local[j] EXCEPT !.a = NoRow]
             r == [row EXCEPT !.state = "PREPARED"]
  <2>1. l \in Locals
    BY <1>0, EmptyTyped DEF Locals
  <2>2. r \in Rows
    BY <1>0, StatesAre DEF Rows, States
  <2>3. (row' = row \/ row' = r) /\ (Continue(j, "admit", l) \/ Return(j))
    BY <1>2 DEF Prepare
  <2> HIDE DEF l, r
  <2>4. JobsTyped' /\ row' \in Rows
    BY <1>0, <2>1, <2>2, <2>3, ContinueTyped, ReturnTyped DEF JobsTyped, Labels
  <2>5. RestTyped'
    BY <1>0, <1>2 DEF Prepare, RestTyped, chainVars, boundVars
  <2> QED
    BY <2>4, <2>5 DEF TypeOK, RestTyped, JobsTyped
<1>3. CASE AdmitSettlement(j)
  <2>1. RestTyped' /\ row' = row
    BY <1>0, <1>3 DEF AdmitSettlement, RestTyped, chainVars, boundVars, Statuses
  <2>2. Return(j) \/ (Goto(j, "open") /\ local' = local)
    BY <1>3 DEF AdmitSettlement
  <2>3. JobsTyped'
    BY <1>0, <2>2, ReturnTyped DEF JobsTyped, Goto, Labels
  <2> QED
    BY <1>0, <2>1, <2>3 DEF TypeOK, RestTyped, JobsTyped
<1>4. CASE Stop(j)
  <2>1. RestTyped' /\ row' = row /\ Return(j)
    BY <1>0, <1>4 DEF Stop, RestTyped, chainVars, boundVars
  <2> QED
    BY <1>0, <2>1, ReturnTyped DEF TypeOK, RestTyped, JobsTyped
<1>5. CASE OpenLeg(j)
  <2> DEFINE l == [local[j] EXCEPT !.legAt = now]
             r == [row EXCEPT !.deadAfter = now + AuthoritySeconds + MarginSeconds]
  <2>1. l \in Locals
    BY <1>0, <1>n DEF Locals
  <2>2. r \in Rows
    BY <1>0, <1>n DEF Rows
  <2>3. (row' = row \/ row' = r) /\ Continue(j, "leg", l)
    BY <1>5 DEF OpenLeg
  <2> HIDE DEF l, r
  <2>4. JobsTyped' /\ row' \in Rows
    BY <1>0, <2>1, <2>2, <2>3, ContinueTyped DEF JobsTyped, Labels
  <2>5. RestTyped'
    BY <1>0, <1>5 DEF OpenLeg, RestTyped, chainVars, boundVars
  <2> QED
    BY <2>4, <2>5 DEF TypeOK, RestTyped, JobsTyped
<1> QED
  BY <1>1, <1>2, <1>3, <1>4, <1>5

\* The deadline of an artifact signed while the leg lives is a time.
LEMMA DeadlineTyped ==
    ASSUME NEW legAt \in Nat, NEW t \in Nat
    PROVE  DeadlineFor(legAt, t) \in Nat
BY SettlementAssumption DEF DeadlineFor

\* The steps from the open leg to the artifact's simulation.
LEMMA LegTyped ==
    ASSUME TypeOK, NEW j \in Jobs, local[j].run # 0,
           Refresh(j) \/ Sign(j) \/ RecordArtifact(j) \/ Simulate(j)
    PROVE  TypeOK'
<1>0. RestTyped /\ JobsTyped /\ row \in Rows /\ local[j] \in Locals
  BY TypeParts DEF JobsTyped
<1>n. /\ local[j].artifact \subseteq Artifacts /\ local[j].run \in 1 .. MaxRuns
      /\ local[j].legAt \in Nat /\ now \in Nat
  <2>1. local[j].artifact \subseteq Artifacts /\ local[j].run \in 0 .. MaxRuns /\ local[j].legAt \in Nat
    BY <1>0 DEF Locals
  <2>2. now \in Nat
    BY <1>0, SettlementAssumption DEF RestTyped
  <2> QED
    BY <2>1, <2>2, SettlementAssumption
<1>1. CASE Refresh(j)
  <2> DEFINE l == [local[j] EXCEPT !.seen = status]
  <2>1. l \in Locals
    BY <1>0 DEF Locals, RestTyped
  <2>2. Continue(j, "sign", l)
    BY <1>1 DEF Refresh
  <2> HIDE DEF l
  <2>3. JobsTyped'
    BY <1>0, <2>1, <2>2, ContinueTyped DEF JobsTyped, Labels
  <2>4. RestTyped' /\ row' = row
    BY <1>0, <1>1 DEF Refresh, RestTyped, chainVars, boundVars
  <2> QED
    BY <1>0, <2>3, <2>4 DEF TypeOK, RestTyped, JobsTyped
<1>2. CASE Sign(j)
  <2> DEFINE x == [run |-> local[j].run, deadline |-> DeadlineFor(local[j].legAt, now)]
             l == [local[j] EXCEPT !.artifact = {x}, !.seen = "RESERVED", !.legAt = 0]
  <2>1. x \in Artifacts
    BY <1>n, DeadlineTyped DEF Artifacts
  <2>2. Continue(j, "simulate", l)
    BY <1>2 DEF Sign
  <2>3. l \in Locals
    <3> HIDE DEF x
    <3> QED
      BY <1>0, <2>1 DEF Locals, Statuses
  <2> HIDE DEF x, l
  <2>4. JobsTyped'
    BY <1>0, <2>2, <2>3, ContinueTyped DEF JobsTyped, Labels
  <2>5. RestTyped' /\ row' = row
    BY <1>0, <1>2 DEF Sign, RestTyped, chainVars, boundVars
  <2> QED
    BY <1>0, <2>4, <2>5 DEF TypeOK, RestTyped, JobsTyped
<1>3. CASE RecordArtifact(j)
  <2> DEFINE r == [row EXCEPT !.sendArtifact = local[j].artifact]
  <2>1. r \in Rows
    BY <1>0, <1>n DEF Rows
  <2>2. row' = row \/ row' = r
    BY <1>3 DEF RecordArtifact
  <2> HIDE DEF r
  <2>3. row' \in Rows
    BY <1>0, <2>1, <2>2
  <2>4. RestTyped'
    BY <1>0, <1>3, <1>n DEF RecordArtifact, RestTyped, chainVars, boundVars
  <2>5. JobsTyped'
    BY <1>0, <1>3 DEF RecordArtifact, JobsTyped, Goto, Labels
  <2> QED
    BY <2>3, <2>4, <2>5 DEF TypeOK, RestTyped, JobsTyped
<1>4. CASE Simulate(j)
  <2>1. RestTyped' /\ row' = row
    BY <1>0, <1>4, <1>n DEF Simulate, RestTyped, boundVars
  <2>2. Return(j) \/ (Goto(j, "submit") /\ local' = local)
    BY <1>4 DEF Simulate
  <2>3. JobsTyped'
    BY <1>0, <2>2, ReturnTyped DEF JobsTyped, Goto, Labels
  <2> QED
    BY <1>0, <2>1, <2>3 DEF TypeOK, RestTyped, JobsTyped
<1> QED
  BY <1>1, <1>2, <1>3, <1>4

\* The steps from the submission to the receipt.
LEMMA SubmitTyped ==
    ASSUME TypeOK, NEW j \in Jobs,
           StartSubmission(j) \/ Broadcast(j) \/ Answer(j) \/ AwaitReceipt(j)
    PROVE  TypeOK'
<1>0. RestTyped /\ JobsTyped /\ row \in Rows /\ local[j] \in Locals
  BY TypeParts DEF JobsTyped
<1>n. local[j].run \in 0 .. MaxRuns
  BY <1>0 DEF Locals
<1>1. CASE StartSubmission(j)
  <2> DEFINE r == [row EXCEPT !.state = "SUBMISSION_STARTED", !.tx = local[j].run]
  <2>1. r \in Rows
    BY <1>0, <1>n, StatesAre DEF Rows, States
  <2>2. \/ row' = r /\ Goto(j, "broadcast") /\ local' = local
        \/ row' = row /\ Return(j)
    BY <1>1 DEF StartSubmission
  <2> HIDE DEF r
  <2>3. JobsTyped' /\ row' \in Rows
    BY <1>0, <2>1, <2>2, ReturnTyped DEF JobsTyped, Goto, Labels
  <2>4. RestTyped'
    BY <1>0, <1>1 DEF StartSubmission, RestTyped, chainVars, boundVars
  <2> QED
    BY <2>3, <2>4 DEF TypeOK, RestTyped, JobsTyped
<1>2. CASE Broadcast(j)
  <2>1. JobsTyped' /\ row' = row
    BY <1>0, <1>2 DEF Broadcast, JobsTyped, Goto, Labels
  <2>2. RestTyped'
    <3>1. PICK fate \in {"pool", "wild", "lost"} : txs' = [txs EXCEPT ![local[j].run] = fate]
      BY <1>2 DEF Broadcast
    <3>2. txs' \in [1 .. MaxRuns -> {"none", "pool", "wild", "lost"} \cup Mined]
      BY <1>0, <3>1 DEF RestTyped
    <3>3. broadcasts' \in Nat
      BY <1>0, <1>2 DEF Broadcast, RestTyped
    <3> QED
      BY <1>0, <1>2, <3>2, <3>3 DEF Broadcast, RestTyped, boundVars
  <2> QED
    BY <1>0, <2>1, <2>2 DEF TypeOK, RestTyped, JobsTyped
<1>3. CASE Answer(j) \/ AwaitReceipt(j)
  <2>1. RestTyped'
    BY <1>0, <1>3 DEF Answer, AwaitReceipt, RestTyped, chainVars, boundVars
  <2>2. {"mined", "post", "idle"} \subseteq Labels
    BY DEF Labels
  <2>3. {"CONFIRMED_SUCCESS", "CONFIRMED_REVERT", "SUBMITTED", "RECONCILIATION_REQUIRED"}
           \subseteq States
    BY StatesAre
  <2>4. {"null", "BROADCAST_REJECTED", "AMBIGUOUS_BROADCAST"} \subseteq Quarantines
    BY DEF Quarantines
  <2>5. \/ \E to \in States, q \in Quarantines, label \in Labels : Transition(j, to, q, label)
        \/ row' = row /\ Return(j)
    BY <1>3, <2>2, <2>3, <2>4 DEF Answer, AwaitReceipt
  <2>6. JobsTyped' /\ row' \in Rows
    BY <1>0, <2>5, TransitionTyped, ReturnTyped DEF JobsTyped
  <2> QED
    BY <2>1, <2>6 DEF TypeOK, RestTyped, JobsTyped
<1> QED
  BY <1>1, <1>2, <1>3

\* The chain, the principal and a crash.
LEMMA EnvironmentTyped ==
    ASSUME TypeOK,
           \/ \E n \in 1 .. MaxRuns : Mine(n) \/ Drop(n)
           \/ \E x \in left : ExecuteOutside(x)
           \/ Tick \/ SetAuthority \/ Crash
    PROVE  TypeOK'
<1>0. RestTyped /\ JobsTyped /\ row \in Rows
  BY TypeParts
<1>1. CASE \E n \in 1 .. MaxRuns : Mine(n) \/ Drop(n)
  <2>1. PICK n \in 1 .. MaxRuns : Mine(n) \/ Drop(n)
    BY <1>1
  <2>2. /\ executed' \subseteq left
        /\ \E fate \in {"SUCCESS", "ANOMALY", "REVERTED", "lost"} : txs' = [txs EXCEPT ![n] = fate]
        /\ UNCHANGED <<now, left, broadcasts, runs, crashes, unreadable, status, authorized, row,
                       artifacts, pc, local>>
    BY <1>0, <2>1 DEF Mine, Drop, RestTyped, boundVars
  <2> QED
    BY <1>0, <2>2 DEF TypeOK, RestTyped, JobsTyped, Mined
<1>2. CASE \E x \in left : ExecuteOutside(x)
  BY <1>0, <1>2 DEF ExecuteOutside, TypeOK, RestTyped, JobsTyped, boundVars
<1>3. CASE Tick
  BY <1>0, <1>3, SettlementAssumption DEF Tick, TypeOK, RestTyped, JobsTyped, boundVars
<1>4. CASE SetAuthority
  <2>1. authorized' \in BOOLEAN
    BY <1>4 DEF SetAuthority
  <2> QED
    BY <1>0, <1>4, <2>1 DEF SetAuthority, TypeOK, RestTyped, JobsTyped, boundVars, chainVars
<1>5. CASE Crash
  <2>1. JobsTyped'
    BY <1>5, EmptyTyped DEF Crash, JobsTyped, Labels
  <2>2. RestTyped' /\ row' = row
    BY <1>0, <1>5, SettlementAssumption DEF Crash, RestTyped, chainVars
  <2> QED
    BY <1>0, <2>1, <2>2 DEF TypeOK, RestTyped, JobsTyped
<1> QED
  BY <1>1, <1>2, <1>3, <1>4, <1>5

(***************************************************************************)
(* Every step keeps the types, given that a run that signs has a number.   *)
(***************************************************************************)
LEMMA TypeStep ==
    ASSUME TypeOK, Next, \A j \in Jobs : NumberedInv(j)
    PROVE  TypeOK'
<1>1. CASE \E j \in Jobs : JobStep(j)
  <2>1. PICK j \in Jobs : JobStep(j)
    BY <1>1
  <2>2. CASE Enter(j) \/ Load(j)
    BY <2>2, EnterLoadTyped
  <2>3. CASE \E ok \in BOOLEAN : ReadLatest(j, ok) \/ ReadReceipt(j, ok) \/ ReadTransaction(j, ok)
    BY <2>3, ReadTyped
  <2>4. CASE \E ok \in BOOLEAN : Resolve(j, ok)
    BY <2>4, ResolveTyped
  <2>5. CASE \E ok \in BOOLEAN : CheckPostconditions(j, ok)
    BY <2>5, ClosingTyped
  <2>6. CASE Released(j) \/ Consumed(j)
    BY <2>6, ClosingTyped
  <2>7. CASE ReleaseReservation(j) \/ ConsumeReservation(j)
    BY <2>7, AccountTyped DEF ReleaseReservation, ConsumeReservation, Statuses, Labels
  <2>8. CASE Check(j) \/ Prepare(j) \/ AdmitSettlement(j) \/ Stop(j) \/ OpenLeg(j)
    BY <2>8, RunStartTyped
  <2>9. CASE Refresh(j) \/ Sign(j) \/ RecordArtifact(j) \/ Simulate(j)
    <3>1. pc[j] \in {"leg", "sign", "simulate", "call"}
      BY <2>9 DEF Refresh, Sign, RecordArtifact, Simulate
    <3>2. local[j].mode \in {"DRY_RUN", "SEND"}
      <4>1. local[j].mode \in {"none", "DRY_RUN", "SEND", "RECONCILE"}
        BY DEF TypeOK, Locals
      <4> QED
        BY <3>1, <4>1 DEF NumberedInv, RunLabels, LegLabels
    <3>3. local[j].run # 0
      BY <3>2 DEF NumberedInv
    <3> QED
      BY <2>9, <3>3, LegTyped
  <2>10. CASE StartSubmission(j) \/ Broadcast(j) \/ Answer(j) \/ AwaitReceipt(j)
    BY <2>10, SubmitTyped
  <2> QED
    BY <2>1, <2>2, <2>3, <2>4, <2>5, <2>6, <2>7, <2>8, <2>9, <2>10
       DEF JobStep, ReconcileStep, RunStep
<1>2. CASE \E j \in Jobs, mode \in {"DRY_RUN", "SEND", "RECONCILE"} : Request(j, mode)
  BY <1>2, RequestTyped
<1>3. CASE \/ \E n \in 1 .. MaxRuns : Mine(n) \/ Drop(n)
           \/ \E x \in left : ExecuteOutside(x)
           \/ Tick \/ SetAuthority \/ Crash
  BY <1>3, EnvironmentTyped
<1> QED
  BY <1>1, <1>2, <1>3 DEF Next, Reconcile

------------------------------------------------------------------------------
(* What every step does to the jobs that do not take it.                    *)

(***************************************************************************)
(* What is written stays: the hash, the send's artifact, the bound leg,    *)
(* the artifacts, a settlement and a closed reservation.                   *)
(***************************************************************************)
Grows ==
    /\ row.tx # 0 => row'.tx = row.tx
    /\ row.sendArtifact # {} => row'.sendArtifact = row.sendArtifact
    /\ row.deadAfter # 0 => row'.deadAfter # 0
    /\ artifacts \subseteq artifacts'
    /\ Good => Good'
    /\ status \in {"CONSUMED", "RELEASED"} => status' = status

\* A step that leaves the chain, the ledger and the artifacts alone, and the row's lasting fields.
LEMMA KeptGrows ==
    ASSUME RowKept, UNCHANGED <<status, artifacts, executed, txs>>
    PROVE  Grows /\ (Good <=> Good')
BY DEF RowKept, Grows, Good

\* A job that does not move keeps its part of the invariant.
LEMMA StillJob ==
    ASSUME NEW k \in Jobs, pc'[k] = pc[k], local'[k] = local[k], JobInv(k), Grows,
           (row'.tx = row.tx /\ broadcasts' = broadcasts) \/ ~Sending(k)
    PROVE  JobInv(k)' /\ (Sending(k)' <=> Sending(k))
<1>1. Sending(k)' <=> Sending(k)
  BY DEF Sending
<1>2. NumberedInv(k)'
  BY DEF JobInv, NumberedInv
<1>3. SenderInv(k)'
  <2>1. pc[k] \in SentLabels => Sending(k) /\ row.tx # 0
    BY DEF JobInv, NumberedInv, SenderInv, Sending
  <2>2. pc[k] = "broadcast" => pc[k] \in SentLabels
    BY DEF SentLabels
  <2> QED
    BY <1>1, <2>1, <2>2 DEF JobInv, SenderInv, Grows
<1>4. CloserInv(k)'
  BY DEF JobInv, CloserInv, Grows
<1> QED
  BY <1>1, <1>2, <1>3, <1>4 DEF JobInv

\* A job that is over has nothing to keep.
LEMMA IdleJob ==
    ASSUME NEW j \in Jobs, pc'[j] = "idle", local'[j] = NoLocal
    PROVE  JobInv(j)' /\ ~Sending(j)'
<1>1. NumberedInv(j)' /\ ~Sending(j)'
  BY DEF NumberedInv, Sending, NoLocal, RunLabels, LegLabels, SentLabels
<1>2. SenderInv(j)'
  BY <1>1 DEF SenderInv, SentLabels
<1>3. CloserInv(j)'
  BY DEF CloserInv, NoLocal, NoRow
<1> QED
  BY <1>1, <1>2, <1>3 DEF JobInv

\* A step of job j: the others keep their part, and no second send appears.
LEMMA OneMoves ==
    ASSUME OneSender, \A k \in Jobs : JobInv(k), NEW j \in Jobs, Frame(j), Grows,
           (row'.tx = row.tx /\ broadcasts' = broadcasts) \/ Sending(j),
           JobInv(j)', Sending(j)' => Sending(j)
    PROVE  OneSender' /\ \A k \in Jobs : JobInv(k)'
<1>1. \A k \in Jobs : k # j => JobInv(k)' /\ (Sending(k)' <=> Sending(k))
  <2> SUFFICES ASSUME NEW k \in Jobs, k # j
               PROVE  JobInv(k)' /\ (Sending(k)' <=> Sending(k))
    OBVIOUS
  <2>1. pc'[k] = pc[k] /\ local'[k] = local[k]
    BY DEF Frame
  <2>2. (row'.tx = row.tx /\ broadcasts' = broadcasts) \/ ~Sending(k)
    BY DEF OneSender
  <2> QED
    BY <2>1, <2>2, StillJob
<1>2. OneSender'
  BY <1>1 DEF OneSender
<1> QED
  BY <1>1, <1>2

(***************************************************************************)
(* A step that leaves everything but the job alone.                        *)
(***************************************************************************)
LEMMA QuietStep ==
    ASSUME SettlementInv, NEW j \in Jobs, Frame(j),
           UNCHANGED <<row, status, artifacts, left, executed, txs, broadcasts>>,
           JobInv(j)', Sending(j)' => Sending(j)
    PROVE  SharedInv' /\ OneSender' /\ \A k \in Jobs : JobInv(k)'
<1>1. SharedInv'
  BY DEF SettlementInv, SharedInv, Good, JournalFollowsLedger
<1>2. Grows
  BY KeptGrows DEF RowKept
<1> QED
  BY <1>1, <1>2, OneMoves DEF SettlementInv

\* A job goes on, outside a run, with its mode, its number and an honest copy of the row.
LEMMA ReconcilingJob ==
    ASSUME SettlementInv, NEW j \in Jobs, NEW l,
           RowKept, UNCHANGED <<artifacts, executed, txs, status>>,
           pc'[j] \in {"load", "latest", "receipt", "known", "commitments", "release", "post",
                       "consume", "check", "eligible", "opening", "admit", "open"},
           local'[j] = l, l.mode = local[j].mode, l.run = local[j].run,
           pc[j] # "idle",
           pc'[j] \in {"check", "eligible", "admit", "open"} => l.mode # "RECONCILE",
           l.a.tx = 0 \/ l.a.tx = row.tx,
           l.a.sendArtifact = {} \/ l.a.sendArtifact = row.sendArtifact,
           pc'[j] = "post" => l.a.tx # 0,
           pc'[j] = "consume" => Good
    PROVE  JobInv(j)' /\ ~Sending(j)'
<1>0. JobInv(j)
  BY DEF SettlementInv
<1>1. pc'[j] \notin LegLabels \cup SentLabels
  BY DEF LegLabels, SentLabels
<1>2. NumberedInv(j)'
  BY <1>0, <1>1 DEF JobInv, NumberedInv, RunLabels, LegLabels, SentLabels
<1>3. SenderInv(j)' /\ ~Sending(j)'
  BY <1>1 DEF SenderInv, Sending, LegLabels, SentLabels
<1>4. CloserInv(j)'
  <2>1. Good => Good'
    BY KeptGrows DEF Grows
  <2> QED
    BY <2>1 DEF CloserInv, RowKept
<1> QED
  BY <1>2, <1>3, <1>4 DEF JobInv

\* What a step keeps, apart from the types.
Kept == SharedInv' /\ OneSender' /\ \A k \in Jobs : JobInv(k)'

------------------------------------------------------------------------------
(* Requests and the reads of a reconciliation.                              *)

\* A request begins.
LEMMA RequestKept ==
    ASSUME SettlementInv, NEW j \in Jobs, NEW mode \in {"DRY_RUN", "SEND", "RECONCILE"},
           Request(j, mode)
    PROVE  Kept
<1> DEFINE l == [NoLocal EXCEPT !.mode = mode, !.run = IF mode = "RECONCILE" THEN 0 ELSE runs + 1]
<1>1. Frame(j) /\ pc'[j] = "opening" /\ local'[j] = l
  BY DEF SettlementInv, TypeOK, Request, Goto, Keep, Frame
<1>2. l.mode = mode /\ (mode # "RECONCILE" => l.run = runs + 1) /\ l.a = NoRow
  BY DEF NoLocal
<1>3. runs + 1 # 0
  BY SettlementAssumption DEF SettlementInv, TypeOK
<1>4. UNCHANGED <<row, status, artifacts, left, executed, txs, broadcasts>>
  BY DEF Request, chainVars
<1> HIDE DEF l
<1>5. NumberedInv(j)' /\ ~Sending(j)'
  BY <1>1, <1>2, <1>3 DEF NumberedInv, Sending, RunLabels, LegLabels, SentLabels
<1>6. SenderInv(j)'
  BY <1>1, <1>5 DEF SenderInv, SentLabels
<1>7. CloserInv(j)'
  BY <1>1, <1>2 DEF CloserInv, NoRow
<1> QED
  BY <1>1, <1>4, <1>5, <1>6, <1>7, QuietStep DEF JobInv, Kept

\* The labels of Done and AfterEvidence, and what each says of the attempt.
LEMMA LabelsMean ==
    ASSUME NEW l, NEW a
    PROVE  /\ Done(l) \in {"check", "idle"}
           /\ Done(l) = "check" => l.mode # "RECONCILE"
           /\ AfterEvidence(l, a) \in {"post", "consume", "latest", "check", "idle"}
           /\ AfterEvidence(l, a) = "check" => l.mode # "RECONCILE"
           /\ AfterEvidence(l, a) = "post" => a.state = "CONFIRMED_SUCCESS"
           /\ AfterEvidence(l, a) = "consume" => a.state = "SETTLED"
BY DEF Done, AfterEvidence

\* The job is entered, and loads the attempt.
LEMMA LoadKept ==
    ASSUME SettlementInv, NEW j \in Jobs, Enter(j) \/ Load(j)
    PROVE  Kept
<1>0. JobsTyped /\ row \in Rows /\ local[j] \in Locals /\ JobInv(j)
  BY DEF SettlementInv, TypeOK, JobsTyped
<1>u. /\ UNCHANGED <<row, status, artifacts, left, executed, txs, broadcasts>>
      /\ RowKept
  BY DEF Enter, Load, chainVars, RowKept
<1>1. CASE Enter(j)
  <2>1. Frame(j) /\ pc'[j] = "load" /\ local'[j] = local[j] /\ pc[j] = "opening"
    BY <1>0, <1>1 DEF Enter, Goto, Frame, JobsTyped
  <2>2. JobInv(j)' /\ ~Sending(j)'
    BY <1>0, <1>u, <2>1, ReconcilingJob DEF JobInv, CloserInv
  <2> QED
    BY <1>u, <2>1, <2>2, QuietStep DEF Kept
<1>2. CASE Load(j)
  <2> DEFINE l == [local[j] EXCEPT !.a = row, !.artifacts = artifacts]
             label == IF NeedsEvidence(row) THEN "latest" ELSE AfterEvidence(l, row)
  <2>1. l.mode = local[j].mode /\ l.run = local[j].run /\ l.a = row
    BY <1>0 DEF Locals
  <2>2. Continue(j, label, l) /\ pc[j] = "load"
    BY <1>2 DEF Load
  <2>3. /\ label \in {"post", "consume", "latest", "check", "idle"}
        /\ label = "check" => l.mode # "RECONCILE"
        /\ label = "post" => row.state = "CONFIRMED_SUCCESS"
        /\ label = "consume" => row.state = "SETTLED"
    <3> HIDE DEF l
    <3> QED
      BY LabelsMean
  <2> HIDE DEF l, label
  <2>4. /\ label = "post" => l.a.tx # 0
        /\ label = "consume" => Good
    BY <2>1, <2>3 DEF SettlementInv, SharedInv
  <2>5. Frame(j) /\ pc'[j] = label /\ local'[j] = IF label = "idle" THEN NoLocal ELSE l
    BY <1>0, <2>2, ContinueEffect
  <2>6. JobInv(j)' /\ ~Sending(j)'
    BY <1>0, <1>u, <2>1, <2>2, <2>3, <2>4, <2>5, ReconcilingJob, IdleJob
  <2> QED
    BY <1>u, <2>5, <2>6, QuietStep DEF Kept
<1> QED
  BY <1>1, <1>2

\* The reads change nothing but the job's evidence.
LEMMA ReadKept ==
    ASSUME SettlementInv, NEW j \in Jobs, NEW ok \in BOOLEAN,
           ReadLatest(j, ok) \/ ReadReceipt(j, ok) \/ ReadTransaction(j, ok)
    PROVE  Kept
<1>0. JobsTyped /\ local[j] \in Locals /\ JobInv(j)
  BY DEF SettlementInv, TypeOK, JobsTyped
<1>u. /\ UNCHANGED <<row, status, artifacts, left, executed, txs, broadcasts>>
      /\ RowKept /\ pc[j] \in {"latest", "receipt", "known"}
  BY DEF ReadLatest, ReadReceipt, ReadTransaction, chainVars, RowKept
<1>1. \E ev : \E label \in {"receipt", "known", "commitments"} :
           Continue(j, label, [local[j] EXCEPT !.ev = ev])
  <2>1. CASE ReadLatest(j, ok)
    BY <2>1 DEF ReadLatest
  <2>2. CASE ReadReceipt(j, ok)
    <3> DEFINE receipt == IF ok THEN ReceiptOf(local[j].a.tx) ELSE "UNREADABLE"
    <3>1. \E label \in {"known", "commitments"} :
             Continue(j, label, [local[j] EXCEPT !.ev.receipt = receipt])
      BY <2>2 DEF ReadReceipt
    <3> HIDE DEF receipt
    <3> QED
      BY <3>1
  <2>3. CASE ReadTransaction(j, ok)
    <3> DEFINE known == txs[local[j].a.tx] \in {"pool"} \cup Mined
    <3>1. \/ Continue(j, "commitments", [local[j] EXCEPT !.ev.known = known])
          \/ Continue(j, "commitments", [local[j] EXCEPT !.ev.receipt = "UNREADABLE"])
      BY <2>3 DEF ReadTransaction
    <3> HIDE DEF known
    <3> QED
      BY <3>1
  <2> QED
    BY <2>1, <2>2, <2>3
<1>2. PICK ev : \E label \in {"receipt", "known", "commitments"} :
           Continue(j, label, [local[j] EXCEPT !.ev = ev])
  BY <1>1
<1> DEFINE l == [local[j] EXCEPT !.ev = ev]
<1>3. l.mode = local[j].mode /\ l.run = local[j].run /\ l.a = local[j].a
  BY <1>0 DEF Locals
<1> HIDE DEF l
<1>4. Frame(j) /\ pc'[j] \in {"receipt", "known", "commitments"} /\ local'[j] = l
  BY <1>0, <1>2, ContinueEffect DEF l
<1>5. JobInv(j)' /\ ~Sending(j)'
  BY <1>0, <1>u, <1>3, <1>4, ReconcilingJob DEF JobInv, CloserInv
<1> QED
  BY <1>u, <1>4, <1>5, QuietStep DEF Kept

------------------------------------------------------------------------------
(* The journal's transitions.                                               *)

(***************************************************************************)
(* A transition keeps the invariant when what it writes is true: success   *)
(* only of a hash, settlement only when it is good, and a closing state    *)
(* only after the ledger.                                                  *)
(***************************************************************************)
LEMMA TransitionKept ==
    ASSUME SettlementInv, NEW j \in Jobs, NEW to \in States \ {"PREPARED"}, NEW q \in Quarantines,
           NEW label \in {"post", "consume", "check", "latest", "mined", "idle"},
           Transition(j, to, q, label),
           UNCHANGED <<status, artifacts, left, executed, txs, broadcasts>>,
           pc[j] # "idle",
           to \in {"CONFIRMED_SUCCESS", "SETTLED", "CONSUMED"} => row.tx # 0,
           to \in {"SETTLED", "CONSUMED"} => Good,
           to \in {"CONSUMED", "RELEASED"} => status = to,
           label = "check" => local[j].mode # "RECONCILE",
           label = "post" => row.tx # 0,
           label = "consume" => Good,
           label = "mined" => pc[j] = "answer"
    PROVE  Kept
<1>0. JobsTyped /\ row \in Rows /\ local[j] \in Locals /\ JobInv(j)
  BY DEF SettlementInv, TypeOK, JobsTyped
<1>1. /\ RowKept /\ Frame(j)
      /\ \/ /\ row'.state = to /\ MayUpdate(to) /\ pc'[j] = label
            /\ local'[j] = IF label = "idle" THEN NoLocal ELSE [local[j] EXCEPT !.a = row']
         \/ row' = row /\ pc'[j] = "idle" /\ local'[j] = NoLocal
  BY <1>0, TransitionEffect
<1>2. Grows /\ (Good <=> Good')
  BY <1>1, KeptGrows
<1>3. to # "none"
  BY StatesAre
<1>4. SharedInv'
  BY <1>1, <1>2, <1>3 DEF SettlementInv, SharedInv, RowKept, JournalFollowsLedger
<1>5. JobInv(j)' /\ (Sending(j)' => Sending(j))
  <2>1. CASE pc'[j] = "idle" /\ local'[j] = NoLocal
    BY <2>1, IdleJob
  <2>2. CASE pc'[j] = label /\ label # "idle" /\ local'[j] = [local[j] EXCEPT !.a = row']
    <3> DEFINE l == [local[j] EXCEPT !.a = row']
    <3>1. l.mode = local[j].mode /\ l.run = local[j].run /\ l.a = row'
      BY <1>0 DEF Locals
    <3>2. local'[j] = l
      BY <2>2
    <3> HIDE DEF l
    <3>3. CASE label # "mined"
      BY <1>0, <1>1, <2>2, <3>1, <3>2, <3>3, ReconcilingJob DEF RowKept
    <3>4. CASE label = "mined"
      <4>1. pc[j] = "answer" /\ pc[j] \in SentLabels /\ pc'[j] = "mined" /\ pc'[j] \in SentLabels
        BY <2>2, <3>4 DEF SentLabels
      <4>2. NumberedInv(j)' /\ Sending(j) /\ row.tx = local[j].run /\ row.deadAfter # 0
        BY <1>0, <3>1, <3>2, <4>1 DEF JobInv, NumberedInv, SenderInv, Sending, RunLabels
      <4>3. SenderInv(j)'
        BY <1>1, <3>1, <3>2, <4>1, <4>2 DEF SenderInv, RowKept, LegLabels, SentLabels
      <4>4. CloserInv(j)'
        BY <3>1, <3>2, <4>1 DEF CloserInv
      <4> QED
        BY <4>2, <4>3, <4>4 DEF JobInv
    <3> QED
      BY <3>3, <3>4
  <2> QED
    BY <1>1, <2>1, <2>2
<1> QED
  BY <1>1, <1>2, <1>4, <1>5, OneMoves DEF SettlementInv, Kept, RowKept

\* Step 1 and step 4 of reconcileOne.
LEMMA ResolveKept ==
    ASSUME SettlementInv, NEW j \in Jobs, NEW ok \in BOOLEAN, Resolve(j, ok)
    PROVE  Kept
<1>0. JobsTyped /\ row \in Rows /\ local[j] \in Locals /\ JobInv(j)
  BY DEF SettlementInv, TypeOK, JobsTyped
<1>u. /\ UNCHANGED <<status, artifacts, left, executed, txs, broadcasts>>
      /\ pc[j] = "commitments"
  BY DEF Resolve, chainVars
<1>s. /\ {"CONFIRMED_SUCCESS", "CONFIRMED_REVERT", "SUBMITTED", "RECONCILIATION_REQUIRED"}
           \subseteq States \ {"PREPARED"}
      /\ "null" \in Quarantines
  BY StatesAre DEF Quarantines
<1>t. CASE \/ local[j].a.tx # 0 /\ Transition(j, "CONFIRMED_SUCCESS", "null", "post")
           \/ \E label \in {"latest", "check", "idle"} :
                  /\ Transition(j, "CONFIRMED_REVERT", "null", label)
                  /\ label = "check" => local[j].mode # "RECONCILE"
           \/ \E label \in {"check", "idle"} :
                  /\ Transition(j, "SUBMITTED", "null", label)
                  /\ label = "check" => local[j].mode # "RECONCILE"
           \/ \E q \in Quarantines, label \in {"check", "idle"} :
                  /\ Transition(j, "RECONCILIATION_REQUIRED", q, label)
                  /\ label = "check" => local[j].mode # "RECONCILE"
  <2>1. local[j].a.tx # 0 => row.tx # 0
    BY <1>0 DEF JobInv, CloserInv
  <2>2. CASE local[j].a.tx # 0 /\ Transition(j, "CONFIRMED_SUCCESS", "null", "post")
    BY <1>u, <1>s, <2>1, <2>2, TransitionKept
  <2>3. CASE \E label \in {"latest", "check", "idle"} :
                /\ Transition(j, "CONFIRMED_REVERT", "null", label)
                /\ label = "check" => local[j].mode # "RECONCILE"
    BY <1>u, <1>s, <2>3, TransitionKept
  <2>4. CASE \E label \in {"check", "idle"} :
                /\ Transition(j, "SUBMITTED", "null", label)
                /\ label = "check" => local[j].mode # "RECONCILE"
    BY <1>u, <1>s, <2>4, TransitionKept
  <2>5. CASE \E q \in Quarantines, label \in {"check", "idle"} :
                /\ Transition(j, "RECONCILIATION_REQUIRED", q, label)
                /\ label = "check" => local[j].mode # "RECONCILE"
    BY <1>u, <1>s, <2>5, TransitionKept
  <2> QED
    BY <1>t, <2>2, <2>3, <2>4, <2>5
<1>c. CASE \E label \in {"release", "check", "idle"} :
             /\ row' = row /\ Continue(j, label, local[j])
             /\ label = "check" => local[j].mode # "RECONCILE"
  <2>1. PICK label \in {"release", "check", "idle"} :
             /\ row' = row /\ Continue(j, label, local[j])
             /\ label = "check" => local[j].mode # "RECONCILE"
    BY <1>c
  <2>2. Frame(j) /\ pc'[j] = label /\ local'[j] = IF label = "idle" THEN NoLocal ELSE local[j]
    BY <1>0, <2>1, ContinueEffect
  <2>3. RowKept
    BY <2>1 DEF RowKept
  <2>4. JobInv(j)' /\ ~Sending(j)'
    BY <1>0, <1>u, <2>1, <2>2, <2>3, ReconcilingJob, IdleJob DEF JobInv, CloserInv
  <2> QED
    BY <1>u, <2>1, <2>2, <2>4, QuietStep DEF Kept
<1>r. CASE row' = row /\ Return(j)
  <2>1. Frame(j) /\ JobInv(j)' /\ ~Sending(j)'
    BY <1>0, <1>r, ReturnEffect, IdleJob
  <2> QED
    BY <1>u, <1>r, <2>1, QuietStep DEF Kept
<1> QED
  BY <1>0, <1>t, <1>c, <1>r, ResolveEffect

\* The postconditions: what settles has succeeded, with its own artifact.
LEMMA PostconditionsKept ==
    ASSUME SettlementInv, NEW j \in Jobs, NEW ok \in BOOLEAN, CheckPostconditions(j, ok)
    PROVE  Kept
<1>0. JobsTyped /\ row \in Rows /\ local[j] \in Locals /\ JobInv(j)
  BY DEF SettlementInv, TypeOK, JobsTyped
<1> DEFINE a == local[j].a
<1>u. /\ UNCHANGED <<status, artifacts, left, executed, txs, broadcasts>>
      /\ pc[j] = "post"
  BY DEF CheckPostconditions, chainVars
<1>s. /\ {"SETTLED", "RECONCILIATION_REQUIRED"} \subseteq States \ {"PREPARED"}
      /\ "null" \in Quarantines /\ "POSTCONDITION_ANOMALY" \in Quarantines
  BY StatesAre DEF Quarantines, TerminalQuarantines
<1>d. Done(local[j]) \in {"check", "idle"} /\ (Done(local[j]) = "check" => local[j].mode # "RECONCILE")
  BY LabelsMean
<1>1. \/ row' = row /\ Continue(j, Done(local[j]), local[j])
      \/ /\ a.sendArtifact # {} /\ txs[a.tx] = "SUCCESS" /\ a.sendArtifact \subseteq executed
         /\ Transition(j, "SETTLED", "null", "consume")
      \/ Transition(j, "RECONCILIATION_REQUIRED", "POSTCONDITION_ANOMALY", Done(local[j]))
  BY DEF CheckPostconditions
<1>2. CASE row' = row /\ Continue(j, Done(local[j]), local[j])
  <2>1. /\ Frame(j) /\ pc'[j] = Done(local[j])
        /\ local'[j] = IF Done(local[j]) = "idle" THEN NoLocal ELSE local[j]
    BY <1>0, <1>2, ContinueEffect
  <2>2. RowKept
    BY <1>2 DEF RowKept
  <2>3. JobInv(j)' /\ ~Sending(j)'
    BY <1>0, <1>u, <1>d, <2>1, <2>2, ReconcilingJob, IdleJob DEF JobInv, CloserInv
  <2> QED
    BY <1>2, <1>u, <2>1, <2>3, QuietStep DEF Kept
<1>3. CASE /\ a.sendArtifact # {} /\ txs[a.tx] = "SUCCESS" /\ a.sendArtifact \subseteq executed
           /\ Transition(j, "SETTLED", "null", "consume")
  <2>1. Good /\ row.tx # 0
    BY <1>0, <1>u, <1>3 DEF JobInv, CloserInv, Good
  <2> QED
    BY <1>u, <1>s, <1>3, <2>1, TransitionKept
<1>4. CASE Transition(j, "RECONCILIATION_REQUIRED", "POSTCONDITION_ANOMALY", Done(local[j]))
  BY <1>u, <1>s, <1>d, <1>4, TransitionKept
<1> QED
  BY <1>1, <1>2, <1>3, <1>4

\* The row is closed as the ledger was.
LEMMA ClosingKept ==
    ASSUME SettlementInv, NEW j \in Jobs, Released(j) \/ Consumed(j)
    PROVE  Kept
<1>0. JobInv(j)
  BY DEF SettlementInv
<1>u. UNCHANGED <<status, artifacts, left, executed, txs, broadcasts>>
  BY DEF Released, Consumed, chainVars
<1>s. /\ {"RELEASED", "CONSUMED"} \subseteq States \ {"PREPARED"}
      /\ "null" \in Quarantines
  BY StatesAre DEF Quarantines
<1>d. Done(local[j]) \in {"check", "idle"} /\ (Done(local[j]) = "check" => local[j].mode # "RECONCILE")
  BY LabelsMean
<1>1. CASE Released(j)
  <2>1. pc[j] = "released" /\ Transition(j, "RELEASED", "null", Done(local[j]))
    BY <1>1 DEF Released
  <2>2. status = "RELEASED"
    BY <1>0, <2>1 DEF JobInv, CloserInv
  <2> QED
    BY <1>u, <1>s, <1>d, <2>1, <2>2, TransitionKept
<1>2. CASE Consumed(j)
  <2>1. pc[j] = "consumed" /\ Transition(j, "CONSUMED", "null", Done(local[j]))
    BY <1>2 DEF Consumed
  <2>2. status = "CONSUMED" /\ Good /\ row.tx # 0
    BY <1>0, <2>1 DEF JobInv, CloserInv, Good
  <2> QED
    BY <1>u, <1>s, <1>d, <2>1, <2>2, TransitionKept
<1> QED
  BY <1>1, <1>2

\* The ledger is closed once, one way.
LEMMA AccountKept ==
    ASSUME SettlementInv, NEW j \in Jobs, ReleaseReservation(j) \/ ConsumeReservation(j)
    PROVE  Kept
<1>0. JobsTyped /\ row \in Rows /\ local[j] \in Locals /\ JobInv(j)
  BY DEF SettlementInv, TypeOK, JobsTyped
<1>u. /\ UNCHANGED <<row, artifacts, left, executed, txs, broadcasts>>
      /\ pc[j] \in {"release", "consume"} /\ RowKept
  BY DEF ReleaseReservation, ConsumeReservation, Account, chainVars, RowKept
<1>1. PICK outcome \in {"RELEASED", "CONSUMED"} :
        /\ outcome = "RELEASED" <=> pc[j] = "release"
        /\ Account(j, outcome, pc[j], IF pc[j] = "release" THEN "released" ELSE "consumed")
  BY DEF ReleaseReservation, ConsumeReservation, Account
<1> DEFINE next == IF pc[j] = "release" THEN "released" ELSE "consumed"
<1>2. \/ MayAccount(outcome) /\ status' = outcome /\ Goto(j, next) /\ local' = local
      \/ status' = status /\ Continue(j, Done(local[j]), local[j])
  BY <1>1 DEF Account
<1>3. CASE MayAccount(outcome) /\ status' = outcome /\ Goto(j, next) /\ local' = local
  <2>1. Frame(j) /\ pc'[j] = next /\ local'[j] = local[j]
    BY <1>0, <1>3 DEF Goto, Frame, JobsTyped
  <2>2. Good <=> Good'
    BY <1>u DEF Good
  <2>3. Grows
    BY <1>3, <1>u, <2>2 DEF Grows, MayAccount
  <2>4. pc[j] = "consume" => Good
    BY <1>0 DEF JobInv, CloserInv
  <2>5. SharedInv'
    <3>1. status' = "CONSUMED" => Good'
      BY <1>1, <1>3, <1>u, <2>2, <2>4
    <3>2. JournalFollowsLedger'
      BY <1>3, <1>u DEF SettlementInv, SharedInv, JournalFollowsLedger, MayAccount
    <3> QED
      BY <1>u, <2>2, <3>1, <3>2 DEF SettlementInv, SharedInv
  <2>6. JobInv(j)' /\ ~Sending(j)'
    <3>1. pc'[j] \notin LegLabels \cup SentLabels
      BY <2>1 DEF LegLabels, SentLabels
    <3>2. NumberedInv(j)' /\ ~Sending(j)'
      BY <1>0, <1>u, <2>1, <3>1 DEF JobInv, NumberedInv, Sending, RunLabels, LegLabels, SentLabels
    <3>3. SenderInv(j)'
      BY <2>1, <3>1, <3>2 DEF SenderInv
    <3>4. CloserInv(j)'
      BY <1>0, <1>1, <1>3, <1>u, <2>1, <2>2, <2>4 DEF JobInv, CloserInv
    <3> QED
      BY <3>2, <3>3, <3>4 DEF JobInv
  <2> QED
    BY <1>u, <2>1, <2>3, <2>5, <2>6, OneMoves DEF SettlementInv, Kept
<1>4. CASE status' = status /\ Continue(j, Done(local[j]), local[j])
  <2>d. Done(local[j]) \in {"check", "idle"} /\ (Done(local[j]) = "check" => local[j].mode # "RECONCILE")
    BY LabelsMean
  <2>1. /\ Frame(j) /\ pc'[j] = Done(local[j])
        /\ local'[j] = IF Done(local[j]) = "idle" THEN NoLocal ELSE local[j]
    BY <1>0, <1>4, ContinueEffect
  <2>2. JobInv(j)' /\ ~Sending(j)'
    BY <1>0, <1>4, <1>u, <2>d, <2>1, ReconcilingJob, IdleJob DEF JobInv, CloserInv
  <2> QED
    BY <1>4, <1>u, <2>1, <2>2, QuietStep DEF Kept
<1> QED
  BY <1>2, <1>3, <1>4

------------------------------------------------------------------------------
(* The steps of a run.                                                      *)

\* A run that stops.
LEMMA StopKept ==
    ASSUME SettlementInv, NEW j \in Jobs, Return(j),
           UNCHANGED <<row, status, artifacts, left, executed, txs, broadcasts>>
    PROVE  Kept
<1>1. Frame(j) /\ JobInv(j)' /\ ~Sending(j)'
  BY ReturnEffect, IdleJob DEF SettlementInv, TypeOK, JobsTyped
<1> QED
  BY <1>1, QuietStep DEF Kept

\* Up to the admission.
LEMMA PrepareKept ==
    ASSUME SettlementInv, NEW j \in Jobs, Check(j) \/ Prepare(j) \/ AdmitSettlement(j)
    PROVE  Kept
<1>0. JobsTyped /\ row \in Rows /\ local[j] \in Locals /\ JobInv(j)
  BY DEF SettlementInv, TypeOK, JobsTyped
<1>u. /\ UNCHANGED <<artifacts, left, executed, txs, broadcasts>>
      /\ pc[j] \in {"check", "eligible", "admit"}
  BY DEF Check, Prepare, AdmitSettlement, chainVars
<1>m. local[j].mode # "RECONCILE"
  BY <1>0, <1>u DEF JobInv, NumberedInv, RunLabels
<1>1. CASE Check(j)
  <2> DEFINE l == [local[j] EXCEPT !.a = row, !.passing = FALSE, !.artifacts = {}, !.ev = NoEvidence]
  <2>1. l.mode = local[j].mode /\ l.run = local[j].run /\ l.a = row
    BY <1>0 DEF Locals
  <2>2. row' = row /\ status' = status /\ RowKept /\ (Continue(j, "eligible", l) \/ Return(j))
    BY <1>1 DEF Check, RowKept
  <2> HIDE DEF l
  <2>3. CASE Continue(j, "eligible", l)
    <3>1. Frame(j) /\ pc'[j] = "eligible" /\ local'[j] = l
      BY <1>0, <2>3, ContinueEffect
    <3>2. JobInv(j)' /\ ~Sending(j)'
      BY <1>u, <1>m, <2>1, <2>2, <3>1, ReconcilingJob
    <3> QED
      BY <1>u, <2>2, <3>1, <3>2, QuietStep DEF Kept
  <2> QED
    BY <1>u, <2>2, <2>3, StopKept
<1>2. CASE Prepare(j)
  <2> DEFINE l == [local[j] EXCEPT !.a = NoRow]
  <2>1. l.mode = local[j].mode /\ l.run = local[j].run /\ l.a = NoRow
    BY <1>0 DEF Locals
  <2>2. /\ status' = status
        /\ \/ row' = row /\ Return(j)
           \/ /\ row' = IF row.state = "none" THEN [row EXCEPT !.state = "PREPARED"] ELSE row
              /\ Continue(j, "admit", l)
    BY <1>2 DEF Prepare
  <2> HIDE DEF l
  <2>3. CASE /\ row' = IF row.state = "none" THEN [row EXCEPT !.state = "PREPARED"] ELSE row
             /\ Continue(j, "admit", l)
    <3>1. RowKept /\ (row'.state = row.state \/ (row.state = "none" /\ row'.state = "PREPARED"))
      BY <1>0, <2>3 DEF Rows, RowKept
    <3>2. Frame(j) /\ pc'[j] = "admit" /\ local'[j] = l
      BY <1>0, <2>3, ContinueEffect
    <3>3. JobInv(j)' /\ ~Sending(j)'
      BY <1>u, <1>m, <2>1, <2>2, <3>1, <3>2, ReconcilingJob DEF NoRow
    <3>4. Grows /\ (Good <=> Good')
      BY <1>u, <2>2, <3>1, KeptGrows
    <3>5. SharedInv'
      BY <1>u, <2>2, <3>1, <3>4 DEF SettlementInv, SharedInv, RowKept, JournalFollowsLedger
    <3> QED
      BY <1>u, <3>1, <3>2, <3>3, <3>4, <3>5, OneMoves DEF SettlementInv, Kept, RowKept
  <2> QED
    BY <1>u, <2>2, <2>3, StopKept
<1>3. CASE AdmitSettlement(j)
  <2>1. /\ row' = row
        /\ \/ status' = status /\ Return(j)
           \/ /\ status' = status \/ (status = "RESERVED" /\ status' = "ADMITTED")
              /\ Goto(j, "open") /\ local' = local
    BY <1>3 DEF AdmitSettlement
  <2>2. CASE /\ status' = status \/ (status = "RESERVED" /\ status' = "ADMITTED")
             /\ Goto(j, "open") /\ local' = local
    <3>1. Frame(j) /\ pc'[j] = "open" /\ local'[j] = local[j] /\ RowKept
      BY <1>0, <2>1, <2>2 DEF Goto, Frame, JobsTyped, RowKept
    <3>2. Good <=> Good'
      BY <1>u, <2>1 DEF Good
    <3>3. Grows
      BY <1>u, <2>1, <2>2, <3>2 DEF Grows
    <3>4. SharedInv'
      BY <1>u, <2>1, <2>2, <3>2 DEF SettlementInv, SharedInv, JournalFollowsLedger
    <3>5. NumberedInv(j)' /\ ~Sending(j)'
      BY <1>0, <1>u, <1>m, <3>1 DEF JobInv, NumberedInv, Sending, LegLabels, SentLabels
    <3>6. SenderInv(j)' /\ CloserInv(j)'
      BY <1>0, <2>1, <3>1, <3>5 DEF JobInv, SenderInv, CloserInv, SentLabels
    <3> QED
      BY <1>u, <2>1, <3>1, <3>3, <3>4, <3>5, <3>6, OneMoves DEF SettlementInv, Kept, JobInv
  <2> QED
    BY <1>u, <2>1, <2>2, StopKept
<1> QED
  BY <1>1, <1>2, <1>3

\* bindDomain: a send binds its leg only if none was ever bound.
LEMMA OpenLegKept ==
    ASSUME SettlementInv, NEW j \in Jobs, OpenLeg(j)
    PROVE  Kept
<1>0. JobsTyped /\ row \in Rows /\ local[j] \in Locals /\ JobInv(j) /\ now \in Nat
  BY SettlementAssumption DEF SettlementInv, TypeOK, JobsTyped
<1>u. UNCHANGED <<status, artifacts, left, executed, txs, broadcasts>> /\ pc[j] = "open"
  BY DEF OpenLeg, chainVars
<1> DEFINE l == [local[j] EXCEPT !.legAt = now]
<1>1. l.mode = local[j].mode /\ l.run = local[j].run /\ l.a = local[j].a
  BY <1>0 DEF Locals
<1>2. Continue(j, "leg", l)
  BY DEF OpenLeg
<1> HIDE DEF l
<1>3. Frame(j) /\ pc'[j] = "leg" /\ local'[j] = l
  BY <1>0, <1>2, ContinueEffect
<1>4. NumberedInv(j)'
  BY <1>0, <1>u, <1>1, <1>3 DEF JobInv, NumberedInv, RunLabels, LegLabels, SentLabels
<1>5. CASE local[j].mode = "SEND"
  <2>1. row.deadAfter = 0 /\ row.state = "PREPARED"
    BY <1>5 DEF OpenLeg, MayBind
  <2>2. /\ row'.deadAfter # 0 /\ row'.tx = row.tx /\ row'.state = row.state
        /\ row'.sendArtifact = row.sendArtifact
    <3>1. row' = [row EXCEPT !.deadAfter = now + AuthoritySeconds + MarginSeconds]
      BY <1>5 DEF OpenLeg
    <3>2. now + AuthoritySeconds + MarginSeconds # 0
      BY <1>0, SettlementAssumption
    <3> QED
      BY <1>0, <3>1, <3>2 DEF Rows
  <2>3. row.tx = 0 /\ \A k \in Jobs : ~Sending(k)
    BY <2>1 DEF SettlementInv, SharedInv, JobInv, SenderInv
  <2>4. Grows /\ (Good <=> Good')
    BY <1>u, <2>2 DEF Grows, Good
  <2>5. SharedInv'
    BY <1>u, <2>1, <2>2, <2>3, <2>4 DEF SettlementInv, SharedInv, JournalFollowsLedger
  <2>6. SenderInv(j)' /\ CloserInv(j)'
    BY <1>0, <1>1, <1>3, <2>2, <2>3 DEF JobInv, SenderInv, CloserInv, SentLabels
  <2>7. \A k \in Jobs : k # j => JobInv(k)' /\ ~Sending(k)'
    <3> SUFFICES ASSUME NEW k \in Jobs, k # j
                 PROVE  JobInv(k)' /\ ~Sending(k)'
      OBVIOUS
    <3>1. pc'[k] = pc[k] /\ local'[k] = local[k] /\ JobInv(k) /\ ~Sending(k)
      BY <1>3, <2>3 DEF Frame, SettlementInv
    <3> QED
      BY <2>4, <3>1, StillJob
  <2>8. OneSender'
    BY <2>7 DEF OneSender
  <2> QED
    BY <1>4, <2>5, <2>6, <2>7, <2>8 DEF Kept, JobInv
<1>6. CASE local[j].mode # "SEND"
  <2>1. row' = row
    BY <1>6 DEF OpenLeg
  <2>2. ~Sending(j)'
    BY <1>1, <1>3, <1>6 DEF Sending
  <2>3. SenderInv(j)' /\ CloserInv(j)'
    BY <1>0, <1>1, <1>3, <2>1, <2>2 DEF JobInv, SenderInv, CloserInv, SentLabels
  <2> QED
    BY <1>u, <1>3, <1>4, <2>1, <2>2, <2>3, QuietStep DEF Kept, JobInv
<1> QED
  BY <1>5, <1>6

\* From the open leg to the simulation: an artifact is journaled before it is carried out.
LEMMA LegKept ==
    ASSUME SettlementInv, NEW j \in Jobs,
           Refresh(j) \/ Sign(j) \/ RecordArtifact(j) \/ Simulate(j)
    PROVE  Kept
<1>0. JobsTyped /\ row \in Rows /\ local[j] \in Locals /\ JobInv(j)
  BY DEF SettlementInv, TypeOK, JobsTyped
<1>u. UNCHANGED <<status, executed, txs, broadcasts>> /\ pc[j] \in LegLabels /\ pc[j] # "submit"
  BY DEF Refresh, Sign, RecordArtifact, Simulate, chainVars, LegLabels
<1>1. CASE Refresh(j) \/ Sign(j)
  <2>1. PICK l : /\ l.mode = local[j].mode /\ l.run = local[j].run /\ l.a = local[j].a
                 /\ \E label \in {"sign", "simulate"} : Continue(j, label, l)
    <3>1. CASE Refresh(j)
      <4> DEFINE l == [local[j] EXCEPT !.seen = status]
      <4>1. l.mode = local[j].mode /\ l.run = local[j].run /\ l.a = local[j].a
        BY <1>0 DEF Locals
      <4>2. Continue(j, "sign", l)
        BY <3>1 DEF Refresh
      <4> QED
        BY <4>1, <4>2
    <3>2. CASE Sign(j)
      <4> DEFINE x == [run |-> local[j].run, deadline |-> DeadlineFor(local[j].legAt, now)]
                 l == [local[j] EXCEPT !.artifact = {x}, !.seen = "RESERVED", !.legAt = 0]
      <4>1. l.mode = local[j].mode /\ l.run = local[j].run /\ l.a = local[j].a
        BY <1>0 DEF Locals
      <4>2. Continue(j, "simulate", l)
        BY <3>2 DEF Sign
      <4> QED
        BY <4>1, <4>2
    <3> QED
      BY <1>1, <3>1, <3>2
  <2>2. row' = row /\ artifacts' = artifacts /\ left' = left
    BY <1>1 DEF Refresh, Sign, chainVars
  <2>3. Frame(j) /\ pc'[j] \in {"sign", "simulate"} /\ local'[j] = l
    BY <1>0, <2>1, ContinueEffect
  <2>4. NumberedInv(j)' /\ (Sending(j)' <=> Sending(j))
    BY <1>0, <1>u, <2>1, <2>3 DEF JobInv, NumberedInv, Sending, RunLabels, LegLabels, SentLabels
  <2>5. SenderInv(j)'
    BY <1>0, <1>u, <2>1, <2>2, <2>3, <2>4 DEF JobInv, SenderInv, LegLabels, SentLabels
  <2>6. CloserInv(j)'
    BY <1>0, <2>1, <2>2, <2>3 DEF JobInv, CloserInv
  <2> QED
    BY <1>u, <2>2, <2>3, <2>4, <2>5, <2>6, QuietStep DEF Kept, JobInv
<1>2. CASE RecordArtifact(j)
  <2>1. /\ artifacts' = artifacts \cup local[j].artifact /\ left' = left
        /\ Frame(j) /\ pc'[j] = "call" /\ local'[j] = local[j]
    BY <1>0, <1>2 DEF RecordArtifact, Goto, Frame, JobsTyped, chainVars
  <2>2. /\ row'.tx = row.tx /\ row'.deadAfter = row.deadAfter /\ row'.state = row.state
        /\ row.sendArtifact # {} => row'.sendArtifact = row.sendArtifact
    BY <1>0, <1>2 DEF RecordArtifact, Rows
  <2>3. Good => Good'
    BY <1>u, <2>2 DEF Good
  <2>4. Grows
    BY <1>u, <2>1, <2>2, <2>3 DEF Grows
  <2>5. SharedInv'
    BY <1>u, <2>1, <2>2, <2>3 DEF SettlementInv, SharedInv, JournalFollowsLedger
  <2>6. NumberedInv(j)' /\ (Sending(j)' <=> Sending(j))
    BY <1>0, <1>u, <2>1 DEF JobInv, NumberedInv, Sending, RunLabels, LegLabels, SentLabels
  <2>7. SenderInv(j)'
    BY <1>0, <1>u, <2>1, <2>2, <2>6 DEF JobInv, SenderInv, LegLabels, SentLabels
  <2>8. CloserInv(j)'
    BY <1>0, <2>1, <2>2 DEF JobInv, CloserInv
  <2> QED
    BY <1>u, <2>1, <2>2, <2>4, <2>5, <2>6, <2>7, <2>8, OneMoves DEF SettlementInv, Kept, JobInv
<1>3. CASE Simulate(j)
  <2>1. /\ row' = row /\ artifacts' = artifacts /\ left' = left \cup local[j].artifact
        /\ local[j].artifact \subseteq artifacts
        /\ Return(j) \/ (local[j].mode = "SEND" /\ Goto(j, "submit") /\ local' = local)
    BY <1>0, <1>3 DEF Simulate, JobInv, SenderInv
  <2>2. RowKept
    BY <2>1 DEF RowKept
  <2>3. Grows /\ (Good <=> Good')
    BY <1>u, <2>1, <2>2, KeptGrows
  <2>4. SharedInv'
    BY <1>u, <2>1, <2>3 DEF SettlementInv, SharedInv, JournalFollowsLedger
  <2>5. Frame(j) /\ JobInv(j)' /\ (Sending(j)' => Sending(j))
    <3>1. CASE Return(j)
      BY <1>0, <3>1, ReturnEffect, IdleJob
    <3>2. CASE local[j].mode = "SEND" /\ Goto(j, "submit") /\ local' = local
      <4>1. Frame(j) /\ pc'[j] = "submit" /\ local'[j] = local[j]
        BY <1>0, <3>2 DEF Goto, Frame, JobsTyped
      <4>2. NumberedInv(j)' /\ (Sending(j)' <=> Sending(j))
        BY <1>0, <1>u, <3>2, <4>1 DEF JobInv, NumberedInv, Sending, RunLabels, LegLabels, SentLabels
      <4>3. SenderInv(j)'
        BY <1>0, <1>u, <2>1, <4>1, <4>2 DEF JobInv, SenderInv, LegLabels, SentLabels
      <4>4. CloserInv(j)'
        BY <1>0, <2>1, <4>1 DEF JobInv, CloserInv
      <4> QED
        BY <4>1, <4>2, <4>3, <4>4 DEF JobInv
    <3> QED
      BY <2>1, <3>1, <3>2
  <2> QED
    BY <1>u, <2>1, <2>3, <2>4, <2>5, OneMoves DEF SettlementInv, Kept
<1> QED
  BY <1>1, <1>2, <1>3

\* startSubmission: the one send writes its hash.
LEMMA SubmissionKept ==
    ASSUME SettlementInv, NEW j \in Jobs, StartSubmission(j)
    PROVE  Kept
<1>0. JobsTyped /\ row \in Rows /\ local[j] \in Locals /\ JobInv(j)
  BY DEF SettlementInv, TypeOK, JobsTyped
<1>u. UNCHANGED <<status, artifacts, left, executed, txs, broadcasts>> /\ pc[j] = "submit"
  BY DEF StartSubmission, chainVars
<1>1. CASE row' = row /\ Return(j)
  BY <1>1, <1>u, StopKept
<1>2. CASE /\ row' = [row EXCEPT !.state = "SUBMISSION_STARTED", !.tx = local[j].run]
           /\ Goto(j, "broadcast") /\ local' = local
  <2>1. Frame(j) /\ pc'[j] = "broadcast" /\ local'[j] = local[j]
    BY <1>0, <1>2 DEF Goto, Frame, JobsTyped
  <2>2. /\ row'.state = "SUBMISSION_STARTED" /\ row'.tx = local[j].run
        /\ row'.deadAfter = row.deadAfter /\ row'.sendArtifact = row.sendArtifact
    BY <1>0, <1>2 DEF Rows
  <2>3. Sending(j) /\ row.tx = 0 /\ row.deadAfter # 0 /\ local[j].run # 0 /\ local[j].mode = "SEND"
    BY <1>0, <1>u DEF JobInv, NumberedInv, SenderInv, Sending, LegLabels
  <2>4. broadcasts = 0 /\ ~Good /\ \A n \in 1 .. MaxRuns : txs[n] = "none"
    BY <2>3 DEF SettlementInv, SharedInv, Good
  <2>5. Grows
    BY <1>u, <2>2, <2>3, <2>4 DEF Grows
  <2>6. SharedInv'
    BY <1>u, <2>2, <2>3, <2>4 DEF SettlementInv, SharedInv, JournalFollowsLedger
  <2>7. NumberedInv(j)'
    BY <1>0, <2>1, <2>3 DEF JobInv, NumberedInv
  <2>8. SenderInv(j)'
    BY <1>u, <2>1, <2>2, <2>3, <2>4 DEF SenderInv, LegLabels, SentLabels
  <2>9. CloserInv(j)'
    BY <1>0, <2>1, <2>2, <2>3 DEF JobInv, CloserInv
  <2> QED
    BY <2>1, <2>3, <2>5, <2>6, <2>7, <2>8, <2>9, OneMoves DEF SettlementInv, Kept, JobInv
<1> QED
  BY <1>1, <1>2 DEF StartSubmission

\* The one broadcast.
LEMMA BroadcastKept ==
    ASSUME SettlementInv, NEW j \in Jobs, Broadcast(j)
    PROVE  Kept
<1>0. JobsTyped /\ row \in Rows /\ local[j] \in Locals /\ JobInv(j)
  BY DEF SettlementInv, TypeOK, JobsTyped
<1>1. /\ UNCHANGED <<status, artifacts, left, executed, row>> /\ pc[j] = "broadcast"
      /\ broadcasts' = broadcasts + 1
      /\ Frame(j) /\ pc'[j] = "answer" /\ local'[j] = local[j]
  BY <1>0 DEF Broadcast, Goto, Frame, JobsTyped
<1>2. /\ broadcasts = 0 /\ row.tx = local[j].run /\ local[j].run # 0 /\ Sending(j)
      /\ local[j].mode = "SEND" /\ row.deadAfter # 0
  BY <1>0, <1>1 DEF JobInv, NumberedInv, SenderInv, Sending, SentLabels
<1>3. \A n \in 1 .. MaxRuns : txs[n] = "none" /\ (n # row.tx => txs'[n] = "none")
  BY <1>2 DEF SettlementInv, SharedInv, TypeOK, Broadcast
<1>4. row.tx \in 1 .. MaxRuns
  <2>1. row.tx \in 0 .. MaxRuns
    BY <1>0 DEF Rows
  <2> QED
    BY <1>2, <2>1, SettlementAssumption
<1>5. ~Good
  BY <1>3, <1>4 DEF Good
<1>6. Grows
  BY <1>1, <1>5 DEF Grows
<1>7. SharedInv'
  BY <1>1, <1>2, <1>3, <1>5 DEF SettlementInv, SharedInv, JournalFollowsLedger
<1>8. NumberedInv(j)' /\ Sending(j)'
  BY <1>0, <1>1, <1>2 DEF JobInv, NumberedInv, Sending, SentLabels
<1>9. SenderInv(j)'
  BY <1>1, <1>2 DEF SenderInv, LegLabels, SentLabels
<1>10. CloserInv(j)'
  BY <1>0, <1>1 DEF JobInv, CloserInv
<1> QED
  BY <1>1, <1>2, <1>6, <1>7, <1>8, <1>9, <1>10, OneMoves DEF SettlementInv, Kept, JobInv

\* The answer and the receipt.
LEMMA AnswerKept ==
    ASSUME SettlementInv, NEW j \in Jobs, Answer(j) \/ AwaitReceipt(j)
    PROVE  Kept
<1>0. JobInv(j)
  BY DEF SettlementInv
<1>u. UNCHANGED <<status, artifacts, left, executed, txs, broadcasts>>
  BY DEF Answer, AwaitReceipt, chainVars
<1>s. /\ {"CONFIRMED_SUCCESS", "CONFIRMED_REVERT", "SUBMITTED", "RECONCILIATION_REQUIRED"}
           \subseteq States \ {"PREPARED"}
      /\ {"null", "BROADCAST_REJECTED", "AMBIGUOUS_BROADCAST"} \subseteq Quarantines
  BY StatesAre DEF Quarantines
<1>1. CASE Answer(j)
  <2>1. pc[j] = "answer"
    BY <1>1 DEF Answer
  <2>2. \/ Transition(j, "SUBMITTED", "null", "mined")
        \/ \E q \in {"BROADCAST_REJECTED", "AMBIGUOUS_BROADCAST"} :
             Transition(j, "RECONCILIATION_REQUIRED", q, "mined")
    BY <1>1 DEF Answer
  <2>3. CASE Transition(j, "SUBMITTED", "null", "mined")
    BY <1>u, <1>s, <2>1, <2>3, TransitionKept
  <2>4. CASE \E q \in {"BROADCAST_REJECTED", "AMBIGUOUS_BROADCAST"} :
               Transition(j, "RECONCILIATION_REQUIRED", q, "mined")
    BY <1>u, <1>s, <2>1, <2>4, TransitionKept
  <2> QED
    BY <2>2, <2>3, <2>4
<1>2. CASE AwaitReceipt(j)
  <2>1. pc[j] = "mined"
    BY <1>2 DEF AwaitReceipt
  <2>2. row.tx # 0
    BY <1>0, <2>1 DEF JobInv, NumberedInv, SenderInv, SentLabels
  <2>3. CASE Transition(j, "CONFIRMED_SUCCESS", "null", "post")
    BY <1>u, <1>s, <2>1, <2>2, <2>3, TransitionKept
  <2>4. CASE Transition(j, "CONFIRMED_REVERT", "null", "idle")
    BY <1>u, <1>s, <2>1, <2>4, TransitionKept
  <2>5. CASE row' = row /\ Return(j)
    BY <1>u, <2>5, StopKept
  <2> QED
    BY <1>2, <2>3, <2>4, <2>5 DEF AwaitReceipt
<1> QED
  BY <1>1, <1>2

------------------------------------------------------------------------------
(* The chain, the principal, a crash; then every step.                      *)

\* Nothing outside the process undoes what was settled; a crash ends all jobs.
LEMMA EnvironmentKept ==
    ASSUME SettlementInv,
           \/ \E n \in 1 .. MaxRuns : Mine(n) \/ Drop(n)
           \/ \E x \in left : ExecuteOutside(x)
           \/ Tick \/ SetAuthority \/ Crash
    PROVE  Kept
<1>1. CASE Crash
  <2>1. \A k \in Jobs : pc'[k] = "idle" /\ local'[k] = NoLocal
    BY <1>1 DEF Crash
  <2>2. \A k \in Jobs : JobInv(k)' /\ ~Sending(k)'
    BY <2>1, IdleJob
  <2>3. SharedInv'
    BY <1>1 DEF Crash, chainVars, SettlementInv, SharedInv, Good, JournalFollowsLedger
  <2> QED
    BY <2>2, <2>3 DEF Kept, OneSender
<1>2. CASE /\ \/ \E n \in 1 .. MaxRuns : Mine(n) \/ Drop(n)
              \/ \E x \in left : ExecuteOutside(x)
              \/ Tick \/ SetAuthority
  <2>1. UNCHANGED <<left, broadcasts, status, row, artifacts, pc, local>>
    BY <1>2 DEF Mine, Drop, ExecuteOutside, Tick, SetAuthority, chainVars
  <2>2. executed \subseteq executed'
    BY <1>2 DEF Mine, Drop, ExecuteOutside, Tick, SetAuthority, chainVars
  <2>3. \A n \in 1 .. MaxRuns :
            /\ txs[n] = "none" <=> txs'[n] = "none"
            /\ txs[n] = "SUCCESS" => txs'[n] = "SUCCESS"
    <3>1. CASE \E n \in 1 .. MaxRuns : Mine(n) \/ Drop(n)
      <4>1. PICK n \in 1 .. MaxRuns : Mine(n) \/ Drop(n)
        BY <3>1
      <4>2. /\ txs[n] \in {"pool", "wild"}
            /\ \E fate \in {"SUCCESS", "ANOMALY", "REVERTED", "lost"} : txs' = [txs EXCEPT ![n] = fate]
        BY <4>1 DEF Mine, Drop
      <4> QED
        BY <4>2 DEF SettlementInv, TypeOK
    <3>2. CASE (\E x \in left : ExecuteOutside(x)) \/ Tick \/ SetAuthority
      BY <3>2 DEF ExecuteOutside, Tick, SetAuthority, chainVars
    <3> QED
      BY <1>2, <3>1, <3>2
  <2>4. row.tx # 0 => row.tx \in 1 .. MaxRuns
    <3>1. row.tx \in 0 .. MaxRuns
      BY DEF SettlementInv, TypeOK, Rows
    <3> QED
      BY <3>1, SettlementAssumption
  <2>r. row' = row /\ status' = status /\ left' = left /\ artifacts' = artifacts
        /\ broadcasts' = broadcasts
    BY <2>1
  <2>5. Good => Good'
    <3> SUFFICES ASSUME Good PROVE Good'
      OBVIOUS
    <3>1. row.tx # 0 /\ row.sendArtifact # {} /\ row.sendArtifact \subseteq executed
      BY DEF Good
    <3>2. txs[row.tx] = "SUCCESS" /\ row.tx \in 1 .. MaxRuns
      BY <2>4 DEF Good
    <3>3. txs'[row.tx] = "SUCCESS"
      BY <2>3, <3>2
    <3>4. row.sendArtifact \subseteq executed'
      BY <2>2, <3>1
    <3> QED
      BY <2>r, <3>1, <3>3, <3>4 DEF Good
  <2>6. Grows
    BY <2>1, <2>5 DEF Grows
  <2>7. SharedInv'
    <3>1. /\ row.deadAfter = 0 => row.tx = 0
          /\ broadcasts \in {0, 1}
          /\ row.tx = 0 => broadcasts = 0
          /\ row.tx # 0 => row.state \notin {"none", "PREPARED"}
          /\ left \subseteq artifacts
          /\ row.state \in {"CONFIRMED_SUCCESS", "SETTLED", "CONSUMED"} => row.tx # 0
          /\ row.state \in {"SETTLED", "CONSUMED"} => Good
          /\ status = "CONSUMED" => Good
          /\ JournalFollowsLedger
      BY DEF SettlementInv, SharedInv
    <3>2. /\ broadcasts = 0 => \A n \in 1 .. MaxRuns : txs'[n] = "none"
          /\ \A n \in 1 .. MaxRuns : txs'[n] # "none" => row.tx = n
      BY <2>3 DEF SettlementInv, SharedInv
    <3>3. JournalFollowsLedger'
      BY <2>r, <3>1 DEF JournalFollowsLedger
    <3> QED
      BY <2>r, <2>5, <3>1, <3>2, <3>3 DEF SharedInv
  <2>8. \A k \in Jobs : JobInv(k)' /\ (Sending(k)' <=> Sending(k))
    <3> SUFFICES ASSUME NEW k \in Jobs
                 PROVE  JobInv(k)' /\ (Sending(k)' <=> Sending(k))
      OBVIOUS
    <3>1. pc'[k] = pc[k] /\ local'[k] = local[k] /\ row'.tx = row.tx /\ broadcasts' = broadcasts
      BY <2>1
    <3>2. JobInv(k)
      BY DEF SettlementInv
    <3> QED
      BY <2>6, <3>1, <3>2, StillJob
  <2> QED
    BY <2>7, <2>8 DEF Kept, OneSender, SettlementInv
<1> QED
  BY <1>1, <1>2

(***************************************************************************)
(* The invariant holds initially and every step keeps it.                  *)
(***************************************************************************)
LEMMA SettlementInit == Init => SettlementInv
<1> SUFFICES ASSUME Init PROVE SettlementInv
  OBVIOUS
<1>1. TypeOK
  <2>1. pc \in [Jobs -> Labels]
    BY DEF Init, Labels
  <2>2. local \in [Jobs -> Locals]
    BY EmptyTyped DEF Init
  <2>3. txs \in [1 .. MaxRuns -> {"none", "pool", "wild", "lost"} \cup Mined]
    BY DEF Init
  <2> QED
    BY <2>1, <2>2, <2>3, EmptyTyped, SettlementAssumption DEF Init, TypeOK, Statuses
<1>2. SharedInv
  BY DEF Init, SharedInv, NoRow, JournalFollowsLedger
<1>3. \A j \in Jobs : JobInv(j) /\ ~Sending(j)
  BY DEF Init, JobInv, NumberedInv, SenderInv, CloserInv, Sending, NoLocal, NoRow, RunLabels,
         LegLabels, SentLabels
<1> QED
  BY <1>1, <1>2, <1>3 DEF SettlementInv, OneSender

\* Every step of a job.
LEMMA JobStepKept ==
    ASSUME SettlementInv, NEW j \in Jobs, JobStep(j)
    PROVE  Kept
<1>2. CASE Enter(j) \/ Load(j)
  BY <1>2, LoadKept
<1>3. CASE \E ok \in BOOLEAN : ReadLatest(j, ok) \/ ReadReceipt(j, ok) \/ ReadTransaction(j, ok)
  BY <1>3, ReadKept
<1>4. CASE \E ok \in BOOLEAN : Resolve(j, ok)
  BY <1>4, ResolveKept
<1>5. CASE \E ok \in BOOLEAN : CheckPostconditions(j, ok)
  BY <1>5, PostconditionsKept
<1>6. CASE Released(j) \/ Consumed(j)
  BY <1>6, ClosingKept
<1>7. CASE ReleaseReservation(j) \/ ConsumeReservation(j)
  BY <1>7, AccountKept
<1>8. CASE Check(j) \/ Prepare(j) \/ AdmitSettlement(j)
  BY <1>8, PrepareKept
<1>9. CASE Stop(j)
  BY <1>9, StopKept DEF Stop, chainVars
<1>10. CASE OpenLeg(j)
  BY <1>10, OpenLegKept
<1>11. CASE Refresh(j) \/ Sign(j) \/ RecordArtifact(j) \/ Simulate(j)
  BY <1>11, LegKept
<1>12. CASE StartSubmission(j)
  BY <1>12, SubmissionKept
<1>13. CASE Broadcast(j)
  BY <1>13, BroadcastKept
<1>14. CASE Answer(j) \/ AwaitReceipt(j)
  BY <1>14, AnswerKept
<1> QED
  BY <1>2, <1>3, <1>4, <1>5, <1>6, <1>7, <1>8, <1>9, <1>10, <1>11, <1>12, <1>13, <1>14
     DEF JobStep, ReconcileStep, RunStep

\* Every step of the system.
LEMMA SettlementStep == SettlementInv /\ [Next]_vars => SettlementInv'
<1> SUFFICES ASSUME SettlementInv, [Next]_vars PROVE SettlementInv'
  OBVIOUS
<1>1. CASE Next
  <2>1. TypeOK'
    BY <1>1, TypeStep DEF SettlementInv, JobInv
  <2>2. Kept
    <3>1. CASE \E j \in Jobs : JobStep(j)
      BY <3>1, JobStepKept
    <3>2. CASE \E j \in Jobs, mode \in {"DRY_RUN", "SEND", "RECONCILE"} : Request(j, mode)
      BY <3>2, RequestKept
    <3>3. CASE \/ \E n \in 1 .. MaxRuns : Mine(n) \/ Drop(n)
               \/ \E x \in left : ExecuteOutside(x)
               \/ Tick \/ SetAuthority \/ Crash
      BY <3>3, EnvironmentKept
    <3> QED
      BY <1>1, <3>1, <3>2, <3>3 DEF Next, Reconcile
  <2> QED
    BY <2>1, <2>2 DEF SettlementInv, Kept
<1>2. CASE UNCHANGED vars
  <2>1. TypeOK'
    BY <1>2 DEF SettlementInv, TypeOK, vars
  <2>2. SharedInv'
    BY <1>2 DEF SettlementInv, SharedInv, Good, JournalFollowsLedger, vars
  <2>3. OneSender'
    BY <1>2 DEF SettlementInv, OneSender, Sending, vars
  <2>4. \A j \in Jobs : JobInv(j)'
    BY <1>2 DEF SettlementInv, JobInv, NumberedInv, SenderInv, CloserInv, Sending, Good, vars
  <2> QED
    BY <2>1, <2>2, <2>3, <2>4 DEF SettlementInv
<1> QED
  BY <1>1, <1>2

------------------------------------------------------------------------------
(* The theorems that hold however the jobs overlap.                         *)

(***************************************************************************)
(* The invariant of the journal, the ledger, the chain and the jobs.       *)
(***************************************************************************)
THEOREM SettlementInvariant == Spec => []SettlementInv
BY SettlementInit, SettlementStep, PTL DEF Spec

(***************************************************************************)
(* One reservation is broadcast at most once (settlement.ts:204, 287).     *)
(***************************************************************************)
THEOREM SettlementBroadcastsOnce == Spec => []BroadcastOnce
<1>1. SettlementInv => BroadcastOnce
  BY DEF SettlementInv, SharedInv, BroadcastOnce
<1> QED
  BY <1>1, SettlementInvariant, PTL

(***************************************************************************)
(* Nothing leaves the process before the journal holds it (journal.ts:24). *)
(***************************************************************************)
THEOREM JournalWritesAhead == Spec => []WriteAhead
<1>1. SettlementInv => WriteAhead
  <2> SUFFICES ASSUME SettlementInv PROVE WriteAhead
    OBVIOUS
  <2>1. left \subseteq artifacts
    BY DEF SettlementInv, SharedInv
  <2>2. \A n \in 1 .. MaxRuns : txs[n] # "none" => row.tx = n /\ row.state # "PREPARED"
    BY SettlementAssumption DEF SettlementInv, SharedInv
  <2> QED
    BY <2>1, <2>2 DEF WriteAhead
<1> QED
  BY <1>1, SettlementInvariant, PTL

(***************************************************************************)
(* The journal closes an attempt only after the ledger has                 *)
(* (reconcile.ts:9).                                                       *)
(***************************************************************************)
THEOREM LedgerWritesFirst == Spec => []JournalFollowsLedger
<1>1. SettlementInv => JournalFollowsLedger
  BY DEF SettlementInv, SharedInv
<1> QED
  BY <1>1, SettlementInvariant, PTL

(***************************************************************************)
(* What is consumed was executed by the attempt's own transaction, with    *)
(* its own artifact and exact balance changes (settlement.ts:576).         *)
(***************************************************************************)
THEOREM OnlySettledIsConsumed == Spec => []ConsumedWasSettled
<1>1. SettlementInv => ConsumedWasSettled
  BY DEF SettlementInv, SharedInv, Good, ConsumedWasSettled
<1> QED
  BY <1>1, SettlementInvariant, PTL

------------------------------------------------------------------------------
(* Jobs that run one at a time: what is released never executes.            *)

\* After the step no other job is running.
Alone(j) == \A k \in Jobs : k # j => pc'[k] \in {"idle", "opening"}

CalmLabels == {"idle", "opening", "load", "check", "eligible", "post", "consume", "consumed"}

\* Nothing is claimed of a job that does not run.
LEMMA OthersRelease ==
    ASSUME NEW j \in Jobs, Alone(j)
    PROVE  \A k \in Jobs : k # j => JobRelease(k)'
BY DEF Alone, JobRelease, RunLabels, LegLabels, SentLabels

\* The job goes on where nothing is claimed about the artifacts.
LEMMA CalmStep ==
    ASSUME ReleaseInv, NEW j \in Jobs, Alone(j), pc'[j] \in CalmLabels,
           UNCHANGED <<now, artifacts, executed>>, status' = status \/ status' # "RELEASED"
    PROVE  ReleaseInv'
<1>1. status' = "RELEASED" => AllDead'
  BY DEF ReleaseInv, AllDead
<1>2. JobRelease(j)'
  BY DEF JobRelease, CalmLabels, RunLabels, LegLabels, SentLabels
<1> QED
  BY <1>1, <1>2, OthersRelease DEF ReleaseInv

\* The run goes on, or stops, while the reservation is still held.
LEMMA RunningStep ==
    ASSUME ReleaseInv, NEW j \in Jobs, Alone(j), pc'[j] \in RunLabels \cup {"idle"},
           status' # "RELEASED"
    PROVE  ReleaseInv'
<1>1. JobRelease(j)'
  BY DEF JobRelease, RunLabels, LegLabels, SentLabels
<1> QED
  BY <1>1, OthersRelease DEF ReleaseInv

\* A transition goes where it was asked to or the job is over.
LEMMA TransitionLabel ==
    ASSUME SettlementInv, NEW j \in Jobs, NEW to, NEW q, NEW label, Transition(j, to, q, label)
    PROVE  pc'[j] \in {label, "idle"}
BY DEF SettlementInv, TypeOK, Transition, Continue, Return, Goto, Keep

\* So does a job that goes on or returns.
LEMMA ContinueLabel ==
    ASSUME SettlementInv, NEW j \in Jobs, NEW label
    PROVE  /\ \A l : Continue(j, label, l) => pc'[j] = label
           /\ Goto(j, label) => pc'[j] = label
           /\ Return(j) => pc'[j] = "idle"
BY DEF SettlementInv, TypeOK, Continue, Return, Goto, Keep

\* The steps of a run.
LEMMA RunReleases ==
    ASSUME SettlementInv, ReleaseInv, NEW j \in Jobs, Alone(j), RunStep(j)
    PROVE  ReleaseInv'
<1>0. pc[j] \in RunLabels => status # "RELEASED"
  BY DEF ReleaseInv, JobRelease
<1>1. CASE Check(j)
  <2>1. UNCHANGED <<now, artifacts, executed, status>>
    BY <1>1 DEF Check, chainVars
  <2>2. pc'[j] \in {"eligible", "idle"}
    BY <1>1, ContinueLabel DEF Check
  <2> QED
    BY <2>1, <2>2, CalmStep DEF CalmLabels
<1>2. CASE Prepare(j)
  <2>1. UNCHANGED <<now, artifacts, executed, status>>
    BY <1>2 DEF Prepare, chainVars
  <2>2. CASE Return(j)
    BY <2>1, <2>2, ContinueLabel, CalmStep DEF CalmLabels
  <2>3. CASE ~Return(j)
    <3>1. Eligible(status) /\ Continue(j, "admit", [local[j] EXCEPT !.a = NoRow])
      BY <1>2, <2>3 DEF Prepare
    <3>2. status # "RELEASED" /\ pc'[j] = "admit"
      BY <3>1, ContinueLabel DEF Eligible
    <3> QED
      BY <2>1, <3>2, RunningStep DEF RunLabels
  <2> QED
    BY <2>2, <2>3
<1>3. CASE AdmitSettlement(j)
  <2>1. pc[j] = "admit" /\ (status' = status \/ status' = "ADMITTED") /\ pc'[j] \in {"open", "idle"}
    BY <1>3, ContinueLabel DEF AdmitSettlement
  <2> QED
    BY <1>0, <2>1, RunningStep DEF RunLabels
<1>4. CASE Stop(j) \/ OpenLeg(j) \/ Refresh(j) \/ Sign(j) \/ RecordArtifact(j) \/ Simulate(j)
  <2>1. pc[j] \in RunLabels /\ status' = status
    BY <1>4 DEF Stop, OpenLeg, Refresh, Sign, RecordArtifact, Simulate, RunLabels, LegLabels
  <2>2. pc'[j] \in RunLabels \cup {"idle"}
    <3>1. \/ Return(j)
          \/ \E label \in {"leg", "sign", "simulate", "call", "submit"} :
                Goto(j, label) \/ \E l : Continue(j, label, l)
      <4>1. CASE Stop(j)
        BY <4>1 DEF Stop
      <4>2. CASE OpenLeg(j)
        BY <4>2 DEF OpenLeg
      <4>3. CASE Refresh(j)
        BY <4>3 DEF Refresh
      <4>4. CASE Sign(j)
        BY <4>4 DEF Sign
      <4>5. CASE RecordArtifact(j) \/ Simulate(j)
        BY <4>5 DEF RecordArtifact, Simulate
      <4> QED
        BY <1>4, <4>1, <4>2, <4>3, <4>4, <4>5
    <3> QED
      BY <3>1, ContinueLabel DEF RunLabels, LegLabels
  <2> QED
    BY <1>0, <2>1, <2>2, RunningStep
<1>5. CASE StartSubmission(j) \/ Broadcast(j)
  <2>1. pc[j] \in RunLabels /\ status' = status
    BY <1>5 DEF StartSubmission, Broadcast, RunLabels, LegLabels, SentLabels
  <2>2. pc'[j] \in {"broadcast", "answer", "idle"}
    BY <1>5, ContinueLabel DEF StartSubmission, Broadcast
  <2> QED
    BY <1>0, <2>1, <2>2, RunningStep DEF RunLabels, SentLabels
<1>6. CASE Answer(j)
  <2>1. pc[j] = "answer" /\ status' = status /\ pc'[j] \in {"mined", "idle"}
    BY <1>6, TransitionLabel DEF Answer
  <2> QED
    BY <1>0, <2>1, RunningStep DEF RunLabels, SentLabels
<1>7. CASE AwaitReceipt(j)
  <2>1. UNCHANGED <<now, artifacts, executed, status>>
    BY <1>7 DEF AwaitReceipt, chainVars
  <2>2. pc'[j] \in {"post", "idle"}
    BY <1>7, TransitionLabel, ContinueLabel DEF AwaitReceipt
  <2> QED
    BY <2>1, <2>2, CalmStep DEF CalmLabels
<1> QED
  BY <1>1, <1>2, <1>3, <1>4, <1>5, <1>6, <1>7 DEF RunStep

EvidenceLabels == {"latest", "receipt", "known", "commitments"}

\* The job gathers evidence, of its artifacts as they are now.
LEMMA GatheringStep ==
    ASSUME ReleaseInv, NEW j \in Jobs, Alone(j), pc'[j] \in EvidenceLabels,
           UNCHANGED <<now, artifacts, executed, status>>,
           local'[j].artifacts = artifacts, pc'[j] # "latest" => EvidenceHolds(j)'
    PROVE  ReleaseInv'
<1>1. status' = "RELEASED" => AllDead'
  BY DEF ReleaseInv, AllDead
<1>2. JobRelease(j)'
  BY DEF JobRelease, EvidenceLabels, RunLabels, LegLabels, SentLabels
<1> QED
  BY <1>1, <1>2, OthersRelease DEF ReleaseInv

\* The artifacts are loaded.
LEMMA LoadReleases ==
    ASSUME SettlementInv, ReleaseInv, NEW j \in Jobs, Alone(j), Load(j)
    PROVE  ReleaseInv'
<1>0. JobsTyped /\ local[j] \in Locals
  BY DEF SettlementInv, TypeOK, JobsTyped
<1>u. UNCHANGED <<now, artifacts, executed, status>>
  BY DEF Load, chainVars
<1> DEFINE l == [local[j] EXCEPT !.a = row, !.artifacts = artifacts]
           label == IF NeedsEvidence(row) THEN "latest" ELSE AfterEvidence(l, row)
<1>1. Continue(j, label, l)
  BY DEF Load
<1>2. label \in {"post", "consume", "latest", "check", "idle"}
  BY LabelsMean
<1>3. l.artifacts = artifacts
  BY <1>0 DEF Locals
<1> HIDE DEF l, label
<1>4. pc'[j] = label /\ local'[j] = IF label = "idle" THEN NoLocal ELSE l
  BY <1>0, <1>1, ContinueEffect
<1>5. CASE label = "latest"
  BY <1>u, <1>3, <1>4, <1>5, GatheringStep DEF EvidenceLabels
<1>6. CASE label # "latest"
  BY <1>u, <1>2, <1>4, <1>6, CalmStep DEF CalmLabels
<1> QED
  BY <1>5, <1>6

\* The reads of the chain: the latest block fixes what the later ones are judged with.
LEMMA ReadReleases ==
    ASSUME SettlementInv, ReleaseInv, NEW j \in Jobs, Alone(j), NEW ok \in BOOLEAN,
           ReadLatest(j, ok) \/ ReadReceipt(j, ok) \/ ReadTransaction(j, ok)
    PROVE  ReleaseInv'
<1>0. JobsTyped /\ local[j] \in Locals /\ JobRelease(j) /\ now \in Nat
  BY SettlementAssumption DEF SettlementInv, TypeOK, JobsTyped, ReleaseInv
<1>u. UNCHANGED <<now, artifacts, executed, status>>
  BY DEF ReadLatest, ReadReceipt, ReadTransaction, chainVars
<1>1. local[j].artifacts = artifacts
  BY <1>0 DEF ReadLatest, ReadReceipt, ReadTransaction, JobRelease
<1>2. CASE ReadLatest(j, ok)
  <2> DEFINE ev == [NoEvidence EXCEPT !.readable = ok, !.time = IF ok THEN now ELSE 0,
                                      !.commits = IF ok THEN executed ELSE {}]
             l == [local[j] EXCEPT !.ev = ev]
  <2>1. ev.readable = ok /\ (ok => ev.time = now /\ ev.commits = executed)
    BY DEF NoEvidence
  <2>2. \E label \in {"receipt", "commitments"} : Continue(j, label, l)
    BY <1>2 DEF ReadLatest
  <2> HIDE DEF ev
  <2>3. l.ev = ev /\ l.artifacts = local[j].artifacts
    BY <1>0 DEF Locals
  <2> HIDE DEF l
  <2>4. pc'[j] \in {"receipt", "commitments"} /\ local'[j] = l
    BY <1>0, <2>2, ContinueEffect
  <2>5. EvidenceHolds(j)'
    BY <1>0, <1>u, <2>1, <2>3, <2>4 DEF EvidenceHolds
  <2> QED
    BY <1>u, <1>1, <2>3, <2>4, <2>5, GatheringStep DEF EvidenceLabels
<1>3. CASE ReadReceipt(j, ok) \/ ReadTransaction(j, ok)
  <2>0. local[j].ev \in Evidence
    BY <1>0 DEF Locals
  <2>1. PICK ev : /\ ev.readable = local[j].ev.readable /\ ev.time = local[j].ev.time
                  /\ ev.commits = local[j].ev.commits
                  /\ \E label \in {"known", "commitments"} :
                        Continue(j, label, [local[j] EXCEPT !.ev = ev])
    <3>1. CASE ReadReceipt(j, ok)
      <4> DEFINE receipt == IF ok THEN ReceiptOf(local[j].a.tx) ELSE "UNREADABLE"
                 ev == [local[j].ev EXCEPT !.receipt = receipt]
      <4>1. \E label \in {"known", "commitments"} :
               Continue(j, label, [local[j] EXCEPT !.ev.receipt = receipt])
        BY <3>1 DEF ReadReceipt
      <4> HIDE DEF receipt
      <4>2. /\ ev.readable = local[j].ev.readable /\ ev.time = local[j].ev.time
            /\ ev.commits = local[j].ev.commits
        BY <2>0 DEF Evidence
      <4> QED
        BY <4>1, <4>2
    <3>2. CASE ReadTransaction(j, ok)
      <4> DEFINE known == txs[local[j].a.tx] \in {"pool"} \cup Mined
                 ev1 == [local[j].ev EXCEPT !.known = known]
                 ev2 == [local[j].ev EXCEPT !.receipt = "UNREADABLE"]
      <4>1. \/ Continue(j, "commitments", [local[j] EXCEPT !.ev.known = known])
            \/ Continue(j, "commitments", [local[j] EXCEPT !.ev.receipt = "UNREADABLE"])
        BY <3>2 DEF ReadTransaction
      <4> HIDE DEF known
      <4>2. /\ ev1.readable = local[j].ev.readable /\ ev1.time = local[j].ev.time
            /\ ev1.commits = local[j].ev.commits
        BY <2>0 DEF Evidence
      <4>3. /\ ev2.readable = local[j].ev.readable /\ ev2.time = local[j].ev.time
            /\ ev2.commits = local[j].ev.commits
        BY <2>0 DEF Evidence
      <4> QED
        BY <4>1, <4>2, <4>3
    <3> QED
      BY <1>3, <3>1, <3>2
  <2> DEFINE l == [local[j] EXCEPT !.ev = ev]
  <2>2. l.ev = ev /\ l.artifacts = local[j].artifacts
    BY <1>0 DEF Locals
  <2> HIDE DEF l
  <2>3. pc'[j] \in {"known", "commitments"} /\ local'[j] = l
    BY <1>0, <2>1, ContinueEffect DEF l
  <2>4. EvidenceHolds(j)
    BY <1>0, <1>3 DEF JobRelease, ReadReceipt, ReadTransaction
  <2>5. EvidenceHolds(j)'
    BY <1>u, <2>1, <2>2, <2>3, <2>4 DEF EvidenceHolds
  <2> QED
    BY <1>u, <1>1, <2>2, <2>3, <2>5, GatheringStep DEF EvidenceLabels
<1> QED
  BY <1>2, <1>3

(***************************************************************************)
(* judge says NEVER_SUBMITTED only if no artifact was committed at the     *)
(* block whose time is past every deadline.                                *)
(***************************************************************************)
LEMMA NeverSubmitted ==
    ASSUME NEW l \in Locals, NEW ok \in BOOLEAN, Judge(l, ok) = "NEVER_SUBMITTED"
    PROVE  /\ l.ev.readable /\ l.artifacts \cap l.ev.commits = {}
           /\ \A x \in l.artifacts : l.ev.time > x.deadline
<1>1. DeadAt(l.a, l.artifacts, l.ev.time) /\ l.ev.readable /\ l.artifacts \cap l.ev.commits = {}
  BY DEF Judge
<1> QED
  BY <1>1 DEF DeadAt

\* Reconciliation goes on to release only what is dead.
LEMMA ResolveReleases ==
    ASSUME SettlementInv, ReleaseInv, NEW j \in Jobs, Alone(j), NEW ok \in BOOLEAN, Resolve(j, ok)
    PROVE  ReleaseInv'
<1>0. JobsTyped /\ local[j] \in Locals /\ JobRelease(j) /\ now \in Nat /\ row \in Rows
  BY SettlementAssumption DEF SettlementInv, TypeOK, JobsTyped, ReleaseInv
<1>u. UNCHANGED <<now, artifacts, executed, status>> /\ pc[j] = "commitments"
  BY DEF Resolve, chainVars
<1>1. local[j].artifacts = artifacts /\ EvidenceHolds(j)
  BY <1>0, <1>u DEF JobRelease
<1>2. CASE pc'[j] \in CalmLabels
  BY <1>u, <1>2, CalmStep
<1>3. CASE \E label \in {"latest", "check", "idle"} : Transition(j, "CONFIRMED_REVERT", "null", label)
  <2>1. PICK label \in {"latest", "check", "idle"} : Transition(j, "CONFIRMED_REVERT", "null", label)
    BY <1>3
  <2>2. \/ pc'[j] = "latest" /\ local'[j] = [local[j] EXCEPT !.a = row']
        \/ pc'[j] \in {"check", "idle"}
    <3>1. "CONFIRMED_REVERT" \in States /\ "null" \in Quarantines
      BY StatesAre DEF Quarantines
    <3> QED
      BY <1>0, <2>1, <3>1, TransitionEffect
  <2>3. CASE pc'[j] = "latest" /\ local'[j] = [local[j] EXCEPT !.a = row']
    <3>1. local'[j].artifacts = artifacts
      BY <1>0, <1>1, <2>3 DEF Locals
    <3> QED
      BY <1>u, <2>3, <3>1, GatheringStep DEF EvidenceLabels
  <2> QED
    BY <1>2, <2>2, <2>3 DEF CalmLabels
<1>4. CASE Judge(local[j], ok) = "NEVER_SUBMITTED" /\ Continue(j, "release", local[j])
  <2>1. pc'[j] = "release"
    BY <1>4, ContinueLabel
  <2>2. /\ local[j].ev.readable /\ artifacts \cap local[j].ev.commits = {}
        /\ \A x \in artifacts : local[j].ev.time > x.deadline
    BY <1>0, <1>1, <1>4, NeverSubmitted
  <2>3. local[j].ev.time \in Nat /\ \A x \in artifacts : x.deadline \in Nat
    BY <1>0 DEF Locals, Evidence, SettlementInv, TypeOK, Artifacts
  <2>4. local[j].ev.time <= now /\ executed = local[j].ev.commits
    BY <1>1, <2>2, <2>3 DEF EvidenceHolds
  <2>5. executed \subseteq artifacts
    BY DEF SettlementInv, TypeOK, SharedInv
  <2>6. AllDead
    BY <1>0, <2>2, <2>3, <2>4, <2>5 DEF AllDead
  <2>7. AllDead'
    BY <1>u, <2>6 DEF AllDead
  <2>8. JobRelease(j)'
    BY <2>1, <2>7 DEF JobRelease, RunLabels, LegLabels, SentLabels
  <2> QED
    BY <2>7, <2>8, OthersRelease DEF ReleaseInv
<1>5. CASE \/ Transition(j, "CONFIRMED_SUCCESS", "null", "post")
           \/ \E label \in {"check", "idle"} : Transition(j, "SUBMITTED", "null", label)
           \/ \E q \in Quarantines, label \in {"check", "idle"} :
                  Transition(j, "RECONCILIATION_REQUIRED", q, label)
           \/ \E label \in {"check", "idle"} : Continue(j, label, local[j])
           \/ Return(j)
  <2>1. pc'[j] \in {"post", "check", "idle"}
    BY <1>5, TransitionLabel, ContinueLabel
  <2> QED
    BY <1>2, <2>1 DEF CalmLabels
<1> QED
  BY <1>0, <1>3, <1>4, <1>5, ResolveEffect

\* The postconditions, and the ledger and the row being closed.
LEMMA ClosingReleases ==
    ASSUME SettlementInv, ReleaseInv, NEW j \in Jobs, Alone(j),
           \/ \E ok \in BOOLEAN : CheckPostconditions(j, ok)
           \/ ReleaseReservation(j) \/ Released(j) \/ ConsumeReservation(j) \/ Consumed(j)
    PROVE  ReleaseInv'
<1>u. UNCHANGED <<now, artifacts, executed>>
  BY DEF CheckPostconditions, ReleaseReservation, Released, ConsumeReservation, Consumed, Account,
         chainVars
<1>d. Done(local[j]) \in {"check", "idle"}
  BY LabelsMean
<1>1. CASE \E ok \in BOOLEAN : CheckPostconditions(j, ok)
  <2>1. status' = status
    BY <1>1 DEF CheckPostconditions
  <2>2. pc'[j] \in {"consume", "check", "idle"}
    BY <1>1, <1>d, TransitionLabel, ContinueLabel DEF CheckPostconditions
  <2> QED
    BY <1>u, <2>1, <2>2, CalmStep DEF CalmLabels
<1>2. CASE Released(j) \/ Consumed(j)
  <2>1. status' = status
    BY <1>2 DEF Released, Consumed
  <2>2. pc'[j] \in {"check", "idle"}
    BY <1>2, <1>d, TransitionLabel DEF Released, Consumed
  <2> QED
    BY <1>u, <2>1, <2>2, CalmStep DEF CalmLabels
<1>3. CASE ConsumeReservation(j)
  <2>1. status' \in {status, "CONSUMED"} /\ pc'[j] \in {"consumed", "check", "idle"}
    BY <1>3, <1>d, ContinueLabel DEF ConsumeReservation, Account
  <2> QED
    BY <1>u, <2>1, CalmStep DEF CalmLabels
<1>4. CASE ReleaseReservation(j)
  <2>1. pc[j] = "release"
    BY <1>4 DEF ReleaseReservation, Account
  <2>2. AllDead'
    <3>1. AllDead
      BY <2>1 DEF ReleaseInv, JobRelease
    <3> QED
      BY <1>u, <3>1 DEF AllDead
  <2>3. pc'[j] \in {"released", "check", "idle"}
    BY <1>4, <1>d, ContinueLabel DEF ReleaseReservation, Account
  <2>4. JobRelease(j)'
    BY <2>2, <2>3 DEF JobRelease, RunLabels, LegLabels, SentLabels
  <2> QED
    BY <2>2, <2>4, OthersRelease DEF ReleaseInv
<1> QED
  BY <1>1, <1>2, <1>3, <1>4

\* The chain, the principal and a crash: nothing dead executes, and time only passes.
LEMMA EnvironmentReleases ==
    ASSUME SettlementInv, ReleaseInv,
           \/ \E n \in 1 .. MaxRuns : Mine(n) \/ Drop(n)
           \/ \E x \in left : ExecuteOutside(x)
           \/ Tick \/ SetAuthority \/ Crash
    PROVE  ReleaseInv'
<1>0. /\ now \in Nat /\ left \subseteq artifacts /\ \A x \in artifacts : x.deadline \in Nat
      /\ \A k \in Jobs : local[k].ev.time \in Nat
  <2>1. \A k \in Jobs : local[k].ev \in Evidence
    BY DEF SettlementInv, TypeOK, Locals
  <2> QED
    BY <2>1, SettlementAssumption DEF SettlementInv, TypeOK, SharedInv, Artifacts, Evidence
<1>1. CASE Crash
  <2>1. \A k \in Jobs : pc'[k] = "idle"
    BY <1>1 DEF Crash
  <2>2. \A k \in Jobs : JobRelease(k)'
    BY <2>1 DEF JobRelease, RunLabels, LegLabels, SentLabels
  <2>3. status' = "RELEASED" => AllDead'
    BY <1>1 DEF Crash, chainVars, ReleaseInv, AllDead
  <2> QED
    BY <2>2, <2>3 DEF ReleaseInv
<1>2. CASE \/ \E n \in 1 .. MaxRuns : Mine(n) \/ Drop(n)
           \/ \E x \in left : ExecuteOutside(x)
           \/ Tick \/ SetAuthority
  <2>1. /\ status' = status /\ artifacts' = artifacts /\ pc' = pc /\ local' = local
        /\ now' = now \/ now' = now + 1
    BY <1>2 DEF Mine, Drop, ExecuteOutside, Tick, SetAuthority, chainVars
  <2>2. executed' = executed \/ \E x \in artifacts : now' = now /\ now <= x.deadline /\ executed' = executed \cup {x}
    <3>1. CASE \E n \in 1 .. MaxRuns : Mine(n)
      BY <1>0, <3>1 DEF Mine, GateAccepts
    <3>2. CASE \E x \in left : ExecuteOutside(x)
      BY <1>0, <3>2 DEF ExecuteOutside, GateAccepts
    <3>3. CASE (\E n \in 1 .. MaxRuns : Drop(n)) \/ Tick \/ SetAuthority
      BY <3>3 DEF Drop, Tick, SetAuthority, chainVars
    <3> QED
      BY <1>2, <3>1, <3>2, <3>3
  <2>3. AllDead => AllDead'
    BY <1>0, <2>1, <2>2 DEF AllDead
  <2>4. \A k \in Jobs : EvidenceHolds(k) => EvidenceHolds(k)'
    <3> SUFFICES ASSUME NEW k \in Jobs, EvidenceHolds(k), local[k].ev.readable
                 PROVE  EvidenceHolds(k)'
      BY <2>1 DEF EvidenceHolds
    <3> DEFINE ev == local[k].ev
    <3>1. /\ ev.time <= now /\ ev.commits \subseteq executed
          /\ (\A x \in artifacts : x.deadline < ev.time) => executed = ev.commits
      BY DEF EvidenceHolds
    <3>2. ev.time \in Nat /\ local'[k].ev = ev
      BY <1>0, <2>1
    <3> HIDE DEF ev
    <3>3. ev.time <= now' /\ ev.commits \subseteq executed'
      BY <1>0, <2>1, <2>2, <3>1, <3>2
    <3>4. ASSUME \A x \in artifacts : x.deadline < ev.time PROVE executed' = ev.commits
      <4>1. executed' = executed
        BY <1>0, <2>2, <3>1, <3>2, <3>4
      <4> QED
        BY <3>1, <3>4, <4>1
    <3> QED
      BY <2>1, <3>2, <3>3, <3>4 DEF EvidenceHolds
  <2>5. \A k \in Jobs : JobRelease(k)'
    BY <2>1, <2>3, <2>4 DEF ReleaseInv, JobRelease
  <2> QED
    BY <2>1, <2>3, <2>5 DEF ReleaseInv
<1> QED
  BY <1>1, <1>2

\* Only the job that takes a step moves.
LEMMA StepFrame ==
    ASSUME SettlementInv, NEW j \in Jobs, JobStep(j)
    PROVE  \A k \in Jobs : k # j => pc'[k] = pc[k]
<1>0. pc \in [Jobs -> Labels]
  BY DEF SettlementInv, TypeOK
<1>1. \E label : Goto(j, label)
  <2>t. ASSUME NEW to, NEW q, NEW label, Transition(j, to, q, label)
        PROVE  \E m : Goto(j, m)
    BY <2>t DEF Transition, Continue, Return
  <2>1. CASE ReconcileStep(j)
    <3>1. CASE \E ok \in BOOLEAN : Resolve(j, ok)
      <4>1. local[j] \in Locals
        BY DEF SettlementInv, TypeOK
      <4> QED
        BY <2>t, <3>1, <4>1, ResolveEffect DEF Continue, Return
    <3>2. CASE \E ok \in BOOLEAN : CheckPostconditions(j, ok)
      BY <2>t, <3>2 DEF CheckPostconditions, Continue
    <3>3. CASE Released(j) \/ Consumed(j)
      BY <2>t, <3>3 DEF Released, Consumed
    <3>4. CASE ReleaseReservation(j) \/ ConsumeReservation(j)
      BY <3>4 DEF ReleaseReservation, ConsumeReservation, Account, Continue
    <3>5. CASE Load(j)
      BY <3>5 DEF Load, Continue
    <3>6. CASE \E ok \in BOOLEAN : ReadLatest(j, ok) \/ ReadReceipt(j, ok) \/ ReadTransaction(j, ok)
      BY <3>6 DEF ReadLatest, ReadReceipt, ReadTransaction, Continue
    <3> QED
      BY <2>1, <3>1, <3>2, <3>3, <3>4, <3>5, <3>6 DEF ReconcileStep
  <2>2. CASE RunStep(j)
    <3>1. CASE Answer(j) \/ AwaitReceipt(j)
      BY <2>t, <3>1 DEF Answer, AwaitReceipt, Return
    <3>2. CASE Check(j) \/ Prepare(j) \/ AdmitSettlement(j) \/ Stop(j)
      BY <3>2 DEF Check, Prepare, AdmitSettlement, Stop, Continue, Return
    <3>3. CASE OpenLeg(j) \/ Refresh(j) \/ Sign(j) \/ RecordArtifact(j)
      BY <3>3 DEF OpenLeg, Refresh, Sign, RecordArtifact, Continue
    <3>4. CASE Simulate(j) \/ StartSubmission(j) \/ Broadcast(j)
      BY <3>4 DEF Simulate, StartSubmission, Broadcast, Return
    <3> QED
      BY <2>2, <3>1, <3>2, <3>3, <3>4 DEF RunStep
  <2>3. CASE Enter(j)
    BY <2>3 DEF Enter
  <2> QED
    BY <2>1, <2>2, <2>3 DEF JobStep
<1> QED
  BY <1>0, <1>1 DEF Goto

\* While jobs run one at a time, the one that takes a step is alone.
LEMMA AloneStep ==
    ASSUME SettlementInv, Serial, Serial', NEW j \in Jobs, JobStep(j)
    PROVE  Alone(j)
<1>1. pc[j] \notin {"idle", "opening"} \/ pc'[j] = "load"
  <2>1. CASE Enter(j)
    BY <2>1, ContinueLabel DEF Enter
  <2>2. CASE ReconcileStep(j)
    BY <2>2 DEF ReconcileStep, Load, ReadLatest, ReadReceipt, ReadTransaction, Resolve,
                CheckPostconditions, ReleaseReservation, Released, ConsumeReservation, Consumed,
                Account
  <2>3. CASE RunStep(j)
    BY <2>3 DEF RunStep, Check, Prepare, AdmitSettlement, Stop, OpenLeg, Refresh, Sign,
                RecordArtifact, Simulate, StartSubmission, Broadcast, Answer, AwaitReceipt
  <2> QED
    BY <2>1, <2>2, <2>3 DEF JobStep
<1>2. \A k \in Jobs : k # j => pc'[k] = pc[k]
  BY StepFrame
<1> QED
  BY <1>1, <1>2 DEF Serial, Alone, Running, Opening

\* Every step keeps the release invariant while jobs run one at a time.
LEMMA ReleaseStep ==
    SettlementInv /\ Serial /\ Serial' /\ ReleaseInv /\ [Next]_vars => ReleaseInv'
<1> SUFFICES ASSUME SettlementInv, Serial, Serial', ReleaseInv, [Next]_vars PROVE ReleaseInv'
  OBVIOUS
<1>1. CASE \E j \in Jobs : JobStep(j)
  <2>1. PICK j \in Jobs : JobStep(j)
    BY <1>1
  <2>2. Alone(j)
    BY <2>1, AloneStep
  <2>3. CASE Enter(j)
    <3>1. UNCHANGED <<now, artifacts, executed, status>> /\ pc'[j] = "load"
      BY <2>3, ContinueLabel DEF Enter, chainVars
    <3> QED
      BY <2>2, <3>1, CalmStep DEF CalmLabels
  <2>4. CASE RunStep(j)
    BY <2>2, <2>4, RunReleases
  <2>5. CASE ReconcileStep(j)
    BY <2>2, <2>5, LoadReleases, ReadReleases, ResolveReleases, ClosingReleases DEF ReconcileStep
  <2> QED
    BY <2>1, <2>3, <2>4, <2>5 DEF JobStep
<1>2. CASE \E j \in Jobs, mode \in {"DRY_RUN", "SEND", "RECONCILE"} : Request(j, mode)
  <2>1. PICK j \in Jobs, mode \in {"DRY_RUN", "SEND", "RECONCILE"} : Request(j, mode)
    BY <1>2
  <2>2. /\ UNCHANGED <<now, artifacts, executed, status>> /\ Running = {}
        /\ pc' = [pc EXCEPT ![j] = "opening"]
    BY <2>1 DEF Request, chainVars, Goto
  <2>3. pc'[j] = "opening" /\ Alone(j)
    BY <2>2 DEF Alone, Running, Opening, SettlementInv, TypeOK
  <2> QED
    BY <2>2, <2>3, CalmStep DEF CalmLabels
<1>3. CASE \/ \E n \in 1 .. MaxRuns : Mine(n) \/ Drop(n)
           \/ \E x \in left : ExecuteOutside(x)
           \/ Tick \/ SetAuthority \/ Crash
  BY <1>3, EnvironmentReleases
<1>4. CASE UNCHANGED vars
  BY <1>4 DEF ReleaseInv, JobRelease, EvidenceHolds, AllDead, vars
<1> QED
  BY <1>1, <1>2, <1>3, <1>4 DEF Next, Reconcile

(***************************************************************************)
(* While jobs run one at a time, a released reservation has not executed   *)
(* and never will (reconcile.ts:21-24).                                    *)
(***************************************************************************)
THEOREM ReleasedIsSafe == Spec /\ []Serial => []ReleasedNeverExecutes
<1>1. Init => ReleaseInv
  BY DEF Init, ReleaseInv, JobRelease, RunLabels, LegLabels, SentLabels
<1>2. SettlementInv /\ ReleaseInv => ReleasedNeverExecutes
  <2> SUFFICES ASSUME SettlementInv, ReleaseInv, status = "RELEASED"
               PROVE  executed = {} /\ \A x \in left : ~GateAccepts(x)
    BY DEF ReleasedNeverExecutes
  <2>1. AllDead
    BY DEF ReleaseInv
  <2>2. now \in Nat /\ left \subseteq artifacts /\ \A x \in artifacts : x.deadline \in Nat
    BY SettlementAssumption DEF SettlementInv, TypeOK, SharedInv, Artifacts
  <2> QED
    BY <2>1, <2>2 DEF AllDead, GateAccepts
<1> QED
  BY <1>1, <1>2, ReleaseStep, SettlementInvariant, PTL DEF Spec

==============================================================================
