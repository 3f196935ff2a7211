--------------------------- MODULE IssuanceProofs ----------------------------
(***************************************************************************)
(* The safety of Issuance for every number of authorizations, signer       *)
(* processes, calls, closers, retries and crashes.                         *)
(***************************************************************************)
EXTENDS Issuance, SumsProofs

------------------------------------------------------------------------------
(* The next slot.                                                           *)

(***************************************************************************)
(* A natural-valued function on a finite set is bounded.                   *)
(***************************************************************************)
LEMMA FiniteBound ==
    ASSUME NEW S, IsFiniteSet(S), NEW f \in [S -> Nat]
    PROVE  \E b \in Nat : \A x \in S : f[x] <= b
<1>1. PICK seq \in Seq(S) : \A x \in S : \E n \in 1 .. Len(seq) : seq[n] = x
  BY DEF IsFiniteSet
<1> DEFINE P == {n \in Nat : n <= Len(seq) =>
                   \E b \in Nat : \A i \in 1 .. n : f[seq[i]] <= b}
<1>2. 0 \in P
  <2>1. \A i \in 1 .. 0 : f[seq[i]] <= 0
    OBVIOUS
  <2> QED
    BY <2>1
<1>3. \A n \in Nat : n \in P => n + 1 \in P
  <2> SUFFICES ASSUME NEW n \in Nat, n \in P PROVE n + 1 \in P
    BY Zenon
  <2> SUFFICES ASSUME n + 1 <= Len(seq)
               PROVE  \E b \in Nat : \A i \in 1 .. n + 1 : f[seq[i]] <= b
    <3>1. n + 1 \in Nat
      OBVIOUS
    <3> QED
      BY <3>1
  <2>1. Len(seq) \in Nat /\ \A i \in 1 .. Len(seq) : seq[i] \in S
    OBVIOUS
  <2>2. n <= Len(seq)
    BY <2>1
  <2>3. PICK b \in Nat : \A i \in 1 .. n : f[seq[i]] <= b
    BY <2>2
  <2>4. n + 1 \in 1 .. Len(seq) /\ f[seq[n + 1]] \in Nat
    BY <2>1
  <2>5. \A i \in 1 .. n + 1 : f[seq[i]] <= b + f[seq[n + 1]]
    <3> TAKE i \in 1 .. n + 1
    <3>1. CASE i = n + 1
      BY <3>1, <2>4
    <3>2. CASE i \in 1 .. n
      <4>1. f[seq[i]] <= b /\ f[seq[i]] \in Nat
        BY <3>2, <2>1, <2>2, <2>3
      <4> QED
        BY <4>1, <2>4
    <3> QED
      BY <3>1, <3>2
  <2>6. b + f[seq[n + 1]] \in Nat
    BY <2>4
  <2> QED
    BY <2>5, <2>6
<1> HIDE DEF P
<1>4. Nat \subseteq P
  BY <1>2, <1>3, NatSetInduction
<1>5. Len(seq) \in P
  BY <1>4
<1>6. PICK b \in Nat : \A i \in 1 .. Len(seq) : f[seq[i]] <= b
  BY <1>5 DEF P
<1> QED
  BY <1>1, <1>6

(***************************************************************************)
(* A nonempty set of naturals with an upper bound has a greatest element.  *)
(***************************************************************************)
LEMMA GreatestElement ==
    ASSUME NEW T, T \subseteq Nat, T # {}, NEW b \in Nat, \A x \in T : x <= b
    PROVE  \E x \in T : \A y \in T : y <= x
<1> DEFINE B == {n \in Nat : \A x \in T : x <= n}
<1>1. B \subseteq Nat /\ B # {}
  OBVIOUS
<1>2. PICK m \in B : \A n \in B : m <= n
  BY <1>1, LeastElement
<1>3. m \in T
  <2> SUFFICES ASSUME m \notin T PROVE FALSE
    OBVIOUS
  <2>1. PICK x \in T : TRUE
    OBVIOUS
  <2>2. \A y \in T : y < m
    OBVIOUS
  <2>3. m - 1 \in Nat /\ \A y \in T : y <= m - 1
    BY <2>1, <2>2
  <2> QED
    BY <2>3, <1>2
<1> QED
  BY <1>3

\* The next slot of a well-typed ledger is a slot.
LEMMA NextSlotNat ==
    ASSUME NEW l \in Ledgers
    PROVE  NextSlot(l) \in Nat
<1> DEFINE used == {l.attempt[r].slot : r \in Admitted(l)}
<1> DEFINE f == [r \in Records |-> IF r \in Admitted(l) THEN l.attempt[r].slot ELSE 0]
<1>1. l.attempt \in [Records -> Artifacts \cup {NoAttempt}]
  BY DEF Ledgers
<1>2. \A r \in Admitted(l) : r \in Records /\ l.attempt[r].slot \in Nat
  BY <1>1 DEF Admitted, Artifacts
<1>3. f \in [Records -> Nat] /\ IsFiniteSet(Records)
  BY <1>2, RecordAssumption
<1> HIDE DEF f
<1>4. PICK b \in Nat : \A r \in Records : f[r] <= b
  BY <1>3, FiniteBound
<1>5. \A u \in used : u \in Nat /\ u <= b
  BY <1>2, <1>4 DEF f
<1> HIDE DEF used
<1>6. CASE used = {}
  BY <1>6 DEF NextSlot, used
<1>7. CASE used # {}
  <2>1. \E s \in used : \A u \in used : u <= s
    BY <1>5, <1>7, GreatestElement
  <2>2. (CHOOSE s \in used : \A u \in used : u <= s) \in used
    BY <2>1
  <2>3. NextSlot(l) = 1 + CHOOSE s \in used : \A u \in used : u <= s
    BY <1>7 DEF NextSlot, used
  <2> QED
    BY <2>2, <2>3, <1>5
<1> QED
  BY <1>6, <1>7

------------------------------------------------------------------------------
(* Types.                                                                   *)

Positions == Calls \cup Closers
Works == [at : 0 .. MaxTime, slot : Nat, deadline : Nat, pass : BOOLEAN]

JournalType == journal \in [Records -> DOMAIN NextStates]
LedgerType == ledger \in Ledgers /\ disabled \in BOOLEAN /\ signed \subseteq Records
ChainType == now \in 0 .. MaxTime /\ sends \in [Records -> Nat] /\ landed \in [Records -> Nat]
PcType == pc \in [Positions -> Labels]
CallType == work \in [Calls -> Works] /\ snapshot \in [Positions -> Ledgers]
            /\ tries \in [Positions -> 1 .. MaxAttempts]
ProcType == down \subseteq Procs /\ todo \in [Procs -> SUBSET Records] /\ crashes \in 0 .. MaxCrashes

\* TypeOK by groups of variables.
TypeInv == JournalType /\ LedgerType /\ ChainType /\ PcType /\ CallType /\ ProcType

\* The ledger of Init is well typed and holds nothing.
LEMMA EmptyLedgerTyped ==
    /\ EmptyLedger \in Ledgers
    /\ EmptyLedger.closed = {} /\ Admitted(EmptyLedger) = {}
BY IssuanceBoundsAssumption DEF EmptyLedger, Ledgers, Admitted

\* An attempt added to a ledger is admitted there, and nothing else changes.
LEMMA AdmittedGrows ==
    ASSUME NEW l \in Ledgers, NEW m \in Ledgers, NEW r \in Records, NEW a \in Artifacts,
           m.attempt = [l.attempt EXCEPT ![r] = a]
    PROVE  Admitted(m) = Admitted(l) \cup {r}
<1>1. l.attempt \in [Records -> Artifacts \cup {NoAttempt}]
  BY DEF Ledgers
<1>2. a # NoAttempt
  BY RecordAssumption DEF Artifacts
<1> QED
  BY <1>1, <1>2 DEF Admitted

\* The artifact of a well-typed call is an artifact.
LEMMA ArtifactTyped ==
    ASSUME CallType, NEW c \in Calls
    PROVE  Artifact(c) \in Artifacts /\ work[c] \in Works /\ work[c].at \in 0 .. MaxTime
<1>1. work[c] \in Works
  BY DEF CallType
<1> QED
  BY <1>1 DEF Artifact, Artifacts, Works

\* The states of the journal, and what its two writes do to its type.
LEMMA JournalStates ==
    /\ DOMAIN NextStates = {"none", "ARTIFACT_ISSUED", "SUBMISSION_SENT",
                            "SUBMISSION_ACKNOWLEDGED", "SUBMISSION_REJECTED", "OUTCOME_UNKNOWN"}
    /\ \A s \in DOMAIN NextStates : NextStates[s] \subseteq DOMAIN NextStates
    /\ Terminal = {"SUBMISSION_ACKNOWLEDGED", "SUBMISSION_REJECTED", "OUTCOME_UNKNOWN"}
BY DEF NextStates, Terminal

\* The groups make up TypeOK.
LEMMA TypeGroups == TypeInv => TypeOK
BY DEF TypeInv, TypeOK, JournalType, LedgerType, ChainType, PcType, CallType, ProcType,
       Positions, Works

\* The initial state is well typed.
LEMMA InitType == Init => TypeInv
<1> SUFFICES ASSUME Init PROVE TypeInv
  OBVIOUS
<1>1. JournalType /\ ChainType
  BY JournalStates, IssuanceBoundsAssumption DEF Init, JournalType, ChainType
<1>4. LedgerType /\ PcType
  BY EmptyLedgerTyped DEF Init, LedgerType, PcType, Positions, Labels
<1>5. ProcType
  BY IssuanceBoundsAssumption DEF Init, ProcType
<1>2. NoWork \in Works
  BY IssuanceBoundsAssumption DEF NoWork, Works
<1>3. CallType
  BY <1>2, EmptyLedgerTyped, IssuanceBoundsAssumption DEF Init, CallType, Positions
<1> QED
  BY <1>1, <1>3, <1>4, <1>5 DEF TypeInv

\* The rows that say an artifact may be on the network.
MaybeSent == {"SUBMISSION_SENT"} \cup Terminal

(***************************************************************************)
(* What a write of the journal, accepted or refused, keeps: the type of    *)
(* the table, every other row, and that a row which may have been sent     *)
(* says so.                                                                *)
(***************************************************************************)
LEMMA JournalWrites ==
    ASSUME JournalType, NEW r \in Records, NEW s \in DOMAIN NextStates \ {"none"},
           Open(r, s) \/ Transition(r, s)
    PROVE  /\ JournalType'
           /\ \A q \in Records : journal'[q] = journal[q] \/ (q = r /\ journal'[q] = s)
           /\ \A q \in Records : journal[q] \in MaybeSent => journal'[q] \in MaybeSent
           /\ \A q \in Records : journal[q] # "none" => journal'[q] # "none"
<1>1. JournalType' /\ \A q \in Records : journal'[q] = journal[q] \/ (q = r /\ journal'[q] = s)
  BY JournalStates DEF JournalType, Open, Transition, CanOpen
<1>2. journal[r] \in MaybeSent => journal'[r] \in MaybeSent
  <2>1. journal[r] \in DOMAIN NextStates
    BY DEF JournalType
  <2>2. CASE Open(r, s)
    BY <2>2, JournalStates DEF Open, CanOpen, MaybeSent
  <2>3. CASE Transition(r, s)
    <3>1. CASE s \notin NextStates[journal[r]]
      BY <2>3, <3>1 DEF Transition
    <3>2. CASE s \in NextStates[journal[r]] /\ journal[r] \in MaybeSent
      <4>1. s \in Terminal
        BY <3>2, JournalStates DEF MaybeSent, NextStates
      <4> QED
        BY <1>1, <4>1, <3>2 DEF MaybeSent
    <3> QED
      BY <3>1, <3>2
  <2> QED
    BY <2>2, <2>3
<1> QED
  BY <1>1, <1>2

\* A step that moves one caller keeps the callers' positions typed.
LEMMA GotoTyped ==
    ASSUME PcType, NEW c \in Positions, NEW label \in Labels, Goto(c, label)
    PROVE  /\ PcType' /\ pc'[c] = label
           /\ \A d \in Positions \ {c} : pc'[d] = pc[d]
BY DEF PcType, Goto

\* Reading the ledger into a caller's snapshot.
LEMMA ReadType ==
    ASSUME TypeInv, NEW c \in Positions, NEW from, NEW to \in Labels, Read(c, from, to)
    PROVE  TypeInv'
<1>1. JournalType' /\ LedgerType' /\ ChainType' /\ ProcType'
  BY DEF TypeInv, Read, JournalType, LedgerType, ChainType, ProcType, chainVars, procVars
<1>2. PcType'
  BY GotoTyped DEF TypeInv, Read
<1>3. CallType'
  BY DEF TypeInv, Read, CallType, LedgerType
<1> QED
  BY <1>1, <1>2, <1>3 DEF TypeInv

\* The end of a compare-and-append, won or lost, at a caller whose decision was type.
LEMMA LostRaceType ==
    ASSUME TypeInv, NEW c \in Positions, NEW again \in Labels, LostRace(c, again)
    PROVE  /\ PcType' /\ ledger' = ledger /\ tries' \in [Positions -> 1 .. MaxAttempts]
           /\ pc'[c] \in {again, "returned"}
           /\ \A d \in Positions \ {c} : pc'[d] = pc[d]
<1>1. CASE tries[c] < MaxAttempts
  <2>1. Goto(c, again) /\ tries' = [tries EXCEPT ![c] = @ + 1] /\ ledger' = ledger
    BY <1>1 DEF LostRace
  <2>2. tries' \in [Positions -> 1 .. MaxAttempts]
    BY <1>1, <2>1, IssuanceBoundsAssumption DEF TypeInv, CallType
  <2> QED
    BY <2>1, <2>2, GotoTyped DEF TypeInv
<1>2. CASE ~ (tries[c] < MaxAttempts)
  <2>1. Goto(c, "returned") /\ tries' = tries /\ ledger' = ledger
    BY <1>2 DEF LostRace
  <2>2. "returned" \in Labels
    BY DEF Labels
  <2> QED
    BY <2>1, <2>2, GotoTyped DEF TypeInv, CallType
<1> QED
  BY <1>1, <1>2

------------------------------------------------------------------------------
(* The invariant.                                                           *)

\* Where a call holds an admitted attempt, and where it has not broadcast it yet.
Unsent == {"signing", "opening", "unsigned", "preflight", "submitting"}
Holding == Unsent \cup {"receipt"}

ClosedIsUnissued == \A r \in Records : r \in ledger.closed => r \notin Admitted(ledger)
DeadlinesInLifetime == \A r \in Admitted(ledger) : ledger.attempt[r].deadline < ValidUntil[r]

\* What the ledger says alone.
LedgerSafe == ClosedIsUnissued /\ DeadlinesInLifetime /\ SlotsDistinct

SignedIsAdmitted == signed \subseteq Admitted(ledger)
SentIsAdmitted == \A r \in Records : sends[r] # 0 => r \in Admitted(ledger)
LandedIsSent == \A r \in Records : landed[r] # 0 => sends[r] # 0
HoldersAdmitted == \A c \in Calls : pc[c] \in Holding => RecordOf[c] \in Admitted(ledger)
HoldersUnsent == \A c \in Calls : pc[c] \in Unsent => sends[RecordOf[c]] = 0
HoldersApart ==
    \A c, d \in Calls : c # d /\ pc[c] \in Unsent /\ pc[d] \in Unsent => RecordOf[c] # RecordOf[d]

(***************************************************************************)
(* Signatures, broadcasts and settlements follow an admission, and an      *)
(* attempt that was not broadcast is in the hands of at most one call.     *)
(***************************************************************************)
CustodySafe ==
    /\ SignedIsAdmitted /\ SentIsAdmitted /\ LandedIsSent
    /\ HoldersAdmitted /\ HoldersUnsent /\ HoldersApart
    /\ SentAtMostOnce

SubmittersJournaled ==
    \A c \in Calls :
        /\ pc[c] = "preflight" => journal[RecordOf[c]] # "none"
        /\ pc[c] = "submitting" => journal[RecordOf[c]] \in MaybeSent

\* The journal knows what may be on the network, and what was executed.
JournalSafe == SubmittersJournaled /\ BroadcastIsJournaled /\ AcknowledgedWasExecuted

IssuanceInv == TypeInv /\ LedgerSafe /\ CustodySafe /\ JournalSafe

\* The invariant holds initially: nothing is admitted, signed or sent.
LEMMA InitInv == Init => IssuanceInv
<1> SUFFICES ASSUME Init PROVE IssuanceInv
  OBVIOUS
<1>1. ledger.closed = {} /\ Admitted(ledger) = {}
  BY EmptyLedgerTyped DEF Init
<1>2. LedgerSafe
  BY <1>1 DEF LedgerSafe, ClosedIsUnissued, DeadlinesInLifetime, SlotsDistinct
<1>3. \A c \in Calls : pc[c] = "called"
  BY DEF Init
<1>4. \A r \in Records : sends[r] = 0 /\ landed[r] = 0 /\ journal[r] = "none"
  BY DEF Init
<1>5. CustodySafe
  BY <1>1, <1>3, <1>4 DEF Init, CustodySafe, SignedIsAdmitted, SentIsAdmitted, LandedIsSent,
     HoldersAdmitted, HoldersUnsent, HoldersApart, SentAtMostOnce, Holding, Unsent
<1>6. JournalSafe
  BY <1>3, <1>4 DEF JournalSafe, SubmittersJournaled, BroadcastIsJournaled, AcknowledgedWasExecuted
<1> QED
  BY <1>2, <1>5, <1>6, InitType DEF IssuanceInv

\* A step that admits, sends and settles nothing, and lets no call take hold.
LEMMA CustodyKept ==
    ASSUME CustodySafe, signed' \subseteq signed \cup Admitted(ledger), sends' = sends, landed' = landed,
           Admitted(ledger') = Admitted(ledger),
           \A c \in Calls : pc'[c] \in Unsent => pc[c] \in Unsent,
           \A c \in Calls : pc'[c] \in Holding => pc[c] \in Holding
    PROVE  CustodySafe'
BY DEF CustodySafe, SignedIsAdmitted, SentIsAdmitted, LandedIsSent,
       HoldersAdmitted, HoldersUnsent, HoldersApart, SentAtMostOnce

\* A step that writes no acknowledgement, sends nothing and brings no call to its submission.
LEMMA JournalKept ==
    ASSUME JournalSafe, sends' = sends, landed' = landed,
           \A r \in Records : journal[r] \in MaybeSent => journal'[r] \in MaybeSent,
           \A r \in Records : journal[r] # "none" => journal'[r] # "none",
           \A r \in Records : journal'[r] = "SUBMISSION_ACKNOWLEDGED" => journal[r] = journal'[r],
           \A c \in Calls : pc'[c] \in {"preflight", "submitting"} => pc'[c] = pc[c]
    PROVE  JournalSafe'
<1> USE CallerAssumption
<1>1. SubmittersJournaled'
  BY DEF JournalSafe, SubmittersJournaled
<1>2. BroadcastIsJournaled'
  BY DEF JournalSafe, BroadcastIsJournaled, MaybeSent
<1>3. AcknowledgedWasExecuted'
  BY DEF JournalSafe, AcknowledgedWasExecuted
<1> QED
  BY <1>1, <1>2, <1>3 DEF JournalSafe

\* A step that changes neither the ledger, the journal, the signatures nor the chain's record.
LEMMA QuietInv ==
    ASSUME IssuanceInv, TypeInv', ledger' = ledger, journal' = journal, signed' = signed,
           sends' = sends, landed' = landed,
           \A c \in Calls : pc'[c] \in Holding => pc'[c] = pc[c]
    PROVE  IssuanceInv'
<1>1. LedgerSafe'
  BY DEF IssuanceInv, LedgerSafe, ClosedIsUnissued, DeadlinesInLifetime, SlotsDistinct
<1>2. CustodySafe'
  BY CustodyKept DEF IssuanceInv, Holding
<1>3. JournalSafe'
  <2>1. \A c \in Calls : pc'[c] \in {"preflight", "submitting"} => pc'[c] = pc[c]
    BY DEF Holding, Unsent
  <2> QED
    BY <2>1, JournalKept DEF IssuanceInv
<1> QED
  BY <1>1, <1>2, <1>3 DEF IssuanceInv

\* The caller moves to a place where it holds no attempt.
LEMMA MoveAway ==
    ASSUME PcType, NEW c \in Positions, NEW label \in Labels \ Holding, Goto(c, label)
    PROVE  \A d \in Calls : pc'[d] \in Holding => pc'[d] = pc[d]
BY GotoTyped DEF Positions

------------------------------------------------------------------------------
(* The steps that only prepare an attempt, and those of the environment.    *)

\* Reading a snapshot keeps the invariant.
LEMMA ReadInv ==
    ASSUME IssuanceInv, NEW c \in Positions, NEW from, NEW to \in Labels \ Holding, Read(c, from, to)
    PROVE  IssuanceInv'
<1>1. TypeInv'
  BY ReadType DEF IssuanceInv
<1>2. \A d \in Calls : pc'[d] \in Holding => pc'[d] = pc[d]
  BY MoveAway DEF Read, IssuanceInv, TypeInv
<1> QED
  BY <1>1, <1>2, QuietInv DEF Read, chainVars

\* Looking up an existing attempt keeps the invariant.
LEMMA ResolveInv ==
    ASSUME IssuanceInv, NEW c \in Calls, Resolve(c)
    PROVE  IssuanceInv'
<1>1. PICK label \in {"returned", "evidence"} : Goto(c, label)
  BY DEF Resolve
<1>2. label \in Labels \ Holding /\ c \in Positions
  BY DEF Labels, Holding, Unsent, Positions
<1>3. PcType' /\ \A d \in Calls : pc'[d] \in Holding => pc'[d] = pc[d]
  BY <1>1, <1>2, GotoTyped, MoveAway DEF IssuanceInv, TypeInv
<1>4. UNCHANGED <<chainVars, procVars, callVars, ledger, disabled, journal, signed>>
  BY DEF Resolve
<1>5. TypeInv'
  BY <1>3, <1>4 DEF IssuanceInv, TypeInv, JournalType, LedgerType, ChainType, CallType, ProcType,
     chainVars, procVars, callVars
<1> QED
  BY <1>3, <1>4, <1>5, QuietInv DEF chainVars

\* A call that only rewrites its own artifact, and moves on.
LEMMA WorkInv ==
    ASSUME IssuanceInv, NEW c \in Calls, NEW label \in Labels \ Holding, Goto(c, label),
           NEW w \in Works, work' = [work EXCEPT ![c] = w] \/ work' = work,
           UNCHANGED <<chainVars, procVars, ledger, disabled, journal, signed, snapshot, tries>>
    PROVE  IssuanceInv'
<1>1. c \in Positions
  BY DEF Positions
<1>2. PcType' /\ \A d \in Calls : pc'[d] \in Holding => pc'[d] = pc[d]
  BY <1>1, GotoTyped, MoveAway DEF IssuanceInv, TypeInv
<1>3. work' \in [Calls -> Works]
  BY DEF IssuanceInv, TypeInv, CallType
<1>4. TypeInv'
  BY <1>2, <1>3 DEF IssuanceInv, TypeInv, JournalType, LedgerType, ChainType, CallType, ProcType,
     chainVars, procVars
<1> QED
  BY <1>2, <1>4, QuietInv DEF chainVars

\* The empty artifact is well typed.
LEMMA NoWorkTyped == NoWork \in Works
BY IssuanceBoundsAssumption DEF NoWork, Works

\* Building an artifact keeps the invariant: its slot and deadline are naturals.
LEMMA ReadEvidenceInv ==
    ASSUME IssuanceInv, NEW c \in Calls, ReadEvidence(c)
    PROVE  IssuanceInv'
<1> DEFINE r == RecordOf[c]
<1> DEFINE w == [at |-> now, slot |-> NextSlot(ledger), deadline |-> DeadlineFor(r, now), pass |-> TRUE]
<1>1. "slot" \in Labels \ Holding /\ "returned" \in Labels \ Holding
  BY DEF Labels, Holding, Unsent
<1>2. UNCHANGED <<chainVars, procVars, ledger, disabled, journal, signed, snapshot, tries>>
  BY DEF ReadEvidence
<1>3. CASE now < ValidUntil[r] /\ work' = [work EXCEPT ![c] = w] /\ Goto(c, "slot")
  <2>1. r \in Records /\ ValidUntil[r] \in Nat
    BY CallerAssumption, RecordAssumption
  <2>2. now \in 0 .. MaxTime /\ now \in Nat
    BY IssuanceBoundsAssumption DEF IssuanceInv, TypeInv, ChainType
  <2>3. DeadlineFor(r, now) \in Nat
    <3> HIDE DEF r
    <3> QED
    BY <1>3, <2>1, <2>2, IssuanceBoundsAssumption DEF DeadlineFor
  <2>4. NextSlot(ledger) \in Nat
    BY NextSlotNat DEF IssuanceInv, TypeInv, LedgerType
  <2>5. w \in Works
    BY <2>2, <2>3, <2>4 DEF Works
  <2> HIDE DEF w
  <2> QED
    BY <1>1, <1>2, <1>3, <2>5, WorkInv
<1>4. CASE Goto(c, "returned") /\ work' = work
  BY <1>1, <1>2, <1>4, NoWorkTyped, WorkInv
<1> QED
  BY <1>3, <1>4 DEF ReadEvidence

\* Checking the replay key keeps the invariant.
LEMMA CheckSlotInv ==
    ASSUME IssuanceInv, NEW c \in Calls, CheckSlot(c)
    PROVE  IssuanceInv'
<1>1. "admitting" \in Labels \ Holding /\ "returned" \in Labels \ Holding
  BY DEF Labels, Holding, Unsent
<1>2. UNCHANGED <<chainVars, procVars, ledger, disabled, journal, signed, snapshot, tries>>
  BY DEF CheckSlot
<1>3. CASE /\ work' = [work EXCEPT ![c].pass = @ /\ landed[RecordOf[c]] = 0]
           /\ Goto(c, "admitting")
  <2> DEFINE w == [work[c] EXCEPT !.pass = @ /\ landed[RecordOf[c]] = 0]
  <2>1. work[c] \in Works
    BY ArtifactTyped DEF IssuanceInv, TypeInv
  <2>2. w \in Works
    BY <2>1 DEF Works
  <2>3. work' = [work EXCEPT ![c] = w]
    BY <1>3
  <2> HIDE DEF w
  <2> QED
    BY <1>1, <1>2, <1>3, <2>2, <2>3, WorkInv
<1>4. CASE Goto(c, "returned") /\ work' = [work EXCEPT ![c] = NoWork]
  BY <1>1, <1>2, <1>4, NoWorkTyped, WorkInv
<1> QED
  BY <1>3, <1>4 DEF CheckSlot, ForgetWork

\* Time, the lifecycle row and a restart.
LEMMA AroundInv ==
    ASSUME IssuanceInv, Tick \/ SetAdapter \/ (\E p \in Procs : Restart(p))
    PROVE  IssuanceInv'
<1>1. CASE Tick
  <2>1. ChainType'
    BY <1>1, IssuanceBoundsAssumption DEF IssuanceInv, TypeInv, Tick, ChainType
  <2>2. TypeInv'
    BY <1>1, <2>1 DEF IssuanceInv, TypeInv, Tick, JournalType, LedgerType, PcType, CallType, ProcType,
       procVars, callVars
  <2> QED
    BY <1>1, <2>2, QuietInv DEF Tick
<1>2. CASE SetAdapter
  <2>1. TypeInv'
    BY <1>2 DEF IssuanceInv, TypeInv, SetAdapter, JournalType, LedgerType, ChainType, PcType, CallType,
       ProcType, chainVars, procVars, callVars
  <2> QED
    BY <1>2, <2>1, QuietInv DEF SetAdapter, chainVars
<1>3. CASE \E p \in Procs : Restart(p)
  <2>1. PICK p \in Procs : Restart(p)
    BY <1>3
  <2>2. ProcType'
    BY <2>1 DEF IssuanceInv, TypeInv, ProcType, Restart, Admitted
  <2>3. TypeInv'
    BY <2>1, <2>2 DEF IssuanceInv, TypeInv, Restart, JournalType, LedgerType, ChainType, PcType, CallType,
       chainVars, callVars
  <2> QED
    BY <2>1, <2>3, QuietInv DEF Restart, chainVars
<1> QED
  BY <1>1, <1>2, <1>3

\* A crash keeps the invariant: a lost call holds nothing.
LEMMA CrashInv ==
    ASSUME IssuanceInv, NEW p \in Procs, Crash(p)
    PROVE  IssuanceInv'
<1> DEFINE lost == {c \in Calls : ProcOf[c] = p /\ pc[c] \notin {"called", "returned"}}
<1>1. pc \in [Positions -> Labels] /\ DOMAIN pc = Positions
  BY DEF IssuanceInv, TypeInv, PcType
<1>2. /\ pc' = [c \in Positions |-> IF c \in lost THEN "lost" ELSE pc[c]]
      /\ work' = [c \in Calls |-> IF c \in lost THEN NoWork ELSE work[c]]
      /\ snapshot' = [c \in Positions |-> IF c \in lost THEN EmptyLedger ELSE snapshot[c]]
      /\ tries' = tries
  BY <1>1 DEF Crash
<1> HIDE DEF lost
<1>3. PcType' /\ \A c \in Calls : pc'[c] \in Holding => pc'[c] = pc[c]
  BY <1>1, <1>2 DEF PcType, Labels, Holding, Unsent, Positions
<1>4. CallType'
  BY <1>2, NoWorkTyped, EmptyLedgerTyped DEF IssuanceInv, TypeInv, CallType
<1>5. ProcType'
  BY IssuanceBoundsAssumption DEF IssuanceInv, TypeInv, ProcType, Crash
<1>6. UNCHANGED <<chainVars, ledger, disabled, journal, signed>>
  BY DEF Crash
<1>7. TypeInv'
  BY <1>3, <1>4, <1>5, <1>6 DEF IssuanceInv, TypeInv, JournalType, LedgerType, ChainType, chainVars
<1> QED
  BY <1>3, <1>6, <1>7, QuietInv DEF chainVars

------------------------------------------------------------------------------
(* The steps that change the ledger.                                        *)

\* A new ledger with the same attempts keeps all but what it closes.
LEMMA SameAttempts ==
    ASSUME IssuanceInv, TypeInv', ledger'.attempt = ledger.attempt,
           journal' = journal, signed' = signed, sends' = sends, landed' = landed,
           \A r \in Records : r \in ledger'.closed => r \in ledger.closed \/ r \notin Admitted(ledger),
           \A c \in Calls : pc'[c] \in Holding => pc'[c] = pc[c]
    PROVE  IssuanceInv'
<1>1. Admitted(ledger') = Admitted(ledger)
  BY DEF Admitted
<1>2. LedgerSafe'
  BY <1>1 DEF IssuanceInv, LedgerSafe, ClosedIsUnissued, DeadlinesInLifetime, SlotsDistinct
<1>3. CustodySafe'
  BY <1>1, CustodyKept DEF IssuanceInv, Holding
<1>4. JournalSafe'
  <2>1. \A c \in Calls : pc'[c] \in {"preflight", "submitting"} => pc'[c] = pc[c]
    BY DEF Holding, Unsent
  <2> QED
    BY <2>1, JournalKept DEF IssuanceInv
<1> QED
  BY <1>2, <1>3, <1>4 DEF IssuanceInv

\* A revocation keeps the invariant.
LEMMA RevokeInv ==
    ASSUME IssuanceInv, NEW r \in Records, Revoke(r)
    PROVE  IssuanceInv'
<1>1. ledger \in Ledgers /\ now \in 0 .. MaxTime
  BY DEF IssuanceInv, TypeInv, LedgerType, ChainType
<1>3. ledger' = [ledger EXCEPT !.revoked = @ \cup {r}, !.lastAt = now]
  BY DEF Revoke
<1>4. ledger' \in Ledgers /\ ledger'.closed = ledger.closed /\ ledger'.attempt = ledger.attempt
  BY <1>1, <1>3 DEF Ledgers
<1>5. UNCHANGED <<chainVars, procVars, callVars, disabled, journal, signed, pc>>
  BY DEF Revoke
<1>6. TypeInv'
  BY <1>4, <1>5 DEF IssuanceInv, TypeInv, JournalType, LedgerType, ChainType, PcType, CallType,
     ProcType, chainVars, procVars, callVars
<1> QED
  BY <1>4, <1>5, <1>6, SameAttempts DEF chainVars

\* Forgetting a snapshot keeps the callers' locals typed.
LEMMA ForgetTyped ==
    ASSUME CallType, NEW c \in Positions, ForgetSnapshot(c)
    PROVE  snapshot' \in [Positions -> Ledgers]
BY EmptyLedgerTyped DEF CallType, ForgetSnapshot

\* A close keeps the invariant: it commits only on the ledger it read, where no attempt is.
LEMMA CloseInv ==
    ASSUME IssuanceInv, NEW k \in Closers, NEW t \in 0 .. MaxTime, NEW ok \in BOOLEAN,
           CloseNeverIssued(k, t, ok)
    PROVE  IssuanceInv'
<1> DEFINE r == RecordOf[k]
<1>1. k \in Positions /\ k \notin Calls /\ r \in Records
  BY CallerAssumption DEF Positions
<1>2. "returned" \in Labels /\ "called" \in Labels
  BY DEF Labels
<1>3. UNCHANGED <<chainVars, procVars, disabled, journal, signed, work>> /\ ForgetSnapshot(k)
  BY DEF CloseNeverIssued
<1> HIDE DEF r
<1>4. ASSUME PcType', ledger' \in Ledgers, ledger'.attempt = ledger.attempt,
             tries' \in [Positions -> 1 .. MaxAttempts],
             \A d \in Positions \ {k} : pc'[d] = pc[d],
             \A q \in Records : q \in ledger'.closed => q \in ledger.closed \/ q \notin Admitted(ledger)
      PROVE  IssuanceInv'
  <2>1. CallType'
    BY <1>1, <1>3, <1>4, ForgetTyped DEF IssuanceInv, TypeInv, CallType
  <2>2. TypeInv'
    BY <1>3, <1>4, <2>1 DEF IssuanceInv, TypeInv, JournalType, LedgerType, ChainType, ProcType,
       chainVars, procVars
  <2>3. \A d \in Calls : pc'[d] = pc[d]
    BY <1>1, <1>4 DEF Positions
  <2> QED
    BY <1>3, <1>4, <2>2, <2>3, SameAttempts DEF chainVars
<1>5. PcType /\ CallType /\ ledger \in Ledgers
  BY DEF IssuanceInv, TypeInv, LedgerType
<1>6. CASE ~MayClose(snapshot[k], r, t, ok)
  <2>1. Goto(k, "returned") /\ ledger' = ledger /\ tries' = tries
    BY <1>6 DEF CloseNeverIssued, r
  <2> QED
    BY <1>1, <1>2, <1>4, <1>5, <2>1, GotoTyped DEF CallType
<1>7. CASE MayClose(snapshot[k], r, t, ok) /\ snapshot[k] = ledger
  <2>1. /\ Goto(k, "returned") /\ tries' = tries
        /\ ledger' = [ledger EXCEPT !.closed = @ \cup {r}, !.lastAt = t]
    BY <1>7 DEF CloseNeverIssued, CommitLedger, r
  <2>3. ledger' \in Ledgers /\ ledger'.closed = ledger.closed \cup {r} /\ ledger'.attempt = ledger.attempt
    BY <1>1, <1>5, <2>1 DEF Ledgers
  <2>4. r \notin Admitted(ledger)
    BY <1>7 DEF MayClose
  <2> QED
    BY <1>1, <1>2, <1>4, <1>5, <2>1, <2>3, <2>4, GotoTyped DEF CallType
<1>8. CASE MayClose(snapshot[k], r, t, ok) /\ snapshot[k] # ledger
  <2>1. LostRace(k, "called")
    BY <1>8 DEF CloseNeverIssued, r
  <2> QED
    BY <1>1, <1>2, <1>4, <1>5, <2>1, LostRaceType DEF IssuanceInv
<1> QED
  BY <1>6, <1>7, <1>8

\* What the call decides on the committed ledger, when it is admitted.
LEMMA AdmissionInv ==
    ASSUME IssuanceInv, TypeInv', NEW c \in Calls, NEW r \in Records, r = RecordOf[c],
           NEW a \in Artifacts, ledger'.closed = ledger.closed,
           ledger'.attempt = [ledger.attempt EXCEPT ![r] = a],
           r \notin Admitted(ledger), r \notin ledger.closed, a.deadline + 1 <= ValidUntil[r],
           \A q \in Admitted(ledger) : ledger.attempt[q].slot # a.slot,
           journal' = journal, signed' = signed, sends' = sends, landed' = landed,
           pc'[c] = "signing", \A d \in Calls \ {c} : pc'[d] = pc[d]
    PROVE  IssuanceInv'
<1>1. ledger \in Ledgers /\ ledger' \in Ledgers
  BY DEF IssuanceInv, TypeInv, LedgerType
<1>2. Admitted(ledger') = Admitted(ledger) \cup {r}
  BY <1>1, AdmittedGrows
<1>3. ledger.attempt \in [Records -> Artifacts \cup {NoAttempt}]
  BY <1>1 DEF Ledgers
<1>4. ledger'.attempt[r] = a /\ \A q \in Admitted(ledger) : ledger'.attempt[q] = ledger.attempt[q] /\ q # r
  BY <1>3 DEF Admitted
<1>5. LedgerSafe'
  <2>1. ClosedIsUnissued'
    BY <1>2 DEF IssuanceInv, LedgerSafe, ClosedIsUnissued
  <2>2. a.deadline < ValidUntil[r]
    BY RecordAssumption DEF Artifacts
  <2>3. DeadlinesInLifetime'
    BY <1>2, <1>4, <2>2 DEF IssuanceInv, LedgerSafe, DeadlinesInLifetime
  <2>4. SlotsDistinct'
    BY <1>2, <1>4 DEF IssuanceInv, LedgerSafe, SlotsDistinct
  <2> QED
    BY <2>1, <2>3, <2>4 DEF LedgerSafe
<1>6. CustodySafe'
  <2>1. SignedIsAdmitted' /\ SentIsAdmitted' /\ LandedIsSent' /\ SentAtMostOnce'
    BY <1>2 DEF IssuanceInv, CustodySafe, SignedIsAdmitted, SentIsAdmitted, LandedIsSent, SentAtMostOnce
  <2>2. "signing" \in Unsent /\ Unsent \subseteq Holding
    BY DEF Unsent, Holding
  <2>3. HoldersAdmitted'
    BY <1>2 DEF IssuanceInv, CustodySafe, HoldersAdmitted
  <2>4. HoldersUnsent'
    <3>1. sends[r] = 0
      BY DEF IssuanceInv, CustodySafe, SentIsAdmitted
    <3> QED
      BY <3>1 DEF IssuanceInv, CustodySafe, HoldersUnsent
  <2>5. \A d \in Calls : pc[d] \in Unsent => RecordOf[d] # r
    BY <2>2 DEF IssuanceInv, CustodySafe, HoldersAdmitted
  <2>6. HoldersApart'
    BY <2>5 DEF IssuanceInv, CustodySafe, HoldersApart
  <2> QED
    BY <2>1, <2>3, <2>4, <2>6 DEF CustodySafe
<1>7. JournalSafe'
  BY JournalKept DEF IssuanceInv
<1> QED
  BY <1>5, <1>6, <1>7 DEF IssuanceInv

\* An admission keeps the invariant: it commits only on the ledger it decided on.
LEMMA AdmitInv ==
    ASSUME IssuanceInv, NEW c \in Calls, NEW ok \in BOOLEAN, AdmitAttempt(c, ok)
    PROVE  IssuanceInv'
<1> DEFINE r == RecordOf[c]
<1> DEFINE a == Artifact(c)
<1>1. c \in Positions /\ r \in Records
  BY CallerAssumption DEF Positions
<1>2. /\ "returned" \in Labels \ Holding /\ "admitting" \in Labels \ Holding
      /\ "signing" \in Labels /\ "signing" # "returned"
  BY DEF Labels, Holding, Unsent
<1>3. /\ UNCHANGED <<chainVars, procVars, disabled, journal, signed>> /\ ForgetSnapshot(c)
      /\ work' = [work EXCEPT ![c] = NoWork] \/ work' = work
  BY DEF AdmitAttempt, ForgetWork
<1>4. PcType /\ CallType /\ ledger \in Ledgers
  BY DEF IssuanceInv, TypeInv, LedgerType
<1>5. a \in Artifacts /\ work[c] \in Works /\ work[c].at \in 0 .. MaxTime
  BY <1>4, ArtifactTyped
<1> HIDE DEF r, a
<1>6. ASSUME PcType', ledger' \in Ledgers, tries' \in [Positions -> 1 .. MaxAttempts]
      PROVE  TypeInv'
  <2>1. CallType'
    BY <1>1, <1>3, <1>4, <1>6, ForgetTyped, NoWorkTyped DEF CallType
  <2> QED
    BY <1>3, <1>6, <2>1 DEF IssuanceInv, TypeInv, JournalType, LedgerType, ChainType, ProcType,
       chainVars, procVars
<1>7. ASSUME PcType', ledger' = ledger, tries' \in [Positions -> 1 .. MaxAttempts],
             pc'[c] \in Labels \ Holding, \A d \in Positions \ {c} : pc'[d] = pc[d]
      PROVE  IssuanceInv'
  <2>1. \A d \in Calls : pc'[d] \in Holding => pc'[d] = pc[d]
    BY <1>7 DEF Positions
  <2> QED
    BY <1>3, <1>4, <1>6, <1>7, <2>1, QuietInv DEF chainVars
<1>8. CASE r \in Admitted(snapshot[c]) \/ ~MayAdmit(snapshot[c], r, work[c], ok)
  <2>1. Goto(c, "returned") /\ ledger' = ledger /\ tries' = tries
    BY <1>8 DEF AdmitAttempt, r
  <2> QED
    BY <1>1, <1>2, <1>4, <1>7, <2>1, GotoTyped DEF CallType
<1>9. CASE /\ r \notin Admitted(snapshot[c]) /\ MayAdmit(snapshot[c], r, work[c], ok)
           /\ snapshot[c] = ledger
  <2>1. /\ Goto(c, "signing") /\ tries' = tries
        /\ ledger' = [ledger EXCEPT !.attempt[r] = a, !.lastAt = work[c].at]
    BY <1>9 DEF AdmitAttempt, CommitLedger, r, a
  <2>2. PcType' /\ pc'[c] = "signing" /\ \A d \in Positions \ {c} : pc'[d] = pc[d]
    BY <1>1, <1>2, <1>4, <2>1, GotoTyped
  <2>3. ledger.attempt \in [Records -> Artifacts \cup {NoAttempt}]
    BY <1>4 DEF Ledgers
  <2>4. [ledger.attempt EXCEPT ![r] = a] \in [Records -> Artifacts \cup {NoAttempt}]
    BY <1>5, <2>3
  <2>5. ledger' = [closed |-> ledger.closed, revoked |-> ledger.revoked, lastAt |-> work[c].at,
                   attempt |-> [ledger.attempt EXCEPT ![r] = a]]
    BY <1>4, <2>1 DEF Ledgers
  <2>6. ledger.closed \in SUBSET Records /\ ledger.revoked \in SUBSET Records
    BY <1>4 DEF Ledgers
  <2>7. ledger' \in Ledgers
    BY <1>5, <2>4, <2>5, <2>6 DEF Ledgers
  <2>8. ledger'.closed = ledger.closed /\ ledger'.attempt = [ledger.attempt EXCEPT ![r] = a]
    BY <2>5
  <2>9. a.slot = work[c].slot /\ a.deadline = work[c].deadline
    BY DEF a, Artifact
  <2>10. /\ r \notin Admitted(ledger) /\ r \notin ledger.closed /\ a.deadline + 1 <= ValidUntil[r]
         /\ \A q \in Admitted(ledger) : ledger.attempt[q].slot # a.slot
    BY <1>9, <2>9 DEF MayAdmit
  <2>11. TypeInv'
    BY <1>4, <1>6, <2>1, <2>2, <2>7 DEF CallType
  <2>12. \A d \in Calls \ {c} : pc'[d] = pc[d]
    BY <2>2 DEF Positions
  <2>13. UNCHANGED <<journal, signed, sends, landed>> /\ r = RecordOf[c]
    BY <1>3 DEF chainVars, r
  <2> QED
    BY <1>1, <1>5, <2>2, <2>8, <2>10, <2>11, <2>12, <2>13, AdmissionInv
<1>10. CASE /\ r \notin Admitted(snapshot[c]) /\ MayAdmit(snapshot[c], r, work[c], ok)
            /\ snapshot[c] # ledger
  <2>1. LostRace(c, "admitting")
    BY <1>10 DEF AdmitAttempt, r
  <2> QED
    BY <1>1, <1>2, <1>7, <2>1, LostRaceType DEF IssuanceInv
<1> QED
  BY <1>8, <1>9, <1>10

------------------------------------------------------------------------------
(* The steps that sign, record, send and settle.                            *)

\* The places a call moves between while it holds an attempt.
LEMMA Places ==
    /\ {"opening", "unsigned", "preflight", "submitting"} \subseteq Labels \cap Unsent
    /\ "returned" \in Labels \ Holding /\ "receipt" \in Labels \ Unsent
    /\ Unsent \subseteq Holding /\ "receipt" \in Holding /\ "signing" \in Unsent
BY DEF Labels, Holding, Unsent

(***************************************************************************)
(* A call that holds an attempt moves on without sending: on to another    *)
(* place where it holds it unsent, or away.                                *)
(***************************************************************************)
LEMMA HeldInv ==
    ASSUME IssuanceInv, NEW c \in Calls, pc[c] \in Holding,
           NEW label \in Labels, Goto(c, label),
           (pc[c] \in Unsent /\ label \in Unsent) \/ label \notin Holding,
           signed' \subseteq signed \cup Admitted(ledger), signed' \subseteq Records,
           work' \in [Calls -> Works], JournalType',
           UNCHANGED <<chainVars, procVars, snapshot, tries, ledger, disabled>>,
           JournalSafe'
    PROVE  IssuanceInv'
<1>1. PcType' /\ pc'[c] = label /\ \A d \in Calls \ {c} : pc'[d] = pc[d]
  BY GotoTyped DEF IssuanceInv, TypeInv, Positions
<1>2. TypeInv'
  BY <1>1 DEF IssuanceInv, TypeInv, LedgerType, ChainType, CallType, ProcType, chainVars, procVars
<1>3. /\ \A d \in Calls : pc'[d] \in Unsent => pc[d] \in Unsent
      /\ \A d \in Calls : pc'[d] \in Holding => pc[d] \in Holding
  BY <1>1, Places
<1>4. CustodySafe'
  BY <1>3, CustodyKept DEF IssuanceInv, chainVars
<1>5. LedgerSafe'
  BY DEF IssuanceInv, LedgerSafe, ClosedIsUnissued, DeadlinesInLifetime, SlotsDistinct
<1> QED
  BY <1>2, <1>4, <1>5 DEF IssuanceInv

\* A write of the journal that is no acknowledgement, by a step that sends nothing.
LEMMA WriteKept ==
    ASSUME IssuanceInv, NEW r \in Records, NEW s \in DOMAIN NextStates \ {"none", "SUBMISSION_ACKNOWLEDGED"},
           Open(r, s) \/ Transition(r, s) \/ journal' = journal, sends' = sends, landed' = landed,
           \A c \in Calls : pc'[c] \in {"preflight", "submitting"} => pc'[c] = pc[c]
    PROVE  JournalType' /\ JournalSafe'
<1>1. CASE journal' = journal
  BY <1>1, JournalKept DEF IssuanceInv, TypeInv, JournalType
<1>2. CASE Open(r, s) \/ Transition(r, s)
  <2>1. /\ JournalType'
        /\ \A q \in Records : journal'[q] = journal[q] \/ (q = r /\ journal'[q] = s)
        /\ \A q \in Records : journal[q] \in MaybeSent => journal'[q] \in MaybeSent
        /\ \A q \in Records : journal[q] # "none" => journal'[q] # "none"
    BY <1>2, JournalWrites DEF IssuanceInv, TypeInv
  <2> QED
    BY <2>1, JournalKept DEF IssuanceInv
<1> QED
  BY <1>1, <1>2

\* The call moves to a place other than before its submission.
LEMMA NotSubmitting ==
    ASSUME PcType, NEW c \in Calls, NEW label \in Labels \ {"preflight", "submitting"}, Goto(c, label)
    PROVE  \A d \in Calls : pc'[d] \in {"preflight", "submitting"} => pc'[d] = pc[d]
BY GotoTyped DEF Positions

\* Signing keeps the invariant: custody signs only what the ledger admitted.
LEMMA SignInv ==
    ASSUME IssuanceInv, NEW c \in Calls, SignAdmitted(c)
    PROVE  IssuanceInv'
<1>1. PICK label \in {"opening", "unsigned"} : Goto(c, label)
  BY DEF SignAdmitted
<1>2. pc[c] = "signing" /\ UNCHANGED <<chainVars, procVars, snapshot, tries, ledger, disabled, journal>>
  BY DEF SignAdmitted
<1>3. RecordOf[c] \in Records
  BY CallerAssumption
<1>4. signed' \subseteq signed \cup Admitted(ledger) /\ signed' \subseteq Records
  BY <1>3 DEF SignAdmitted, VerifyAdmitted, IssuanceInv, TypeInv, LedgerType
<1>5. work' \in [Calls -> Works]
  BY NoWorkTyped DEF SignAdmitted, ForgetWork, IssuanceInv, TypeInv, CallType
<1>6. label \in Labels \ {"preflight", "submitting"} /\ label \in Unsent /\ pc[c] \in Unsent /\ pc[c] \in Holding
  BY <1>2, Places
<1>7. \A d \in Calls : pc'[d] \in {"preflight", "submitting"} => pc'[d] = pc[d]
  BY <1>1, <1>6, NotSubmitting DEF IssuanceInv, TypeInv
<1>8. JournalSafe' /\ JournalType'
  BY <1>2, <1>7, JournalKept DEF IssuanceInv, TypeInv, JournalType, chainVars
<1> QED
  BY <1>1, <1>2, <1>4, <1>5, <1>6, <1>8, HeldInv

\* Recording a failed signing keeps the invariant.
LEMMA RecordUnsignedInv ==
    ASSUME IssuanceInv, NEW c \in Calls, RecordUnsigned(c)
    PROVE  IssuanceInv'
<1>1. /\ pc[c] = "unsigned" /\ Goto(c, "returned") /\ Open(RecordOf[c], "OUTCOME_UNKNOWN")
      /\ UNCHANGED <<chainVars, procVars, callVars, ledger, disabled, signed>>
  BY DEF RecordUnsigned
<1>2. RecordOf[c] \in Records
  BY CallerAssumption
<1>3. "returned" \in Labels \ {"preflight", "submitting"} /\ "returned" \notin Holding /\ pc[c] \in Holding
  BY <1>1, Places
<1>4. \A d \in Calls : pc'[d] \in {"preflight", "submitting"} => pc'[d] = pc[d]
  BY <1>1, <1>3, NotSubmitting DEF IssuanceInv, TypeInv
<1>5. JournalType' /\ JournalSafe'
  <2>1. "OUTCOME_UNKNOWN" \in DOMAIN NextStates \ {"none", "SUBMISSION_ACKNOWLEDGED"}
    BY JournalStates
  <2> QED
    BY <1>1, <1>2, <1>4, <2>1, WriteKept DEF chainVars
<1>6. work' \in [Calls -> Works] /\ UNCHANGED <<snapshot, tries>> /\ signed' \subseteq Records
  BY <1>1 DEF callVars, IssuanceInv, TypeInv, CallType, LedgerType
<1> QED
  BY <1>1, <1>3, <1>5, <1>6, HeldInv

\* Recording the signed artifact keeps the invariant.
LEMMA OpenIssuedInv ==
    ASSUME IssuanceInv, NEW c \in Calls, OpenIssued(c)
    PROVE  IssuanceInv'
<1> DEFINE r == RecordOf[c]
<1>1. /\ pc[c] = "opening" /\ Open(r, "ARTIFACT_ISSUED")
      /\ Goto(c, IF CanOpen(r) THEN "preflight" ELSE "returned")
      /\ UNCHANGED <<chainVars, procVars, callVars, ledger, disabled, signed>>
  BY DEF OpenIssued
<1>2. r \in Records
  BY CallerAssumption
<1>3. pc[c] \in Unsent /\ pc[c] \in Holding
  BY <1>1, Places
<1>4. work' \in [Calls -> Works] /\ UNCHANGED <<snapshot, tries>> /\ signed' \subseteq Records
  BY <1>1 DEF callVars, IssuanceInv, TypeInv, CallType, LedgerType
<1>5. "ARTIFACT_ISSUED" \in DOMAIN NextStates \ {"none", "SUBMISSION_ACKNOWLEDGED"}
  BY JournalStates
<1> HIDE DEF r
<1>6. CASE ~CanOpen(r)
  <2>1. Goto(c, "returned") /\ "returned" \in Labels \ {"preflight", "submitting"} /\ "returned" \notin Holding
    BY <1>1, <1>6, Places
  <2>2. \A d \in Calls : pc'[d] \in {"preflight", "submitting"} => pc'[d] = pc[d]
    BY <2>1, NotSubmitting DEF IssuanceInv, TypeInv
  <2>3. JournalType' /\ JournalSafe'
    BY <1>1, <1>2, <1>5, <2>2, WriteKept DEF chainVars
  <2> QED
    BY <1>1, <1>3, <1>4, <2>1, <2>3, HeldInv
<1>7. CASE CanOpen(r)
  <2>1. Goto(c, "preflight") /\ "preflight" \in Labels /\ "preflight" \in Unsent
    BY <1>1, <1>7, Places
  <2>2. pc'[c] = "preflight" /\ \A d \in Calls \ {c} : pc'[d] = pc[d]
    BY <2>1, GotoTyped DEF IssuanceInv, TypeInv, Positions
  <2>3. /\ JournalType'
        /\ \A q \in Records : journal'[q] = journal[q] \/ (q = r /\ journal'[q] = "ARTIFACT_ISSUED")
        /\ \A q \in Records : journal[q] \in MaybeSent => journal'[q] \in MaybeSent
        /\ \A q \in Records : journal[q] # "none" => journal'[q] # "none"
    BY <1>1, <1>2, <1>5, JournalWrites DEF IssuanceInv, TypeInv
  <2>4. journal'[r] = "ARTIFACT_ISSUED"
    BY <1>1, <1>2, <1>7 DEF Open, IssuanceInv, TypeInv, JournalType
  <2>5. SubmittersJournaled'
    BY <2>2, <2>3, <2>4, CallerAssumption DEF r, IssuanceInv, JournalSafe, SubmittersJournaled
  <2>6. BroadcastIsJournaled' /\ AcknowledgedWasExecuted'
    BY <1>1, <2>3 DEF IssuanceInv, JournalSafe, BroadcastIsJournaled, AcknowledgedWasExecuted, MaybeSent, chainVars
  <2> QED
    BY <1>1, <1>3, <1>4, <2>1, <2>3, <2>5, <2>6, HeldInv DEF JournalSafe
<1> QED
  BY <1>6, <1>7

\* The preflight keeps the invariant: a call submits only with a row that may have been sent.
LEMMA PreflightInv ==
    ASSUME IssuanceInv, NEW c \in Calls, Preflight(c)
    PROVE  IssuanceInv'
<1> DEFINE r == RecordOf[c]
<1>1. /\ pc[c] = "preflight"
      /\ UNCHANGED <<chainVars, procVars, callVars, ledger, disabled, signed>>
  BY DEF Preflight
<1>2. r \in Records
  BY CallerAssumption
<1>3. pc[c] \in Unsent /\ pc[c] \in Holding
  BY <1>1, Places
<1>4. work' \in [Calls -> Works] /\ UNCHANGED <<snapshot, tries>> /\ signed' \subseteq Records
  BY <1>1 DEF callVars, IssuanceInv, TypeInv, CallType, LedgerType
<1>5. {"OUTCOME_UNKNOWN", "SUBMISSION_SENT"} \subseteq DOMAIN NextStates \ {"none", "SUBMISSION_ACKNOWLEDGED"}
  BY JournalStates
<1>6. CASE Transition(r, "OUTCOME_UNKNOWN") /\ Goto(c, "returned")
  <2>1. "returned" \in Labels \ {"preflight", "submitting"} /\ "returned" \notin Holding
    BY Places
  <2>2. \A d \in Calls : pc'[d] \in {"preflight", "submitting"} => pc'[d] = pc[d]
    BY <1>6, <2>1, NotSubmitting DEF IssuanceInv, TypeInv
  <2>3. JournalType' /\ JournalSafe'
    BY <1>1, <1>2, <1>5, <1>6, <2>2, WriteKept DEF chainVars
  <2> QED
    BY <1>1, <1>3, <1>4, <1>6, <2>1, <2>3, HeldInv
<1>7. CASE Transition(r, "SUBMISSION_SENT") /\ Goto(c, "submitting")
  <2>1. "submitting" \in Labels /\ "submitting" \in Unsent
    BY Places
  <2>2. pc'[c] = "submitting" /\ \A d \in Calls \ {c} : pc'[d] = pc[d]
    BY <1>7, <2>1, GotoTyped DEF IssuanceInv, TypeInv, Positions
  <2>3. /\ JournalType'
        /\ \A q \in Records : journal'[q] = journal[q] \/ (q = r /\ journal'[q] = "SUBMISSION_SENT")
        /\ \A q \in Records : journal[q] \in MaybeSent => journal'[q] \in MaybeSent
        /\ \A q \in Records : journal[q] # "none" => journal'[q] # "none"
    BY <1>2, <1>5, <1>7, JournalWrites DEF IssuanceInv, TypeInv
  <2>4. journal'[r] \in MaybeSent
    <3>1. journal[r] \in DOMAIN NextStates /\ journal[r] # "none"
      BY <1>1, <1>2 DEF IssuanceInv, TypeInv, JournalType, JournalSafe, SubmittersJournaled
    <3>2. CASE journal[r] = "ARTIFACT_ISSUED"
      <4>1. "SUBMISSION_SENT" \in NextStates[journal[r]]
        BY <3>2 DEF NextStates
      <4>2. journal'[r] = "SUBMISSION_SENT"
        BY <1>2, <1>7, <4>1 DEF Transition, IssuanceInv, TypeInv, JournalType
      <4> QED
        BY <4>2 DEF MaybeSent
    <3>3. CASE journal[r] # "ARTIFACT_ISSUED"
      <4>1. journal[r] \in MaybeSent
        BY <3>1, <3>3, JournalStates DEF MaybeSent
      <4> QED
        BY <1>2, <2>3, <4>1
    <3> QED
      BY <3>2, <3>3
  <2>5. SubmittersJournaled'
    BY <2>2, <2>3, <2>4, CallerAssumption DEF IssuanceInv, JournalSafe, SubmittersJournaled
  <2>6. BroadcastIsJournaled' /\ AcknowledgedWasExecuted'
    BY <1>1, <2>3 DEF IssuanceInv, JournalSafe, BroadcastIsJournaled, AcknowledgedWasExecuted, MaybeSent, chainVars
  <2> QED
    BY <1>1, <1>3, <1>4, <1>7, <2>1, <2>3, <2>5, <2>6, HeldInv DEF JournalSafe
<1> QED
  BY <1>6, <1>7 DEF Preflight

\* The broadcast of an attempt in hand: nobody else holds it unsent, and it was not sent before.
LEMMA BroadcastInv ==
    ASSUME IssuanceInv, NEW c \in Calls, pc[c] = "submitting",
           NEW label \in {"receipt", "returned"}, Goto(c, label),
           sends' = [sends EXCEPT ![RecordOf[c]] = @ + 1], now' = now, landed' = landed,
           journal' = journal \/ Transition(RecordOf[c], "OUTCOME_UNKNOWN"),
           UNCHANGED <<procVars, callVars, ledger, disabled, signed>>
    PROVE  IssuanceInv'
<1> DEFINE r == RecordOf[c]
<1>1. r \in Records
  BY CallerAssumption
<1>2. label \in Labels \ {"preflight", "submitting"} /\ label \in Labels /\ label \notin Unsent
  BY Places
<1>3. PcType' /\ pc'[c] = label /\ \A d \in Calls \ {c} : pc'[d] = pc[d]
  BY <1>2, GotoTyped DEF IssuanceInv, TypeInv, Positions
<1>4. pc[c] \in Unsent /\ pc[c] \in Holding
  BY Places
<1>5. r \in Admitted(ledger) /\ sends[r] = 0 /\ journal[r] \in MaybeSent
  BY <1>4 DEF IssuanceInv, CustodySafe, HoldersAdmitted, HoldersUnsent, JournalSafe, SubmittersJournaled
<1>6. sends \in [Records -> Nat]
  BY DEF IssuanceInv, TypeInv, ChainType
<1>7. sends'[r] = 1 /\ \A q \in Records \ {r} : sends'[q] = sends[q]
  BY <1>1, <1>5, <1>6
<1>8. /\ JournalType'
      /\ \A q \in Records : journal'[q] = journal[q] \/ (q = r /\ journal'[q] = "OUTCOME_UNKNOWN")
      /\ \A q \in Records : journal[q] \in MaybeSent => journal'[q] \in MaybeSent
      /\ \A q \in Records : journal[q] # "none" => journal'[q] # "none"
  <2>1. CASE journal' = journal
    BY <2>1 DEF IssuanceInv, TypeInv, JournalType
  <2>2. CASE Transition(r, "OUTCOME_UNKNOWN")
    <3>1. "OUTCOME_UNKNOWN" \in DOMAIN NextStates \ {"none"}
      BY JournalStates
    <3> QED
      BY <1>1, <2>2, <3>1, JournalWrites DEF IssuanceInv, TypeInv
  <2> QED
    BY <2>1, <2>2
<1>9. TypeInv'
  <2>1. ChainType'
    BY <1>1, <1>6 DEF IssuanceInv, TypeInv, ChainType
  <2> QED
    BY <1>3, <1>8, <2>1 DEF IssuanceInv, TypeInv, LedgerType, CallType, ProcType, procVars, callVars
<1> HIDE DEF r
<1>10. LedgerSafe'
  BY DEF IssuanceInv, LedgerSafe, ClosedIsUnissued, DeadlinesInLifetime, SlotsDistinct
<1>11. CustodySafe'
  <2>1. SignedIsAdmitted' /\ SentIsAdmitted' /\ LandedIsSent'
    BY <1>5, <1>7 DEF IssuanceInv, CustodySafe, SignedIsAdmitted, SentIsAdmitted, LandedIsSent
  <2>2. SentAtMostOnce'
    BY <1>7 DEF IssuanceInv, CustodySafe, SentAtMostOnce
  <2>3. HoldersAdmitted'
    BY <1>3, <1>5 DEF r, IssuanceInv, CustodySafe, HoldersAdmitted
  <2>4. \A d \in Calls : pc'[d] \in Unsent => pc[d] \in Unsent /\ d # c
    BY <1>2, <1>3
  <2>5. HoldersApart'
    BY <2>4 DEF IssuanceInv, CustodySafe, HoldersApart
  <2>6. \A d \in Calls : pc'[d] \in Unsent => RecordOf[d] # r /\ RecordOf[d] \in Records
    BY <1>4, <2>4, CallerAssumption DEF r, IssuanceInv, CustodySafe, HoldersApart
  <2>7. HoldersUnsent'
    BY <1>7, <2>4, <2>6 DEF IssuanceInv, CustodySafe, HoldersUnsent
  <2> QED
    BY <2>1, <2>2, <2>3, <2>5, <2>7 DEF CustodySafe
<1>12. JournalSafe'
  <2>1. SubmittersJournaled'
    BY <1>2, <1>3, <1>8, CallerAssumption DEF IssuanceInv, JournalSafe, SubmittersJournaled
  <2>2. BroadcastIsJournaled'
    <3> SUFFICES ASSUME NEW q \in Records, sends'[q] > 0 PROVE journal'[q] \in MaybeSent
      BY DEF BroadcastIsJournaled, MaybeSent
    <3>1. CASE q = r
      BY <1>1, <1>5, <1>8, <3>1
    <3>2. CASE q # r
      BY <1>7, <1>8, <3>2 DEF IssuanceInv, JournalSafe, BroadcastIsJournaled, MaybeSent
    <3> QED
      BY <3>1, <3>2
  <2>3. AcknowledgedWasExecuted'
    BY <1>8 DEF IssuanceInv, JournalSafe, AcknowledgedWasExecuted
  <2> QED
    BY <2>1, <2>2, <2>3 DEF JournalSafe
<1> QED
  BY <1>9, <1>10, <1>11, <1>12 DEF IssuanceInv

\* The submission keeps the invariant, whether or not the network took it.
LEMMA SubmitInv ==
    ASSUME IssuanceInv, NEW c \in Calls, Submit(c)
    PROVE  IssuanceInv'
<1> DEFINE r == RecordOf[c]
<1>1. /\ pc[c] = "submitting"
      /\ UNCHANGED <<now, landed, procVars, callVars, ledger, disabled, signed>>
  BY DEF Submit
<1>2. CASE /\ sends' = [sends EXCEPT ![r] = @ + 1]
           /\ \/ Goto(c, "receipt") /\ journal' = journal
              \/ Goto(c, "returned") /\ Transition(r, "OUTCOME_UNKNOWN")
  BY <1>1, <1>2, BroadcastInv
<1>3. CASE sends' = sends /\ Transition(r, "OUTCOME_UNKNOWN") /\ Goto(c, "returned")
  <2>1. "returned" \in Labels \ {"preflight", "submitting"} /\ "returned" \notin Holding /\ pc[c] \in Holding
    BY <1>1, Places
  <2>2. \A d \in Calls : pc'[d] \in {"preflight", "submitting"} => pc'[d] = pc[d]
    BY <1>3, <2>1, NotSubmitting DEF IssuanceInv, TypeInv
  <2>3. r \in Records /\ "OUTCOME_UNKNOWN" \in DOMAIN NextStates \ {"none", "SUBMISSION_ACKNOWLEDGED"}
    BY JournalStates, CallerAssumption
  <2>4. JournalType' /\ JournalSafe'
    BY <1>1, <1>3, <2>2, <2>3, WriteKept
  <2>5. work' \in [Calls -> Works] /\ UNCHANGED <<snapshot, tries>> /\ signed' \subseteq Records
    BY <1>1 DEF callVars, IssuanceInv, TypeInv, CallType, LedgerType
  <2>6. UNCHANGED chainVars
    BY <1>1, <1>3 DEF chainVars
  <2> QED
    BY <1>1, <1>3, <2>1, <2>4, <2>5, <2>6, HeldInv
<1> QED
  BY <1>2, <1>3 DEF Submit

\* The receipt keeps the invariant: only an executed attempt is acknowledged.
LEMMA ReceiptInv ==
    ASSUME IssuanceInv, NEW c \in Calls, Receipt(c)
    PROVE  IssuanceInv'
<1> DEFINE r == RecordOf[c]
<1>1. /\ pc[c] = "receipt" /\ Goto(c, "returned")
      /\ UNCHANGED <<chainVars, procVars, callVars, ledger, disabled, signed>>
  BY DEF Receipt
<1>2. r \in Records
  BY CallerAssumption
<1>3. "returned" \in Labels \ {"preflight", "submitting"} /\ "returned" \notin Holding /\ pc[c] \in Holding
  BY <1>1, Places
<1>4. \A d \in Calls : pc'[d] \in {"preflight", "submitting"} => pc'[d] = pc[d]
  BY <1>1, <1>3, NotSubmitting DEF IssuanceInv, TypeInv
<1>5. work' \in [Calls -> Works] /\ UNCHANGED <<snapshot, tries>> /\ signed' \subseteq Records
  BY <1>1 DEF callVars, IssuanceInv, TypeInv, CallType, LedgerType
<1>6. JournalType' /\ JournalSafe'
  <2>1. CASE Transition(r, "SUBMISSION_REJECTED") \/ Transition(r, "OUTCOME_UNKNOWN")
    <3>1. {"SUBMISSION_REJECTED", "OUTCOME_UNKNOWN"} \subseteq DOMAIN NextStates \ {"none", "SUBMISSION_ACKNOWLEDGED"}
      BY JournalStates
    <3> QED
      BY <1>1, <1>2, <1>4, <2>1, <3>1, WriteKept DEF chainVars
  <2>2. CASE landed[r] > 0 /\ Transition(r, "SUBMISSION_ACKNOWLEDGED")
    <3>1. "SUBMISSION_ACKNOWLEDGED" \in DOMAIN NextStates \ {"none"}
      BY JournalStates
    <3>2. /\ JournalType'
          /\ \A q \in Records : journal'[q] = journal[q] \/ (q = r /\ journal'[q] = "SUBMISSION_ACKNOWLEDGED")
          /\ \A q \in Records : journal[q] \in MaybeSent => journal'[q] \in MaybeSent
          /\ \A q \in Records : journal[q] # "none" => journal'[q] # "none"
      BY <1>2, <2>2, <3>1, JournalWrites DEF IssuanceInv, TypeInv
    <3>3. SubmittersJournaled'
      BY <1>4, <3>2, CallerAssumption DEF IssuanceInv, JournalSafe, SubmittersJournaled
    <3>4. BroadcastIsJournaled'
      BY <1>1, <3>2 DEF IssuanceInv, JournalSafe, BroadcastIsJournaled, MaybeSent, chainVars
    <3>5. AcknowledgedWasExecuted'
      BY <1>1, <2>2, <3>2 DEF IssuanceInv, JournalSafe, AcknowledgedWasExecuted, chainVars
    <3> QED
      BY <3>2, <3>3, <3>4, <3>5 DEF JournalSafe
  <2> QED
    BY <2>1, <2>2 DEF Receipt
<1> QED
  BY <1>1, <1>3, <1>5, <1>6, HeldInv

\* An execution by the gate keeps the invariant.
LEMMA ExecuteInv ==
    ASSUME IssuanceInv, NEW r \in Records, Execute(r)
    PROVE  IssuanceInv'
<1>1. /\ landed' = [landed EXCEPT ![r] = @ + 1] /\ sends[r] > 0
      /\ UNCHANGED <<now, sends, procVars, callVars, ledger, disabled, journal, signed, pc>>
  BY DEF Execute
<1>2. landed \in [Records -> Nat] /\ sends \in [Records -> Nat]
  BY DEF IssuanceInv, TypeInv, ChainType
<1>3. /\ landed' \in [Records -> Nat] /\ landed'[r] = landed[r] + 1
      /\ \A q \in Records \ {r} : landed'[q] = landed[q]
  BY <1>1, <1>2
<1>4. TypeInv'
  BY <1>1, <1>3 DEF IssuanceInv, TypeInv, JournalType, LedgerType, ChainType, PcType, CallType, ProcType,
     procVars, callVars
<1>5. LedgerSafe'
  BY <1>1 DEF IssuanceInv, LedgerSafe, ClosedIsUnissued, DeadlinesInLifetime, SlotsDistinct
<1>6. CustodySafe'
  <2>1. LandedIsSent'
    BY <1>1, <1>2, <1>3 DEF IssuanceInv, CustodySafe, LandedIsSent
  <2> QED
    BY <1>1, <2>1 DEF IssuanceInv, CustodySafe, SignedIsAdmitted, SentIsAdmitted,
       HoldersAdmitted, HoldersUnsent, HoldersApart, SentAtMostOnce
<1>7. JournalSafe'
  <2>1. SubmittersJournaled' /\ BroadcastIsJournaled'
    BY <1>1 DEF IssuanceInv, JournalSafe, SubmittersJournaled, BroadcastIsJournaled
  <2>2. AcknowledgedWasExecuted'
    BY <1>1, <1>2, <1>3 DEF IssuanceInv, JournalSafe, AcknowledgedWasExecuted
  <2> QED
    BY <2>1, <2>2 DEF JournalSafe
<1> QED
  BY <1>4, <1>5, <1>6, <1>7 DEF IssuanceInv

\* An iteration of recover() keeps the invariant.
LEMMA RecoverInv ==
    ASSUME IssuanceInv, NEW p \in Procs, NEW r \in Records, Recover(p, r)
    PROVE  IssuanceInv'
<1>1. /\ todo' = [todo EXCEPT ![p] = @ \ {r}]
      /\ Open(r, "OUTCOME_UNKNOWN") \/ Transition(r, "OUTCOME_UNKNOWN")
      /\ UNCHANGED <<chainVars, callVars, down, crashes, ledger, disabled, signed, pc>>
  BY DEF Recover
<1>2. "OUTCOME_UNKNOWN" \in DOMAIN NextStates \ {"none", "SUBMISSION_ACKNOWLEDGED"}
  BY JournalStates
<1>3. JournalType' /\ JournalSafe'
  BY <1>1, <1>2, WriteKept DEF chainVars
<1>4. ProcType'
  BY <1>1 DEF IssuanceInv, TypeInv, ProcType
<1>5. TypeInv'
  BY <1>1, <1>3, <1>4 DEF IssuanceInv, TypeInv, LedgerType, ChainType, PcType, CallType, chainVars, callVars
<1>6. LedgerSafe'
  BY <1>1 DEF IssuanceInv, LedgerSafe, ClosedIsUnissued, DeadlinesInLifetime, SlotsDistinct
<1>7. CustodySafe'
  BY <1>1, CustodyKept DEF IssuanceInv, chainVars
<1> QED
  BY <1>3, <1>5, <1>6, <1>7 DEF IssuanceInv

------------------------------------------------------------------------------
(* The theorems.                                                            *)

\* Every step keeps the invariant.
LEMMA NextInv == IssuanceInv /\ [Next]_vars => IssuanceInv'
<1> SUFFICES ASSUME IssuanceInv, [Next]_vars PROVE IssuanceInv'
  OBVIOUS
<1>1. ASSUME NEW c \in Calls, IssueStep(c) PROVE IssuanceInv'
  <2>1. CASE Resolve(c)
    BY <2>1, ResolveInv
  <2>2. CASE ReadEvidence(c)
    BY <2>2, ReadEvidenceInv
  <2>3. CASE CheckSlot(c)
    BY <2>3, CheckSlotInv
  <2>4. CASE AdmitRead(c)
    <3>1. c \in Positions /\ "deciding" \in Labels \ Holding
      BY DEF Positions, Labels, Holding, Unsent
    <3> QED
      BY <2>4, <3>1, ReadInv DEF AdmitRead
  <2>5. CASE \E ok \in BOOLEAN : AdmitAttempt(c, ok)
    BY <2>5, AdmitInv
  <2>6. CASE SignAdmitted(c)
    BY <2>6, SignInv
  <2>7. CASE RecordUnsigned(c)
    BY <2>7, RecordUnsignedInv
  <2>8. CASE OpenIssued(c)
    BY <2>8, OpenIssuedInv
  <2>9. CASE Preflight(c)
    BY <2>9, PreflightInv
  <2>10. CASE Submit(c)
    BY <2>10, SubmitInv
  <2>11. CASE Receipt(c)
    BY <2>11, ReceiptInv
  <2> QED
    BY <1>1, <2>1, <2>2, <2>3, <2>4, <2>5, <2>6, <2>7, <2>8, <2>9, <2>10, <2>11 DEF IssueStep
<1>2. ASSUME NEW k \in Closers, CloseStep(k) PROVE IssuanceInv'
  <2>1. CASE CloseRead(k)
    <3>1. k \in Positions /\ "closing" \in Labels \ Holding
      BY DEF Positions, Labels, Holding, Unsent
    <3> QED
      BY <2>1, <3>1, ReadInv DEF CloseRead
  <2>2. CASE \E t \in 0 .. MaxTime, ok \in BOOLEAN : CloseNeverIssued(k, t, ok)
    BY <2>2, CloseInv
  <2> QED
    BY <1>2, <2>1, <2>2 DEF CloseStep
<1>3. ASSUME NEW p \in Procs, RecoverStep(p) PROVE IssuanceInv'
  BY <1>3, RecoverInv DEF RecoverStep
<1>4. ASSUME NEW p \in Procs, Crash(p) PROVE IssuanceInv'
  BY <1>4, CrashInv
<1>5. ASSUME NEW r \in Records, Execute(r) PROVE IssuanceInv'
  BY <1>5, ExecuteInv
<1>6. ASSUME NEW r \in Records, Revoke(r) PROVE IssuanceInv'
  BY <1>6, RevokeInv
<1>7. CASE Tick \/ SetAdapter \/ \E p \in Procs : Restart(p)
  BY <1>7, AroundInv
<1>8. CASE UNCHANGED vars
  <2>1. TypeInv'
    BY <1>8 DEF vars, IssuanceInv, TypeInv, JournalType, LedgerType, ChainType, PcType, CallType, ProcType
  <2> QED
    BY <1>8, <2>1, QuietInv DEF vars
<1> QED
  BY <1>1, <1>2, <1>3, <1>4, <1>5, <1>6, <1>7, <1>8 DEF Next

\* The invariant holds throughout.
LEMMA Invariance == Spec => []IssuanceInv
BY InitInv, NextInv, PTL DEF Spec

(***************************************************************************)
(* Every reachable state of issuance is well typed; the compare-and-append *)
(* of a caller stays within its retry policy and the next slot is always   *)
(* defined.                                                                *)
(***************************************************************************)
THEOREM IssuanceTypeCorrect == Spec => []TypeOK
<1>1. IssuanceInv => TypeOK
  BY TypeGroups DEF IssuanceInv
<1> QED
  BY <1>1, Invariance, PTL

(***************************************************************************)
(* What closeNeverIssued released is never signed, sent or settled, for    *)
(* any number of processes, calls, closers and crashes.                    *)
(***************************************************************************)
THEOREM ClosedNeverIssues == Spec => []NeverIssuedMeansNever
<1>1. IssuanceInv => NeverIssuedMeansNever
  <2> SUFFICES ASSUME IssuanceInv, NEW r \in ledger.closed
               PROVE  r \notin Admitted(ledger) /\ r \notin signed /\ sends[r] = 0 /\ landed[r] = 0
    BY DEF NeverIssuedMeansNever
  <2>1. r \in Records
    BY DEF IssuanceInv, TypeInv, LedgerType, Ledgers
  <2>2. r \notin Admitted(ledger)
    BY <2>1 DEF IssuanceInv, LedgerSafe, ClosedIsUnissued
  <2> QED
    BY <2>1, <2>2 DEF IssuanceInv, CustodySafe, SignedIsAdmitted, SentIsAdmitted, LandedIsSent
<1> QED
  BY <1>1, Invariance, PTL

(***************************************************************************)
(* No authorization's artifact is broadcast twice by the signers, for any  *)
(* number of concurrent calls, processes and recoveries.                   *)
(***************************************************************************)
THEOREM BroadcastOnce == Spec => []SentAtMostOnce
<1>1. IssuanceInv => SentAtMostOnce
  BY DEF IssuanceInv, CustodySafe
<1> QED
  BY <1>1, Invariance, PTL

(***************************************************************************)
(* Whatever may be on the network has a journal row that says so, and an   *)
(* acknowledged row was executed.                                          *)
(***************************************************************************)
THEOREM JournalCoversBroadcasts == Spec => [](BroadcastIsJournaled /\ AcknowledgedWasExecuted)
<1>1. IssuanceInv => BroadcastIsJournaled /\ AcknowledgedWasExecuted
  BY DEF IssuanceInv, JournalSafe
<1> QED
  BY <1>1, Invariance, PTL

(***************************************************************************)
(* Distinct attempts hold distinct slots.                                  *)
(***************************************************************************)
THEOREM SlotsStayDistinct == Spec => []SlotsDistinct
<1>1. IssuanceInv => SlotsDistinct
  BY DEF IssuanceInv, LedgerSafe
<1> QED
  BY <1>1, Invariance, PTL

(***************************************************************************)
(* The gate executes an authorization only inside its lifetime.            *)
(***************************************************************************)
THEOREM LifetimeRespected == Spec => ExecutedInLifetime
<1> DEFINE InLifetime == \A r \in Records : landed'[r] # landed[r] => now < ValidUntil[r]
<1>1. ASSUME IssuanceInv, NEW q \in Records, Execute(q) PROVE InLifetime
  <2>1. landed \in [Records -> Nat] /\ now \in Nat /\ sends \in [Records -> Nat] /\ ledger \in Ledgers
    BY <1>1, IssuanceBoundsAssumption DEF IssuanceInv, TypeInv, ChainType, LedgerType
  <2>2. q \in Admitted(ledger)
    BY <1>1, <2>1 DEF IssuanceInv, CustodySafe, SentIsAdmitted, Execute
  <2>3. ledger.attempt[q].deadline \in Nat /\ ValidUntil[q] \in Nat
    <3>1. ledger.attempt \in [Records -> Artifacts \cup {NoAttempt}]
      BY <2>1 DEF Ledgers
    <3>2. ledger.attempt[q] \in Artifacts
      BY <3>1, <2>2 DEF Admitted
    <3> QED
      BY <3>2, RecordAssumption DEF Artifacts
  <2>4. ledger.attempt[q].deadline < ValidUntil[q]
    BY <1>1, <2>2 DEF IssuanceInv, LedgerSafe, DeadlinesInLifetime
  <2>5. now <= ledger.attempt[q].deadline
    BY <1>1 DEF Execute, GateAccepts
  <2>6. now < ValidUntil[q]
    BY <2>1, <2>3, <2>4, <2>5
  <2>7. \A r \in Records : landed'[r] # landed[r] => r = q
    BY <1>1, <2>1 DEF Execute
  <2> QED
    BY <2>6, <2>7
<1>2. ASSUME UNCHANGED landed PROVE InLifetime
  BY <1>2
<1>3. ASSUME Next, ~ (\E q \in Records : Execute(q)) PROVE UNCHANGED landed
  <2>1. ASSUME NEW c \in Calls, IssueStep(c) PROVE UNCHANGED landed
    BY <2>1 DEF IssueStep, Resolve, ReadEvidence, CheckSlot, AdmitRead, Read, AdmitAttempt, SignAdmitted,
       RecordUnsigned, OpenIssued, Preflight, Submit, Receipt, chainVars
  <2>2. ASSUME NEW k \in Closers, CloseStep(k) PROVE UNCHANGED landed
    BY <2>2 DEF CloseStep, CloseRead, Read, CloseNeverIssued, chainVars
  <2>3. ASSUME NEW p \in Procs, RecoverStep(p) \/ Crash(p) \/ Restart(p) PROVE UNCHANGED landed
    BY <2>3 DEF RecoverStep, Recover, Crash, Restart, chainVars
  <2>4. ASSUME (\E r \in Records : Revoke(r)) \/ SetAdapter \/ Tick PROVE UNCHANGED landed
    BY <2>4 DEF Revoke, SetAdapter, Tick, chainVars
  <2> QED
    BY <1>3, <2>1, <2>2, <2>3, <2>4 DEF Next
<1>4. IssuanceInv /\ [Next]_vars => [InLifetime]_vars
  BY <1>1, <1>2, <1>3
<1> QED
  BY <1>4, Invariance, PTL DEF Spec, ExecutedInLifetime

------------------------------------------------------------------------------
(* One signer process.                                                      *)

OneSigner == \A p, q \in Procs : p = q

\* The process of c is dead, or inside recover().
Stopped(c) == ProcOf[c] \in down \/ todo[ProcOf[c]] # {}

StoppedHoldNothing == \A c \in Calls : Stopped(c) => pc[c] \notin Unsent

RowsExact ==
    \A c \in Calls :
        /\ pc[c] = "preflight" => journal[RecordOf[c]] = "ARTIFACT_ISSUED"
        /\ pc[c] = "submitting" => journal[RecordOf[c]] = "SUBMISSION_SENT"

AwaitersSent == \A c \in Calls : pc[c] = "receipt" => sends[RecordOf[c]] # 0

(***************************************************************************)
(* With one process, recovery runs only when no call holds an attempt, so  *)
(* the row of a call's attempt is exactly what that call wrote.            *)
(***************************************************************************)
SignerInv == StoppedHoldNothing /\ RowsExact /\ AwaitersSent

\* No call holds, awaits or is stopped at first.
LEMMA SignerInit == Init => SignerInv
<1> SUFFICES ASSUME Init PROVE SignerInv
  OBVIOUS
<1>1. \A c \in Calls : pc[c] = "called"
  BY DEF Init
<1> QED
  BY <1>1 DEF SignerInv, StoppedHoldNothing, RowsExact, AwaitersSent, Unsent

(***************************************************************************)
(* A step that leaves the journal and the broadcasts alone, takes a call   *)
(* no nearer to its submission and stops none that holds an attempt.       *)
(***************************************************************************)
LEMMA SignerQuiet ==
    ASSUME SignerInv, UNCHANGED <<journal, sends>>,
           \A c \in Calls : pc'[c] \in {"preflight", "submitting", "receipt"} => pc'[c] = pc[c],
           \A c \in Calls : pc'[c] \in Unsent => pc[c] \in Unsent \/ ~Stopped(c),
           \A c \in Calls : Stopped(c)' => Stopped(c)
    PROVE  SignerInv'
<1>1. RowsExact' /\ AwaitersSent'
  BY DEF SignerInv, RowsExact, AwaitersSent
<1>2. StoppedHoldNothing'
  BY DEF SignerInv, StoppedHoldNothing
<1> QED
  BY <1>1, <1>2 DEF SignerInv

(***************************************************************************)
(* A call that holds an attempt, or awaits its receipt, writes the row of  *)
(* its record and moves on; no other call depends on that row.             *)
(***************************************************************************)
LEMMA SignerWrites ==
    ASSUME IssuanceInv, SignerInv, NEW c \in Calls, pc[c] \in Unsent \cup {"receipt"},
           NEW label \in Labels, Goto(c, label), UNCHANGED procVars,
           \A r \in Records : r # RecordOf[c] => journal'[r] = journal[r],
           \A r \in Records : sends[r] # 0 => sends'[r] # 0,
           label = "preflight" => journal'[RecordOf[c]] = "ARTIFACT_ISSUED",
           label = "submitting" => journal'[RecordOf[c]] = "SUBMISSION_SENT",
           label = "receipt" => sends'[RecordOf[c]] # 0,
           label \in Unsent => pc[c] \in Unsent
    PROVE  SignerInv'
<1>1. pc'[c] = label /\ \A d \in Calls \ {c} : pc'[d] = pc[d]
  BY GotoTyped DEF IssuanceInv, TypeInv, Positions
<1>2. \A d \in Calls : RecordOf[d] \in Records
  BY CallerAssumption
<1>3. ASSUME NEW d \in Calls \ {c}, pc[d] \in Unsent PROVE RecordOf[d] # RecordOf[c]
  <2>1. CASE pc[c] \in Unsent
    BY <1>3, <2>1 DEF IssuanceInv, CustodySafe, HoldersApart
  <2>2. CASE pc[c] = "receipt"
    <3>1. sends[RecordOf[c]] # 0
      BY <2>2 DEF SignerInv, AwaitersSent
    <3>2. sends[RecordOf[d]] = 0
      BY <1>3 DEF IssuanceInv, CustodySafe, HoldersUnsent
    <3> QED
      BY <3>1, <3>2
  <2> QED
    BY <2>1, <2>2
<1>4. RowsExact'
  <2> SUFFICES ASSUME NEW d \in Calls
               PROVE  /\ pc'[d] = "preflight" => journal'[RecordOf[d]] = "ARTIFACT_ISSUED"
                      /\ pc'[d] = "submitting" => journal'[RecordOf[d]] = "SUBMISSION_SENT"
    BY DEF RowsExact
  <2>1. CASE d = c
    BY <1>1, <2>1
  <2>2. CASE d # c /\ pc[d] \in {"preflight", "submitting"}
    <3>1. RecordOf[d] # RecordOf[c]
      BY <1>3, <2>2, Places
    <3> QED
      BY <1>1, <1>2, <2>2, <3>1 DEF SignerInv, RowsExact
  <2>3. CASE d # c /\ pc[d] \notin {"preflight", "submitting"}
    BY <1>1, <2>3
  <2> QED
    BY <2>1, <2>2, <2>3
<1>5. AwaitersSent'
  BY <1>1, <1>2 DEF SignerInv, AwaitersSent
<1>6. StoppedHoldNothing'
  <2>1. \A d \in Calls : Stopped(d)' <=> Stopped(d)
    BY DEF Stopped, procVars
  <2>2. \A d \in Calls : pc'[d] \in Unsent => pc[d] \in Unsent
    BY <1>1
  <2> QED
    BY <2>1, <2>2 DEF SignerInv, StoppedHoldNothing
<1> QED
  BY <1>4, <1>5, <1>6 DEF SignerInv

\* What a transition of the journal does to the row, if it is in the table, and to the others.
LEMMA TransitionRow ==
    ASSUME JournalType, NEW r \in Records, NEW s, Transition(r, s)
    PROVE  /\ s \in NextStates[journal[r]] => journal'[r] = s
           /\ \A q \in Records : q # r => journal'[q] = journal[q]
  BY DEF JournalType, Transition

(***************************************************************************)
(* A step of a call keeps the rows exact.                                  *)
(***************************************************************************)
LEMMA SignerIssue ==
    ASSUME IssuanceInv, SignerInv, NEW c \in Calls, IssueStep(c)
    PROVE  SignerInv'
<1> DEFINE r == RecordOf[c]
<1>0. r \in Records /\ JournalType /\ c \in Positions /\ sends \in [Records -> Nat]
  BY CallerAssumption DEF IssuanceInv, TypeInv, Positions, ChainType
<1>1. CASE Resolve(c) \/ ReadEvidence(c) \/ CheckSlot(c) \/ AdmitRead(c)
            \/ (\E ok \in BOOLEAN : AdmitAttempt(c, ok)) \/ SignAdmitted(c)
  <2>1. UNCHANGED <<journal, sends, down, todo>> /\ ~Stopped(c)
    BY <1>1 DEF Resolve, ReadEvidence, CheckSlot, AdmitRead, Read, AdmitAttempt, SignAdmitted,
       HasThread, Stopped, chainVars, procVars
  <2>2. \E label \in {"returned", "evidence", "slot", "admitting", "deciding", "signing",
                      "opening", "unsigned"} : Goto(c, label)
    BY <1>1 DEF Resolve, ReadEvidence, CheckSlot, AdmitRead, Read, AdmitAttempt, LostRace, SignAdmitted
  <2>3. \A d \in Calls : d # c => pc'[d] = pc[d]
    BY <2>2 DEF Goto, IssuanceInv, TypeInv, PcType, Positions
  <2>4. pc'[c] \notin {"preflight", "submitting", "receipt"}
    BY <2>2, <1>0 DEF Goto, IssuanceInv, TypeInv, PcType
  <2>5. \A d \in Calls : Stopped(d)' => Stopped(d)
    BY <2>1 DEF Stopped
  <2> QED
    BY <2>1, <2>3, <2>4, <2>5, SignerQuiet
<1>2. CASE RecordUnsigned(c)
  <2>1. Goto(c, "returned") /\ pc[c] \in Unsent /\ UNCHANGED <<procVars, sends>>
    BY <1>2, Places DEF RecordUnsigned, chainVars
  <2>2. \A q \in Records : q # r => journal'[q] = journal[q]
    BY <1>0, <1>2 DEF RecordUnsigned, Open, JournalType
  <2> QED
    BY <2>1, <2>2, Places, SignerWrites
<1>3. CASE OpenIssued(c)
  <2>1. /\ Goto(c, IF CanOpen(r) THEN "preflight" ELSE "returned")
        /\ pc[c] \in Unsent /\ UNCHANGED <<procVars, sends>>
    BY <1>3, Places DEF OpenIssued, chainVars
  <2>2. /\ \A q \in Records : q # r => journal'[q] = journal[q]
        /\ CanOpen(r) => journal'[r] = "ARTIFACT_ISSUED"
    BY <1>0, <1>3 DEF OpenIssued, Open, JournalType
  <2>3. CASE CanOpen(r)
    BY <2>1, <2>2, <2>3, Places, SignerWrites
  <2>4. CASE ~CanOpen(r)
    BY <2>1, <2>2, <2>4, Places, SignerWrites
  <2> QED
    BY <2>3, <2>4
<1>4. CASE Preflight(c)
  <2>1. pc[c] = "preflight" /\ pc[c] \in Unsent /\ UNCHANGED <<procVars, sends>>
    BY <1>4, Places DEF Preflight, chainVars
  <2>2. journal[r] = "ARTIFACT_ISSUED"
    BY <2>1 DEF SignerInv, RowsExact
  <2>3. CASE Transition(r, "OUTCOME_UNKNOWN") /\ Goto(c, "returned")
    BY <1>0, <2>1, <2>3, Places, TransitionRow, SignerWrites
  <2>4. CASE Transition(r, "SUBMISSION_SENT") /\ Goto(c, "submitting")
    <3>1. "SUBMISSION_SENT" \in NextStates[journal[r]]
      BY <2>2 DEF NextStates
    <3>2. journal'[r] = "SUBMISSION_SENT" /\ \A q \in Records : q # r => journal'[q] = journal[q]
      BY <1>0, <2>4, <3>1, TransitionRow
    <3> QED
      BY <2>1, <2>4, <3>2, Places, SignerWrites
  <2> QED
    BY <1>4, <2>3, <2>4 DEF Preflight
<1>5. CASE Submit(c)
  <2>1. pc[c] \in Unsent /\ UNCHANGED procVars
    BY <1>5, Places DEF Submit
  <2>2. /\ \A q \in Records : q # r => journal'[q] = journal[q]
        /\ \A q \in Records : sends[q] # 0 => sends'[q] # 0
    BY <1>0, <1>5, TransitionRow DEF Submit
  <2>3. \/ Goto(c, "receipt") /\ sends'[r] # 0
        \/ Goto(c, "returned")
    BY <1>0, <1>5 DEF Submit
  <2>4. CASE Goto(c, "receipt") /\ sends'[r] # 0
    BY <2>1, <2>2, <2>4, Places, SignerWrites
  <2>5. CASE Goto(c, "returned")
    BY <2>1, <2>2, <2>5, Places, SignerWrites
  <2> QED
    BY <2>3, <2>4, <2>5
<1>6. CASE Receipt(c)
  <2>1. pc[c] = "receipt" /\ Goto(c, "returned") /\ UNCHANGED <<procVars, sends>>
    BY <1>6 DEF Receipt, chainVars
  <2>2. \A q \in Records : q # r => journal'[q] = journal[q]
    BY <1>0, <1>6, TransitionRow DEF Receipt
  <2> QED
    BY <2>1, <2>2, Places, SignerWrites
<1> QED
  BY <1>1, <1>2, <1>3, <1>4, <1>5, <1>6 DEF IssueStep

\* Every step keeps the rows exact, with one signer process.
LEMMA SignerStep == OneSigner /\ IssuanceInv /\ SignerInv /\ [Next]_vars => SignerInv'
<1> SUFFICES ASSUME OneSigner, IssuanceInv, SignerInv, [Next]_vars PROVE SignerInv'
  OBVIOUS
<1>0. /\ \A c \in Calls : ProcOf[c] \in Procs /\ RecordOf[c] \in Records
      /\ PcType /\ ProcType /\ JournalType
  BY CallerAssumption DEF IssuanceInv, TypeInv
<1>1. ASSUME NEW c \in Calls, IssueStep(c) PROVE SignerInv'
  BY <1>1, SignerIssue
<1>2. ASSUME NEW k \in Closers, CloseStep(k) PROVE SignerInv'
  <2>1. UNCHANGED <<journal, sends, down, todo>>
    BY <1>2 DEF CloseStep, CloseRead, Read, CloseNeverIssued, chainVars, procVars
  <2>2. \E label : Goto(k, label)
    BY <1>2 DEF CloseStep, CloseRead, Read, CloseNeverIssued, LostRace
  <2>3. \A c \in Calls : pc'[c] = pc[c]
    BY <1>0, <2>2, CallerAssumption DEF Goto, PcType, Positions
  <2> QED
    BY <2>1, <2>3, SignerQuiet DEF Stopped
<1>3. ASSUME NEW p \in Procs, NEW q \in Records, Recover(p, q) PROVE SignerInv'
  <2>1. todo[p] # {} /\ UNCHANGED <<pc, down, sends>> /\ todo' = [todo EXCEPT ![p] = @ \ {q}]
    BY <1>3 DEF Recover, chainVars, callVars
  <2>2. \A c \in Calls : ProcOf[c] = p
    BY <1>0 DEF OneSigner
  <2>3. \A c \in Calls : pc[c] \notin Unsent
    BY <2>1, <2>2 DEF SignerInv, StoppedHoldNothing, Stopped
  <2> QED
    BY <2>1, <2>3, Places DEF SignerInv, StoppedHoldNothing, RowsExact, AwaitersSent
<1>4. ASSUME NEW p \in Procs, Crash(p) PROVE SignerInv'
  <2>1. UNCHANGED <<journal, sends>> /\ down' = down \cup {p} /\ todo' = [todo EXCEPT ![p] = {}]
    BY <1>4 DEF Crash, chainVars
  <2>2. \A c \in Calls : pc'[c] \in {pc[c], "lost"}
    BY <1>0, <1>4 DEF Crash, PcType, Positions
  <2>3. \A c \in Calls : ProcOf[c] = p => pc'[c] \notin Unsent
    BY <1>0, <1>4 DEF Crash, PcType, Positions, Unsent
  <2>4. StoppedHoldNothing'
    BY <1>0, <2>3 DEF StoppedHoldNothing, OneSigner
  <2>5. RowsExact' /\ AwaitersSent'
    BY <2>1, <2>2 DEF SignerInv, RowsExact, AwaitersSent
  <2> QED
    BY <2>4, <2>5 DEF SignerInv
<1>5. ASSUME NEW p \in Procs, Restart(p) PROVE SignerInv'
  <2>1. UNCHANGED <<journal, sends, pc>> /\ p \in down
    BY <1>5 DEF Restart, chainVars
  <2>2. \A c \in Calls : ProcOf[c] = p
    BY <1>0 DEF OneSigner
  <2>3. \A c \in Calls : Stopped(c)
    BY <2>1, <2>2 DEF Stopped
  <2> QED
    BY <2>1, <2>3, SignerQuiet
<1>6. ASSUME (\E q \in Records : Execute(q) \/ Revoke(q)) \/ SetAdapter \/ Tick \/ UNCHANGED vars
      PROVE  SignerInv'
  <2>1. UNCHANGED <<journal, sends, pc, down, todo>>
    BY <1>6 DEF Execute, Revoke, SetAdapter, Tick, vars, chainVars, procVars
  <2> QED
    BY <2>1, SignerQuiet DEF Stopped
<1> QED
  BY <1>1, <1>2, <1>3, <1>4, <1>5, <1>6 DEF Next, RecoverStep

(***************************************************************************)
(* With one signer process and any number of calls, crashes and            *)
(* recoveries, an artifact goes out only while its row says                *)
(* SUBMISSION_SENT: never after recover() declared it unknown.             *)
(***************************************************************************)
THEOREM SendsAreRecorded == OneSigner => (Spec => SendIsRecorded)
<1> SUFFICES ASSUME OneSigner PROVE Spec => SendIsRecorded
  OBVIOUS
<1> DEFINE Recorded == \A r \in Records : sends'[r] # sends[r] => journal[r] = "SUBMISSION_SENT"
<1>1. ASSUME IssuanceInv, SignerInv, NEW c \in Calls, Submit(c) PROVE Recorded
  <2>1. RecordOf[c] \in Records /\ sends \in [Records -> Nat]
    BY <1>1, CallerAssumption DEF IssuanceInv, TypeInv, ChainType
  <2>2. journal[RecordOf[c]] = "SUBMISSION_SENT"
    BY <1>1 DEF Submit, SignerInv, RowsExact
  <2>3. \A r \in Records : sends'[r] # sends[r] => r = RecordOf[c]
    BY <1>1, <2>1 DEF Submit
  <2> QED
    BY <2>2, <2>3
<1>2. ASSUME Next, ~ (\E c \in Calls : Submit(c)) PROVE UNCHANGED sends
  <2>1. ASSUME NEW c \in Calls, IssueStep(c) PROVE UNCHANGED sends
    BY <1>2, <2>1 DEF IssueStep, Resolve, ReadEvidence, CheckSlot, AdmitRead, Read, AdmitAttempt,
       SignAdmitted, RecordUnsigned, OpenIssued, Preflight, Receipt, chainVars
  <2>2. ASSUME NEW k \in Closers, CloseStep(k) PROVE UNCHANGED sends
    BY <2>2 DEF CloseStep, CloseRead, Read, CloseNeverIssued, chainVars
  <2>3. ASSUME NEW p \in Procs, RecoverStep(p) \/ Crash(p) \/ Restart(p) PROVE UNCHANGED sends
    BY <2>3 DEF RecoverStep, Recover, Crash, Restart, chainVars
  <2>4. ASSUME (\E r \in Records : Execute(r) \/ Revoke(r)) \/ SetAdapter \/ Tick
        PROVE  UNCHANGED sends
    BY <2>4 DEF Execute, Revoke, SetAdapter, Tick, chainVars
  <2> QED
    BY <1>2, <2>1, <2>2, <2>3, <2>4 DEF Next
<1>3. IssuanceInv /\ SignerInv /\ [Next]_vars => [Recorded]_vars
  BY <1>1, <1>2
<1>4. IssuanceInv /\ SignerInv /\ [Next]_vars => SignerInv'
  BY SignerStep
<1> QED
  BY <1>3, <1>4, SignerInit, Invariance, PTL DEF Spec, SendIsRecorded
=============================================================================
