----------------------------- MODULE LighterProofs -----------------------------
(***************************************************************************)
(* Theorems about LighterIssuance, for any records, calls and processes,   *)
(* any lifetimes and any number of crashes and foreign transactions: the   *)
(* lane is serialized, a nonce is signed for one transaction ever, the     *)
(* signed artifact dies with its attempt and that with the authorization,  *)
(* and custody's slot journal never locks it out.                          *)
(***************************************************************************)
EXTENDS LighterIssuance, TLAPS

------------------------------------------------------------------------------
(* The inductive invariant.                                                 *)

\* The ledger holds exactly this transaction as its record's attempt.
Matches(tx) ==
    LET a == ledger.attempt[tx.record]
    IN  tx.record \in Records /\ a # NoAttempt /\ a.slot = tx.slot /\ a.expiredAt = tx.expiredAt

ReadLabels == {"constructing", "hashing", "admitting", "deciding"}
SigningLabels == {"signing", "verified", "slotted"}

\* What may be done until expiredAt and the order's expiry is over by validUntil.
Covers(r, expiredAt, validUntil) == expiredAt <= validUntil * Ms /\ OrderExpiry[r] <= validUntil * Ms

\* Every attempt has a slot of its own, one the venue had reached, and ends within its authorization.
AttemptsInv ==
    /\ \A r, s \in Admitted(ledger) : ledger.attempt[r].slot = ledger.attempt[s].slot => r = s
    /\ \A r \in Admitted(ledger) :
        LET a == ledger.attempt[r]
        IN  /\ a.slot <= nextNonce
            /\ Covers(r, a.expiredAt, a.validUntil) /\ a.validUntil <= ValidUntil[r]

(***************************************************************************)
(* A call carries a nonce the venue has reached and a lifetime rounded up, *)
(* and has an artifact signed only as the ledger holds it.                 *)
(***************************************************************************)
CallInv(c) ==
    /\ pc[c] \in ReadLabels \cup {"evidence"} =>
         Covers(RecordOf[c], work[c].expiredAt, work[c].validUntil)
    /\ pc[c] \in ReadLabels => work[c].slot <= nextNonce
    /\ pc[c] \in SigningLabels => Matches(Tx(c))
    /\ pc[c] = "slotted" => Tx(c) \in slotFile

\* What custody journaled, and so what it signed, the ledger holds.
SlotsInv == signed \subseteq slotFile /\ \A tx \in slotFile : Matches(tx)

LighterInv ==
    /\ TypeOK
    /\ AttemptsInv
    /\ \A c \in Calls : CallInv(c)
    /\ SlotsInv

------------------------------------------------------------------------------
(* Arithmetic and types.                                                    *)

(***************************************************************************)
(* Rounding up: the second an attempt ends in is not before its end.       *)
(***************************************************************************)
LEMMA AttemptEndCovers ==
    ASSUME NEW e \in Nat
    PROVE  AttemptEnd(e) \in Nat /\ e <= AttemptEnd(e) * Ms
<1> DEFINE n == e + Ms - 1
           q == n \div Ms
<1>1. n \in Nat /\ Ms \in Nat /\ Ms > 0
  BY LighterBoundsAssumption
<1>2. q \in Nat /\ n < (q + 1) * Ms
  BY <1>1
<1>3. (q + 1) * Ms = q * Ms + Ms
  BY <1>1, <1>2
<1>4. q * Ms \in Nat
  BY <1>1, <1>2
<1> QED
  BY <1>1, <1>2, <1>3, <1>4 DEF AttemptEnd

Works == [at : Nat, slot : Nat, expiredAt : Nat, validUntil : Nat, pass : BOOLEAN]
Labels == {"called", "evidence", "constructing", "hashing", "admitting", "deciding", "signing",
           "verified", "slotted", "unsigned", "opening", "sending", "submitting", "returned"}

CallsTyped == /\ pc \in [Calls -> Labels] /\ work \in [Calls -> Works]
              /\ snapshot \in [Calls -> Ledgers] /\ tries \in [Calls -> 1 .. MaxAttempts]
SlotsTyped == /\ slotFile \subseteq Txs /\ slotMem \in [Procs -> SUBSET Txs] /\ signed \subseteq Txs
JournalTyped == journal \in [Records -> DOMAIN NextStates]
RestTyped == /\ nowMs \in 0 .. MaxTime /\ ledger \in Ledgers /\ disabled \in BOOLEAN
             /\ mempool \subseteq Records /\ executed \subseteq Records
             /\ nextNonce \in Nat /\ foreign \in 0 .. MaxForeign
             /\ custody \subseteq Procs /\ down \subseteq Procs /\ crashes \in 0 .. MaxCrashes

\* The type invariant in its parts.
LEMMA TypeParts == TypeOK <=> CallsTyped /\ SlotsTyped /\ JournalTyped /\ RestTyped
BY DEF TypeOK, CallsTyped, SlotsTyped, JournalTyped, RestTyped, Works, Labels

\* The parts of the next state.
LEMMA TypePartsNext ==
    ASSUME CallsTyped', SlotsTyped', JournalTyped', RestTyped'
    PROVE  TypeOK'
BY DEF TypeOK, CallsTyped, SlotsTyped, JournalTyped, RestTyped, Works, Labels

\* Empty works and ledgers are typed.
LEMMA EmptyTyped == NoWork \in Works /\ EmptyLedger \in Ledgers
<1>1. NoWork \in Works
  BY DEF NoWork, Works
<1>2. EmptyLedger \in Ledgers
  BY DEF EmptyLedger, Ledgers
<1> QED
  BY <1>1, <1>2

(***************************************************************************)
(* The intent resolved at a time: typed, and its rounded end covers the    *)
(* transaction and the order.                                              *)
(***************************************************************************)
LEMMA IntentCovers ==
    ASSUME NEW r \in Records, NEW t \in Nat
    PROVE  /\ Intent(r, t) \in Works
           /\ Covers(r, Intent(r, t).expiredAt, Intent(r, t).validUntil)
<1> DEFINE x == IF t + TxTtl < ValidUntil[r] * Ms THEN t + TxTtl ELSE ValidUntil[r] * Ms
           e == IF OrderExpiry[r] > x THEN OrderExpiry[r] ELSE x
<1>1. ValidUntil[r] \in Nat /\ OrderExpiry[r] \in Nat /\ TxTtl \in Nat /\ Ms \in Nat \ {0}
  BY LighterRecordAssumption, LighterBoundsAssumption
<1>2. ValidUntil[r] * Ms \in Nat
  BY <1>1
<1>3. x \in Nat
  BY <1>1, <1>2
<1> HIDE DEF x
<1>4. e \in Nat /\ x <= e /\ OrderExpiry[r] <= e
  BY <1>1, <1>3
<1>5. Intent(r, t) = [at |-> t \div Ms, slot |-> 0, expiredAt |-> x, validUntil |-> AttemptEnd(e),
                      pass |-> TRUE]
  BY DEF Intent, x
<1> HIDE DEF e
<1>6. AttemptEnd(e) \in Nat /\ e <= AttemptEnd(e) * Ms
  BY <1>4, AttemptEndCovers
<1>7. AttemptEnd(e) * Ms \in Nat /\ t \div Ms \in Nat
  BY <1>1, <1>6
<1>8. Intent(r, t) \in Works
  BY <1>3, <1>5, <1>6, <1>7 DEF Works
<1>9. x <= AttemptEnd(e) * Ms /\ OrderExpiry[r] <= AttemptEnd(e) * Ms
  BY <1>1, <1>3, <1>4, <1>6, <1>7
<1>10. Intent(r, t).expiredAt = x /\ Intent(r, t).validUntil = AttemptEnd(e)
  BY <1>5
<1> QED
  BY <1>8, <1>9, <1>10 DEF Covers

\* The transaction of a call.
LEMMA TxTyped ==
    ASSUME CallsTyped, NEW c \in Calls
    PROVE  /\ Tx(c) \in Txs /\ Tx(c).record = RecordOf[c] /\ Tx(c).slot = work[c].slot
           /\ Tx(c).expiredAt = work[c].expiredAt /\ RecordOf[c] \in Records
<1>1. RecordOf[c] \in Records
  BY LighterRecordAssumption
<1>2. work[c].slot \in Nat /\ work[c].expiredAt \in Nat
  BY DEF CallsTyped, Works
<1> QED
  BY <1>1, <1>2 DEF Tx, Txs

\* The journal after an opening or a transition.
LEMMA JournalStepTyped ==
    ASSUME JournalTyped, NEW r \in Records, NEW s \in DOMAIN NextStates \ {"none"},
           Open(r, s) \/ Transition(r, s)
    PROVE  JournalTyped'
BY DEF JournalTyped, Open, Transition

\* The states of the issuance journal.
LEMMA StatesAre ==
    DOMAIN NextStates = {"none", "ARTIFACT_ISSUED", "SUBMISSION_SENT", "SUBMISSION_ACKNOWLEDGED",
                         "SUBMISSION_REJECTED", "OUTCOME_UNKNOWN"}
BY DEF NextStates

\* The ledger after an admission: one attempt more, the others as they were.
LEMMA AdmissionEffect ==
    ASSUME CallsTyped, ledger \in Ledgers, NEW c \in Calls
    PROVE  /\ Admission(c) \in Ledgers
           /\ Admission(c).attempt[RecordOf[c]] =
                [slot |-> work[c].slot, expiredAt |-> work[c].expiredAt, validUntil |-> work[c].validUntil]
           /\ Admission(c).attempt[RecordOf[c]] # NoAttempt
           /\ \A r \in Records \ {RecordOf[c]} : Admission(c).attempt[r] = ledger.attempt[r]
<1> DEFINE a == [slot |-> work[c].slot, expiredAt |-> work[c].expiredAt,
                 validUntil |-> work[c].validUntil]
           att == [ledger.attempt EXCEPT ![RecordOf[c]] = a]
<1>1. work[c] \in Works /\ RecordOf[c] \in Records
  BY LighterRecordAssumption DEF CallsTyped
<1>2. a \in Attempts /\ work[c].at \in Nat
  BY <1>1 DEF Works, Attempts
<1>3. a # NoAttempt
  BY <1>2, NoAttemptAssumption DEF Attempts
<1>4. ledger.attempt \in [Records -> Attempts \cup {NoAttempt}]
  BY DEF Ledgers
<1> HIDE DEF a
<1>5. att \in [Records -> Attempts \cup {NoAttempt}]
  BY <1>2, <1>4
<1>6. att[RecordOf[c]] = a /\ \A r \in Records \ {RecordOf[c]} : att[r] = ledger.attempt[r]
  BY <1>1, <1>4
<1>7. Admission(c) = [ledger EXCEPT !.attempt = att, !.lastAt = work[c].at]
  BY DEF Admission, a
<1> HIDE DEF att
<1>8. Admission(c) \in Ledgers /\ Admission(c).attempt = att
  BY <1>2, <1>5, <1>7 DEF Ledgers
<1> QED
  BY <1>3, <1>6, <1>8 DEF a

------------------------------------------------------------------------------
(* What every step does to the calls that do not take it.                   *)

\* The other calls stay where they are.
Frame(c) == \A d \in Calls : d # c => pc'[d] = pc[d] /\ work'[d] = work[d]

\* An attempt is never changed, the venue's nonce never falls and no line of the slot journal is lost.
Grows ==
    /\ \A r \in Records : ledger.attempt[r] # NoAttempt => ledger'.attempt[r] = ledger.attempt[r]
    /\ nextNonce <= nextNonce' /\ slotFile \subseteq slotFile'

\* What the ledger holds it keeps.
LEMMA MatchesKept ==
    ASSUME NEW tx, Matches(tx), Grows
    PROVE  Matches(tx)'
BY DEF Matches, Grows

\* A call that does not move keeps its part of the invariant.
LEMMA StillCall ==
    ASSUME NEW d \in Calls, CallsTyped, nextNonce \in Nat, nextNonce' \in Nat,
           pc'[d] = pc[d], work'[d] = work[d], CallInv(d), Grows
    PROVE  CallInv(d)'
<1>1. Tx(d)' = Tx(d)
  BY DEF Tx
<1>2. pc[d] \in SigningLabels => Matches(Tx(d))'
  BY <1>1 DEF CallInv, Matches, Grows
<1>3. pc[d] \in ReadLabels => work[d].slot <= nextNonce'
  <2>1. work[d].slot \in Nat
    BY DEF CallsTyped, Works
  <2> QED
    BY <2>1 DEF CallInv, Grows
<1> QED
  BY <1>1, <1>2, <1>3 DEF CallInv, Covers, Grows

\* A call that has returned, or waits to record, claims nothing.
LEMMA QuietCall ==
    ASSUME NEW c \in Calls, pc'[c] \notin ReadLabels \cup SigningLabels \cup {"evidence"}
    PROVE  CallInv(c)'
BY DEF CallInv, SigningLabels

\* A step of a call that leaves the ledger, the venue's nonce and custody's slots alone.
LEMMA CallStep ==
    ASSUME LighterInv, NEW c \in Calls, Frame(c), CallInv(c)',
           UNCHANGED <<ledger, nextNonce, slotFile, signed>>
    PROVE  AttemptsInv' /\ (\A d \in Calls : CallInv(d)') /\ SlotsInv'
<1>1. Grows
  BY SMT DEF Grows, LighterInv, TypeOK
<1>2. AttemptsInv'
  BY DEF LighterInv, AttemptsInv, Admitted, Covers
<1>3. SlotsInv'
  BY DEF LighterInv, SlotsInv, Matches
<1>4. \A d \in Calls : CallInv(d)'
  <2> SUFFICES ASSUME NEW d \in Calls, d # c PROVE CallInv(d)'
    OBVIOUS
  <2>1. pc'[d] = pc[d] /\ work'[d] = work[d] /\ CallInv(d)
    BY DEF Frame, LighterInv
  <2>2. CallsTyped /\ nextNonce \in Nat /\ nextNonce' \in Nat
    BY TypeParts DEF LighterInv, RestTyped
  <2> QED
    BY <1>1, <2>1, <2>2, StillCall
<1> QED
  BY <1>2, <1>3, <1>4

\* The call returns.
LEMMA ReturnEffect ==
    ASSUME CallsTyped, NEW c \in Calls, Return(c)
    PROVE  /\ Frame(c) /\ pc'[c] = "returned"
           /\ pc' \in [Calls -> Labels] /\ work' \in [Calls -> Works]
BY EmptyTyped DEF CallsTyped, Return, Goto, Frame, Labels

\* The call goes on with its work as it is.
LEMMA GotoEffect ==
    ASSUME CallsTyped, NEW c \in Calls, NEW label \in Labels, Goto(c, label), UNCHANGED work
    PROVE  /\ Frame(c) /\ pc'[c] = label /\ work'[c] = work[c]
           /\ pc' \in [Calls -> Labels] /\ work' \in [Calls -> Works]
BY DEF CallsTyped, Goto, Frame

\* The call goes on with new work.
LEMMA WorkEffect ==
    ASSUME CallsTyped, NEW c \in Calls, NEW label \in Labels, NEW w \in Works, Goto(c, label),
           work' = [work EXCEPT ![c] = w]
    PROVE  /\ Frame(c) /\ pc'[c] = label /\ work'[c] = w
           /\ pc' \in [Calls -> Labels] /\ work' \in [Calls -> Works]
BY DEF CallsTyped, Goto, Frame

------------------------------------------------------------------------------
(* The steps of a call.                                                     *)

\* Resolving and reading the venue.
LEMMA ResolveKept ==
    ASSUME LighterInv, NEW c \in Calls,
           Resolve(c) \/ (\E keys : ReadVenue(c, keys)) \/ Construct(c)
    PROVE  LighterInv'
<1>0. CallsTyped /\ SlotsTyped /\ JournalTyped /\ RestTyped /\ CallInv(c)
  BY TypeParts DEF LighterInv
<1>u. /\ UNCHANGED <<nowMs, mempool, executed, nextNonce, foreign, custody, down, crashes>>
      /\ UNCHANGED <<slotFile, slotMem, signed, snapshot, tries, ledger, disabled, journal>>
  BY DEF Resolve, ReadVenue, Construct, venueVars, procVars, slotVars
<1>r. RecordOf[c] \in Records /\ work[c] \in Works /\ nowMs \in Nat /\ nextNonce \in Nat
  BY <1>0, LighterRecordAssumption, LighterBoundsAssumption DEF CallsTyped, RestTyped
<1>1. /\ Frame(c) /\ CallInv(c)'
      /\ pc' \in [Calls -> Labels] /\ work' \in [Calls -> Works]
  <2>1. CASE Return(c)
    BY <1>0, <2>1, ReturnEffect, QuietCall DEF ReadLabels, SigningLabels
  <2>2. CASE Resolve(c) /\ ~Return(c)
    <3> DEFINE w == Intent(RecordOf[c], nowMs)
    <3>1. Goto(c, "evidence") /\ work' = [work EXCEPT ![c] = w]
      BY <2>2 DEF Resolve
    <3>2. w \in Works /\ Covers(RecordOf[c], w.expiredAt, w.validUntil)
      BY <1>r, IntentCovers
    <3> HIDE DEF w
    <3>3. /\ Frame(c) /\ pc'[c] = "evidence" /\ work'[c] = w
          /\ pc' \in [Calls -> Labels] /\ work' \in [Calls -> Works]
      BY <1>0, <3>1, <3>2, WorkEffect DEF Labels
    <3>4. CallInv(c)'
      BY <3>2, <3>3 DEF CallInv, Covers, ReadLabels, SigningLabels
    <3> QED
      BY <3>3, <3>4
  <2>3. CASE (\E keys : ReadVenue(c, keys)) /\ ~Return(c)
    <3>1. PICK keys : ReadVenue(c, keys)
      BY <2>3
    <3> DEFINE w == [work[c] EXCEPT !.slot = nextNonce, !.pass = CredentialScope(keys)]
    <3>2. CredentialScope(keys) \in BOOLEAN
      BY DEF CredentialScope
    <3>3. /\ Goto(c, "constructing") /\ pc[c] = "evidence"
          /\ work' = [work EXCEPT ![c].slot = nextNonce, ![c].pass = CredentialScope(keys)]
      BY <2>3, <3>1 DEF ReadVenue
    <3>4. work' = [work EXCEPT ![c] = w]
      BY <1>0, <1>r, <3>3 DEF CallsTyped
    <3>5. /\ w \in Works /\ w.expiredAt = work[c].expiredAt /\ w.validUntil = work[c].validUntil
          /\ w.slot = nextNonce
      BY <1>r, <3>2 DEF Works
    <3> HIDE DEF w
    <3>6. /\ Frame(c) /\ pc'[c] = "constructing" /\ work'[c] = w
          /\ pc' \in [Calls -> Labels] /\ work' \in [Calls -> Works]
      BY <1>0, <3>3, <3>4, <3>5, WorkEffect DEF Labels
    <3>7. CallInv(c)'
      BY <1>0, <1>u, <1>r, <3>3, <3>5, <3>6 DEF CallInv, Covers, ReadLabels, SigningLabels
    <3> QED
      BY <3>6, <3>7
  <2>4. CASE Construct(c)
    <3> DEFINE pass == work[c].pass /\ NonceSlot(work[c].slot, ledger)
               w == [work[c] EXCEPT !.pass = pass]
    <3>1. /\ Goto(c, "hashing") /\ pc[c] = "constructing"
          /\ work' = [work EXCEPT ![c].pass = pass]
      BY <1>0, <2>4 DEF Construct, CallsTyped
    <3>2. pass \in BOOLEAN
      OBVIOUS
    <3> HIDE DEF pass
    <3>3. work' = [work EXCEPT ![c] = w]
      BY <1>0, <1>r, <3>1 DEF CallsTyped
    <3>4. /\ w \in Works /\ w.expiredAt = work[c].expiredAt /\ w.validUntil = work[c].validUntil
          /\ w.slot = work[c].slot
      BY <1>r, <3>2 DEF Works
    <3> HIDE DEF w
    <3>5. /\ Frame(c) /\ pc'[c] = "hashing" /\ work'[c] = w
          /\ pc' \in [Calls -> Labels] /\ work' \in [Calls -> Works]
      BY <1>0, <3>1, <3>3, <3>4, WorkEffect DEF Labels
    <3>6. CallInv(c)'
      BY <1>0, <1>u, <1>r, <3>1, <3>4, <3>5 DEF CallInv, Covers, ReadLabels, SigningLabels
    <3> QED
      BY <3>5, <3>6
  <2> QED
    BY <2>1, <2>2, <2>3, <2>4
<1>2. AttemptsInv' /\ (\A d \in Calls : CallInv(d)') /\ SlotsInv'
  BY <1>1, <1>u, CallStep
<1>3. TypeOK'
  <2>1. CallsTyped'
    BY <1>0, <1>1, <1>u DEF CallsTyped
  <2>2. SlotsTyped' /\ JournalTyped' /\ RestTyped'
    BY <1>0, <1>u DEF SlotsTyped, JournalTyped, RestTyped
  <2> QED
    BY <2>1, <2>2, TypePartsNext
<1> QED
  BY <1>2, <1>3 DEF LighterInv

\* Hashing, and reading the ledger to decide on.
LEMMA HashKept ==
    ASSUME LighterInv, NEW c \in Calls, HashTx(c) \/ AdmitRead(c)
    PROVE  LighterInv'
<1>0. CallsTyped /\ SlotsTyped /\ JournalTyped /\ RestTyped /\ CallInv(c)
  BY TypeParts DEF LighterInv
<1>u. /\ UNCHANGED <<nowMs, mempool, executed, nextNonce, foreign, custody, down, crashes>>
      /\ UNCHANGED <<slotFile, slotMem, signed, tries, ledger, disabled, journal>>
  BY DEF HashTx, AdmitRead, venueVars, procVars, slotVars
<1>1. snapshot' \in [Calls -> Ledgers]
  BY <1>0 DEF HashTx, AdmitRead, CallsTyped, RestTyped
<1>2. /\ Frame(c) /\ CallInv(c)'
      /\ pc' \in [Calls -> Labels] /\ work' \in [Calls -> Works]
  <2>1. CASE Return(c)
    BY <1>0, <2>1, ReturnEffect, QuietCall DEF ReadLabels, SigningLabels
  <2>2. CASE ~Return(c)
    <3>1. /\ pc[c] \in {"hashing", "admitting"} /\ work' = work
          /\ \E label \in {"admitting", "deciding"} : Goto(c, label)
      BY <2>2 DEF HashTx, AdmitRead
    <3>2. /\ Frame(c) /\ pc'[c] \in {"admitting", "deciding"} /\ work'[c] = work[c]
          /\ pc' \in [Calls -> Labels] /\ work' \in [Calls -> Works]
      BY <1>0, <3>1, GotoEffect DEF Labels
    <3>3. CallInv(c)'
      BY <1>0, <1>u, <3>1, <3>2 DEF CallInv, Covers, ReadLabels, SigningLabels
    <3> QED
      BY <3>2, <3>3
  <2> QED
    BY <2>1, <2>2
<1>3. AttemptsInv' /\ (\A d \in Calls : CallInv(d)') /\ SlotsInv'
  BY <1>2, <1>u, CallStep
<1>4. TypeOK'
  <2>1. CallsTyped'
    BY <1>0, <1>1, <1>2, <1>u DEF CallsTyped
  <2>2. SlotsTyped' /\ JournalTyped' /\ RestTyped'
    BY <1>0, <1>u DEF SlotsTyped, JournalTyped, RestTyped
  <2> QED
    BY <2>1, <2>2, TypePartsNext
<1> QED
  BY <1>3, <1>4 DEF LighterInv

(***************************************************************************)
(* ADMIT_ATTEMPT on the ledger as it is: the new attempt has a slot of its *)
(* own, one the venue had reached, and a lifetime inside the               *)
(* authorization; the call's transaction is the attempt's.                 *)
(***************************************************************************)
LEMMA AdmissionKept ==
    ASSUME LighterInv, NEW c \in Calls, NEW ok, pc[c] = "deciding",
           RecordOf[c] \notin Admitted(ledger), MayAdmit(ledger, RecordOf[c], work[c], ok),
           ledger' = Admission(c), Goto(c, "signing"),
           UNCHANGED <<work, nextNonce, slotFile, signed>>
    PROVE  AttemptsInv' /\ (\A d \in Calls : CallInv(d)') /\ SlotsInv'
<1>0. CallsTyped /\ ledger \in Ledgers /\ CallInv(c) /\ nextNonce \in Nat
  BY TypeParts DEF LighterInv, RestTyped
<1> DEFINE r == RecordOf[c]
           a == ledger'.attempt[r]
<1>1. /\ ledger' \in Ledgers /\ a # NoAttempt /\ r \in Records
      /\ a.slot = work[c].slot /\ a.expiredAt = work[c].expiredAt /\ a.validUntil = work[c].validUntil
      /\ \A s \in Records \ {r} : ledger'.attempt[s] = ledger.attempt[s]
  <2>1. /\ ledger' \in Ledgers /\ a # NoAttempt
        /\ a = [slot |-> work[c].slot, expiredAt |-> work[c].expiredAt,
                validUntil |-> work[c].validUntil]
        /\ \A s \in Records \ {r} : ledger'.attempt[s] = ledger.attempt[s]
    BY <1>0, AdmissionEffect, Zenon
  <2>2. r \in Records
    BY LighterRecordAssumption
  <2> HIDE DEF a
  <2> QED
    BY <2>1, <2>2
<1>2. Admitted(ledger') = Admitted(ledger) \cup {r}
  BY <1>1 DEF Admitted
<1>3. Grows
  BY <1>0, <1>1 DEF Grows, Admitted
<1>4. \A s \in Admitted(ledger) : s # r /\ s \in Records /\ ledger'.attempt[s] = ledger.attempt[s]
  BY <1>1 DEF Admitted
<1>5. \A s \in Admitted(ledger) : ledger.attempt[s].slot # work[c].slot
  BY DEF MayAdmit, SlotsOf
<1>6. /\ work[c].slot <= nextNonce /\ Covers(r, work[c].expiredAt, work[c].validUntil)
      /\ work[c].validUntil <= ValidUntil[r]
  BY <1>0 DEF CallInv, MayAdmit, ReadLabels
<1> HIDE DEF a, r
<1>7. AttemptsInv'
  <2>1. \A s, t \in Admitted(ledger') : ledger'.attempt[s].slot = ledger'.attempt[t].slot => s = t
    BY <1>1, <1>2, <1>4, <1>5 DEF LighterInv, AttemptsInv, a
  <2>2. ASSUME NEW s \in Admitted(ledger')
        PROVE  /\ ledger'.attempt[s].slot <= nextNonce
               /\ Covers(s, ledger'.attempt[s].expiredAt, ledger'.attempt[s].validUntil)
               /\ ledger'.attempt[s].validUntil <= ValidUntil[s]
    <3>1. CASE s = r
      BY <1>1, <1>6, <3>1 DEF a
    <3>2. CASE s \in Admitted(ledger)
      BY <1>4, <3>2 DEF LighterInv, AttemptsInv
    <3> QED
      BY <1>2, <2>2, <3>1, <3>2
  <2> QED
    BY <2>1, <2>2 DEF AttemptsInv, Admitted, Covers
<1>8. SlotsInv'
  BY <1>3, MatchesKept DEF LighterInv, SlotsInv
<1>9. \A d \in Calls : CallInv(d)'
  <2>1. Frame(c) /\ pc'[c] = "signing" /\ work'[c] = work[c]
    BY <1>0, GotoEffect DEF Labels
  <2>2. CallInv(c)'
    <3>1. Tx(c)' = Tx(c)
      BY <2>1 DEF Tx
    <3>2. Matches(Tx(c))'
      BY <1>0, <1>1, <3>1, TxTyped DEF Matches, a, r
    <3> QED
      BY <2>1, <3>2 DEF CallInv, ReadLabels
  <2>3. ASSUME NEW d \in Calls, d # c PROVE CallInv(d)'
    <3>1. pc'[d] = pc[d] /\ work'[d] = work[d] /\ CallInv(d)
      BY <2>1, <2>3 DEF Frame, LighterInv
    <3> QED
      BY <1>0, <1>3, <3>1, StillCall
  <2> QED
    BY <2>2, <2>3
<1> QED
  BY <1>7, <1>8, <1>9

\* The decision: the existing attempt, a refusal, an admission or another try.
LEMMA AdmitKept ==
    ASSUME LighterInv, NEW c \in Calls, NEW ok, AdmitAttempt(c, ok)
    PROVE  LighterInv'
<1>0. CallsTyped /\ SlotsTyped /\ JournalTyped /\ RestTyped /\ CallInv(c) /\ ledger \in Ledgers
  BY TypeParts DEF LighterInv, RestTyped
<1>u. /\ UNCHANGED <<nowMs, mempool, executed, nextNonce, foreign, custody, down, crashes>>
      /\ UNCHANGED <<slotFile, slotMem, signed, disabled, journal>> /\ pc[c] = "deciding"
  BY DEF AdmitAttempt, venueVars, procVars, slotVars
<1>1. snapshot' \in [Calls -> Ledgers]
  BY <1>0, EmptyTyped DEF AdmitAttempt, ForgetSnapshot, CallsTyped
<1>2. \/ Return(c) /\ ledger' = ledger /\ tries' = tries
      \/ /\ RecordOf[c] \notin Admitted(ledger) /\ MayAdmit(ledger, RecordOf[c], work[c], ok)
         /\ ledger' = Admission(c) /\ Goto(c, "signing") /\ work' = work /\ tries' = tries
      \/ /\ tries[c] < MaxAttempts /\ tries' = [tries EXCEPT ![c] = tries[c] + 1]
         /\ Goto(c, "admitting") /\ ledger' = ledger /\ work' = work
  BY <1>0 DEF AdmitAttempt, MayRetry, CallsTyped
<1>3. /\ AttemptsInv' /\ (\A d \in Calls : CallInv(d)') /\ SlotsInv'
      /\ pc' \in [Calls -> Labels] /\ work' \in [Calls -> Works]
      /\ tries' \in [Calls -> 1 .. MaxAttempts] /\ ledger' \in Ledgers
  <2>1. CASE Return(c) /\ ledger' = ledger /\ tries' = tries
    <3>1. /\ Frame(c) /\ CallInv(c)'
          /\ pc' \in [Calls -> Labels] /\ work' \in [Calls -> Works]
      BY <1>0, <2>1, ReturnEffect, QuietCall DEF ReadLabels, SigningLabels
    <3> QED
      BY <1>0, <1>u, <2>1, <3>1, CallStep DEF CallsTyped
  <2>2. CASE /\ RecordOf[c] \notin Admitted(ledger) /\ MayAdmit(ledger, RecordOf[c], work[c], ok)
             /\ ledger' = Admission(c) /\ Goto(c, "signing") /\ work' = work /\ tries' = tries
    <3>1. pc' \in [Calls -> Labels] /\ work' \in [Calls -> Works]
      BY <1>0, <2>2, GotoEffect DEF Labels
    <3> QED
      BY <1>0, <1>u, <2>2, <3>1, AdmissionKept, AdmissionEffect DEF CallsTyped
  <2>3. CASE /\ tries[c] < MaxAttempts /\ tries' = [tries EXCEPT ![c] = tries[c] + 1]
             /\ Goto(c, "admitting") /\ ledger' = ledger /\ work' = work
    <3>1. /\ Frame(c) /\ pc'[c] = "admitting" /\ work'[c] = work[c]
          /\ pc' \in [Calls -> Labels] /\ work' \in [Calls -> Works]
      BY <1>0, <2>3, GotoEffect DEF Labels
    <3>2. CallInv(c)'
      BY <1>0, <1>u, <2>3, <3>1 DEF CallInv, Covers, ReadLabels, SigningLabels
    <3>3. tries' \in [Calls -> 1 .. MaxAttempts]
      <4>1. tries[c] \in 1 .. MaxAttempts
        BY <1>0 DEF CallsTyped
      <4>2. tries[c] + 1 \in 1 .. MaxAttempts
        BY <2>3, <4>1, LighterBoundsAssumption
      <4> QED
        BY <1>0, <2>3, <4>2 DEF CallsTyped
    <3> QED
      BY <1>0, <1>u, <2>3, <3>1, <3>2, <3>3, CallStep
  <2> QED
    BY <1>2, <2>1, <2>2, <2>3
<1>4. TypeOK'
  <2>1. CallsTyped'
    BY <1>1, <1>3 DEF CallsTyped
  <2>2. SlotsTyped' /\ JournalTyped' /\ RestTyped'
    BY <1>0, <1>3, <1>u DEF SlotsTyped, JournalTyped, RestTyped
  <2> QED
    BY <2>1, <2>2, TypePartsNext
<1> QED
  BY <1>3, <1>4 DEF LighterInv

\* Custody: the check of the ledger, the slot journal's line, the signature.
LEMMA CustodyKept ==
    ASSUME LighterInv, NEW c \in Calls, CustodyVerify(c) \/ RecordSlot(c) \/ Sign(c)
    PROVE  LighterInv'
<1>0. CallsTyped /\ SlotsTyped /\ JournalTyped /\ RestTyped /\ CallInv(c)
  BY TypeParts DEF LighterInv
<1>u. /\ UNCHANGED <<nowMs, mempool, executed, nextNonce, foreign, custody, down, crashes>>
      /\ UNCHANGED <<work, snapshot, tries, ledger, disabled, journal>>
      /\ pc[c] \in SigningLabels
      /\ \E label \in {"verified", "slotted", "unsigned", "opening"} : Goto(c, label)
  BY DEF CustodyVerify, RecordSlot, Sign, venueVars, procVars, callVars, SigningLabels
<1>1. /\ Frame(c) /\ pc'[c] \in {"verified", "slotted", "unsigned", "opening"}
      /\ pc' \in [Calls -> Labels] /\ work' \in [Calls -> Works]
  BY <1>0, <1>u, GotoEffect DEF Labels
<1>2. Tx(c) \in Txs /\ Matches(Tx(c)) /\ Tx(c)' = Tx(c)
  <2>1. Tx(c)' = Tx(c)
    BY <1>u DEF Tx
  <2> QED
    BY <1>0, <1>u, <2>1, TxTyped DEF CallInv
<1>3. /\ slotFile \subseteq slotFile' /\ slotFile' \subseteq slotFile \cup {Tx(c)}
      /\ signed' \subseteq slotFile' /\ signed \subseteq signed'
      /\ pc'[c] = "slotted" => Tx(c) \in slotFile'
      /\ slotMem' \in [Procs -> SUBSET Txs]
  <2>1. CASE CustodyVerify(c)
    <3>1. pc'[c] \in {"verified", "unsigned"}
      BY <1>0, <2>1 DEF CustodyVerify, Goto, CallsTyped
    <3> QED
      BY <1>0, <2>1, <3>1 DEF CustodyVerify, slotVars, LighterInv, SlotsInv, SlotsTyped
  <2>2. CASE RecordSlot(c)
    <3>1. CASE slotFile' = slotFile \cup {Tx(c)} /\ slotMem' = [slotMem EXCEPT ![ProcOf[c]] = @ \cup {Tx(c)}]
      <4>1. ProcOf[c] \in Procs
        BY LighterRecordAssumption
      <4>2. slotMem' \in [Procs -> SUBSET Txs]
        BY <1>0, <1>2, <3>1, <4>1 DEF SlotsTyped
      <4> QED
        BY <2>2, <3>1, <4>2 DEF RecordSlot, LighterInv, SlotsInv
    <3>2. CASE Goto(c, "unsigned") /\ UNCHANGED <<slotFile, slotMem>>
      <4>1. pc'[c] = "unsigned"
        BY <1>0, <3>2 DEF Goto, CallsTyped
      <4> QED
        BY <1>0, <2>2, <3>2, <4>1 DEF RecordSlot, LighterInv, SlotsInv, SlotsTyped
    <3> QED
      BY <2>2, <3>1, <3>2 DEF RecordSlot
  <2>3. CASE Sign(c)
    <3>1. pc[c] = "slotted" /\ signed' = signed \cup {Tx(c)} /\ slotFile' = slotFile /\ slotMem' = slotMem
      BY <2>3 DEF Sign
    <3>2. Tx(c) \in slotFile
      BY <1>0, <3>1 DEF CallInv
    <3> QED
      BY <1>0, <3>1, <3>2 DEF LighterInv, SlotsInv, SlotsTyped
  <2> QED
    BY <2>1, <2>2, <2>3
<1>4. Grows
  BY <1>0, <1>3, <1>u DEF Grows, RestTyped
<1>5. AttemptsInv'
  BY <1>u DEF LighterInv, AttemptsInv, Admitted, Covers
<1>6. SlotsInv'
  <2>1. \A tx \in slotFile' : Matches(tx)
    BY <1>2, <1>3 DEF LighterInv, SlotsInv
  <2>2. \A tx \in slotFile' : Matches(tx)'
    BY <1>u, <2>1 DEF Matches
  <2> QED
    BY <1>3, <2>2 DEF SlotsInv
<1>7. \A d \in Calls : CallInv(d)'
  <2>1. CallInv(c)'
    <3>1. Matches(Tx(c))'
      BY <1>2, <1>u DEF Matches
    <3> QED
      BY <1>1, <1>2, <1>3, <3>1 DEF CallInv, ReadLabels
  <2>2. ASSUME NEW d \in Calls, d # c PROVE CallInv(d)'
    <3>1. pc'[d] = pc[d] /\ work'[d] = work[d] /\ CallInv(d)
      BY <1>1, <2>2 DEF Frame, LighterInv
    <3>2. nextNonce \in Nat /\ nextNonce' \in Nat
      BY <1>0, <1>u DEF RestTyped
    <3> QED
      BY <1>0, <1>4, <3>1, <3>2, StillCall
  <2> QED
    BY <2>1, <2>2
<1>8. TypeOK'
  <2>1. CallsTyped'
    BY <1>0, <1>1, <1>u DEF CallsTyped
  <2>2. SlotsTyped'
    BY <1>0, <1>2, <1>3 DEF SlotsTyped
  <2>3. JournalTyped' /\ RestTyped'
    BY <1>0, <1>u DEF JournalTyped, RestTyped
  <2> QED
    BY <2>1, <2>2, <2>3, TypePartsNext
<1> QED
  BY <1>5, <1>6, <1>7, <1>8 DEF LighterInv

\* The issuance journal and the submission.
LEMMA SubmitKept ==
    ASSUME LighterInv, NEW c \in Calls,
           RecordUnsigned(c) \/ OpenIssued(c) \/ RecordSent(c) \/ SendTx(c)
    PROVE  LighterInv'
<1>0. CallsTyped /\ SlotsTyped /\ JournalTyped /\ RestTyped /\ CallInv(c)
  BY TypeParts DEF LighterInv
<1>r. RecordOf[c] \in Records
  BY LighterRecordAssumption
<1>u. /\ UNCHANGED <<nowMs, executed, nextNonce, foreign, custody, down, crashes>>
      /\ UNCHANGED <<slotFile, slotMem, signed, snapshot, tries, ledger, disabled>>
      /\ mempool' \in {mempool, mempool \cup {RecordOf[c]}}
  BY DEF RecordUnsigned, OpenIssued, RecordSent, SendTx, venueVars, procVars, slotVars, callVars
<1>1. /\ Frame(c) /\ CallInv(c)'
      /\ pc' \in [Calls -> Labels] /\ work' \in [Calls -> Works]
  <2>1. \/ Return(c)
        \/ work' = work /\ \E label \in {"sending", "submitting"} : Goto(c, label)
    BY DEF RecordUnsigned, OpenIssued, RecordSent, SendTx, callVars
  <2>2. CASE Return(c)
    BY <1>0, <2>2, ReturnEffect, QuietCall DEF ReadLabels, SigningLabels
  <2>3. CASE work' = work /\ \E label \in {"sending", "submitting"} : Goto(c, label)
    BY <1>0, <2>3, GotoEffect, QuietCall DEF Labels, ReadLabels, SigningLabels
  <2> QED
    BY <2>1, <2>2, <2>3
<1>2. AttemptsInv' /\ (\A d \in Calls : CallInv(d)') /\ SlotsInv'
  BY <1>1, <1>u, CallStep
<1>3. JournalTyped'
  <2>1. \E s \in {"OUTCOME_UNKNOWN", "ARTIFACT_ISSUED", "SUBMISSION_SENT", "SUBMISSION_ACKNOWLEDGED",
                  "SUBMISSION_REJECTED"} : Open(RecordOf[c], s) \/ Transition(RecordOf[c], s)
    BY DEF RecordUnsigned, OpenIssued, RecordSent, SendTx
  <2> QED
    BY <1>0, <1>r, <2>1, JournalStepTyped, StatesAre
<1>4. TypeOK'
  <2>1. CallsTyped'
    BY <1>0, <1>1, <1>u DEF CallsTyped
  <2>2. SlotsTyped' /\ RestTyped'
    BY <1>0, <1>r, <1>u DEF SlotsTyped, RestTyped
  <2> QED
    BY <1>3, <2>1, <2>2, TypePartsNext
<1> QED
  BY <1>2, <1>4 DEF LighterInv

------------------------------------------------------------------------------
(* Control, the venue, time and failures.                                   *)

\* Steps that move no call: a release, the venue's sequencing, time and lifecycle.
LEMMA OutsideKept ==
    ASSUME LighterInv,
           \/ \E r \in Records : CloseNeverIssued(r) \/ VenueSequence(r)
           \/ VenueForeign \/ SetLifecycle \/ Tick
    PROVE  LighterInv'
<1>0. CallsTyped /\ SlotsTyped /\ JournalTyped /\ RestTyped
  BY TypeParts DEF LighterInv
<1>u. /\ UNCHANGED <<slotFile, slotMem, signed, work, snapshot, tries, journal, pc>>
      /\ UNCHANGED <<custody, down, crashes>>
  BY DEF CloseNeverIssued, VenueSequence, VenueForeign, SetLifecycle, Tick, procVars, slotVars, callVars
<1>1. ledger' \in Ledgers /\ ledger'.attempt = ledger.attempt
  <2>1. CASE ledger' = ledger
    BY <1>0, <2>1 DEF RestTyped
  <2>2. CASE \E r \in Records : CloseNeverIssued(r)
    <3>1. PICK r \in Records : CloseNeverIssued(r)
      BY <2>2
    <3>2. ledger \in Ledgers /\ nowMs \div Ms \in Nat
      BY <1>0, LighterBoundsAssumption DEF RestTyped
    <3>3. ledger' = [ledger EXCEPT !.closed = ledger.closed \cup {r}, !.lastAt = nowMs \div Ms]
      BY <3>1, <3>2 DEF CloseNeverIssued, Ledgers
    <3> QED
      BY <3>2, <3>3 DEF Ledgers
  <2> QED
    BY <2>1, <2>2 DEF VenueSequence, VenueForeign, SetLifecycle, Tick
<1>v. /\ nextNonce' = nextNonce \/ nextNonce' = nextNonce + 1
      /\ mempool' \subseteq mempool
      /\ executed' = executed \/ \E r \in Records : executed' = executed \cup {r}
      /\ foreign' = foreign \/ (foreign < MaxForeign /\ foreign' = foreign + 1)
      /\ nowMs' = nowMs \/ (nowMs < MaxTime /\ nowMs' = nowMs + 1)
      /\ disabled' = disabled \/ disabled' = ~disabled
  <2>1. CASE \E r \in Records : CloseNeverIssued(r)
    BY <2>1 DEF CloseNeverIssued, venueVars
  <2>2. CASE \E r \in Records : VenueSequence(r)
    BY <2>2 DEF VenueSequence
  <2>3. CASE VenueForeign \/ SetLifecycle \/ Tick
    BY <2>3 DEF VenueForeign, SetLifecycle, Tick, venueVars
  <2> QED
    BY <2>1, <2>2, <2>3
<1>2. nextNonce \in Nat /\ nextNonce' \in Nat /\ nextNonce <= nextNonce'
  BY <1>0, <1>v DEF RestTyped
<1>3. Grows
  BY <1>1, <1>2, <1>u DEF Grows
<1>4. AttemptsInv'
  <2>1. Admitted(ledger') = Admitted(ledger)
    BY <1>1 DEF Admitted
  <2>2. \A r \in Admitted(ledger) : ledger.attempt[r].slot <= nextNonce'
    <3>1. \A r \in Admitted(ledger) : ledger.attempt[r].slot \in Nat
      BY <1>0 DEF RestTyped, Ledgers, Attempts, Admitted
    <3> QED
      BY <1>2, <3>1 DEF LighterInv, AttemptsInv
  <2> QED
    BY <1>1, <2>1, <2>2 DEF LighterInv, AttemptsInv, Covers, Admitted
<1>5. SlotsInv'
  BY <1>1, <1>u DEF LighterInv, SlotsInv, Matches
<1>6. \A d \in Calls : CallInv(d)'
  <2> SUFFICES ASSUME NEW d \in Calls PROVE CallInv(d)'
    OBVIOUS
  <2>1. pc'[d] = pc[d] /\ work'[d] = work[d] /\ CallInv(d)
    BY <1>u DEF LighterInv
  <2> QED
    BY <1>0, <1>2, <1>3, <2>1, StillCall
<1>7. TypeOK'
  <2>1. CallsTyped' /\ SlotsTyped' /\ JournalTyped'
    BY <1>0, <1>u DEF CallsTyped, SlotsTyped, JournalTyped
  <2>2. /\ mempool' \subseteq Records /\ executed' \subseteq Records
        /\ foreign' \in 0 .. MaxForeign /\ nowMs' \in 0 .. MaxTime
    BY <1>0, <1>v, LighterBoundsAssumption DEF RestTyped
  <2>3. disabled' \in BOOLEAN
    BY <1>0, <1>v DEF RestTyped
  <2>4. RestTyped'
    BY <1>0, <1>1, <1>2, <1>u, <2>2, <2>3 DEF RestTyped
  <2> QED
    BY <2>1, <2>4, TypePartsNext
<1> QED
  BY <1>4, <1>5, <1>6, <1>7 DEF LighterInv

\* Custody exits, a process dies, a process starts again and recovers.
LEMMA ProcessKept ==
    ASSUME LighterInv, NEW p \in Procs, CustodyExit(p) \/ Crash(p) \/ Restart(p)
    PROVE  LighterInv'
<1>0. CallsTyped /\ SlotsTyped /\ JournalTyped /\ RestTyped
  BY TypeParts DEF LighterInv
<1>u. /\ UNCHANGED <<nowMs, mempool, executed, nextNonce, foreign>>
      /\ UNCHANGED <<slotFile, signed, tries, ledger, disabled>>
  BY DEF CustodyExit, Crash, Restart, venueVars, slotVars, callVars
<1>1. Grows
  BY <1>0, <1>u DEF Grows, RestTyped
<1>2. AttemptsInv' /\ SlotsInv'
  BY <1>u DEF LighterInv, AttemptsInv, SlotsInv, Matches, Admitted, Covers
<1>3. \A d \in Calls : \/ pc'[d] = pc[d] /\ work'[d] = work[d]
                      \/ pc'[d] \in {"unsigned", "returned"}
  BY DEF CustodyExit, Crash, Restart, callVars
<1>4. \A d \in Calls : CallInv(d)'
  <2> SUFFICES ASSUME NEW d \in Calls PROVE CallInv(d)'
    OBVIOUS
  <2>1. CASE pc'[d] = pc[d] /\ work'[d] = work[d]
    <3>1. CallInv(d) /\ nextNonce \in Nat /\ nextNonce' \in Nat
      BY <1>0, <1>u DEF LighterInv, RestTyped
    <3> QED
      BY <1>0, <1>1, <2>1, <3>1, StillCall
  <2>2. CASE pc'[d] \in {"unsigned", "returned"}
    BY <2>2, QuietCall DEF ReadLabels, SigningLabels
  <2> QED
    BY <1>3, <2>1, <2>2
<1>5. CallsTyped'
  <2>1. CASE CustodyExit(p)
    BY <1>0, <2>1 DEF CallsTyped, CustodyExit, callVars, Labels
  <2>2. CASE Crash(p)
    <3>1. pc' \in [Calls -> Labels]
      BY <1>0, <2>2 DEF CallsTyped, Crash, Labels
    <3>2. work' \in [Calls -> Works] /\ snapshot' \in [Calls -> Ledgers]
      BY <1>0, <2>2, EmptyTyped DEF CallsTyped, Crash
    <3> QED
      BY <1>0, <1>u, <3>1, <3>2 DEF CallsTyped
  <2>3. CASE Restart(p)
    BY <1>0, <2>3 DEF CallsTyped, Restart, callVars
  <2> QED
    BY <2>1, <2>2, <2>3
<1>6. SlotsTyped'
  BY <1>0, <1>u DEF SlotsTyped, CustodyExit, Crash, Restart, slotVars
<1>7. JournalTyped'
  <2>1. CASE journal' = journal
    BY <1>0, <2>1 DEF JournalTyped
  <2>2. CASE Restart(p)
    BY <1>0, <2>2, StatesAre DEF JournalTyped, Restart
  <2> QED
    BY <2>1, <2>2 DEF CustodyExit, Crash
<1>8. RestTyped'
  BY <1>0, <1>u, LighterBoundsAssumption DEF RestTyped, CustodyExit, Crash, Restart
<1> QED
  BY <1>2, <1>4, <1>5, <1>6, <1>7, <1>8, TypePartsNext DEF LighterInv

(***************************************************************************)
(* The invariant holds initially and every step keeps it.                  *)
(***************************************************************************)
LEMMA LighterInit == Init => LighterInv
<1> SUFFICES ASSUME Init PROVE LighterInv
  OBVIOUS
<1>1. CallsTyped
  <2>1. pc \in [Calls -> Labels] /\ work \in [Calls -> Works] /\ snapshot \in [Calls -> Ledgers]
    BY EmptyTyped DEF Init, Labels
  <2>2. tries \in [Calls -> 1 .. MaxAttempts]
    BY LighterBoundsAssumption DEF Init
  <2> QED
    BY <2>1, <2>2 DEF CallsTyped
<1>2. SlotsTyped /\ JournalTyped
  BY StatesAre DEF Init, SlotsTyped, JournalTyped
<1>3. RestTyped
  <2>1. nowMs \in 0 .. MaxTime /\ nextNonce \in Nat
    BY LighterBoundsAssumption DEF Init
  <2>2. foreign \in 0 .. MaxForeign /\ crashes \in 0 .. MaxCrashes
    BY LighterBoundsAssumption DEF Init
  <2>3. ledger \in Ledgers /\ disabled \in BOOLEAN
    BY EmptyTyped DEF Init
  <2> QED
    BY <2>1, <2>2, <2>3 DEF Init, RestTyped
<1>4. Admitted(ledger) = {}
  BY DEF Init, EmptyLedger, Admitted
<1>5. AttemptsInv /\ SlotsInv
  BY <1>4 DEF Init, AttemptsInv, SlotsInv
<1>6. \A c \in Calls : CallInv(c)
  BY DEF Init, CallInv, ReadLabels, SigningLabels
<1> QED
  BY <1>1, <1>2, <1>3, <1>5, <1>6, TypeParts DEF LighterInv

\* Every step of the system.
LEMMA LighterStep == LighterInv /\ [Next]_vars => LighterInv'
<1> SUFFICES ASSUME LighterInv, [Next]_vars PROVE LighterInv'
  OBVIOUS
<1>1. CASE \E c \in Calls : IssueStep(c)
  BY <1>1, ResolveKept, HashKept, AdmitKept, CustodyKept, SubmitKept DEF IssueStep
<1>2. CASE \E p \in Procs : CustodyExit(p) \/ Crash(p) \/ Restart(p)
  BY <1>2, ProcessKept
<1>3. CASE \/ \E r \in Records : CloseNeverIssued(r) \/ VenueSequence(r)
           \/ VenueForeign \/ SetLifecycle \/ Tick
  BY <1>3, OutsideKept
<1>4. CASE UNCHANGED vars
  <2>1. TypeOK'
    BY <1>4 DEF LighterInv, TypeOK, vars
  <2>2. AttemptsInv' /\ SlotsInv'
    BY <1>4 DEF LighterInv, AttemptsInv, SlotsInv, Matches, Admitted, Covers, vars
  <2>3. \A c \in Calls : CallInv(c)'
    BY <1>4 DEF LighterInv, CallInv, Matches, Covers, Tx, vars
  <2> QED
    BY <2>1, <2>2, <2>3 DEF LighterInv
<1> QED
  BY <1>1, <1>2, <1>3, <1>4 DEF Next

------------------------------------------------------------------------------
(* The theorems.                                                            *)

(***************************************************************************)
(* The invariant of the ledger's attempts, the calls and custody's slots.  *)
(***************************************************************************)
THEOREM LighterInvariant == Spec => []LighterInv
BY LighterInit, LighterStep, PTL DEF Spec

(***************************************************************************)
(* The lane is serialized: at most one admitted attempt can still be       *)
(* executed, since no attempt has a slot past the venue's next nonce and   *)
(* no two have the same (evidence.ts:64, issuance.ts:238).                 *)
(***************************************************************************)
THEOREM LaneIsSerialized == Spec => []OneOutstanding
<1>1. LighterInv => OneOutstanding
  <2> SUFFICES ASSUME LighterInv, NEW r \in Outstanding, NEW s \in Outstanding
               PROVE  r = s
    BY DEF OneOutstanding
  <2>1. r \in Admitted(ledger) /\ s \in Admitted(ledger)
    BY DEF Outstanding
  <2>2. ledger.attempt[r].slot \in Nat /\ ledger.attempt[s].slot \in Nat /\ nextNonce \in Nat
    BY <2>1 DEF LighterInv, TypeOK, Ledgers, Attempts, Admitted
  <2>3. ledger.attempt[r].slot = nextNonce /\ ledger.attempt[s].slot = nextNonce
    BY <2>1, <2>2 DEF LighterInv, AttemptsInv, Outstanding
  <2> QED
    BY <2>1, <2>3 DEF LighterInv, AttemptsInv
<1> QED
  BY <1>1, LighterInvariant, PTL

(***************************************************************************)
(* A nonce is signed for one transaction ever (main.go:205): what is       *)
(* signed is the attempt the ledger holds, and attempts have distinct      *)
(* slots.                                                                  *)
(***************************************************************************)
THEOREM NonceSignedOnce == Spec => []OneHashPerSlot
<1>1. LighterInv => OneHashPerSlot
  <2> SUFFICES ASSUME LighterInv, NEW a \in signed, NEW b \in signed, a.slot = b.slot
               PROVE  a = b
    BY DEF OneHashPerSlot
  <2>1. Matches(a) /\ Matches(b) /\ a \in Txs /\ b \in Txs
    BY DEF LighterInv, SlotsInv, TypeOK
  <2>2. a.record = b.record
    BY <2>1 DEF LighterInv, AttemptsInv, Matches, Admitted
  <2>3. a.expiredAt = b.expiredAt
    BY <2>1, <2>2 DEF Matches
  <2> QED
    BY <2>1, <2>2, <2>3 DEF Txs
<1> QED
  BY <1>1, LighterInvariant, PTL

(***************************************************************************)
(* Everything a signed artifact may do ends with its attempt and that with *)
(* the authorization, milliseconds against seconds (issuance.ts:115).      *)
(***************************************************************************)
THEOREM ArtifactIsBounded == Spec => []ArtifactDiesWithAttempt
<1>1. LighterInv => ArtifactDiesWithAttempt
  <2> SUFFICES ASSUME LighterInv, NEW tx \in signed
               PROVE  LET a == ledger.attempt[tx.record]
                      IN  /\ a # NoAttempt
                          /\ tx.expiredAt <= a.validUntil * Ms
                          /\ OrderExpiry[tx.record] <= a.validUntil * Ms
                          /\ a.validUntil <= ValidUntil[tx.record]
    BY DEF ArtifactDiesWithAttempt
  <2>1. Matches(tx)
    BY DEF LighterInv, SlotsInv
  <2>2. tx.record \in Admitted(ledger)
    BY <2>1 DEF Matches, Admitted
  <2> QED
    BY <2>1, <2>2 DEF LighterInv, AttemptsInv, Covers, Matches
<1> QED
  BY <1>1, LighterInvariant, PTL

\* Custody's slot journal is written ahead of the key, and can always be loaded again.
CustodyCanStart == JournalLoads /\ signed \subseteq slotFile

(***************************************************************************)
(* Two custody processes that append to one slot journal, each knowing     *)
(* only what it loaded and its own lines, never leave it with two hashes   *)
(* for a slot: no restart is refused, and what was signed is on disk       *)
(* (main.go, loadJournal and recordSlot).                                  *)
(***************************************************************************)
THEOREM SlotJournalLoads == Spec => []CustodyCanStart
<1>1. LighterInv => CustodyCanStart
  <2> SUFFICES ASSUME LighterInv, NEW a \in slotFile, NEW b \in slotFile, a.slot = b.slot
               PROVE  a = b
    BY DEF CustodyCanStart, JournalLoads, LighterInv, SlotsInv
  <2>1. Matches(a) /\ Matches(b) /\ a \in Txs /\ b \in Txs
    BY DEF LighterInv, SlotsInv, TypeOK
  <2>2. a.record = b.record
    BY <2>1 DEF LighterInv, AttemptsInv, Matches, Admitted
  <2>3. a.expiredAt = b.expiredAt
    BY <2>1, <2>2 DEF Matches
  <2> QED
    BY <2>1, <2>2, <2>3 DEF Txs
<1> QED
  BY <1>1, LighterInvariant, PTL
==============================================================================
