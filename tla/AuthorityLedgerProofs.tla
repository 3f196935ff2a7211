------------------------ MODULE AuthorityLedgerProofs ------------------------
(***************************************************************************)
(* Theorems about AuthorityLedger, for every set of grants, policies,      *)
(* dimensions, actions and plans and for every bound.  The first part is   *)
(* about the delegation graph, the records and revocation.  The second     *)
(* shows that the balances are the sums of what the reservations hold, and *)
(* what follows from that and from where a reservation is charged: a       *)
(* principal-global ceiling counts the whole history, a CLOSE is never     *)
(* refused, and no grant's subtree exceeds what the grant signed.          *)
(***************************************************************************)
EXTENDS AuthorityLedger, SumsProofs, FiniteSetTheorems

------------------------------------------------------------------------------
(* The delegation graph.                                                    *)

\* p is the path of grant g up to distance n.
IsPath(g, n, p) ==
    p = [i \in 0 .. n |-> IF i = 0 THEN g
                          ELSE IF p[i - 1] = Root THEN Root ELSE Grant[p[i - 1]].parent]

(***************************************************************************)
(* Every distance has a path.                                              *)
(***************************************************************************)
LEMMA PathExists ==
    ASSUME NEW g
    PROVE  \A n \in Nat : \E p : IsPath(g, n, p)
<1> DEFINE P == {n \in Nat : \E p : IsPath(g, n, p)}
<1>1. 0 \in P
  <2>1. IsPath(g, 0, [i \in 0 .. 0 |-> g])
    BY DEF IsPath
  <2> QED
    BY <2>1
<1>2. ASSUME NEW n \in Nat, n \in P
      PROVE  n + 1 \in P
  <2>1. PICK p : IsPath(g, n, p)
    BY <1>2
  <2> DEFINE last == IF p[n] = Root THEN Root ELSE Grant[p[n]].parent
  <2> DEFINE q == [i \in 0 .. (n + 1) |-> IF i = n + 1 THEN last ELSE p[i]]
  <2>2. \A i \in 0 .. n : q[i] = p[i]
    OBVIOUS
  <2>3. \A i \in 0 .. (n + 1) :
           q[i] = IF i = 0 THEN g ELSE IF q[i - 1] = Root THEN Root ELSE Grant[q[i - 1]].parent
    <3> TAKE i \in 0 .. (n + 1)
    <3>1. CASE i = n + 1
      BY <3>1, <2>2
    <3>2. CASE i \in 0 .. n
      <4>1. q[i] = p[i] /\ (i # 0 => q[i - 1] = p[i - 1])
        BY <3>2, <2>2
      <4>2. p[i] = IF i = 0 THEN g
                   ELSE IF p[i - 1] = Root THEN Root ELSE Grant[p[i - 1]].parent
        BY <3>2, <2>1 DEF IsPath
      <4> HIDE DEF q
      <4> QED
        BY <4>1, <4>2
    <3> QED
      BY <3>1, <3>2
  <2>4. IsPath(g, n + 1, q)
    BY <2>3 DEF IsPath
  <2> QED
    BY <2>4
<1> HIDE DEF P
<1>3. Nat \subseteq P
  BY <1>1, <1>2, NatSetInduction
<1> QED
  BY <1>3 DEF P

(***************************************************************************)
(* Ancestor[g] is the path of g.                                           *)
(***************************************************************************)
LEMMA AncestorPath ==
    ASSUME NEW g \in Grants
    PROVE  IsPath(g, MAX_LINEAGE_LENGTH, Ancestor[g])
<1>1. \E p : IsPath(g, MAX_LINEAGE_LENGTH, p)
  BY PathExists, BoundsAssumption
<1>2. Ancestor[g] = CHOOSE p : IsPath(g, MAX_LINEAGE_LENGTH, p)
  BY DEF Ancestor, IsPath
<1> QED
  BY <1>1, <1>2

(***************************************************************************)
(* A grant is in its own lineage, which holds no root marker.              *)
(***************************************************************************)
LEMMA LineageReflexive ==
    ASSUME NEW g \in Grants
    PROVE  g \in Lineage[g]
<1>1. Ancestor[g][0] = g
  <2>1. IsPath(g, MAX_LINEAGE_LENGTH, Ancestor[g])
    BY AncestorPath
  <2>2. 0 \in 0 .. MAX_LINEAGE_LENGTH
    BY BoundsAssumption
  <2> QED
    BY <2>1, <2>2, Zenon DEF IsPath
<1>2. 0 \in Distances
  BY BoundsAssumption DEF Distances
<1> QED
  BY <1>1, <1>2, GrantAssumption DEF Lineage

------------------------------------------------------------------------------
(* Types.                                                                   *)

\* The inductive type invariant.
TypeInv == TypeOK /\ DemandsBounded

(***************************************************************************)
(* What moves at a target is an integer.                                   *)
(***************************************************************************)
LEMMA AmountAtInt ==
    ASSUME NEW demands, NEW amounts, NEW t, Len(demands) \in Nat,
           \A i \in 1 .. Len(demands) : amounts[i] \in Int
    PROVE  AmountAt(demands, amounts, t) \in Int
<1> DEFINE f == [i \in 1 .. Len(demands) |-> IF t \in demands[i].legs THEN amounts[i] ELSE 0]
<1>1. \A i \in 1 .. Len(demands) : f[i] \in Int
  OBVIOUS
<1> HIDE DEF f
<1>2. SumTo(f, Len(demands)) \in Int
  BY <1>1, SumToInt
<1> QED
  BY <1>2 DEF AmountAt, f

(***************************************************************************)
(* An epoch index is an integer.                                           *)
(***************************************************************************)
LEMMA EpochInt ==
    ASSUME NEW d \in Dims, NEW at \in Nat
    PROVE  EpochIndex(d, at) \in Int
<1>1. Dim[d].anchor \in Nat /\ Dim[d].length \in Nat /\ Dim[d].length > 0
  BY DimAssumption
<1> QED
  BY <1>1 DEF EpochIndex

(***************************************************************************)
(* The legs of a registered lineage are targets.                           *)
(***************************************************************************)
LEMMA LegsAreTargets ==
    ASSUME TypeOK, NEW g \in Grants, ResolveLineage(g), NEW p, NEW c
    PROVE  NodeLegs(g, c) \cup PolicyLegs(p, c) \subseteq TargetKeys
<1>1. Lineage[g] \subseteq Grants
  BY DEF ResolveLineage, TypeOK
<1> QED
  BY <1>1 DEF NodeLegs, PolicyLegs, TargetKeys, Owners

(***************************************************************************)
(* Moving an integer amount keeps a balance a balance.                     *)
(***************************************************************************)
LEMMA BalanceUpdate ==
    ASSUME NEW b \in Balances, NEW x \in Int
    PROVE  /\ [b EXCEPT !.reserved = @ + x] \in Balances
           /\ [b EXCEPT !.reserved = @ - x] \in Balances
           /\ [b EXCEPT !.restored = @ + x] \in Balances
           /\ \A epoch \in Int : ConsumeAt(b, x, epoch) \in Balances
<1>1. /\ b.reserved \in Int /\ b.consumed \in Int /\ b.restored \in Int
      /\ b.epoch \in Int /\ b.epochConsumed \in Int
  BY DEF Balances
<1>2. [b EXCEPT !.reserved = @ + x] \in Balances
  BY <1>1 DEF Balances
<1>3. [b EXCEPT !.reserved = @ - x] \in Balances
  BY <1>1 DEF Balances
<1>4. [b EXCEPT !.restored = @ + x] \in Balances
  BY <1>1 DEF Balances
<1>5. ASSUME NEW epoch \in Int
      PROVE  ConsumeAt(b, x, epoch) \in Balances
  <2> DEFINE e == IF b.epoch < epoch THEN epoch ELSE b.epoch
             u == IF b.epoch < epoch THEN x
                  ELSE IF b.epoch = epoch /\ epoch >= 0 THEN b.epochConsumed + x
                  ELSE b.epochConsumed
  <2>1. e \in Int /\ u \in Int
    BY <1>1
  <2>2. ConsumeAt(b, x, epoch) =
           [reserved |-> b.reserved - x, consumed |-> b.consumed + x, restored |-> b.restored,
            epoch |-> e, epochConsumed |-> u]
    BY DEF ConsumeAt
  <2> HIDE DEF e, u
  <2> QED
    BY <2>1, <2>2, <1>1 DEF Balances
<1> QED
  BY <1>2, <1>3, <1>4, <1>5

(***************************************************************************)
(* The empty ledger is well typed.                                         *)
(***************************************************************************)
LEMMA InitType == Init => TypeInv
<1> SUFFICES ASSUME Init PROVE TypeInv
  OBVIOUS
<1>1. reservations = <<>> /\ attempts = <<>>
  BY DEF Init
<1>2. Len(reservations) = 0 /\ reservations \in Seq(Reservations) /\ attempts \in Seq(AttemptRecords)
  BY <1>1
<1>3. targets \in [TargetKeys -> Balances]
  BY DEF Init, ZeroBalance, Balances
<1>4. actions \in [Actions -> [lastGeneration : Nat, open : 0 .. Len(reservations)]]
  BY <1>2 DEF Init
<1>5. TypeOK
  BY <1>2, <1>3, <1>4 DEF Init, TypeOK
<1>6. DemandsBounded
  BY <1>2 DEF DemandsBounded
<1> QED
  BY <1>5, <1>6 DEF TypeInv

(***************************************************************************)
(* A RESERVE keeps the types: its legs are targets and its release is      *)
(* still whole.                                                            *)
(***************************************************************************)
LEMMA ReserveType ==
    ASSUME TypeInv, NEW action \in Actions, NEW generation \in 1 .. MaxReservations,
           NEW g \in Grants, NEW actor, NEW module \in Modules,
           NEW cs \in ContributionLists, NEW at \in Times,
           ApplyReserve(action, generation, g, actor, module, cs, at)
    PROVE  TypeInv'
<1> DEFINE demands == [i \in 1 .. Len(cs) |-> DemandOf(g, cs[i])]
           amounts == [i \in 1 .. Len(cs) |-> cs[i].atoms]
           record  == [action |-> action, generation |-> generation, authority |-> g,
                       module |-> module, reservedAt |-> at, status |-> "ACTIVE",
                       demands |-> demands]
<1>1. /\ cs \in Seq(Contributions)
      /\ Len(cs) \in Nat
      /\ \A i \in 1 .. Len(cs) : cs[i].atoms \in Nat /\ cs[i].measure \in STRING
  <2>1. cs \in Seq(Contributions)
    BY ContributionsAssumption
  <2>2. \A i \in 1 .. Len(cs) : cs[i] \in Contributions
    BY <2>1
  <2>3. Len(cs) \in Nat
    BY <2>1
  <2>4. ASSUME NEW i \in 1 .. Len(cs)
        PROVE  cs[i].atoms \in Nat /\ cs[i].measure \in STRING
    <3>1. cs[i] \in Contributions
      BY <2>2
    <3> QED
      BY <3>1 DEF Contributions
  <2> QED
    BY <2>1, <2>3, <2>4
<1>2. \A i \in 1 .. Len(cs) : DemandOf(g, cs[i]) \in Demands
  <2>1. ResolveLineage(g)
    BY DEF ApplyReserve, DeriveReservation
  <2>2. \A c : NodeLegs(g, c) \cup PolicyLegs(policy, c) \in SUBSET TargetKeys
    BY <2>1, LegsAreTargets DEF TypeInv
  <2> QED
    BY <1>1, <2>2 DEF DemandOf, Demands
<1>3. demands \in Seq(Demands) /\ Len(demands) = Len(cs)
  BY <1>1, <1>2
<1>4. record \in Reservations
  BY <1>3, BoundsAssumption DEF Reservations
<1>5. \A t \in TargetKeys : AmountAt(demands, amounts, t) \in Int
  <2>1. \A i \in 1 .. Len(demands) : amounts[i] \in Int
    BY <1>1, <1>3
  <2> HIDE DEF demands, amounts
  <2> QED
    BY <1>1, <1>3, <2>1, AmountAtInt
<1>6. /\ lastAt' = at /\ reservations' = Append(reservations, record)
      /\ actions' = [actions EXCEPT ![action] =
                       [lastGeneration |-> generation, open |-> Len(reservations) + 1]]
      /\ everReserved' = TRUE
      /\ targets' = [t \in TargetKeys |->
                       [targets[t] EXCEPT !.reserved = @ + AmountAt(demands, amounts, t)]]
      /\ UNCHANGED <<policy, nodes, revoked, attempts>>
  BY DEF ApplyReserve, At
<1>7. \A i \in 1 .. Len(demands) : /\ demands[i].restored <= demands[i].consumed
                                    /\ demands[i].consumed <= demands[i].reserved
  BY <1>1, <1>3 DEF DemandOf
<1> HIDE DEF demands, amounts
<1>8. reservations' \in Seq(Reservations) /\ Len(reservations') = Len(reservations) + 1
  BY <1>4, <1>6 DEF TypeInv, TypeOK
<1>9. targets' \in [TargetKeys -> Balances]
  <2>1. \A t \in TargetKeys : targets[t] \in Balances
    BY DEF TypeInv, TypeOK
  <2>2. \A t \in TargetKeys :
           [targets[t] EXCEPT !.reserved = @ + AmountAt(demands, amounts, t)] \in Balances
    BY <2>1, <1>5, BalanceUpdate
  <2> QED
    BY <2>2, <1>6
<1>10. actions' \in [Actions -> [lastGeneration : Nat, open : 0 .. Len(reservations')]]
  BY <1>6, <1>8, BoundsAssumption DEF TypeInv, TypeOK
<1>11. TypeOK'
  BY <1>6, <1>8, <1>9, <1>10, TimesAssumption DEF TypeInv, TypeOK
<1>12. DemandsBounded'
  <2> SUFFICES ASSUME NEW k \in 1 .. Len(reservations')
               PROVE  \A i \in 1 .. Len(reservations'[k].demands) :
                         /\ reservations'[k].demands[i].restored <= reservations'[k].demands[i].consumed
                         /\ reservations'[k].demands[i].consumed <= reservations'[k].demands[i].reserved
    BY DEF DemandsBounded
  <2>1. CASE k = Len(reservations) + 1
    <3>1. reservations'[k].demands = demands
      BY <2>1, <1>6 DEF TypeInv, TypeOK
    <3> QED
      BY <3>1, <1>7
  <2>2. CASE k \in 1 .. Len(reservations)
    <3>1. reservations'[k] = reservations[k]
      BY <2>2, <1>6 DEF TypeInv, TypeOK
    <3> QED
      BY <3>1, <2>2 DEF TypeInv, DemandsBounded
  <2> QED
    BY <2>1, <2>2, <1>8 DEF TypeInv, TypeOK
<1> QED
  BY <1>11, <1>12 DEF TypeInv

(***************************************************************************)
(* A committed reservation and its demands are well typed.                 *)
(***************************************************************************)
LEMMA ReservationTyped ==
    ASSUME TypeInv, NEW k \in 1 .. Len(reservations)
    PROVE  /\ reservations[k] \in Reservations
           /\ reservations[k].demands \in Seq(Demands)
           /\ Len(reservations[k].demands) \in Nat
           /\ reservations[k].action \in Actions
           /\ \A i \in 1 .. Len(reservations[k].demands) :
                /\ reservations[k].demands[i] \in Demands
                /\ reservations[k].demands[i].reserved \in Nat
                /\ reservations[k].demands[i].consumed \in Nat
                /\ reservations[k].demands[i].released \in Nat
                /\ reservations[k].demands[i].restored \in Nat
                /\ reservations[k].demands[i].restored <= reservations[k].demands[i].consumed
                /\ reservations[k].demands[i].consumed <= reservations[k].demands[i].reserved
<1>1. reservations[k] \in Reservations
  BY DEF TypeInv, TypeOK
<1>2. reservations[k].demands \in Seq(Demands) /\ reservations[k].action \in Actions
  BY <1>1 DEF Reservations
<1>3. \A i \in 1 .. Len(reservations[k].demands) : reservations[k].demands[i] \in Demands
  BY <1>2
<1>4. \A i \in 1 .. Len(reservations[k].demands) :
                /\ reservations[k].demands[i].reserved \in Nat
                /\ reservations[k].demands[i].consumed \in Nat
                /\ reservations[k].demands[i].released \in Nat
                /\ reservations[k].demands[i].restored \in Nat
  BY <1>3 DEF Demands
<1>5. Len(reservations[k].demands) \in Nat
  BY <1>2
<1> QED
  BY <1>1, <1>2, <1>3, <1>4, <1>5 DEF TypeInv, DemandsBounded

(***************************************************************************)
(* Replacing the demands and the status of a reservation by bounded ones.  *)
(***************************************************************************)
LEMMA ReservationUpdate ==
    ASSUME TypeInv, NEW k \in 1 .. Len(reservations), NEW ds \in Seq(Demands),
           NEW status \in {"ACTIVE", "CLOSED"},
           \A i \in 1 .. Len(ds) : /\ ds[i].restored <= ds[i].consumed
                                   /\ ds[i].consumed <= ds[i].reserved,
           reservations' = [reservations EXCEPT
                              ![k] = [reservations[k] EXCEPT !.status = status, !.demands = ds]]
    PROVE  /\ reservations' \in Seq(Reservations)
           /\ Len(reservations') = Len(reservations)
           /\ DemandsBounded'
<1> DEFINE r == [reservations[k] EXCEPT !.status = status, !.demands = ds]
<1>1. r \in Reservations /\ r.demands = ds
  BY ReservationTyped DEF Reservations
<1>2. reservations' = [reservations EXCEPT ![k] = r]
  OBVIOUS
<1> HIDE DEF r
<1>3. reservations' \in Seq(Reservations) /\ Len(reservations') = Len(reservations)
  BY <1>1, <1>2 DEF TypeInv, TypeOK
<1>4. ASSUME NEW j \in 1 .. Len(reservations)
      PROVE  \A i \in 1 .. Len(reservations'[j].demands) :
                /\ reservations'[j].demands[i].restored <= reservations'[j].demands[i].consumed
                /\ reservations'[j].demands[i].consumed <= reservations'[j].demands[i].reserved
  <2>1. CASE j = k
    <3>1. reservations'[j].demands = ds
      BY <2>1, <1>1, <1>2 DEF TypeInv, TypeOK
    <3> QED
      BY <3>1
  <2>2. CASE j # k
    <3>1. reservations'[j] = reservations[j]
      BY <2>2, <1>2 DEF TypeInv, TypeOK
    <3> QED
      BY <3>1 DEF TypeInv, DemandsBounded
  <2> QED
    BY <2>1, <2>2
<1>5. DemandsBounded'
  BY <1>3, <1>4 DEF DemandsBounded
<1> QED
  BY <1>3, <1>5

(***************************************************************************)
(* The amounts of an accounting event are naturals.                        *)
(***************************************************************************)
LEMMA AmountsTyped ==
    ASSUME NEW k, NEW amounts \in AmountLists(k)
    PROVE  \A i \in 1 .. Len(reservations[k].demands) : amounts[i] \in Nat
BY AmountsAssumption DEF AmountLists

(***************************************************************************)
(* A CONSUME keeps the types.                                              *)
(***************************************************************************)
LEMMA ConsumeType ==
    ASSUME TypeInv, NEW k \in 1 .. Len(reservations), NEW amounts \in AmountLists(k),
           NEW at \in Times, ApplyConsume(k, amounts, at)
    PROVE  TypeInv'
<1> DEFINE r == reservations[k]
           n == Len(r.demands)
           ds == [i \in 1 .. n |-> [r.demands[i] EXCEPT !.consumed = @ + amounts[i]]]
<1>1. /\ lastAt' = at /\ r.status = "ACTIVE"
      /\ \A i \in 1 .. n : amounts[i] <= r.demands[i].reserved - r.demands[i].consumed
      /\ targets' = [t \in TargetKeys |->
                       IF t \in Touched(r.demands)
                       THEN ConsumeAt(targets[t], AmountAt(r.demands, amounts, t), LegEpoch(r, t[2]))
                       ELSE targets[t]]
      /\ reservations' = [reservations EXCEPT ![k].demands = ds]
      /\ UNCHANGED <<policy, everReserved, nodes, revoked, actions, attempts>>
  BY DEF ApplyConsume, At, RemainingOf
<1>2. \A i \in 1 .. n : amounts[i] \in Nat
  BY AmountsTyped
<1>3. ds \in Seq(Demands) /\ Len(ds) = n
  <2>1. ASSUME NEW i \in 1 .. n
        PROVE  [r.demands[i] EXCEPT !.consumed = @ + amounts[i]] \in Demands
    <3>1. r.demands[i] \in Demands /\ r.demands[i].consumed + amounts[i] \in Nat
      BY <1>2, ReservationTyped
    <3> HIDE DEF r
    <3> QED
      BY <3>1 DEF Demands
  <2> QED
    BY <2>1, ReservationTyped
<1>4. \A i \in 1 .. Len(ds) : ds[i].restored <= ds[i].consumed /\ ds[i].consumed <= ds[i].reserved
  <2> SUFFICES ASSUME NEW i \in 1 .. n
               PROVE  ds[i].restored <= ds[i].consumed /\ ds[i].consumed <= ds[i].reserved
    BY <1>3
  <2>1. /\ r.demands[i] \in Demands /\ amounts[i] \in Nat
        /\ amounts[i] <= r.demands[i].reserved - r.demands[i].consumed
        /\ r.demands[i].restored <= r.demands[i].consumed
    BY <1>1, <1>2, ReservationTyped
  <2> HIDE DEF r
  <2>2. /\ ds[i].restored = r.demands[i].restored /\ ds[i].reserved = r.demands[i].reserved
        /\ ds[i].consumed = r.demands[i].consumed + amounts[i]
    BY <2>1 DEF Demands
  <2> QED
    BY <2>1, <2>2 DEF Demands
<1>5. reservations' = [reservations EXCEPT
                         ![k] = [reservations[k] EXCEPT !.status = "ACTIVE", !.demands = ds]]
  BY <1>1, ReservationTyped DEF Reservations
<1>6. \A t \in TargetKeys : AmountAt(r.demands, amounts, t) \in Int
  BY <1>2, ReservationTyped, AmountAtInt
<1>7. \A t \in TargetKeys : LegEpoch(r, t[2]) \in Int
  <2>1. r.reservedAt \in Nat
    BY ReservationTyped, TimesAssumption DEF Reservations
  <2> QED
    BY <2>1, EpochInt DEF LegEpoch, TargetKeys
<1>8. targets' \in [TargetKeys -> Balances]
  <2>1. \A t \in TargetKeys : targets[t] \in Balances
    BY DEF TypeInv, TypeOK
  <2>2. \A t \in TargetKeys :
          ConsumeAt(targets[t], AmountAt(r.demands, amounts, t), LegEpoch(r, t[2])) \in Balances
    BY <2>1, <1>6, <1>7, BalanceUpdate
  <2> HIDE DEF r
  <2> QED
    BY <2>1, <2>2, <1>1
<1> HIDE DEF ds
<1>9. reservations' \in Seq(Reservations) /\ Len(reservations') = Len(reservations) /\ DemandsBounded'
  BY <1>3, <1>4, <1>5, ReservationUpdate
<1>10. TypeOK'
  BY <1>1, <1>8, <1>9, TimesAssumption DEF TypeInv, TypeOK
<1> QED
  BY <1>9, <1>10 DEF TypeInv

(***************************************************************************)
(* A CLOSE keeps the types.                                                *)
(***************************************************************************)
LEMMA CloseType ==
    ASSUME TypeInv, NEW k \in 1 .. Len(reservations), NEW at \in Times, ApplyClose(k, at)
    PROVE  TypeInv'
<1> DEFINE r == reservations[k]
           n == Len(r.demands)
           remaining == [i \in 1 .. n |-> RemainingOf(r.demands[i])]
           ds == [i \in 1 .. n |-> [r.demands[i] EXCEPT !.released = remaining[i]]]
<1>1. /\ lastAt' = at /\ r.status = "ACTIVE"
      /\ targets' = [t \in TargetKeys |->
                       [targets[t] EXCEPT !.reserved = @ - AmountAt(r.demands, remaining, t)]]
      /\ reservations' = [reservations EXCEPT ![k].status = "CLOSED", ![k].demands = ds]
      /\ actions' = IF actions[r.action].open = k
                    THEN [actions EXCEPT ![r.action].open = 0] ELSE actions
      /\ UNCHANGED <<policy, everReserved, nodes, revoked, attempts>>
  BY DEF ApplyClose, At
<1>2. \A i \in 1 .. n : remaining[i] \in Nat
  BY ReservationTyped DEF RemainingOf
<1>3. ds \in Seq(Demands) /\ Len(ds) = n
  <2>1. ASSUME NEW i \in 1 .. n
        PROVE  [r.demands[i] EXCEPT !.released = remaining[i]] \in Demands
    <3>1. r.demands[i] \in Demands /\ remaining[i] \in Nat
      BY <1>2, ReservationTyped
    <3> HIDE DEF r, remaining
    <3> QED
      BY <3>1 DEF Demands
  <2>2. n \in Nat
    BY ReservationTyped
  <2> HIDE DEF r, n, remaining
  <2> QED
    BY <2>1, <2>2
<1>4. \A i \in 1 .. Len(ds) : ds[i].restored <= ds[i].consumed /\ ds[i].consumed <= ds[i].reserved
  <2> SUFFICES ASSUME NEW i \in 1 .. n
               PROVE  ds[i].restored <= ds[i].consumed /\ ds[i].consumed <= ds[i].reserved
    BY <1>3
  <2>1. /\ r.demands[i] \in Demands
        /\ r.demands[i].restored <= r.demands[i].consumed
        /\ r.demands[i].consumed <= r.demands[i].reserved
    BY ReservationTyped
  <2> HIDE DEF r, remaining
  <2>2. /\ ds[i].restored = r.demands[i].restored /\ ds[i].reserved = r.demands[i].reserved
        /\ ds[i].consumed = r.demands[i].consumed
    BY <2>1 DEF Demands
  <2> QED
    BY <2>1, <2>2
<1>5. reservations' = [reservations EXCEPT
                         ![k] = [reservations[k] EXCEPT !.status = "CLOSED", !.demands = ds]]
  BY <1>1, ReservationTyped DEF Reservations
<1>6. \A t \in TargetKeys : AmountAt(r.demands, remaining, t) \in Int
  <2> HIDE DEF remaining
  <2> QED
    BY <1>2, ReservationTyped, AmountAtInt
<1>7. targets' \in [TargetKeys -> Balances]
  <2>1. \A t \in TargetKeys : targets[t] \in Balances
    BY DEF TypeInv, TypeOK
  <2> HIDE DEF r, remaining
  <2>2. \A t \in TargetKeys :
           [targets[t] EXCEPT !.reserved = @ - AmountAt(r.demands, remaining, t)] \in Balances
    BY <2>1, <1>6, BalanceUpdate
  <2> QED
    BY <2>2, <1>1
<1> HIDE DEF ds
<1>8. reservations' \in Seq(Reservations) /\ Len(reservations') = Len(reservations) /\ DemandsBounded'
  BY <1>3, <1>4, <1>5, ReservationUpdate
<1>9. actions' \in [Actions -> [lastGeneration : Nat, open : 0 .. Len(reservations')]]
  <2>1. r.action \in Actions
    BY ReservationTyped
  <2>2. actions \in [Actions -> [lastGeneration : Nat, open : 0 .. Len(reservations)]]
    BY DEF TypeInv, TypeOK
  <2>3. Len(reservations) \in Nat
    BY DEF TypeInv, TypeOK
  <2>4. actions[r.action].lastGeneration \in Nat
    BY <2>1, <2>2
  <2> HIDE DEF r
  <2>5. [actions EXCEPT ![r.action].open = 0]
           \in [Actions -> [lastGeneration : Nat, open : 0 .. Len(reservations)]]
    BY <2>1, <2>2, <2>3, <2>4
  <2> QED
    BY <2>2, <2>5, <1>1, <1>8
<1>10. TypeOK'
  BY <1>1, <1>7, <1>8, <1>9, TimesAssumption DEF TypeInv, TypeOK
<1> QED
  BY <1>8, <1>10 DEF TypeInv

(***************************************************************************)
(* The capacity part of a reservation's demands has the same length.       *)
(***************************************************************************)
LEMMA CapacityDemandsLength ==
    ASSUME NEW r, Len(r.demands) \in Nat
    PROVE  Len(CapacityDemands(r)) = Len(r.demands)
BY DEF CapacityDemands

(***************************************************************************)
(* A RESTORE keeps the types.                                              *)
(***************************************************************************)
LEMMA RestoreType ==
    ASSUME TypeInv, NEW k \in 1 .. Len(reservations), NEW amounts \in AmountLists(k),
           NEW at \in Times, ApplyRestore(k, amounts, at)
    PROVE  TypeInv'
<1> DEFINE r == reservations[k]
           n == Len(r.demands)
           ds == [i \in 1 .. n |-> [r.demands[i] EXCEPT !.restored = @ + amounts[i]]]
<1>1. /\ lastAt' = at
      /\ \A i \in 1 .. n : amounts[i] <= r.demands[i].consumed - r.demands[i].restored
      /\ targets' = [t \in TargetKeys |->
                       [targets[t] EXCEPT !.restored = @ + AmountAt(CapacityDemands(r), amounts, t)]]
      /\ reservations' = [reservations EXCEPT ![k].demands = ds]
      /\ UNCHANGED <<policy, everReserved, nodes, revoked, actions, attempts>>
  BY DEF ApplyRestore, At
<1>2. \A i \in 1 .. n : amounts[i] \in Nat
  BY AmountsTyped
<1>3. ds \in Seq(Demands) /\ Len(ds) = n
  <2>1. ASSUME NEW i \in 1 .. n
        PROVE  [r.demands[i] EXCEPT !.restored = @ + amounts[i]] \in Demands
    <3>1. r.demands[i] \in Demands /\ r.demands[i].restored + amounts[i] \in Nat
      BY <1>2, ReservationTyped
    <3> HIDE DEF r
    <3> QED
      BY <3>1 DEF Demands
  <2> QED
    BY <2>1, ReservationTyped
<1>4. \A i \in 1 .. Len(ds) : ds[i].restored <= ds[i].consumed /\ ds[i].consumed <= ds[i].reserved
  <2> SUFFICES ASSUME NEW i \in 1 .. n
               PROVE  ds[i].restored <= ds[i].consumed /\ ds[i].consumed <= ds[i].reserved
    BY <1>3
  <2>1. /\ r.demands[i] \in Demands /\ amounts[i] \in Nat
        /\ amounts[i] <= r.demands[i].consumed - r.demands[i].restored
        /\ r.demands[i].consumed <= r.demands[i].reserved
    BY <1>1, <1>2, ReservationTyped
  <2> HIDE DEF r
  <2>2. /\ ds[i].restored = r.demands[i].restored + amounts[i]
        /\ ds[i].reserved = r.demands[i].reserved /\ ds[i].consumed = r.demands[i].consumed
    BY <2>1 DEF Demands
  <2> QED
    BY <2>1, <2>2 DEF Demands
<1>5. /\ r.status \in {"ACTIVE", "CLOSED"}
      /\ reservations' = [reservations EXCEPT
                           ![k] = [reservations[k] EXCEPT !.status = r.status, !.demands = ds]]
  BY <1>1, ReservationTyped DEF Reservations
<1>6. \A t \in TargetKeys : AmountAt(CapacityDemands(r), amounts, t) \in Int
  BY <1>2, ReservationTyped, AmountAtInt, CapacityDemandsLength
<1>7. targets' \in [TargetKeys -> Balances]
  <2>1. \A t \in TargetKeys : targets[t] \in Balances
    BY DEF TypeInv, TypeOK
  <2> HIDE DEF r
  <2>2. \A t \in TargetKeys :
           [targets[t] EXCEPT !.restored = @ + AmountAt(CapacityDemands(r), amounts, t)] \in Balances
    BY <2>1, <1>6, BalanceUpdate
  <2> QED
    BY <2>2, <1>1
<1> HIDE DEF ds
<1>8. reservations' \in Seq(Reservations) /\ Len(reservations') = Len(reservations) /\ DemandsBounded'
  BY <1>3, <1>4, <1>5, ReservationUpdate
<1>9. TypeOK'
  BY <1>1, <1>7, <1>8, TimesAssumption DEF TypeInv, TypeOK
<1> QED
  BY <1>8, <1>9 DEF TypeInv

(***************************************************************************)
(* ADMIT_ATTEMPT keeps the types.                                          *)
(***************************************************************************)
LEMMA AdmitType ==
    ASSUME TypeInv, NEW k \in 1 .. Len(reservations), NEW artifact \in Artifacts,
           NEW slot \in Slots \cup {NoSlot}, NEW validUntil \in Times, NEW at \in Times,
           ApplyAdmitAttempt(k, artifact, slot, validUntil, at)
    PROVE  TypeInv'
<1> DEFINE record == [reservation |-> k, artifact |-> artifact, slot |-> slot,
                      validUntil |-> validUntil, admittedTime |-> at]
<1>1. /\ lastAt' = at /\ attempts' = Append(attempts, record)
      /\ UNCHANGED <<policy, everReserved, nodes, revoked, targets, reservations, actions>>
  BY DEF ApplyAdmitAttempt, At
<1>2. record \in AttemptRecords
  BY DEF AttemptRecords, TypeInv, TypeOK
<1> HIDE DEF record
<1>3. TypeOK'
  BY <1>1, <1>2, TimesAssumption DEF TypeInv, TypeOK
<1>4. DemandsBounded'
  BY <1>1 DEF TypeInv, DemandsBounded
<1> QED
  BY <1>3, <1>4 DEF TypeInv

(***************************************************************************)
(* Registrations and revocations keep the types; a revoked node was        *)
(* registered.                                                             *)
(***************************************************************************)
LEMMA GraphType ==
    ASSUME TypeInv, NEW at \in Times,
           \/ \E p \in Policies : ApplyRegisterPolicy(p, at)
           \/ \E g \in Grants : ApplyRegisterGrant(g, at)
           \/ \E g \in Grants, issuer \in Parties, effectiveAt \in Times :
                 ApplyRevoke(g, issuer, effectiveAt, at)
    PROVE  TypeInv'
<1>1. /\ lastAt' = at
      /\ UNCHANGED <<everReserved, targets, reservations, actions, attempts>>
  BY DEF ApplyRegisterPolicy, ApplyRegisterGrant, ApplyRevoke, At
<1>2. policy' \in Policies \cup {NoPolicy}
  BY DEF ApplyRegisterPolicy, ApplyRegisterGrant, ApplyRevoke, TypeInv, TypeOK
<1>3. nodes' \subseteq Grants /\ revoked' \subseteq nodes'
  <2>1. CASE \E p \in Policies : ApplyRegisterPolicy(p, at)
    BY <2>1 DEF ApplyRegisterPolicy, TypeInv, TypeOK
  <2>2. CASE \E g \in Grants : ApplyRegisterGrant(g, at)
    BY <2>2 DEF ApplyRegisterGrant, TypeInv, TypeOK
  <2>3. CASE \E g \in Grants, issuer \in Parties, effectiveAt \in Times :
               ApplyRevoke(g, issuer, effectiveAt, at)
    <3>1. PICK g \in Grants, issuer \in Parties, effectiveAt \in Times :
                 ApplyRevoke(g, issuer, effectiveAt, at)
      BY <2>3
    <3>2. g \in nodes
      BY <3>1, LineageReflexive DEF ApplyRevoke, CheckRevocation, ResolveLineage
    <3> QED
      BY <3>1, <3>2 DEF ApplyRevoke, TypeInv, TypeOK
  <2> QED
    BY <2>1, <2>2, <2>3
<1>4. TypeOK'
  BY <1>1, <1>2, <1>3, TimesAssumption DEF TypeInv, TypeOK
<1>5. DemandsBounded'
  BY <1>1 DEF TypeInv, DemandsBounded
<1> QED
  BY <1>4, <1>5 DEF TypeInv

(***************************************************************************)
(* Every step keeps the types.                                             *)
(***************************************************************************)
LEMMA NextType == TypeInv /\ [Next]_vars => TypeInv'
<1> SUFFICES ASSUME TypeInv, [Next]_vars PROVE TypeInv'
  OBVIOUS
<1>1. CASE UNCHANGED vars
  BY <1>1 DEF TypeInv, TypeOK, DemandsBounded, vars
<1>2. CASE Next
  <2>1. PICK at \in Times :
          \/ \E p \in Policies : ApplyRegisterPolicy(p, at)
          \/ \E g \in Grants : ApplyRegisterGrant(g, at)
          \/ \E g \in Grants, issuer \in Parties, effectiveAt \in Times :
                ApplyRevoke(g, issuer, effectiveAt, at)
          \/ \E action \in Actions, generation \in 1 .. MaxReservations, g \in Grants,
                actor \in Parties, module \in Modules, cs \in ContributionLists :
                ApplyReserve(action, generation, g, actor, module, cs, at)
          \/ \E k \in 1 .. Len(reservations) :
                \/ \E amounts \in AmountLists(k) : ApplyConsume(k, amounts, at)
                \/ ApplyClose(k, at)
                \/ \E amounts \in AmountLists(k) : ApplyRestore(k, amounts, at)
                \/ \E artifact \in Artifacts, slot \in Slots \cup {NoSlot}, validUntil \in Times :
                      ApplyAdmitAttempt(k, artifact, slot, validUntil, at)
    BY <1>2 DEF Next
  <2> QED
    BY <2>1, GraphType, ReserveType, ConsumeType, CloseType, RestoreType, AdmitType
<1> QED
  BY <1>1, <1>2

(***************************************************************************)
(* The state of the ledger is well typed after every sequence of events,   *)
(* and no demand consumes more than it reserved.                           *)
(***************************************************************************)
THEOREM TypeCorrect == Spec => []TypeOK
<1>1. Init => TypeInv
  BY InitType
<1>2. TypeInv /\ [Next]_vars => TypeInv'
  BY NextType
<1>3. TypeInv => TypeOK
  BY DEF TypeInv
<1> QED
  BY <1>1, <1>2, <1>3, PTL DEF Spec

------------------------------------------------------------------------------
(* What no event rewrites.                                                  *)

\* The identity of a reservation, as RESERVE recorded it.
SameIdentity(r, q) ==
    /\ r.action = q.action /\ r.generation = q.generation
    /\ r.authority = q.authority /\ r.reservedAt = q.reservedAt

(***************************************************************************)
(* An accounting event keeps the number and identity of the reservations.  *)
(***************************************************************************)
LEMMA AccountingKeepsIdentity ==
    ASSUME TypeInv, NEW k \in 1 .. Len(reservations), NEW at \in Times,
           \/ \E amounts \in AmountLists(k) : ApplyConsume(k, amounts, at)
           \/ ApplyClose(k, at)
           \/ \E amounts \in AmountLists(k) : ApplyRestore(k, amounts, at)
    PROVE  /\ Len(reservations') = Len(reservations)
           /\ \A j \in 1 .. Len(reservations) : SameIdentity(reservations'[j], reservations[j])
           /\ \A j \in 1 .. Len(reservations) : j # k => reservations'[j] = reservations[j]
           /\ attempts' = attempts /\ lastAt' = at /\ at >= lastAt
<1>1. attempts' = attempts /\ lastAt' = at /\ at >= lastAt
  BY DEF ApplyConsume, ApplyClose, ApplyRestore, At
<1>2. \E ds, status : reservations' = [reservations EXCEPT
                         ![k] = [reservations[k] EXCEPT !.status = status, !.demands = ds]]
  <2>1. \A ds : [reservations EXCEPT ![k].demands = ds] =
                 [reservations EXCEPT ![k] = [reservations[k] EXCEPT
                                          !.status = reservations[k].status, !.demands = ds]]
    BY ReservationTyped DEF Reservations
  <2>2. CASE \E amounts \in AmountLists(k) : ApplyConsume(k, amounts, at)
    <3>1. PICK amounts \in AmountLists(k) : ApplyConsume(k, amounts, at)
      BY <2>2
    <3>2. \E ds : reservations' = [reservations EXCEPT ![k].demands = ds]
      BY <3>1 DEF ApplyConsume
    <3> QED
      BY <2>1, <3>2
  <2>3. CASE \E amounts \in AmountLists(k) : ApplyRestore(k, amounts, at)
    <3>1. PICK amounts \in AmountLists(k) : ApplyRestore(k, amounts, at)
      BY <2>3
    <3>2. \E ds : reservations' = [reservations EXCEPT ![k].demands = ds]
      BY <3>1 DEF ApplyRestore
    <3> QED
      BY <2>1, <3>2
  <2>4. CASE ApplyClose(k, at)
    BY <2>4 DEF ApplyClose
  <2> QED
    BY <2>2, <2>3, <2>4
<1>3. PICK ds, status : reservations' = [reservations EXCEPT
                         ![k] = [reservations[k] EXCEPT !.status = status, !.demands = ds]]
  BY <1>2
<1>4. Len(reservations') = Len(reservations)
  BY <1>3 DEF TypeInv, TypeOK
<1>5. \A j \in 1 .. Len(reservations) : j # k => reservations'[j] = reservations[j]
  BY <1>3 DEF TypeInv, TypeOK
<1>6. reservations'[k] = [reservations[k] EXCEPT !.status = status, !.demands = ds]
  <2> DEFINE r == [reservations[k] EXCEPT !.status = status, !.demands = ds]
  <2>1. reservations' = [reservations EXCEPT ![k] = r]
    BY <1>3
  <2>2. k \in DOMAIN reservations
    BY DEF TypeInv, TypeOK
  <2> HIDE DEF r
  <2>3. reservations'[k] = r
    BY <2>1, <2>2
  <2> QED
    BY <2>3 DEF r
<1>7. SameIdentity(reservations'[k], reservations[k])
  <2>1. \A r \in Reservations : SameIdentity([r EXCEPT !.status = status, !.demands = ds], r)
    BY DEF SameIdentity, Reservations
  <2> QED
    BY <1>6, <2>1, ReservationTyped
<1>8. \A r : SameIdentity(r, r)
  BY DEF SameIdentity
<1>9. ASSUME NEW j \in 1 .. Len(reservations)
      PROVE  SameIdentity(reservations'[j], reservations[j])
  <2>1. CASE j = k
    BY <2>1, <1>7
  <2>2. CASE j # k
    BY <2>2, <1>5, <1>8
  <2> QED
    BY <2>1, <2>2
<1> QED
  BY <1>1, <1>4, <1>5, <1>9

\* No reservation is dated after the ledger's clock.
ReservedInThePast ==
    \A k \in 1 .. Len(reservations) : reservations[k].reservedAt <= lastAt

\* The inductive invariant of the attempts.
AttemptInv == TypeInv /\ ReservedInThePast /\ BoundOnce

(***************************************************************************)
(* A step that keeps the attempts, and every reservation it has, keeps     *)
(* what the attempts bind.                                                 *)
(***************************************************************************)
LEMMA BoundOnceKept ==
    ASSUME AttemptInv, attempts' = attempts,
           Len(reservations') \in Nat, Len(reservations') >= Len(reservations),
           \A j \in 1 .. Len(reservations) : reservations'[j].reservedAt = reservations[j].reservedAt
    PROVE  BoundOnce'
<1>1. Len(reservations) \in Nat
  BY DEF AttemptInv, TypeInv, TypeOK
<1>2. ASSUME NEW i \in 1 .. Len(attempts)
      PROVE  /\ attempts[i].reservation \in 1 .. Len(reservations')
             /\ reservations'[attempts[i].reservation].reservedAt <= attempts[i].admittedTime
  <2>1. /\ attempts[i].reservation \in 1 .. Len(reservations)
        /\ reservations[attempts[i].reservation].reservedAt <= attempts[i].admittedTime
    BY DEF AttemptInv, BoundOnce
  <2>2. reservations'[attempts[i].reservation].reservedAt
           = reservations[attempts[i].reservation].reservedAt
    BY <2>1
  <2> QED
    BY <1>1, <2>1, <2>2
<1> QED
  BY <1>2 DEF AttemptInv, BoundOnce

(***************************************************************************)
(* ADMIT_ATTEMPT binds what no attempt bound.                              *)
(***************************************************************************)
LEMMA AdmitBindsOnce ==
    ASSUME AttemptInv, NEW k \in 1 .. Len(reservations), NEW artifact \in Artifacts,
           NEW slot \in Slots \cup {NoSlot}, NEW validUntil \in Times, NEW at \in Times,
           ApplyAdmitAttempt(k, artifact, slot, validUntil, at)
    PROVE  BoundOnce'
<1> DEFINE record == [reservation |-> k, artifact |-> artifact, slot |-> slot,
                      validUntil |-> validUntil, admittedTime |-> at]
           n == Len(attempts)
<1>1. /\ attempts' = Append(attempts, record) /\ reservations' = reservations
      /\ AttemptsOf(k) = {} /\ ArtifactUnbound(artifact) /\ validUntil > at /\ at >= lastAt
      /\ slot # NoSlot => \A i \in 1 .. n : attempts[i].slot # slot
  BY DEF ApplyAdmitAttempt, SlotUnbound, At
<1>2. /\ record.reservation = k /\ record.artifact = artifact /\ record.slot = slot
      /\ record.validUntil = validUntil /\ record.admittedTime = at
  OBVIOUS
<1> HIDE DEF record
<1>3. /\ n \in Nat /\ Len(attempts') = n + 1 /\ attempts'[n + 1] = record
      /\ \A i \in 1 .. n : attempts'[i] = attempts[i]
  BY <1>1 DEF AttemptInv, TypeInv, TypeOK
<1>4. \A i \in 1 .. n : /\ attempts[i].artifact # artifact
                        /\ attempts[i].reservation # k
                        /\ slot = NoSlot \/ attempts[i].slot # slot
  BY <1>1 DEF AttemptsOf, ArtifactUnbound
<1>5. reservations[k].reservedAt <= at /\ at < validUntil
  <2>1. /\ reservations[k].reservedAt \in Nat /\ lastAt \in Nat /\ at \in Nat /\ validUntil \in Nat
        /\ reservations[k].reservedAt <= lastAt
    BY ReservationTyped, TimesAssumption DEF AttemptInv, TypeInv, TypeOK, ReservedInThePast, Reservations
  <2> QED
    BY <1>1, <2>1
<1>6. ASSUME NEW i \in 1 .. n + 1, NEW j \in 1 .. n + 1, i # j
      PROVE  /\ attempts'[i].artifact # attempts'[j].artifact
             /\ attempts'[i].slot = NoSlot \/ attempts'[i].slot # attempts'[j].slot
             /\ attempts'[i].reservation # attempts'[j].reservation
  <2>1. CASE i = n + 1
    BY <1>2, <1>3, <1>4, <1>6, <2>1
  <2>2. CASE j = n + 1
    BY <1>2, <1>3, <1>4, <1>6, <2>2
  <2>3. CASE i \in 1 .. n /\ j \in 1 .. n
    BY <1>3, <1>6, <2>3 DEF AttemptInv, BoundOnce
  <2> QED
    BY <1>3, <2>1, <2>2, <2>3
<1>7. ASSUME NEW i \in 1 .. n + 1
      PROVE  /\ attempts'[i].reservation \in 1 .. Len(reservations)
             /\ reservations[attempts'[i].reservation].reservedAt <= attempts'[i].admittedTime
             /\ attempts'[i].admittedTime < attempts'[i].validUntil
  <2>1. CASE i = n + 1
    BY <1>2, <1>3, <1>5, <2>1
  <2>2. CASE i \in 1 .. n
    BY <1>3, <2>2 DEF AttemptInv, BoundOnce
  <2> QED
    BY <1>3, <2>1, <2>2
<1> QED
  BY <1>1, <1>3, <1>6, <1>7 DEF BoundOnce

(***************************************************************************)
(* RESERVE appends one reservation, dated by the event, and keeps the      *)
(* others.                                                                 *)
(***************************************************************************)
LEMMA ReserveAppends ==
    ASSUME TypeInv, NEW action \in Actions, NEW generation \in 1 .. MaxReservations,
           NEW g \in Grants, NEW actor, NEW module \in Modules,
           NEW cs \in ContributionLists, NEW at \in Times,
           ApplyReserve(action, generation, g, actor, module, cs, at)
    PROVE  /\ Len(reservations) \in Nat /\ Len(reservations') = Len(reservations) + 1
           /\ \A j \in 1 .. Len(reservations) : reservations'[j] = reservations[j]
           /\ reservations'[Len(reservations) + 1].reservedAt = at
           /\ reservations'[Len(reservations) + 1].action = action
           /\ reservations'[Len(reservations) + 1].generation = generation
           /\ reservations'[Len(reservations) + 1].authority = g
           /\ reservations'[Len(reservations) + 1].status = "ACTIVE"
           /\ lastAt' = at /\ at >= lastAt /\ attempts' = attempts
<1> DEFINE record == [action |-> action, generation |-> generation, authority |-> g,
                      module |-> module, reservedAt |-> at, status |-> "ACTIVE",
                      demands |-> [i \in 1 .. Len(cs) |-> DemandOf(g, cs[i])]]
<1>1. /\ reservations' = Append(reservations, record)
      /\ lastAt' = at /\ at >= lastAt /\ attempts' = attempts
  BY DEF ApplyReserve, At
<1>2. /\ record.reservedAt = at /\ record.action = action /\ record.generation = generation
      /\ record.authority = g /\ record.status = "ACTIVE"
  OBVIOUS
<1> HIDE DEF record
<1>3. /\ Len(reservations) \in Nat /\ Len(reservations') = Len(reservations) + 1
      /\ \A j \in 1 .. Len(reservations) : reservations'[j] = reservations[j]
      /\ reservations'[Len(reservations) + 1] = record
  BY <1>1 DEF TypeInv, TypeOK
<1> QED
  BY <1>1, <1>2, <1>3

(***************************************************************************)
(* Every step keeps the invariant of the attempts.                         *)
(***************************************************************************)
LEMMA NextAttempts == AttemptInv /\ [Next]_vars => AttemptInv'
<1> SUFFICES ASSUME AttemptInv, [Next]_vars PROVE AttemptInv'
  OBVIOUS
<1> TypeInv
  BY DEF AttemptInv
<1>1. TypeInv'
  BY NextType
<1>2. Len(reservations) \in Nat /\ lastAt \in Nat /\ Times \subseteq Nat
  BY TimesAssumption DEF TypeInv, TypeOK
<1>3. CASE UNCHANGED vars
  BY <1>1, <1>3 DEF AttemptInv, ReservedInThePast, BoundOnce, vars
<1>4. ASSUME NEW at \in Times,
             \/ \E p \in Policies : ApplyRegisterPolicy(p, at)
             \/ \E g \in Grants : ApplyRegisterGrant(g, at)
             \/ \E g \in Grants, issuer \in Parties, effectiveAt \in Times :
                   ApplyRevoke(g, issuer, effectiveAt, at)
      PROVE  AttemptInv'
  <2>1. reservations' = reservations /\ attempts' = attempts /\ lastAt' = at /\ at >= lastAt
    BY <1>4 DEF ApplyRegisterPolicy, ApplyRegisterGrant, ApplyRevoke, At
  <2>2. BoundOnce'
    BY <2>1 DEF AttemptInv, BoundOnce
  <2>3. ReservedInThePast'
    <3>1. \A k \in 1 .. Len(reservations) : reservations[k].reservedAt \in Nat
      BY ReservationTyped, <1>2 DEF Reservations
    <3> QED
      BY <1>2, <2>1, <3>1 DEF AttemptInv, ReservedInThePast
  <2> QED
    BY <1>1, <2>2, <2>3 DEF AttemptInv
<1>5. ASSUME NEW action \in Actions, NEW generation \in 1 .. MaxReservations,
             NEW g \in Grants, NEW actor \in Parties, NEW module \in Modules,
             NEW cs \in ContributionLists, NEW at \in Times,
             ApplyReserve(action, generation, g, actor, module, cs, at)
      PROVE  AttemptInv'
  <2>1. /\ Len(reservations') = Len(reservations) + 1
        /\ \A j \in 1 .. Len(reservations) : reservations'[j] = reservations[j]
        /\ reservations'[Len(reservations) + 1].reservedAt = at
        /\ lastAt' = at /\ at >= lastAt /\ attempts' = attempts
    BY <1>5, ReserveAppends
  <2>2. BoundOnce'
    BY <1>2, <2>1, BoundOnceKept
  <2>3. ReservedInThePast'
    <3>1. \A k \in 1 .. Len(reservations) : reservations[k].reservedAt \in Nat
      BY ReservationTyped, <1>2 DEF Reservations
    <3>2. ASSUME NEW k \in 1 .. Len(reservations) + 1
          PROVE  reservations'[k].reservedAt <= at
      <4>1. CASE k = Len(reservations) + 1
        BY <4>1, <2>1, <1>2
      <4>2. CASE k \in 1 .. Len(reservations)
        BY <4>2, <2>1, <3>1, <1>2 DEF AttemptInv, ReservedInThePast
      <4> QED
        BY <4>1, <4>2, <1>2
    <3> QED
      BY <3>2, <2>1 DEF ReservedInThePast
  <2> QED
    BY <1>1, <2>2, <2>3 DEF AttemptInv
<1>6. ASSUME NEW k \in 1 .. Len(reservations), NEW at \in Times,
             \/ \E amounts \in AmountLists(k) : ApplyConsume(k, amounts, at)
             \/ ApplyClose(k, at)
             \/ \E amounts \in AmountLists(k) : ApplyRestore(k, amounts, at)
      PROVE  AttemptInv'
  <2>1. /\ Len(reservations') = Len(reservations)
        /\ \A j \in 1 .. Len(reservations) : SameIdentity(reservations'[j], reservations[j])
        /\ attempts' = attempts /\ lastAt' = at /\ at >= lastAt
    BY <1>6, AccountingKeepsIdentity
  <2>2. \A j \in 1 .. Len(reservations) : reservations'[j].reservedAt = reservations[j].reservedAt
    BY <2>1 DEF SameIdentity
  <2>3. BoundOnce'
    BY <1>2, <2>1, <2>2, BoundOnceKept
  <2>4. ReservedInThePast'
    <3>1. \A j \in 1 .. Len(reservations) : reservations[j].reservedAt \in Nat
      BY ReservationTyped, <1>2 DEF Reservations
    <3> QED
      BY <1>2, <2>1, <2>2, <3>1 DEF AttemptInv, ReservedInThePast
  <2> QED
    BY <1>1, <2>3, <2>4 DEF AttemptInv
<1>7. ASSUME NEW k \in 1 .. Len(reservations), NEW artifact \in Artifacts,
             NEW slot \in Slots \cup {NoSlot}, NEW validUntil \in Times, NEW at \in Times,
             ApplyAdmitAttempt(k, artifact, slot, validUntil, at)
      PROVE  AttemptInv'
  <2>1. BoundOnce'
    BY <1>7, AdmitBindsOnce
  <2>2. reservations' = reservations /\ lastAt' = at /\ at >= lastAt
    BY <1>7 DEF ApplyAdmitAttempt, At
  <2>3. ReservedInThePast'
    <3>1. \A j \in 1 .. Len(reservations) : reservations[j].reservedAt \in Nat
      BY ReservationTyped, <1>2 DEF Reservations
    <3> QED
      BY <1>2, <2>2, <3>1 DEF AttemptInv, ReservedInThePast
  <2> QED
    BY <1>1, <2>1, <2>3 DEF AttemptInv
<1> QED
  BY <1>3, <1>4, <1>5, <1>6, <1>7 DEF Next

(***************************************************************************)
(* No artifact, slot or reservation is ever bound twice, however many      *)
(* attempts are admitted and in whatever order.                            *)
(***************************************************************************)
THEOREM AttemptsBindOnce == Spec => []BoundOnce
<1>1. Init => AttemptInv
  <2> SUFFICES ASSUME Init PROVE AttemptInv
    OBVIOUS
  <2>1. Len(reservations) = 0 /\ Len(attempts) = 0
    BY DEF Init
  <2> QED
    BY <2>1, InitType DEF AttemptInv, ReservedInThePast, BoundOnce
<1>2. AttemptInv /\ [Next]_vars => AttemptInv'
  BY NextAttempts
<1>3. AttemptInv => BoundOnce
  BY DEF AttemptInv
<1> QED
  BY <1>1, <1>2, <1>3, PTL DEF Spec

------------------------------------------------------------------------------
(* Generations.                                                             *)

(***************************************************************************)
(* OneOpenGeneration by elements: the form an event preserves.             *)
(***************************************************************************)
Generations ==
    /\ \A k \in 1 .. Len(reservations) :
         reservations[k].generation \in 1 .. actions[reservations[k].action].lastGeneration
    /\ \A a \in Actions : \A n \in 1 .. actions[a].lastGeneration :
         \E k \in 1 .. Len(reservations) :
            reservations[k].action = a /\ reservations[k].generation = n
    /\ \A j, k \in 1 .. Len(reservations) :
         (/\ reservations[j].action = reservations[k].action
          /\ reservations[j].generation = reservations[k].generation) => j = k
    /\ \A k \in 1 .. Len(reservations) : reservations[k].status = "ACTIVE" =>
         /\ actions[reservations[k].action].open = k
         /\ reservations[k].generation = actions[reservations[k].action].lastGeneration
    /\ \A a \in Actions : actions[a].open # 0 =>
         /\ reservations[actions[a].open].action = a
         /\ reservations[actions[a].open].status = "ACTIVE"

GenerationInv == TypeInv /\ Generations

(***************************************************************************)
(* The form by elements implies the property.                              *)
(***************************************************************************)
LEMMA GenerationsSuffice == GenerationInv => OneOpenGeneration
<1> SUFFICES ASSUME GenerationInv, NEW a \in Actions
             PROVE  LET mine == {k \in 1 .. Len(reservations) : reservations[k].action = a}
                    IN  /\ {reservations[k].generation : k \in mine} = 1 .. actions[a].lastGeneration
                        /\ \A j, k \in mine :
                             reservations[j].generation = reservations[k].generation => j = k
                        /\ {k \in mine : reservations[k].status = "ACTIVE"} =
                             (IF actions[a].open = 0 THEN {} ELSE {actions[a].open})
                        /\ \A k \in mine : reservations[k].status = "ACTIVE" =>
                             reservations[k].generation = actions[a].lastGeneration
  BY DEF OneOpenGeneration
<1> DEFINE mine == {k \in 1 .. Len(reservations) : reservations[k].action = a}
<1>1. {reservations[k].generation : k \in mine} = 1 .. actions[a].lastGeneration
  BY DEF GenerationInv, Generations
<1>2. \A j, k \in mine : reservations[j].generation = reservations[k].generation => j = k
  BY DEF GenerationInv, Generations
<1>3. actions[a].open \in 0 .. Len(reservations) /\ Len(reservations) \in Nat
  BY DEF GenerationInv, TypeInv, TypeOK
<1>4. {k \in mine : reservations[k].status = "ACTIVE"} =
         (IF actions[a].open = 0 THEN {} ELSE {actions[a].open})
  <2>1. CASE actions[a].open = 0
    BY <1>3, <2>1 DEF GenerationInv, Generations
  <2>2. CASE actions[a].open # 0
    <3>1. actions[a].open \in mine /\ reservations[actions[a].open].status = "ACTIVE"
      BY <1>3, <2>2 DEF GenerationInv, Generations
    <3>2. \A k \in mine : reservations[k].status = "ACTIVE" => k = actions[a].open
      BY DEF GenerationInv, Generations
    <3> QED
      BY <2>2, <3>1, <3>2
  <2> QED
    BY <2>1, <2>2
<1>5. \A k \in mine : reservations[k].status = "ACTIVE" =>
         reservations[k].generation = actions[a].lastGeneration
  BY DEF GenerationInv, Generations
<1> QED
  BY <1>1, <1>2, <1>4, <1>5

(***************************************************************************)
(* A step that changes neither what Generations reads of the reservations  *)
(* nor the actions keeps it.                                               *)
(***************************************************************************)
LEMMA GenerationsKept ==
    ASSUME GenerationInv, actions' = actions, Len(reservations') = Len(reservations),
           \A j \in 1 .. Len(reservations) :
              /\ reservations'[j].action = reservations[j].action
              /\ reservations'[j].generation = reservations[j].generation
              /\ reservations'[j].status = reservations[j].status
    PROVE  Generations'
<1>1. \A a \in Actions : actions[a].open # 0 => actions[a].open \in 1 .. Len(reservations)
  BY DEF GenerationInv, TypeInv, TypeOK
<1> QED
  BY <1>1 DEF GenerationInv, Generations

(***************************************************************************)
(* RESERVE opens the next generation of an action with none open.          *)
(***************************************************************************)
LEMMA ReserveGenerations ==
    ASSUME GenerationInv, NEW action \in Actions, NEW generation \in 1 .. MaxReservations,
           NEW g \in Grants, NEW actor, NEW module \in Modules,
           NEW cs \in ContributionLists, NEW at \in Times,
           ApplyReserve(action, generation, g, actor, module, cs, at)
    PROVE  Generations'
<1> DEFINE N == Len(reservations)
<1>1. /\ N \in Nat /\ Len(reservations') = N + 1
      /\ \A j \in 1 .. N : reservations'[j] = reservations[j]
      /\ reservations'[N + 1].action = action
      /\ reservations'[N + 1].generation = generation
      /\ reservations'[N + 1].status = "ACTIVE"
  BY ReserveAppends DEF GenerationInv
<1>2. /\ actions[action].open = 0
      /\ generation = actions[action].lastGeneration + 1
      /\ actions' = [actions EXCEPT ![action] =
                       [lastGeneration |-> generation, open |-> N + 1]]
  BY DEF ApplyReserve, DeriveReservation
<1>3. /\ \A a \in Actions : actions[a].lastGeneration \in Nat /\ actions[a].open \in 0 .. N
      /\ \A k \in 1 .. N : reservations[k].action \in Actions
  BY ReservationTyped DEF GenerationInv, TypeInv, TypeOK
<1>4. /\ actions'[action].lastGeneration = generation /\ actions'[action].open = N + 1
      /\ \A a \in Actions : a # action => actions'[a] = actions[a]
  BY <1>2 DEF GenerationInv, TypeInv, TypeOK
<1>5. \A k \in 1 .. N : reservations[k].action = action =>
         reservations[k].generation < generation /\ reservations[k].status # "ACTIVE"
  BY <1>2, <1>3 DEF GenerationInv, Generations
<1>6. \A k \in 1 .. Len(reservations') :
         reservations'[k].generation \in 1 .. actions'[reservations'[k].action].lastGeneration
  <2> SUFFICES ASSUME NEW k \in 1 .. N + 1
               PROVE  reservations'[k].generation \in
                         1 .. actions'[reservations'[k].action].lastGeneration
    BY <1>1
  <2>1. CASE k = N + 1
    BY <2>1, <1>1, <1>4, <1>2, <1>3
  <2>2. CASE k \in 1 .. N /\ reservations[k].action = action
    BY <2>2, <1>1, <1>2, <1>3, <1>4 DEF GenerationInv, Generations
  <2>3. CASE k \in 1 .. N /\ reservations[k].action # action
    BY <2>3, <1>1, <1>3, <1>4 DEF GenerationInv, Generations
  <2> QED
    BY <1>1, <2>1, <2>2, <2>3
<1>7. ASSUME NEW a \in Actions, NEW n \in 1 .. actions'[a].lastGeneration
      PROVE  \E k \in 1 .. Len(reservations') :
                reservations'[k].action = a /\ reservations'[k].generation = n
  <2>1. CASE a = action /\ n = generation
    BY <2>1, <1>1
  <2>2. CASE ~ (a = action /\ n = generation)
    <3>1. n \in 1 .. actions[a].lastGeneration
      BY <2>2, <1>2, <1>3, <1>4
    <3>2. PICK k \in 1 .. N : reservations[k].action = a /\ reservations[k].generation = n
      BY <3>1 DEF GenerationInv, Generations
    <3> QED
      BY <3>2, <1>1
  <2> QED
    BY <2>1, <2>2
<1>8. ASSUME NEW j \in 1 .. N + 1, NEW k \in 1 .. N + 1,
             reservations'[j].action = reservations'[k].action,
             reservations'[j].generation = reservations'[k].generation
      PROVE  j = k
  <2>1. CASE j \in 1 .. N /\ k \in 1 .. N
    BY <2>1, <1>1, <1>8 DEF GenerationInv, Generations
  <2>2. CASE j = N + 1 /\ k \in 1 .. N
    BY <2>2, <1>1, <1>3, <1>5, <1>8
  <2>3. CASE k = N + 1 /\ j \in 1 .. N
    BY <2>3, <1>1, <1>3, <1>5, <1>8
  <2> QED
    BY <1>1, <2>1, <2>2, <2>3
<1>9. ASSUME NEW k \in 1 .. N + 1, reservations'[k].status = "ACTIVE"
      PROVE  /\ actions'[reservations'[k].action].open = k
             /\ reservations'[k].generation = actions'[reservations'[k].action].lastGeneration
  <2>1. CASE k = N + 1
    BY <2>1, <1>1, <1>4
  <2>2. CASE k \in 1 .. N
    BY <2>2, <1>1, <1>3, <1>4, <1>5, <1>9 DEF GenerationInv, Generations
  <2> QED
    BY <1>1, <2>1, <2>2
<1>10. ASSUME NEW a \in Actions, actions'[a].open # 0
       PROVE  /\ reservations'[actions'[a].open].action = a
              /\ reservations'[actions'[a].open].status = "ACTIVE"
  <2>1. CASE a = action
    BY <2>1, <1>1, <1>4
  <2>2. CASE a # action
    <3>1. actions[a].open \in 1 .. N /\ actions'[a].open = actions[a].open
      BY <2>2, <1>3, <1>4, <1>10, <1>1
    <3> QED
      BY <3>1, <1>1 DEF GenerationInv, Generations
  <2> QED
    BY <2>1, <2>2
<1> QED
  BY <1>1, <1>6, <1>7, <1>8, <1>9, <1>10 DEF Generations

(***************************************************************************)
(* CLOSE closes the open generation of its action.                         *)
(***************************************************************************)
LEMMA CloseGenerations ==
    ASSUME GenerationInv, NEW k \in 1 .. Len(reservations), NEW at \in Times, ApplyClose(k, at)
    PROVE  Generations'
<1> DEFINE a == reservations[k].action
           N == Len(reservations)
<1>1. /\ Len(reservations') = N /\ N \in Nat
      /\ \A j \in 1 .. N : SameIdentity(reservations'[j], reservations[j])
      /\ \A j \in 1 .. N : j # k => reservations'[j] = reservations[j]
  BY AccountingKeepsIdentity DEF GenerationInv, TypeInv, TypeOK
<1>2. \A j \in 1 .. N : /\ reservations'[j].action = reservations[j].action
                        /\ reservations'[j].generation = reservations[j].generation
  BY <1>1 DEF SameIdentity
<1>3. reservations[k].status = "ACTIVE"
  BY DEF ApplyClose
<1>4. actions[a].open = k
  BY <1>3 DEF GenerationInv, Generations
<1>5. a \in Actions /\ actions' = [actions EXCEPT ![a].open = 0]
  BY <1>4, ReservationTyped DEF ApplyClose, GenerationInv
<1>6. reservations'[k].status = "CLOSED"
  <2>1. \E ds : reservations' = [reservations EXCEPT ![k].status = "CLOSED", ![k].demands = ds]
    BY DEF ApplyClose
  <2>2. k \in DOMAIN reservations /\ reservations[k] \in Reservations
    BY ReservationTyped DEF GenerationInv, TypeInv, TypeOK
  <2> QED
    BY <2>1, <2>2 DEF Reservations
<1>7. /\ actions'[a].open = 0
      /\ \A b \in Actions : actions'[b].lastGeneration = actions[b].lastGeneration
      /\ \A b \in Actions : b # a => actions'[b] = actions[b]
  <2>1. actions \in [Actions -> [lastGeneration : Nat, open : 0 .. N]]
    BY DEF GenerationInv, TypeInv, TypeOK
  <2> HIDE DEF a, N
  <2> QED
    BY <1>5, <2>1
<1>8. /\ \A b \in Actions : actions[b].open \in 0 .. N
      /\ \A j \in 1 .. N : reservations[j].action \in Actions
  BY ReservationTyped DEF GenerationInv, TypeInv, TypeOK
<1>9. \A j \in 1 .. N : reservations'[j].status = "ACTIVE" =>
         reservations[j].status = "ACTIVE" /\ j # k /\ reservations[j].action # a
  BY <1>1, <1>4, <1>6 DEF GenerationInv, Generations
<1> HIDE DEF a
<1>10. \A j \in 1 .. N : reservations'[j].status = "ACTIVE" =>
         /\ actions'[reservations'[j].action].open = j
         /\ reservations'[j].generation = actions'[reservations'[j].action].lastGeneration
  BY <1>2, <1>7, <1>8, <1>9 DEF GenerationInv, Generations
<1>11. ASSUME NEW b \in Actions, actions'[b].open # 0
       PROVE  /\ reservations'[actions'[b].open].action = b
              /\ reservations'[actions'[b].open].status = "ACTIVE"
  <2>1. b # a /\ actions'[b] = actions[b] /\ actions[b].open \in 1 .. N
    BY <1>1, <1>7, <1>8, <1>11
  <2>2. actions[b].open # k
    BY <2>1, <1>11, <1>1 DEF GenerationInv, Generations, a
  <2> QED
    BY <2>1, <2>2, <1>1, <1>11 DEF GenerationInv, Generations
<1>12. \A j \in 1 .. N : reservations'[j].generation \in
          1 .. actions'[reservations'[j].action].lastGeneration
  BY <1>2, <1>7, <1>8 DEF GenerationInv, Generations
<1>13. ASSUME NEW b \in Actions, NEW n \in 1 .. actions'[b].lastGeneration
       PROVE  \E j \in 1 .. N : reservations'[j].action = b /\ reservations'[j].generation = n
  <2>1. n \in 1 .. actions[b].lastGeneration
    BY <1>7
  <2>2. PICK j \in 1 .. N : reservations[j].action = b /\ reservations[j].generation = n
    BY <2>1 DEF GenerationInv, Generations
  <2> QED
    BY <2>2, <1>2
<1>14. \A i, j \in 1 .. N :
          (/\ reservations'[i].action = reservations'[j].action
           /\ reservations'[i].generation = reservations'[j].generation) => i = j
  BY <1>2 DEF GenerationInv, Generations
<1> QED
  BY <1>1, <1>10, <1>11, <1>12, <1>13, <1>14 DEF Generations

(***************************************************************************)
(* CONSUME and RESTORE leave the status of every reservation alone.        *)
(***************************************************************************)
LEMMA MovesKeepStatus ==
    ASSUME TypeInv, NEW k \in 1 .. Len(reservations), NEW at \in Times,
           \/ \E amounts \in AmountLists(k) : ApplyConsume(k, amounts, at)
           \/ \E amounts \in AmountLists(k) : ApplyRestore(k, amounts, at)
    PROVE  /\ actions' = actions
           /\ \A j \in 1 .. Len(reservations) : reservations'[j].status = reservations[j].status
<1>1. actions' = actions
  BY DEF ApplyConsume, ApplyRestore
<1>2. \E ds : reservations' = [reservations EXCEPT ![k].demands = ds]
  BY DEF ApplyConsume, ApplyRestore
<1>3. k \in DOMAIN reservations /\ reservations[k] \in Reservations
  BY ReservationTyped DEF TypeInv, TypeOK
<1>4. reservations'[k].status = reservations[k].status
  BY <1>2, <1>3 DEF Reservations
<1> QED
  BY <1>1, <1>4, AccountingKeepsIdentity

(***************************************************************************)
(* Every step keeps the generations.                                       *)
(***************************************************************************)
LEMMA NextGenerations == GenerationInv /\ [Next]_vars => GenerationInv'
<1> SUFFICES ASSUME GenerationInv, [Next]_vars PROVE GenerationInv'
  OBVIOUS
<1> TypeInv
  BY DEF GenerationInv
<1>1. TypeInv'
  BY NextType
<1>2. CASE UNCHANGED vars
  BY <1>1, <1>2 DEF GenerationInv, Generations, vars
<1>3. ASSUME NEW at \in Times,
             \/ \E p \in Policies : ApplyRegisterPolicy(p, at)
             \/ \E g \in Grants : ApplyRegisterGrant(g, at)
             \/ \E g \in Grants, issuer \in Parties, effectiveAt \in Times :
                   ApplyRevoke(g, issuer, effectiveAt, at)
             \/ \E k \in 1 .. Len(reservations) :
                   \E artifact \in Artifacts, slot \in Slots \cup {NoSlot}, validUntil \in Times :
                      ApplyAdmitAttempt(k, artifact, slot, validUntil, at)
      PROVE  GenerationInv'
  <2>1. reservations' = reservations /\ actions' = actions
    BY <1>3 DEF ApplyRegisterPolicy, ApplyRegisterGrant, ApplyRevoke, ApplyAdmitAttempt
  <2> QED
    BY <1>1, <2>1 DEF GenerationInv, Generations
<1>4. ASSUME NEW action \in Actions, NEW generation \in 1 .. MaxReservations,
             NEW g \in Grants, NEW actor \in Parties, NEW module \in Modules,
             NEW cs \in ContributionLists, NEW at \in Times,
             ApplyReserve(action, generation, g, actor, module, cs, at)
      PROVE  GenerationInv'
  BY <1>1, <1>4, ReserveGenerations DEF GenerationInv
<1>5. ASSUME NEW k \in 1 .. Len(reservations), NEW at \in Times,
             \/ \E amounts \in AmountLists(k) : ApplyConsume(k, amounts, at)
             \/ \E amounts \in AmountLists(k) : ApplyRestore(k, amounts, at)
      PROVE  GenerationInv'
  <2>1. /\ Len(reservations') = Len(reservations)
        /\ \A j \in 1 .. Len(reservations) : SameIdentity(reservations'[j], reservations[j])
    BY <1>5, AccountingKeepsIdentity
  <2>2. /\ actions' = actions
        /\ \A j \in 1 .. Len(reservations) : reservations'[j].status = reservations[j].status
    BY <1>5, MovesKeepStatus
  <2>3. Generations'
    BY <2>1, <2>2, GenerationsKept DEF SameIdentity
  <2> QED
    BY <1>1, <2>3 DEF GenerationInv
<1>6. ASSUME NEW k \in 1 .. Len(reservations), NEW at \in Times, ApplyClose(k, at)
      PROVE  GenerationInv'
  BY <1>1, <1>6, CloseGenerations DEF GenerationInv
<1> QED
  BY <1>2, <1>3, <1>4, <1>5, <1>6 DEF Next

(***************************************************************************)
(* At most one generation of an action is open, it is the latest, and no   *)
(* generation is skipped or repeated.                                      *)
(***************************************************************************)
THEOREM GenerationsInOrder == Spec => []OneOpenGeneration
<1>1. Init => GenerationInv
  <2> SUFFICES ASSUME Init PROVE GenerationInv
    OBVIOUS
  <2>1. Len(reservations) = 0 /\ \A a \in Actions : actions[a].lastGeneration = 0 /\ actions[a].open = 0
    BY DEF Init
  <2> QED
    BY <2>1, InitType DEF GenerationInv, Generations
<1>2. GenerationInv /\ [Next]_vars => GenerationInv'
  BY NextGenerations
<1>3. GenerationInv => OneOpenGeneration
  BY GenerationsSuffice
<1> QED
  BY <1>1, <1>2, <1>3, PTL DEF Spec

------------------------------------------------------------------------------
(* A registered lineage.                                                    *)

(***************************************************************************)
(* A path starts at its grant and goes from each node to its parent.       *)
(***************************************************************************)
LEMMA PathStep ==
    ASSUME NEW g \in Grants
    PROVE  /\ Ancestor[g][0] = g
           /\ \A i \in Distances :
                Ancestor[g][i + 1] = IF Ancestor[g][i] = Root THEN Root
                                     ELSE Grant[Ancestor[g][i]].parent
<1> DEFINE M == MAX_LINEAGE_LENGTH
           p == Ancestor[g]
<1>1. M \in Nat \ {0}
  BY BoundsAssumption
<1>2. p = [i \in 0 .. M |-> IF i = 0 THEN g
                            ELSE IF p[i - 1] = Root THEN Root ELSE Grant[p[i - 1]].parent]
  BY AncestorPath DEF IsPath
<1> HIDE DEF M, p
<1>3. \A i \in 0 .. M : p[i] = IF i = 0 THEN g
                               ELSE IF p[i - 1] = Root THEN Root ELSE Grant[p[i - 1]].parent
  BY <1>2
<1>4. p[0] = g
  BY <1>1, <1>3
<1>5. \A i \in 0 .. M - 1 : i + 1 \in 0 .. M /\ i + 1 # 0 /\ (i + 1) - 1 = i
  BY <1>1
<1>6. \A i \in 0 .. M - 1 :
         p[i + 1] = IF p[i] = Root THEN Root ELSE Grant[p[i]].parent
  BY <1>3, <1>5
<1> QED
  BY <1>4, <1>6 DEF Distances, M, p

(***************************************************************************)
(* A path holds grants, then root markers.                                 *)
(***************************************************************************)
LEMMA PathTyped ==
    ASSUME NEW g \in Grants, NEW i \in 0 .. MAX_LINEAGE_LENGTH
    PROVE  Ancestor[g][i] \in Grants \cup {Root}
<1> DEFINE p == Ancestor[g]
           P == {n \in Nat : n <= MAX_LINEAGE_LENGTH => p[n] \in Grants \cup {Root}}
<1>0. MAX_LINEAGE_LENGTH \in Nat
  BY BoundsAssumption
<1>1. 0 \in P
  BY PathStep
<1>2. ASSUME NEW n \in Nat, n \in P PROVE n + 1 \in P
  <2> SUFFICES ASSUME n + 1 <= MAX_LINEAGE_LENGTH PROVE p[n + 1] \in Grants \cup {Root}
    OBVIOUS
  <2>1. n \in Distances /\ p[n] \in Grants \cup {Root}
    BY <1>0, <1>2 DEF Distances
  <2>2. p[n + 1] = IF p[n] = Root THEN Root ELSE Grant[p[n]].parent
    BY <2>1, PathStep
  <2> HIDE DEF p
  <2> QED
    BY <2>1, <2>2, GrantAssumption
<1> HIDE DEF P
<1>3. Nat \subseteq P
  BY <1>1, <1>2, NatSetInduction
<1> QED
  BY <1>0, <1>3 DEF P

(***************************************************************************)
(* Past the root there is only the root marker.                            *)
(***************************************************************************)
LEMMA RootSticks ==
    ASSUME NEW g \in Grants, NEW i \in 0 .. MAX_LINEAGE_LENGTH, Ancestor[g][i] = Root
    PROVE  \A j \in i .. MAX_LINEAGE_LENGTH : Ancestor[g][j] = Root
<1> DEFINE p == Ancestor[g]
           P == {k \in Nat : i + k <= MAX_LINEAGE_LENGTH => p[i + k] = Root}
<1>0. MAX_LINEAGE_LENGTH \in Nat /\ i \in Nat
  BY BoundsAssumption
<1>1. 0 \in P
  BY <1>0
<1>2. ASSUME NEW k \in Nat, k \in P PROVE k + 1 \in P
  <2> SUFFICES ASSUME i + (k + 1) <= MAX_LINEAGE_LENGTH PROVE p[i + (k + 1)] = Root
    OBVIOUS
  <2>1. i + k \in Distances /\ p[i + k] = Root /\ i + (k + 1) = (i + k) + 1
    BY <1>0, <1>2 DEF Distances
  <2>2. p[(i + k) + 1] = Root
    BY <2>1, PathStep
  <2> QED
    BY <2>1, <2>2
<1> HIDE DEF P
<1>3. Nat \subseteq P
  BY <1>1, <1>2, NatSetInduction
<1>4. ASSUME NEW j \in i .. MAX_LINEAGE_LENGTH PROVE p[j] = Root
  <2>1. j - i \in Nat /\ i + (j - i) = j /\ j <= MAX_LINEAGE_LENGTH
    BY <1>0
  <2>2. j - i \in P
    BY <1>3, <2>1
  <2> QED
    BY <2>1, <2>2 DEF P
<1> QED
  BY <1>4

(***************************************************************************)
(* Two paths that meet go on together.                                     *)
(***************************************************************************)
LEMMA PathsMeet ==
    ASSUME NEW g \in Grants, NEW h \in Grants, NEW a \in Nat, NEW b \in Nat,
           Ancestor[g][a] = Ancestor[h][b]
    PROVE  \A k \in Nat : (a + k <= MAX_LINEAGE_LENGTH /\ b + k <= MAX_LINEAGE_LENGTH)
                             => Ancestor[g][a + k] = Ancestor[h][b + k]
<1> DEFINE p == Ancestor[g]
           q == Ancestor[h]
           P == {k \in Nat : (a + k <= MAX_LINEAGE_LENGTH /\ b + k <= MAX_LINEAGE_LENGTH)
                               => p[a + k] = q[b + k]}
<1>0. MAX_LINEAGE_LENGTH \in Nat
  BY BoundsAssumption
<1>1. 0 \in P
  <2>1. a + 0 = a /\ b + 0 = b
    OBVIOUS
  <2> QED
    BY <2>1
<1>2. ASSUME NEW k \in Nat, k \in P PROVE k + 1 \in P
  <2> SUFFICES ASSUME a + (k + 1) <= MAX_LINEAGE_LENGTH, b + (k + 1) <= MAX_LINEAGE_LENGTH
               PROVE  p[a + (k + 1)] = q[b + (k + 1)]
    OBVIOUS
  <2>1. /\ a + k \in Distances /\ b + k \in Distances /\ p[a + k] = q[b + k]
        /\ a + (k + 1) = (a + k) + 1 /\ b + (k + 1) = (b + k) + 1
    BY <1>0, <1>2 DEF Distances
  <2>2. /\ p[(a + k) + 1] = IF p[a + k] = Root THEN Root ELSE Grant[p[a + k]].parent
        /\ q[(b + k) + 1] = IF q[b + k] = Root THEN Root ELSE Grant[q[b + k]].parent
    BY <2>1, PathStep
  <2> HIDE DEF p, q
  <2> QED
    BY <2>1, <2>2
<1> HIDE DEF P
<1>3. Nat \subseteq P
  BY <1>1, <1>2, NatSetInduction
<1> QED
  BY <1>3 DEF P

(***************************************************************************)
(* A path that ends at the last distance repeats no grant, so its lineage  *)
(* has as many grants as the bound.                                        *)
(***************************************************************************)
LEMMA FullLineage ==
    ASSUME NEW g \in Grants, Ancestor[g][MAX_LINEAGE_LENGTH] = Root,
           Ancestor[g][MAX_LINEAGE_LENGTH - 1] # Root
    PROVE  Cardinality(Lineage[g]) = MAX_LINEAGE_LENGTH
<1> DEFINE M == MAX_LINEAGE_LENGTH
           p == Ancestor[g]
           S == Lineage[g]
           f == [n \in 1 .. M |-> p[n - 1]]
<1>1. M \in Nat \ {0} /\ M - 1 \in 0 .. M
  BY BoundsAssumption
<1>2. ASSUME NEW i \in 0 .. M - 1 PROVE p[i] # Root
  <2>1. i \in 0 .. M /\ M - 1 \in i .. M
    BY <1>1
  <2> QED
    BY <2>1, RootSticks
<1>3. ASSUME NEW i \in 0 .. M - 1, NEW j \in 0 .. M - 1, i < j, p[i] = p[j]
      PROVE  FALSE
  <2>1. /\ i \in Nat /\ j \in Nat /\ M - j \in Nat /\ j + (M - j) = M
        /\ i + (M - j) \in 0 .. M - 1 /\ i + (M - j) <= M /\ j + (M - j) <= M
    BY <1>1, <1>3
  <2>2. p[i + (M - j)] = p[j + (M - j)]
    BY <1>3, <2>1, PathsMeet
  <2> QED
    BY <1>2, <2>1, <2>2
<1>4. S = {p[i] : i \in 0 .. M - 1}
  BY <1>2 DEF Lineage, Distances
<1> HIDE DEF M, p, S
<1>5. \A n \in 1 .. M : n - 1 \in 0 .. M - 1
  BY <1>1
<1>6. \A i \in 0 .. M - 1 : i + 1 \in 1 .. M /\ (i + 1) - 1 = i
  BY <1>1
<1>7. f \in [1 .. M -> S]
  BY <1>4, <1>5
<1>8. ASSUME NEW m \in 1 .. M, NEW n \in 1 .. M, f[m] = f[n] PROVE m = n
  <2>1. p[m - 1] = p[n - 1]
    BY <1>8
  <2>2. m \in Int /\ n \in Int /\ m - 1 \in 0 .. M - 1 /\ n - 1 \in 0 .. M - 1
    BY <1>1, <1>5
  <2>3. ~ (m - 1 < n - 1) /\ ~ (n - 1 < m - 1)
    BY <1>3, <2>1, <2>2
  <2> QED
    BY <2>2, <2>3
<1>9. ASSUME NEW s \in S PROVE \E n \in 1 .. M : f[n] = s
  <2>1. PICK i \in 0 .. M - 1 : s = p[i]
    BY <1>4
  <2> QED
    BY <1>6, <2>1
<1> HIDE DEF f
<1>10. f \in Bijection(1 .. M, S)
  BY <1>7, <1>8, <1>9 DEF Bijection, Injection, Surjection, IsInjective
<1>11. ExistsBijection(1 .. M, S)
  BY <1>10 DEF ExistsBijection
<1> QED
  BY <1>1, <1>11, FS_CountingElements DEF M, S

(***************************************************************************)
(* The lineage of a delegated grant is its own node and its parent's       *)
(* lineage, when the parent's fits with one node more.                     *)
(***************************************************************************)
LEMMA ChildLineage ==
    ASSUME NEW g \in Grants, NEW p \in Grants, Grant[g].parent = p,
           Ancestor[p][MAX_LINEAGE_LENGTH] = Root,
           Cardinality(Lineage[p]) < MAX_LINEAGE_LENGTH
    PROVE  /\ Ancestor[g][MAX_LINEAGE_LENGTH] = Root
           /\ \A i \in Distances \ {0} : i - 1 \in Distances /\ Ancestor[g][i] = Ancestor[p][i - 1]
           /\ Lineage[g] = {g} \cup Lineage[p]
<1> DEFINE M == MAX_LINEAGE_LENGTH
<1>1. M \in Nat \ {0} /\ 0 \in Distances /\ M - 1 \in Distances
  BY BoundsAssumption DEF Distances
<1>2. Ancestor[p][M - 1] = Root
  BY <1>1, FullLineage
<1>3. Ancestor[g][1] = p /\ Ancestor[p][0] = p /\ Ancestor[g][0] = g /\ g # Root
  <2>1. Ancestor[g][0] = g /\ Ancestor[p][0] = p /\ g # Root
    BY PathStep, GrantAssumption
  <2>2. Ancestor[g][0 + 1] = IF Ancestor[g][0] = Root THEN Root ELSE Grant[Ancestor[g][0]].parent
    BY <1>1, PathStep
  <2> QED
    BY <2>1, <2>2
<1>4. ASSUME NEW k \in Nat, k + 1 <= M PROVE Ancestor[g][k + 1] = Ancestor[p][k]
  <2>1. /\ 1 \in Nat /\ 0 \in Nat /\ 1 + k <= M /\ 0 + k <= M
        /\ 1 + k = k + 1 /\ 0 + k = k
    BY <1>1, <1>4
  <2>2. Ancestor[g][1] = Ancestor[p][0]
    BY <1>3
  <2>3. Ancestor[g][1 + k] = Ancestor[p][0 + k]
    BY <1>4, <2>1, <2>2, PathsMeet
  <2> QED
    BY <2>1, <2>3
<1>5. Ancestor[g][M] = Root
  <2>1. M - 1 \in Nat /\ (M - 1) + 1 <= M /\ (M - 1) + 1 = M
    BY <1>1
  <2>2. Ancestor[g][(M - 1) + 1] = Ancestor[p][M - 1]
    BY <1>4, <2>1
  <2> QED
    BY <1>2, <2>1, <2>2
<1>6. ASSUME NEW i \in Distances \ {0}
      PROVE  i - 1 \in Distances /\ Ancestor[g][i] = Ancestor[p][i - 1]
  <2>1. i - 1 \in Nat /\ (i - 1) + 1 = i /\ i <= M /\ i - 1 \in Distances
    BY <1>1 DEF Distances
  <2>2. Ancestor[g][(i - 1) + 1] = Ancestor[p][i - 1]
    BY <1>4, <2>1
  <2> QED
    BY <2>1, <2>2
<1>7. Lineage[g] \subseteq {g} \cup Lineage[p]
  BY <1>3, <1>6 DEF Lineage
<1>8. ASSUME NEW n \in Lineage[p] PROVE n \in Lineage[g]
  <2>1. PICK i \in Distances : n = Ancestor[p][i] /\ n # Root
    BY DEF Lineage
  <2>2. i # M - 1 /\ i + 1 \in Distances \ {0} /\ (i + 1) - 1 = i
    BY <1>1, <1>2, <2>1 DEF Distances
  <2>3. Ancestor[g][i + 1] = n
    BY <1>6, <2>1, <2>2
  <2> QED
    BY <2>1, <2>2, <2>3 DEF Lineage
<1> QED
  BY <1>5, <1>6, <1>7, <1>8, LineageReflexive

(***************************************************************************)
(* A root grant is its own lineage.                                        *)
(***************************************************************************)
LEMMA RootLineage ==
    ASSUME NEW g \in Grants, Grant[g].parent = Root
    PROVE  /\ Ancestor[g][MAX_LINEAGE_LENGTH] = Root
           /\ \A i \in Distances \ {0} : Ancestor[g][i] = Root
           /\ Lineage[g] = {g}
<1> DEFINE M == MAX_LINEAGE_LENGTH
<1>1. M \in Nat \ {0} /\ 0 \in Distances /\ 1 \in 0 .. M
  BY BoundsAssumption DEF Distances
<1>2. Ancestor[g][0] = g /\ g # Root
  BY PathStep, GrantAssumption
<1>3. Ancestor[g][0 + 1] = IF Ancestor[g][0] = Root THEN Root ELSE Grant[Ancestor[g][0]].parent
  BY <1>1, PathStep
<1>4. Ancestor[g][1] = Root
  BY <1>2, <1>3
<1>5. \A j \in 1 .. M : Ancestor[g][j] = Root
  BY <1>1, <1>4, RootSticks
<1>6. \A i \in Distances \ {0} : i \in 1 .. M
  BY <1>1 DEF Distances
<1>7. M \in 1 .. M
  BY <1>1
<1>8. Lineage[g] = {g}
  BY <1>1, <1>2, <1>5, <1>6 DEF Lineage
<1> QED
  BY <1>5, <1>6, <1>7, <1>8

\* Every ancestor signed at least the depth of g and of the levels between.
DepthsDescend(g) ==
    \A i \in Distances :
        Ancestor[g][i] # Root => Grant[g].depth + i <= Grant[Ancestor[g][i]].depth

(***************************************************************************)
(* Where depths descend, the effective depth is the one signed.            *)
(***************************************************************************)
LEMMA DepthIsSigned ==
    ASSUME NEW g \in Grants, DepthsDescend(g)
    PROVE  EffectiveDepth[g] = Grant[g].depth
<1> DEFINE D == {k \in Distances : Ancestor[g][k] # Root}
           slack == {Grant[Ancestor[g][i]].depth - i : i \in D}
           e == Grant[g].depth
<1>1. EffectiveDepth[g] = IF \E s \in slack : s < 0 THEN 0
                          ELSE CHOOSE s \in slack : \A r \in slack : s <= r
  BY DEF EffectiveDepth
<1>2. e \in Nat /\ 0 \in D /\ Ancestor[g][0] = g
  BY PathStep, GrantAssumption, BoundsAssumption DEF Distances
<1>3. ASSUME NEW i \in D PROVE Grant[Ancestor[g][i]].depth - i \in Nat /\ e <= Grant[Ancestor[g][i]].depth - i
  <2>1. i \in Nat /\ i \in 0 .. MAX_LINEAGE_LENGTH
    BY BoundsAssumption DEF Distances
  <2>2. Ancestor[g][i] \in Grants
    BY <2>1, PathTyped
  <2>3. Grant[Ancestor[g][i]].depth \in Nat
    BY <2>2, GrantAssumption
  <2>4. e + i <= Grant[Ancestor[g][i]].depth
    BY DEF DepthsDescend
  <2> HIDE DEF e
  <2> QED
    BY <1>2, <2>1, <2>3, <2>4
<1>4. e \in slack
  <2>1. Grant[Ancestor[g][0]].depth - 0 \in slack
    BY <1>2
  <2> HIDE DEF slack
  <2> QED
    BY <1>2, <2>1
<1>5. \A s \in slack : s \in Nat /\ e <= s
  BY <1>3
<1> HIDE DEF slack, e, D
<1>6. ~ \E s \in slack : s < 0
  BY <1>5
<1>7. \A s \in slack : (\A r \in slack : s <= r) => s = e
  BY <1>2, <1>4, <1>5
<1>8. \E s \in slack : \A r \in slack : s <= r
  BY <1>4, <1>5
<1> QED
  BY <1>1, <1>6, <1>7, <1>8 DEF e

\* What registration establishes of one node.
Narrowed(g) ==
    /\ ResolveLineage(g)
    /\ DepthsDescend(g)
    /\ \A a \in Lineage[g] :
         /\ Grant[g].modules \subseteq Grant[a].modules
         /\ Grant[a].notBefore <= Grant[g].notBefore
         /\ Grant[g].expiresAt <= Grant[a].expiresAt
         /\ Grant[a].strict <= Grant[g].strict

\* The inductive invariant of the delegation graph.
GraphInv == TypeInv /\ \A g \in nodes : Narrowed(g)

(***************************************************************************)
(* Registration narrows: the new node is checked against its parent only,  *)
(* and the parent already narrows the rest of the lineage.                 *)
(***************************************************************************)
LEMMA RegistrationNarrows ==
    ASSUME GraphInv, NEW g \in Grants, NEW at \in Times, ApplyRegisterGrant(g, at)
    PROVE  Narrowed(g)'
<1> DEFINE p == Grant[g].parent
<1>1. nodes' = nodes \cup {g} /\ CheckGrantRegistration(g, at)
  BY DEF ApplyRegisterGrant
<1>2. \A n \in Grants : /\ Grant[n].depth \in Nat /\ Grant[n].notBefore \in Nat
                        /\ Grant[n].expiresAt \in Nat /\ Grant[n].strict \in Nat
  BY GrantAssumption
<1>3. Ancestor[g][0] = g /\ 0 \in Distances
  BY PathStep, BoundsAssumption DEF Distances
<1>4. CASE p = Root
  <2>1. /\ Ancestor[g][MAX_LINEAGE_LENGTH] = Root /\ Lineage[g] = {g}
        /\ \A i \in Distances \ {0} : Ancestor[g][i] = Root
    BY <1>4, RootLineage
  <2>2. ResolveLineage(g)'
    BY <1>1, <2>1 DEF ResolveLineage
  <2>3. DepthsDescend(g)
    BY <1>2, <1>3, <2>1 DEF DepthsDescend
  <2> QED
    BY <1>2, <2>1, <2>2, <2>3 DEF Narrowed
<1>5. CASE p # Root
  <2>1. /\ ResolveLineage(p) /\ DelegationSubset(p, g)
        /\ Cardinality(Lineage[p]) < MAX_LINEAGE_LENGTH /\ p \in Grants
    BY <1>1, <1>5, GrantAssumption DEF CheckGrantRegistration
  <2>2. p \in nodes /\ Narrowed(p)
    BY <2>1, LineageReflexive DEF ResolveLineage, GraphInv
  <2>3. /\ Ancestor[g][MAX_LINEAGE_LENGTH] = Root /\ Lineage[g] = {g} \cup Lineage[p]
        /\ \A i \in Distances \ {0} : i - 1 \in Distances /\ Ancestor[g][i] = Ancestor[p][i - 1]
    BY <2>1, ChildLineage DEF ResolveLineage
  <2>4. ResolveLineage(g)'
    BY <1>1, <2>1, <2>3 DEF ResolveLineage
  <2>5. /\ Grant[p].depth >= 1 /\ (Grant[g].depth = 0 \/ Grant[g].depth <= Grant[p].depth - 1)
        /\ Grant[p].notBefore <= Grant[g].notBefore /\ Grant[g].expiresAt <= Grant[p].expiresAt
        /\ Grant[g].modules \subseteq Grant[p].modules /\ Grant[p].strict <= Grant[g].strict
    <3>1. EffectiveDepth[p] = Grant[p].depth
      BY <2>1, <2>2, DepthIsSigned DEF Narrowed
    <3>2. Grant[g].strict >= Grant[p].strict
      BY <2>1 DEF DelegationSubset
    <3>3. Grant[p].strict <= Grant[g].strict
      BY <1>2, <2>1, <3>2
    <3> HIDE DEF p
    <3> QED
      BY <2>1, <3>1, <3>3 DEF DelegationSubset
  <2>6. DepthsDescend(g)
    <3> SUFFICES ASSUME NEW i \in Distances, Ancestor[g][i] # Root
                 PROVE  Grant[g].depth + i <= Grant[Ancestor[g][i]].depth
      BY DEF DepthsDescend
    <3>1. CASE i = 0
      BY <1>2, <1>3, <3>1
    <3>2. CASE i # 0
      <4> DEFINE a == Ancestor[g][i]
      <4>1. i - 1 \in Distances /\ a = Ancestor[p][i - 1] /\ i \in Nat
        BY <2>3, <3>2 DEF Distances
      <4>2. Grant[p].depth + (i - 1) <= Grant[a].depth
        BY <2>2, <4>1 DEF Narrowed, DepthsDescend
      <4>3. a \in Grants
        <5>1. i \in 0 .. MAX_LINEAGE_LENGTH
          BY BoundsAssumption DEF Distances
        <5> QED
          BY <5>1, PathTyped
      <4>4. Grant[a].depth \in Nat /\ Grant[p].depth \in Nat /\ Grant[g].depth \in Nat
        BY <1>2, <2>1, <4>3
      <4> HIDE DEF a, p
      <4>5. Grant[g].depth + i <= Grant[a].depth
        BY <2>5, <4>1, <4>2, <4>4
      <4> QED
        BY <4>5 DEF a
    <3> QED
      BY <3>1, <3>2
  <2>7. ASSUME NEW a \in Lineage[g]
        PROVE  /\ Grant[g].modules \subseteq Grant[a].modules
               /\ Grant[a].notBefore <= Grant[g].notBefore
               /\ Grant[g].expiresAt <= Grant[a].expiresAt
               /\ Grant[a].strict <= Grant[g].strict
    <3>1. CASE a = g
      BY <1>2, <3>1
    <3>2. CASE a \in Lineage[p]
      <4>1. /\ Grant[p].modules \subseteq Grant[a].modules
            /\ Grant[a].notBefore <= Grant[p].notBefore
            /\ Grant[p].expiresAt <= Grant[a].expiresAt
            /\ Grant[a].strict <= Grant[p].strict
        BY <2>2, <3>2 DEF Narrowed
      <4>2. a \in Grants
        BY <2>1, <3>2 DEF ResolveLineage, GraphInv, TypeInv, TypeOK
      <4> HIDE DEF p
      <4> QED
        BY <1>2, <2>1, <2>5, <4>1, <4>2
    <3> QED
      BY <2>3, <3>1, <3>2
  <2> QED
    BY <2>4, <2>6, <2>7 DEF Narrowed
<1> QED
  BY <1>4, <1>5

(***************************************************************************)
(* Every step keeps the graph: nodes are only added.                       *)
(***************************************************************************)
LEMMA NextGraph == GraphInv /\ [Next]_vars => GraphInv'
<1> SUFFICES ASSUME GraphInv, [Next]_vars PROVE GraphInv'
  OBVIOUS
<1>1. TypeInv'
  BY NextType DEF GraphInv
<1>2. ASSUME NEW g \in nodes, nodes \subseteq nodes' PROVE Narrowed(g)'
  BY <1>2 DEF GraphInv, Narrowed, ResolveLineage, DepthsDescend
<1>3. nodes' = nodes \/ \E g \in Grants, at \in Times : ApplyRegisterGrant(g, at)
  <2>1. CASE UNCHANGED vars
    BY <2>1 DEF vars
  <2>2. CASE Next
    <3>1. PICK at \in Times :
            \/ \E p \in Policies : ApplyRegisterPolicy(p, at)
            \/ \E g \in Grants : ApplyRegisterGrant(g, at)
            \/ \E g \in Grants, issuer \in Parties, effectiveAt \in Times :
                  ApplyRevoke(g, issuer, effectiveAt, at)
            \/ \E action \in Actions, generation \in 1 .. MaxReservations, g \in Grants,
                  actor \in Parties, module \in Modules, cs \in ContributionLists :
                  ApplyReserve(action, generation, g, actor, module, cs, at)
            \/ \E k \in 1 .. Len(reservations) :
                  \/ \E amounts \in AmountLists(k) : ApplyConsume(k, amounts, at)
                  \/ ApplyClose(k, at)
                  \/ \E amounts \in AmountLists(k) : ApplyRestore(k, amounts, at)
                  \/ \E artifact \in Artifacts, slot \in Slots \cup {NoSlot}, validUntil \in Times :
                        ApplyAdmitAttempt(k, artifact, slot, validUntil, at)
      BY <2>2 DEF Next
    <3>2. \A p : ApplyRegisterPolicy(p, at) => nodes' = nodes
      BY DEF ApplyRegisterPolicy
    <3>3. \A g, issuer, effectiveAt : ApplyRevoke(g, issuer, effectiveAt, at) => nodes' = nodes
      BY DEF ApplyRevoke
    <3>4. \A action, generation, g, actor, module, cs :
             ApplyReserve(action, generation, g, actor, module, cs, at) => nodes' = nodes
      BY DEF ApplyReserve
    <3>5. \A k, amounts : (ApplyConsume(k, amounts, at) \/ ApplyClose(k, at) \/ ApplyRestore(k, amounts, at))
                             => nodes' = nodes
      BY DEF ApplyConsume, ApplyClose, ApplyRestore
    <3>6. \A k, artifact, slot, validUntil :
             ApplyAdmitAttempt(k, artifact, slot, validUntil, at) => nodes' = nodes
      BY DEF ApplyAdmitAttempt
    <3> QED
      BY <3>1, <3>2, <3>3, <3>4, <3>5, <3>6
  <2> QED
    BY <2>1, <2>2
<1>4. CASE nodes' = nodes
  BY <1>1, <1>2, <1>4 DEF GraphInv
<1>5. CASE \E g \in Grants, at \in Times : ApplyRegisterGrant(g, at)
  <2>1. PICK g \in Grants, at \in Times : ApplyRegisterGrant(g, at)
    BY <1>5
  <2>2. nodes' = nodes \cup {g}
    BY <2>1 DEF ApplyRegisterGrant
  <2>3. Narrowed(g)'
    BY <2>1, RegistrationNarrows
  <2> QED
    BY <1>1, <1>2, <2>2, <2>3 DEF GraphInv
<1> QED
  BY <1>3, <1>4, <1>5

(***************************************************************************)
(* A registered node narrows its whole lineage and may delegate exactly as *)
(* deep as it signed, although checkDelegationSubset compares it with its  *)
(* parent alone and checkGrantRegistration bounds the length by a count    *)
(* (graph.ts, subset.ts).                                                  *)
(***************************************************************************)
THEOREM LineagesNarrow == Spec => []LineageNarrows
<1>1. Init => GraphInv
  BY InitType DEF Init, GraphInv
<1>2. GraphInv /\ [Next]_vars => GraphInv'
  BY NextGraph
<1>3. GraphInv => LineageNarrows
  <2> SUFFICES ASSUME GraphInv, NEW g \in nodes PROVE EffectiveDepth[g] = Grant[g].depth
    BY DEF GraphInv, Narrowed, LineageNarrows
  <2>1. g \in Grants
    BY DEF GraphInv, TypeInv, TypeOK
  <2> QED
    BY <2>1, DepthIsSigned DEF GraphInv, Narrowed
<1> QED
  BY <1>1, <1>2, <1>3, PTL DEF Spec

------------------------------------------------------------------------------
(* Revocation.                                                              *)

(***************************************************************************)
(* A step adds no reservation and no attempt under a revoked node.         *)
(***************************************************************************)
LEMMA RevokedGetsNothing ==
    ASSUME TypeInv, [Next]_vars
    PROVE  /\ \A k \in Len(reservations) + 1 .. Len(reservations') :
                 reservations'[k].authority \notin UnderRevoked
           /\ \A i \in Len(attempts) + 1 .. Len(attempts') :
                 reservations[attempts'[i].reservation].authority \notin UnderRevoked
<1> DEFINE N == Len(reservations)
           A == Len(attempts)
<1>1. N \in Nat /\ A \in Nat
  BY DEF TypeInv, TypeOK
<1>2. \A n \in Int : n + 1 .. n = {}
  OBVIOUS
<1>3. ASSUME NEW g, NEW at, CheckLineageValid(g, at) PROVE g \notin UnderRevoked
  BY <1>3 DEF CheckLineageValid, UnderRevoked
<1>4. CASE Len(reservations') = N /\ Len(attempts') = A
  BY <1>1, <1>2, <1>4
<1>5. ASSUME NEW action \in Actions, NEW generation \in 1 .. MaxReservations, NEW g \in Grants,
             NEW actor \in Parties, NEW module \in Modules, NEW cs \in ContributionLists,
             NEW at \in Times, ApplyReserve(action, generation, g, actor, module, cs, at)
      PROVE  /\ \A k \in N + 1 .. Len(reservations') : reservations'[k].authority \notin UnderRevoked
             /\ Len(attempts') = A
  <2>1. /\ Len(reservations') = N + 1 /\ reservations'[N + 1].authority = g /\ attempts' = attempts
    BY <1>5, ReserveAppends
  <2>2. g \notin UnderRevoked
    BY <1>3, <1>5 DEF ApplyReserve, DeriveReservation
  <2>3. \A k \in N + 1 .. N + 1 : k = N + 1
    BY <1>1
  <2> QED
    BY <2>1, <2>2, <2>3
<1>6. ASSUME NEW k \in 1 .. N, NEW artifact \in Artifacts, NEW slot \in Slots \cup {NoSlot},
             NEW validUntil \in Times, NEW at \in Times,
             ApplyAdmitAttempt(k, artifact, slot, validUntil, at)
      PROVE  /\ \A i \in A + 1 .. Len(attempts') :
                  reservations[attempts'[i].reservation].authority \notin UnderRevoked
             /\ Len(reservations') = N
  <2> DEFINE rec == [reservation |-> k, artifact |-> artifact, slot |-> slot,
                     validUntil |-> validUntil, admittedTime |-> at]
  <2>1. /\ attempts' = Append(attempts, rec) /\ reservations' = reservations
        /\ CheckLineageValid(reservations[k].authority, at)
    BY <1>6 DEF ApplyAdmitAttempt
  <2>2. attempts \in Seq(AttemptRecords)
    BY DEF TypeInv, TypeOK
  <2>3. rec.reservation = k
    OBVIOUS
  <2> HIDE DEF rec
  <2>4. Len(attempts') = A + 1 /\ attempts'[A + 1] = rec
    BY <2>1, <2>2
  <2>5. \A i \in A + 1 .. A + 1 : i = A + 1
    BY <1>1
  <2> QED
    BY <1>3, <2>1, <2>3, <2>4, <2>5
<1>7. CASE UNCHANGED vars
  BY <1>4, <1>7 DEF vars
<1>8. CASE Next
  <2>1. PICK at \in Times :
          \/ \E p \in Policies : ApplyRegisterPolicy(p, at)
          \/ \E g \in Grants : ApplyRegisterGrant(g, at)
          \/ \E g \in Grants, issuer \in Parties, effectiveAt \in Times :
                ApplyRevoke(g, issuer, effectiveAt, at)
          \/ \E action \in Actions, generation \in 1 .. MaxReservations, g \in Grants,
                actor \in Parties, module \in Modules, cs \in ContributionLists :
                ApplyReserve(action, generation, g, actor, module, cs, at)
          \/ \E k \in 1 .. Len(reservations) :
                \/ \E amounts \in AmountLists(k) : ApplyConsume(k, amounts, at)
                \/ ApplyClose(k, at)
                \/ \E amounts \in AmountLists(k) : ApplyRestore(k, amounts, at)
                \/ \E artifact \in Artifacts, slot \in Slots \cup {NoSlot}, validUntil \in Times :
                      ApplyAdmitAttempt(k, artifact, slot, validUntil, at)
    BY <1>8 DEF Next
  <2>2. CASE \/ \E p \in Policies : ApplyRegisterPolicy(p, at)
             \/ \E g \in Grants : ApplyRegisterGrant(g, at)
             \/ \E g \in Grants, issuer \in Parties, effectiveAt \in Times :
                   ApplyRevoke(g, issuer, effectiveAt, at)
    BY <1>4, <2>2 DEF ApplyRegisterPolicy, ApplyRegisterGrant, ApplyRevoke
  <2>3. CASE \E action \in Actions, generation \in 1 .. MaxReservations, g \in Grants,
                actor \in Parties, module \in Modules, cs \in ContributionLists :
                ApplyReserve(action, generation, g, actor, module, cs, at)
    BY <1>1, <1>2, <1>5, <2>3
  <2>4. CASE \E k \in 1 .. Len(reservations) :
                \/ \E amounts \in AmountLists(k) : ApplyConsume(k, amounts, at)
                \/ ApplyClose(k, at)
                \/ \E amounts \in AmountLists(k) : ApplyRestore(k, amounts, at)
    <3>1. Len(reservations') = N /\ attempts' = attempts
      BY <2>4, AccountingKeepsIdentity
    <3> QED
      BY <1>4, <3>1
  <2>5. CASE \E k \in 1 .. N, artifact \in Artifacts, slot \in Slots \cup {NoSlot}, validUntil \in Times :
                ApplyAdmitAttempt(k, artifact, slot, validUntil, at)
    BY <1>1, <1>2, <1>6, <2>5
  <2> QED
    BY <2>1, <2>2, <2>3, <2>4, <2>5
<1> QED
  BY <1>7, <1>8

(***************************************************************************)
(* Once a node is revoked, no reservation and no attempt is ever added     *)
(* below it: a reservation and an admission both walk the whole lineage    *)
(* they cite (checkLineageValid), whatever was registered or revoked in    *)
(* between.                                                                *)
(***************************************************************************)
THEOREM RevocationIsFinal == Spec => NoAuthorityAfterRevocation
<1>1. Init => TypeInv
  BY InitType
<1>2. TypeInv /\ [Next]_vars => TypeInv'
  BY NextType
<1>3. TypeInv /\ [Next]_vars =>
        [/\ \A k \in Len(reservations) + 1 .. Len(reservations') :
               reservations'[k].authority \notin UnderRevoked
         /\ \A i \in Len(attempts) + 1 .. Len(attempts') :
               reservations[attempts'[i].reservation].authority \notin UnderRevoked]_vars
  BY RevokedGetsNothing
<1> QED
  BY <1>1, <1>2, <1>3, PTL DEF Spec, NoAuthorityAfterRevocation

------------------------------------------------------------------------------
(* What moves at a target.                                                  *)

\* Two lists of demands with the same legs.
SameLegs(ds, es) ==
    /\ Len(es) = Len(ds)
    /\ \A i \in 1 .. Len(ds) : es[i].legs = ds[i].legs

(***************************************************************************)
(* The amount moved at a target depends on the legs and the amounts only.  *)
(***************************************************************************)
LEMMA AmountAtCong ==
    ASSUME NEW ds, NEW es, NEW x, NEW y, NEW t, Len(ds) \in Nat, SameLegs(ds, es),
           \A i \in 1 .. Len(ds) : x[i] = y[i]
    PROVE  AmountAt(es, y, t) = AmountAt(ds, x, t)
<1> DEFINE n == Len(ds)
           f == [i \in 1 .. n |-> IF t \in ds[i].legs THEN x[i] ELSE 0]
           g == [i \in 1 .. n |-> IF t \in es[i].legs THEN y[i] ELSE 0]
<1>1. f = g
  BY DEF SameLegs
<1>2. AmountAt(ds, x, t) = SumTo(f, n)
  BY DEF AmountAt
<1>3. AmountAt(es, y, t) = SumTo(g, n)
  BY DEF AmountAt, SameLegs
<1> QED
  BY <1>1, <1>2, <1>3

(***************************************************************************)
(* Amounts add at every target.                                            *)
(***************************************************************************)
LEMMA AmountAtAdd ==
    ASSUME NEW ds, NEW es, NEW x, NEW y, NEW z, NEW t, Len(ds) \in Nat, SameLegs(ds, es),
           \A i \in 1 .. Len(ds) : x[i] \in Int /\ y[i] \in Int /\ z[i] = x[i] + y[i]
    PROVE  AmountAt(es, z, t) = AmountAt(ds, x, t) + AmountAt(ds, y, t)
<1> DEFINE n == Len(ds)
           f == [i \in 1 .. n |-> IF t \in ds[i].legs THEN x[i] ELSE 0]
           g == [i \in 1 .. n |-> IF t \in ds[i].legs THEN y[i] ELSE 0]
           h == [i \in 1 .. n |-> IF t \in es[i].legs THEN z[i] ELSE 0]
<1>1. \A i \in 1 .. n : f[i] \in Int /\ g[i] \in Int /\ h[i] = f[i] + g[i]
  BY DEF SameLegs
<1>2. /\ AmountAt(ds, x, t) = SumTo(f, n) /\ AmountAt(ds, y, t) = SumTo(g, n)
      /\ AmountAt(es, z, t) = SumTo(h, n)
  BY DEF AmountAt, SameLegs
<1> HIDE DEF f, g, h
<1>3. SumTo(h, n) = SumTo(f, n) + SumTo(g, n)
  BY <1>1, SumToAdd
<1> QED
  BY <1>2, <1>3

(***************************************************************************)
(* Natural amounts move a natural amount.                                  *)
(***************************************************************************)
LEMMA AmountAtNat ==
    ASSUME NEW ds, NEW x, NEW t, Len(ds) \in Nat, \A i \in 1 .. Len(ds) : x[i] \in Nat
    PROVE  AmountAt(ds, x, t) \in Nat
<1> DEFINE n == Len(ds)
           f == [i \in 1 .. n |-> IF t \in ds[i].legs THEN x[i] ELSE 0]
<1>1. \A i \in 1 .. n : f[i] \in Nat
  OBVIOUS
<1>2. AmountAt(ds, x, t) = SumTo(f, n)
  BY DEF AmountAt
<1> HIDE DEF f
<1> QED
  BY <1>1, <1>2, SumToNat

(***************************************************************************)
(* Nothing moves where every amount is zero or no leg is.                  *)
(***************************************************************************)
LEMMA AmountAtZero ==
    ASSUME NEW ds, NEW x, NEW t, Len(ds) \in Nat,
           \A i \in 1 .. Len(ds) : t \in ds[i].legs => x[i] = 0
    PROVE  AmountAt(ds, x, t) = 0
<1> DEFINE n == Len(ds)
           f == [i \in 1 .. n |-> IF t \in ds[i].legs THEN x[i] ELSE 0]
<1>1. \A i \in 1 .. n : f[i] \in Int /\ f[i] = f[i] + f[i]
  OBVIOUS
<1>2. AmountAt(ds, x, t) = SumTo(f, n)
  BY DEF AmountAt
<1> HIDE DEF f
<1>3. SumTo(f, n) = SumTo(f, n) + SumTo(f, n)
  BY <1>1, SumToAdd
<1>4. SumTo(f, n) \in Int
  BY <1>1, SumToInt
<1> QED
  BY <1>2, <1>3, <1>4

(***************************************************************************)
(* What a reservation holds, consumed and restored is an integer.          *)
(***************************************************************************)
LEMMA HeldInt ==
    ASSUME NEW r \in Reservations, NEW t
    PROVE  /\ ReservedBy(r, t) \in Int
           /\ ConsumedBy(r, t) \in Int
           /\ RestoredBy(r, t) \in Int
<1> DEFINE n == Len(r.demands)
<1>1. r.demands \in Seq(Demands)
  BY DEF Reservations
<1>2. n \in Nat /\ \A i \in 1 .. n : r.demands[i] \in Demands
  BY <1>1
<1>3. Len(CapacityDemands(r)) = n
  BY <1>2, CapacityDemandsLength
<1>4. \A i \in 1 .. n : /\ r.demands[i].reserved \in Nat /\ r.demands[i].consumed \in Nat
                        /\ r.demands[i].restored \in Nat
  BY <1>2 DEF Demands
<1>5. \A i \in 1 .. n : /\ RemainingAmounts(r)[i] \in Int
                        /\ ConsumedAmounts(r)[i] \in Int
                        /\ RestoredAmounts(r)[i] \in Int
  BY <1>4 DEF RemainingAmounts, ConsumedAmounts, RestoredAmounts, RemainingOf
<1>6. ReservedBy(r, t) \in Int /\ ConsumedBy(r, t) \in Int
  BY <1>2, <1>5, AmountAtInt DEF ReservedBy, ConsumedBy
<1>7. RestoredBy(r, t) \in Int
  BY <1>2, <1>3, <1>5, AmountAtInt DEF RestoredBy
<1> QED
  BY <1>6, <1>7

------------------------------------------------------------------------------
(* One reservation changes.                                                 *)

\* Conservation at one target.
ConservedAt(t) ==
    LET N == Len(reservations)
    IN  /\ targets[t].reserved = SumTo([k \in 1 .. N |-> ReservedBy(reservations[k], t)], N)
        /\ targets[t].consumed = SumTo([k \in 1 .. N |-> ConsumedBy(reservations[k], t)], N)
        /\ targets[t].restored = SumTo([k \in 1 .. N |-> RestoredBy(reservations[k], t)], N)

(***************************************************************************)
(* A step that moves a target and one reservation's hold on it by the same *)
(* amounts conserves that target.                                          *)
(***************************************************************************)
LEMMA ConservedUpdate ==
    ASSUME TypeInv, TypeInv', NEW t, ConservedAt(t), NEW k \in 1 .. Len(reservations),
           Len(reservations') = Len(reservations),
           \A j \in 1 .. Len(reservations) : j # k => reservations'[j] = reservations[j],
           targets'[t].reserved - targets[t].reserved =
             ReservedBy(reservations'[k], t) - ReservedBy(reservations[k], t),
           targets'[t].consumed - targets[t].consumed =
             ConsumedBy(reservations'[k], t) - ConsumedBy(reservations[k], t),
           targets'[t].restored - targets[t].restored =
             RestoredBy(reservations'[k], t) - RestoredBy(reservations[k], t),
           targets[t] \in Balances, targets'[t] \in Balances
    PROVE  ConservedAt(t)'
<1> DEFINE N == Len(reservations)
           f1 == [j \in 1 .. N |-> ReservedBy(reservations[j], t)]
           g1 == [j \in 1 .. N |-> ReservedBy(reservations'[j], t)]
           f2 == [j \in 1 .. N |-> ConsumedBy(reservations[j], t)]
           g2 == [j \in 1 .. N |-> ConsumedBy(reservations'[j], t)]
           f3 == [j \in 1 .. N |-> RestoredBy(reservations[j], t)]
           g3 == [j \in 1 .. N |-> RestoredBy(reservations'[j], t)]
<1>1. N \in Nat
  BY DEF TypeInv, TypeOK
<1>2. /\ \A j \in 1 .. N : reservations[j] \in Reservations
      /\ \A j \in 1 .. N : reservations'[j] \in Reservations
  BY DEF TypeInv, TypeOK
<1>3. /\ \A j \in 1 .. N : f1[j] \in Int /\ g1[j] \in Int
      /\ \A j \in 1 .. N : f2[j] \in Int /\ g2[j] \in Int
      /\ \A j \in 1 .. N : f3[j] \in Int /\ g3[j] \in Int
  BY <1>2, HeldInt
<1>4. /\ \A j \in 1 .. N : j # k => g1[j] = f1[j]
      /\ \A j \in 1 .. N : j # k => g2[j] = f2[j]
      /\ \A j \in 1 .. N : j # k => g3[j] = f3[j]
  OBVIOUS
<1>5. /\ targets[t].reserved = SumTo(f1, N) /\ targets[t].consumed = SumTo(f2, N)
      /\ targets[t].restored = SumTo(f3, N)
  BY DEF ConservedAt
<1>6. /\ targets'[t].reserved - targets[t].reserved = g1[k] - f1[k]
      /\ targets'[t].consumed - targets[t].consumed = g2[k] - f2[k]
      /\ targets'[t].restored - targets[t].restored = g3[k] - f3[k]
  OBVIOUS
<1>7. ConservedAt(t)' <=> /\ targets'[t].reserved = SumTo(g1, N)
                          /\ targets'[t].consumed = SumTo(g2, N)
                          /\ targets'[t].restored = SumTo(g3, N)
  BY DEF ConservedAt
<1>8. /\ targets[t].reserved \in Int /\ targets[t].consumed \in Int /\ targets[t].restored \in Int
      /\ targets'[t].reserved \in Int /\ targets'[t].consumed \in Int /\ targets'[t].restored \in Int
  BY DEF Balances
<1> HIDE DEF f1, g1, f2, g2, f3, g3, N
<1> k \in 1 .. N
  BY DEF N
<1>9. targets'[t].reserved = SumTo(g1, N)
  <2>1. /\ \A j \in 1 .. N : f1[j] \in Int /\ g1[j] \in Int
        /\ \A j \in 1 .. N : j # k => g1[j] = f1[j]
    BY <1>3, <1>4
  <2>2. /\ targets[t].reserved = SumTo(f1, N)
        /\ targets'[t].reserved - targets[t].reserved = g1[k] - f1[k]
        /\ targets[t].reserved \in Int /\ targets'[t].reserved \in Int
    BY <1>5, <1>6, <1>8
  <2>3. SumTo(g1, N) = SumTo(f1, N) + (g1[k] - f1[k])
    BY <1>1, <2>1, SumToUpdate, Zenon
  <2>4. f1[k] \in Int /\ g1[k] \in Int
    BY <2>1
  <2> QED
    BY <2>2, <2>3, <2>4
<1>10. targets'[t].consumed = SumTo(g2, N)
  <2>1. /\ \A j \in 1 .. N : f2[j] \in Int /\ g2[j] \in Int
        /\ \A j \in 1 .. N : j # k => g2[j] = f2[j]
    BY <1>3, <1>4
  <2>2. /\ targets[t].consumed = SumTo(f2, N)
        /\ targets'[t].consumed - targets[t].consumed = g2[k] - f2[k]
        /\ targets[t].consumed \in Int /\ targets'[t].consumed \in Int
    BY <1>5, <1>6, <1>8
  <2>3. SumTo(g2, N) = SumTo(f2, N) + (g2[k] - f2[k])
    BY <1>1, <2>1, SumToUpdate, Zenon
  <2>4. f2[k] \in Int /\ g2[k] \in Int
    BY <2>1
  <2> QED
    BY <2>2, <2>3, <2>4
<1>11. targets'[t].restored = SumTo(g3, N)
  <2>1. /\ \A j \in 1 .. N : f3[j] \in Int /\ g3[j] \in Int
        /\ \A j \in 1 .. N : j # k => g3[j] = f3[j]
    BY <1>3, <1>4
  <2>2. /\ targets[t].restored = SumTo(f3, N)
        /\ targets'[t].restored - targets[t].restored = g3[k] - f3[k]
        /\ targets[t].restored \in Int /\ targets'[t].restored \in Int
    BY <1>5, <1>6, <1>8
  <2>3. SumTo(g3, N) = SumTo(f3, N) + (g3[k] - f3[k])
    BY <1>1, <2>1, SumToUpdate, Zenon
  <2>4. f3[k] \in Int /\ g3[k] \in Int
    BY <2>1
  <2> QED
    BY <2>2, <2>3, <2>4
<1> QED
  BY <1>7, <1>9, <1>10, <1>11

(***************************************************************************)
(* RESERVE adds to each target what the new reservation holds there.       *)
(***************************************************************************)
LEMMA ConservedAppend ==
    ASSUME TypeInv, NEW t, ConservedAt(t), NEW r,
           reservations' = Append(reservations, r),
           targets'[t].reserved = targets[t].reserved + ReservedBy(r, t),
           targets'[t].consumed = targets[t].consumed + ConsumedBy(r, t),
           targets'[t].restored = targets[t].restored + RestoredBy(r, t)
    PROVE  ConservedAt(t)'
<1> DEFINE N == Len(reservations)
           f1 == [j \in 1 .. N |-> ReservedBy(reservations[j], t)]
           g1 == [j \in 1 .. N + 1 |-> ReservedBy(reservations'[j], t)]
           f2 == [j \in 1 .. N |-> ConsumedBy(reservations[j], t)]
           g2 == [j \in 1 .. N + 1 |-> ConsumedBy(reservations'[j], t)]
           f3 == [j \in 1 .. N |-> RestoredBy(reservations[j], t)]
           g3 == [j \in 1 .. N + 1 |-> RestoredBy(reservations'[j], t)]
<1>1. /\ N \in Nat /\ Len(reservations') = N + 1 /\ reservations'[N + 1] = r
      /\ \A j \in 1 .. N : reservations'[j] = reservations[j]
  BY DEF TypeInv, TypeOK
<1>2. /\ \A j \in 1 .. N : g1[j] = f1[j]
      /\ \A j \in 1 .. N : g2[j] = f2[j]
      /\ \A j \in 1 .. N : g3[j] = f3[j]
      /\ g1[N + 1] = ReservedBy(r, t) /\ g2[N + 1] = ConsumedBy(r, t)
      /\ g3[N + 1] = RestoredBy(r, t)
  BY <1>1
<1>3. /\ targets[t].reserved = SumTo(f1, N) /\ targets[t].consumed = SumTo(f2, N)
      /\ targets[t].restored = SumTo(f3, N)
  BY DEF ConservedAt
<1>4. ConservedAt(t)' <=> /\ targets'[t].reserved = SumTo(g1, N + 1)
                          /\ targets'[t].consumed = SumTo(g2, N + 1)
                          /\ targets'[t].restored = SumTo(g3, N + 1)
  BY <1>1 DEF ConservedAt
<1> HIDE DEF f1, g1, f2, g2, f3, g3
<1>5. targets'[t].reserved = SumTo(g1, N + 1)
  <2>1. \A j \in 1 .. N : g1[j] = f1[j]
    BY <1>2
  <2>2. targets[t].reserved = SumTo(f1, N) /\ targets'[t].reserved = targets[t].reserved + g1[N + 1]
    BY <1>2, <1>3
  <2>3. SumTo(g1, N + 1) = SumTo(f1, N) + g1[N + 1]
    BY <1>1, <2>1, SumToAppend
  <2> QED
    BY <2>2, <2>3, Zenon
<1>6. targets'[t].consumed = SumTo(g2, N + 1)
  <2>1. \A j \in 1 .. N : g2[j] = f2[j]
    BY <1>2
  <2>2. targets[t].consumed = SumTo(f2, N) /\ targets'[t].consumed = targets[t].consumed + g2[N + 1]
    BY <1>2, <1>3
  <2>3. SumTo(g2, N + 1) = SumTo(f2, N) + g2[N + 1]
    BY <1>1, <2>1, SumToAppend
  <2> QED
    BY <2>2, <2>3, Zenon
<1>7. targets'[t].restored = SumTo(g3, N + 1)
  <2>1. \A j \in 1 .. N : g3[j] = f3[j]
    BY <1>2
  <2>2. targets[t].restored = SumTo(f3, N) /\ targets'[t].restored = targets[t].restored + g3[N + 1]
    BY <1>2, <1>3
  <2>3. SumTo(g3, N + 1) = SumTo(f3, N) + g3[N + 1]
    BY <1>1, <2>1, SumToAppend
  <2> QED
    BY <2>2, <2>3, Zenon
<1> QED
  BY <1>4, <1>5, <1>6, <1>7

(***************************************************************************)
(* RESERVE moves at each target what the new reservation holds there, and  *)
(* no more than was available.                                             *)
(***************************************************************************)
LEMMA ReserveMoves ==
    ASSUME TypeInv, NEW action \in Actions, NEW generation \in 1 .. MaxReservations,
           NEW g \in Grants, NEW actor, NEW module \in Modules,
           NEW cs \in ContributionLists, NEW at \in Times,
           ApplyReserve(action, generation, g, actor, module, cs, at), NEW t \in TargetKeys
    PROVE  LET r == reservations'[Len(reservations) + 1]
               x == ReservedBy(r, t)
           IN  /\ reservations' = Append(reservations, r)
               /\ x \in Nat /\ (x = 0 \/ x <= AvailableOf(t, at))
               /\ ConsumedBy(r, t) = 0 /\ RestoredBy(r, t) = 0
               /\ targets'[t] = [targets[t] EXCEPT !.reserved = @ + x]
<1> DEFINE demands == [i \in 1 .. Len(cs) |-> DemandOf(g, cs[i])]
           amounts == [i \in 1 .. Len(cs) |-> cs[i].atoms]
           record  == [action |-> action, generation |-> generation, authority |-> g,
                       module |-> module, reservedAt |-> at, status |-> "ACTIVE",
                       demands |-> demands]
           x == AmountAt(demands, amounts, t)
<1>1. /\ reservations' = Append(reservations, record)
      /\ targets' = [u \in TargetKeys |->
                       [targets[u] EXCEPT !.reserved = @ + AmountAt(demands, amounts, u)]]
      /\ CheckAvailability(demands, amounts, at)
  BY DEF ApplyReserve
<1>2. /\ Len(cs) \in Nat /\ \A i \in 1 .. Len(cs) : cs[i] \in Contributions
  <2>1. cs \in Seq(Contributions)
    BY ContributionsAssumption
  <2> QED
    BY <2>1
<1>3. /\ record.demands = demands /\ record.status = "ACTIVE" /\ Len(demands) = Len(cs)
      /\ \A i \in 1 .. Len(cs) : /\ demands[i].reserved = cs[i].atoms /\ cs[i].atoms \in Nat
                                  /\ demands[i].consumed = 0 /\ demands[i].restored = 0
  BY <1>2 DEF DemandOf, Contributions
<1>4. \A i \in 1 .. Len(cs) : amounts[i] = cs[i].atoms
  OBVIOUS
<1> HIDE DEF record, demands, amounts
<1>5. /\ \A i \in 1 .. Len(cs) : RemainingAmounts(record)[i] = amounts[i]
      /\ \A i \in 1 .. Len(cs) : ConsumedAmounts(record)[i] = 0
      /\ \A i \in 1 .. Len(cs) : RestoredAmounts(record)[i] = 0
  BY <1>2, <1>3, <1>4 DEF RemainingAmounts, ConsumedAmounts, RestoredAmounts, RemainingOf
<1>6. ReservedBy(record, t) = x
  <2>1. SameLegs(demands, demands)
    BY DEF SameLegs
  <2> QED
    BY <2>1, <1>2, <1>3, <1>5, AmountAtCong DEF ReservedBy
<1>7. ConsumedBy(record, t) = 0
  BY <1>2, <1>3, <1>5, AmountAtZero DEF ConsumedBy
<1>8. RestoredBy(record, t) = 0
  <2>1. Len(CapacityDemands(record)) = Len(cs)
    BY <1>2, <1>3, CapacityDemandsLength
  <2> QED
    BY <2>1, <1>2, <1>5, AmountAtZero DEF RestoredBy
<1>9. x \in Nat
  BY <1>2, <1>3, <1>4, AmountAtNat
<1>10. x = 0 \/ x <= AvailableOf(t, at)
  <2>1. CASE t \in Touched(demands)
    BY <1>1, <2>1 DEF CheckAvailability
  <2>2. CASE t \notin Touched(demands)
    BY <1>2, <1>3, <2>2, AmountAtZero DEF Touched
  <2> QED
    BY <2>1, <2>2
<1>11. targets'[t] = [targets[t] EXCEPT !.reserved = @ + x]
  BY <1>1
<1>12. reservations'[Len(reservations) + 1] = record
  BY <1>1 DEF TypeInv, TypeOK
<1> HIDE DEF x
<1> QED
  BY <1>1, <1>6, <1>7, <1>8, <1>9, <1>10, <1>11, <1>12

(***************************************************************************)
(* RESERVE conserves every target.                                         *)
(***************************************************************************)
LEMMA ReserveConserves ==
    ASSUME TypeInv, NEW action \in Actions, NEW generation \in 1 .. MaxReservations,
           NEW g \in Grants, NEW actor, NEW module \in Modules,
           NEW cs \in ContributionLists, NEW at \in Times,
           ApplyReserve(action, generation, g, actor, module, cs, at),
           NEW t \in TargetKeys, ConservedAt(t)
    PROVE  ConservedAt(t)'
<1> DEFINE r == reservations'[Len(reservations) + 1]
           x == ReservedBy(r, t)
<1>1. /\ reservations' = Append(reservations, r)
      /\ x \in Nat /\ ConsumedBy(r, t) = 0 /\ RestoredBy(r, t) = 0
      /\ targets'[t] = [targets[t] EXCEPT !.reserved = @ + x]
  BY ReserveMoves
<1> HIDE DEF r
<1>2. targets[t] \in Balances
  BY DEF TypeInv, TypeOK
<1>3. /\ targets'[t].reserved = targets[t].reserved + ReservedBy(r, t)
      /\ targets'[t].consumed = targets[t].consumed + ConsumedBy(r, t)
      /\ targets'[t].restored = targets[t].restored + RestoredBy(r, t)
  BY <1>1, <1>2 DEF Balances
<1> QED
  BY <1>1, <1>3, ConservedAppend

(***************************************************************************)
(* The capacity legs are a function of the legs.                           *)
(***************************************************************************)
LEMMA SameCapacityLegs ==
    ASSUME NEW r, NEW q, r.demands \in Seq(Demands), q.demands \in Seq(Demands),
           SameLegs(r.demands, q.demands)
    PROVE  SameLegs(CapacityDemands(r), CapacityDemands(q))
<1>1. /\ Len(r.demands) \in Nat /\ Len(q.demands) = Len(r.demands)
      /\ \A i \in 1 .. Len(r.demands) : r.demands[i] \in Demands /\ q.demands[i] \in Demands
      /\ \A i \in 1 .. Len(r.demands) : q.demands[i].legs = r.demands[i].legs
  BY DEF SameLegs
<1>2. /\ Len(CapacityDemands(r)) = Len(r.demands) /\ Len(CapacityDemands(q)) = Len(r.demands)
  BY <1>1, CapacityDemandsLength
<1>3. \A d \in Demands : [d EXCEPT !.legs = CapacityLegs(d)].legs = CapacityLegs(d)
  BY DEF Demands
<1>4. \A i \in 1 .. Len(r.demands) : /\ CapacityDemands(r)[i].legs = CapacityLegs(r.demands[i])
                                     /\ CapacityDemands(q)[i].legs = CapacityLegs(q.demands[i])
  BY <1>1, <1>3 DEF CapacityDemands
<1>5. \A i \in 1 .. Len(r.demands) : CapacityLegs(q.demands[i]) = CapacityLegs(r.demands[i])
  BY <1>1 DEF CapacityLegs
<1> QED
  BY <1>2, <1>4, <1>5 DEF SameLegs

(***************************************************************************)
(* The reservation an accounting event rewrites.                           *)
(***************************************************************************)
LEMMA RewrittenDemands ==
    ASSUME TypeInv, NEW k \in 1 .. Len(reservations), NEW ds, NEW status,
           reservations' = [reservations EXCEPT
                              ![k] = [reservations[k] EXCEPT !.status = status, !.demands = ds]]
    PROVE  /\ reservations'[k].demands = ds
           /\ reservations'[k].status = status
<1> DEFINE q == [reservations[k] EXCEPT !.status = status, !.demands = ds]
<1>1. reservations[k] \in Reservations /\ k \in DOMAIN reservations
  BY ReservationTyped DEF TypeInv, TypeOK
<1>2. q.demands = ds /\ q.status = status
  BY <1>1 DEF Reservations
<1>3. reservations' = [reservations EXCEPT ![k] = q]
  OBVIOUS
<1> HIDE DEF q
<1>4. reservations'[k] = q
  BY <1>1, <1>3
<1> QED
  BY <1>2, <1>4

(***************************************************************************)
(* CONSUME moves at each target what it moves of its reservation's hold.   *)
(***************************************************************************)
LEMMA ConsumeMoves ==
    ASSUME TypeInv, TypeInv', NEW k \in 1 .. Len(reservations), NEW amounts \in AmountLists(k),
           NEW at \in Times, ApplyConsume(k, amounts, at), NEW t \in TargetKeys
    PROVE  \E x \in Nat :
              /\ ReservedBy(reservations[k], t) = ReservedBy(reservations'[k], t) + x
              /\ ConsumedBy(reservations'[k], t) = ConsumedBy(reservations[k], t) + x
              /\ RestoredBy(reservations'[k], t) = RestoredBy(reservations[k], t)
              /\ IF t \in Touched(reservations[k].demands)
                 THEN targets'[t] = ConsumeAt(targets[t], x, LegEpoch(reservations[k], t[2]))
                 ELSE targets'[t] = targets[t] /\ x = 0
<1> DEFINE r == reservations[k]
           q == reservations'[k]
           n == Len(r.demands)
           ds == [i \in 1 .. n |-> [r.demands[i] EXCEPT !.consumed = @ + amounts[i]]]
           x == AmountAt(r.demands, amounts, t)
<1>1. /\ r.status = "ACTIVE"
      /\ targets' = [u \in TargetKeys |->
                       IF u \in Touched(r.demands)
                       THEN ConsumeAt(targets[u], AmountAt(r.demands, amounts, u), LegEpoch(r, u[2]))
                       ELSE targets[u]]
      /\ reservations' = [reservations EXCEPT ![k].demands = ds]
  BY DEF ApplyConsume
<1>2. /\ Len(reservations') = Len(reservations)
      /\ \A j \in 1 .. Len(reservations) : j # k => reservations'[j] = reservations[j]
  BY AccountingKeepsIdentity
<1>3. q.demands = ds /\ q.status = "ACTIVE"
  <2>1. reservations' = [reservations EXCEPT
                           ![k] = [reservations[k] EXCEPT !.status = "ACTIVE", !.demands = ds]]
    BY <1>1, ReservationTyped DEF Reservations
  <2> HIDE DEF ds
  <2> QED
    BY <2>1, RewrittenDemands
<1>4. /\ n \in Nat /\ \A i \in 1 .. n : amounts[i] \in Nat
      /\ \A i \in 1 .. n : r.demands[i] \in Demands
  BY ReservationTyped, AmountsTyped
<1>5. /\ Len(ds) = n
      /\ \A i \in 1 .. n : /\ ds[i].legs = r.demands[i].legs
                            /\ ds[i].reserved = r.demands[i].reserved
                            /\ ds[i].restored = r.demands[i].restored
                            /\ ds[i].consumed = r.demands[i].consumed + amounts[i]
                            /\ r.demands[i].reserved \in Nat /\ r.demands[i].consumed \in Nat
                            /\ r.demands[i].restored \in Nat
  <2>1. Len(ds) = n
    BY <1>4
  <2>2. ASSUME NEW d \in Demands, NEW y \in Nat
        PROVE  LET e == [d EXCEPT !.consumed = @ + y]
               IN  /\ e.legs = d.legs /\ e.reserved = d.reserved /\ e.restored = d.restored
                   /\ e.consumed = d.consumed + y
                   /\ d.reserved \in Nat /\ d.consumed \in Nat /\ d.restored \in Nat
    BY DEF Demands
  <2> QED
    BY <1>4, <2>1, <2>2
<1> HIDE DEF ds
<1>6. SameLegs(r.demands, q.demands) /\ SameLegs(q.demands, r.demands)
  BY <1>3, <1>5 DEF SameLegs
<1>7. \A i \in 1 .. n : /\ RemainingAmounts(q)[i] = r.demands[i].reserved - (r.demands[i].consumed + amounts[i])
                        /\ RemainingAmounts(r)[i] = r.demands[i].reserved - r.demands[i].consumed
                        /\ ConsumedAmounts(q)[i] = r.demands[i].consumed + amounts[i]
                        /\ ConsumedAmounts(r)[i] = r.demands[i].consumed
                        /\ RestoredAmounts(q)[i] = r.demands[i].restored
                        /\ RestoredAmounts(r)[i] = r.demands[i].restored
  <2> HIDE DEF r, q
  <2> QED
    BY <1>1, <1>3, <1>5 DEF RemainingAmounts, ConsumedAmounts, RestoredAmounts, RemainingOf, n
<1>8. q.demands \in Seq(Demands) /\ r.demands \in Seq(Demands)
  <2>1. reservations'[k] \in Reservations
    BY <1>2 DEF TypeInv, TypeOK
  <2> QED
    BY <2>1, ReservationTyped DEF Reservations
<1>9. Len(q.demands) = n
  BY <1>3, <1>5
<1> HIDE DEF r, q, n
<1>10. ConsumedBy(q, t) = ConsumedBy(r, t) + x
  <2>1. \A i \in 1 .. n : /\ ConsumedAmounts(r)[i] \in Int /\ amounts[i] \in Int
                          /\ ConsumedAmounts(q)[i] = ConsumedAmounts(r)[i] + amounts[i]
    BY <1>4, <1>5, <1>7
  <2> QED
    BY <1>4, <1>6, <2>1, AmountAtAdd DEF ConsumedBy, n
<1>11. ReservedBy(r, t) = ReservedBy(q, t) + x
  <2>1. ASSUME NEW i \in 1 .. n
        PROVE  /\ RemainingAmounts(q)[i] \in Int /\ amounts[i] \in Int
               /\ RemainingAmounts(r)[i] = RemainingAmounts(q)[i] + amounts[i]
    <3>1. /\ r.demands[i].reserved \in Nat /\ r.demands[i].consumed \in Nat /\ amounts[i] \in Nat
          /\ RemainingAmounts(q)[i] = r.demands[i].reserved - (r.demands[i].consumed + amounts[i])
          /\ RemainingAmounts(r)[i] = r.demands[i].reserved - r.demands[i].consumed
      BY <1>4, <1>5, <1>7
    <3> QED
      BY <3>1
  <2>2. ReservedBy(r, t) = ReservedBy(q, t) + AmountAt(q.demands, amounts, t)
    BY <1>4, <1>6, <1>9, <2>1, AmountAtAdd DEF ReservedBy
  <2>3. AmountAt(q.demands, amounts, t) = x
    BY <1>4, <1>6, AmountAtCong DEF n
  <2> QED
    BY <2>2, <2>3
<1>12. RestoredBy(q, t) = RestoredBy(r, t)
  <2>1. SameLegs(CapacityDemands(r), CapacityDemands(q))
    BY <1>6, <1>8, SameCapacityLegs
  <2>2. Len(CapacityDemands(r)) = n
    BY <1>4, CapacityDemandsLength DEF n
  <2>3. \A i \in 1 .. n : RestoredAmounts(r)[i] = RestoredAmounts(q)[i]
    BY <1>7
  <2> QED
    BY <1>4, <2>1, <2>2, <2>3, AmountAtCong DEF RestoredBy
<1>13. x \in Nat
  BY <1>4, AmountAtNat DEF n
<1>14. CASE t \in Touched(r.demands)
  <2>1. targets'[t] = ConsumeAt(targets[t], x, LegEpoch(r, t[2]))
    BY <1>1, <1>14
  <2> HIDE DEF x
  <2> QED
    BY <1>10, <1>11, <1>12, <1>13, <1>14, <2>1 DEF r, q
<1>15. CASE t \notin Touched(r.demands)
  <2>1. x = 0
    BY <1>4, <1>15, AmountAtZero DEF Touched, n
  <2>2. targets'[t] = targets[t]
    BY <1>1, <1>15
  <2> HIDE DEF x
  <2> QED
    BY <1>10, <1>11, <1>12, <1>13, <1>15, <2>1, <2>2 DEF r, q
<1> QED
  BY <1>14, <1>15

(***************************************************************************)
(* CONSUME conserves every target.                                         *)
(***************************************************************************)
LEMMA ConsumeConserves ==
    ASSUME TypeInv, TypeInv', NEW k \in 1 .. Len(reservations), NEW amounts \in AmountLists(k),
           NEW at \in Times, ApplyConsume(k, amounts, at), NEW t \in TargetKeys, ConservedAt(t)
    PROVE  ConservedAt(t)'
<1> DEFINE r == reservations[k]
           q == reservations'[k]
<1>1. /\ Len(reservations') = Len(reservations)
      /\ \A j \in 1 .. Len(reservations) : j # k => reservations'[j] = reservations[j]
  BY AccountingKeepsIdentity
<1>2. PICK x \in Nat :
        /\ ReservedBy(r, t) = ReservedBy(q, t) + x
        /\ ConsumedBy(q, t) = ConsumedBy(r, t) + x
        /\ RestoredBy(q, t) = RestoredBy(r, t)
        /\ IF t \in Touched(r.demands)
           THEN targets'[t] = ConsumeAt(targets[t], x, LegEpoch(r, t[2]))
           ELSE targets'[t] = targets[t] /\ x = 0
  BY ConsumeMoves
<1>3. targets[t] \in Balances /\ targets'[t] \in Balances
  BY DEF TypeInv, TypeOK
<1>4. targets[t].reserved \in Int /\ targets[t].consumed \in Int /\ targets[t].restored \in Int
  BY <1>3 DEF Balances
<1>5. /\ targets'[t].reserved = targets[t].reserved - x
      /\ targets'[t].consumed = targets[t].consumed + x
      /\ targets'[t].restored = targets[t].restored
  <2>1. CASE t \in Touched(r.demands)
    BY <1>2, <2>1 DEF ConsumeAt
  <2>2. CASE t \notin Touched(r.demands)
    BY <1>2, <1>4, <2>2
  <2> QED
    BY <2>1, <2>2
<1>6. /\ ReservedBy(r, t) \in Int /\ ReservedBy(q, t) \in Int
      /\ ConsumedBy(r, t) \in Int /\ ConsumedBy(q, t) \in Int
      /\ RestoredBy(r, t) \in Int /\ RestoredBy(q, t) \in Int
  <2>1. reservations[k] \in Reservations /\ reservations'[k] \in Reservations
    BY <1>1 DEF TypeInv, TypeOK
  <2> QED
    BY <2>1, HeldInt
<1> HIDE DEF r, q
<1>7. /\ targets'[t].reserved - targets[t].reserved = ReservedBy(q, t) - ReservedBy(r, t)
      /\ targets'[t].consumed - targets[t].consumed = ConsumedBy(q, t) - ConsumedBy(r, t)
      /\ targets'[t].restored - targets[t].restored = RestoredBy(q, t) - RestoredBy(r, t)
  <2>1. /\ ReservedBy(r, t) = ReservedBy(q, t) + x /\ ConsumedBy(q, t) = ConsumedBy(r, t) + x
        /\ RestoredBy(q, t) = RestoredBy(r, t)
    BY <1>2
  <2> DEFINE a == ReservedBy(r, t)
             b == ReservedBy(q, t)
             c == targets[t].reserved
             d == targets'[t].reserved
  <2>2. d - c = b - a
    <3>1. a \in Int /\ b \in Int /\ c \in Int /\ a = b + x /\ d = c - x
      BY <2>1, <1>4, <1>5, <1>6
    <3> HIDE DEF a, b, c, d
    <3> QED
      BY <3>1
  <2> DEFINE e == ConsumedBy(r, t)
             f == ConsumedBy(q, t)
             g == targets[t].consumed
             h == targets'[t].consumed
  <2>3. h - g = f - e
    <3>1. e \in Int /\ f \in Int /\ g \in Int /\ f = e + x /\ h = g + x
      BY <2>1, <1>4, <1>5, <1>6
    <3> HIDE DEF e, f, g, h
    <3> QED
      BY <3>1
  <2>4. targets'[t].restored - targets[t].restored = RestoredBy(q, t) - RestoredBy(r, t)
    BY <2>1, <1>4, <1>5, <1>6
  <2> QED
    BY <2>2, <2>3, <2>4
<1> QED
  BY <1>1, <1>3, <1>7, ConservedUpdate DEF r, q

(***************************************************************************)
(* CLOSE releases at each target what its reservation still held there.    *)
(***************************************************************************)
LEMMA CloseMoves ==
    ASSUME TypeInv, TypeInv', NEW k \in 1 .. Len(reservations), NEW at \in Times,
           ApplyClose(k, at), NEW t \in TargetKeys
    PROVE  \E x \in Nat :
              /\ ReservedBy(reservations[k], t) = ReservedBy(reservations'[k], t) + x
              /\ ConsumedBy(reservations'[k], t) = ConsumedBy(reservations[k], t)
              /\ RestoredBy(reservations'[k], t) = RestoredBy(reservations[k], t)
              /\ targets'[t] = [targets[t] EXCEPT !.reserved = @ - x]
<1> DEFINE r == reservations[k]
           q == reservations'[k]
           n == Len(r.demands)
           remaining == [i \in 1 .. n |-> RemainingOf(r.demands[i])]
           ds == [i \in 1 .. n |-> [r.demands[i] EXCEPT !.released = remaining[i]]]
           x == AmountAt(r.demands, remaining, t)
<1>1. /\ r.status = "ACTIVE"
      /\ targets' = [u \in TargetKeys |->
                       [targets[u] EXCEPT !.reserved = @ - AmountAt(r.demands, remaining, u)]]
      /\ reservations' = [reservations EXCEPT ![k].status = "CLOSED", ![k].demands = ds]
  BY DEF ApplyClose
<1>2. /\ Len(reservations') = Len(reservations)
      /\ \A j \in 1 .. Len(reservations) : j # k => reservations'[j] = reservations[j]
  BY AccountingKeepsIdentity
<1>3. q.demands = ds /\ q.status = "CLOSED"
  <2>1. reservations' = [reservations EXCEPT
                           ![k] = [reservations[k] EXCEPT !.status = "CLOSED", !.demands = ds]]
    BY <1>1, ReservationTyped DEF Reservations
  <2> HIDE DEF ds
  <2> QED
    BY <2>1, RewrittenDemands
<1>4. n \in Nat /\ \A i \in 1 .. n : r.demands[i] \in Demands
  BY ReservationTyped
<1>5. /\ Len(ds) = n
      /\ \A i \in 1 .. n : /\ ds[i].legs = r.demands[i].legs
                            /\ ds[i].restored = r.demands[i].restored
                            /\ ds[i].consumed = r.demands[i].consumed
                            /\ r.demands[i].reserved \in Nat /\ r.demands[i].consumed \in Nat
  <2>1. Len(ds) = n
    BY <1>4
  <2>2. ASSUME NEW d \in Demands, NEW y
        PROVE  LET e == [d EXCEPT !.released = y]
               IN  /\ e.legs = d.legs /\ e.restored = d.restored /\ e.consumed = d.consumed
                   /\ d.reserved \in Nat /\ d.consumed \in Nat
    BY DEF Demands
  <2> QED
    BY <1>4, <2>1, <2>2
<1>6. \A i \in 1 .. n : /\ remaining[i] = r.demands[i].reserved - r.demands[i].consumed
                        /\ remaining[i] \in Int
  <2>1. \A i \in 1 .. n : remaining[i] = r.demands[i].reserved - r.demands[i].consumed
    BY DEF RemainingOf
  <2>2. \A i \in 1 .. n : r.demands[i].reserved \in Nat /\ r.demands[i].consumed \in Nat
    BY <1>5
  <2> HIDE DEF remaining, ds, r
  <2> QED
    BY <2>1, <2>2
<1> HIDE DEF ds, remaining
<1>7. SameLegs(r.demands, q.demands)
  BY <1>3, <1>5 DEF SameLegs
<1>8. \A i \in 1 .. n : /\ RemainingAmounts(q)[i] = 0
                        /\ RemainingAmounts(r)[i] = remaining[i]
                        /\ ConsumedAmounts(r)[i] = ConsumedAmounts(q)[i]
                        /\ RestoredAmounts(r)[i] = RestoredAmounts(q)[i]
  <2> HIDE DEF r, q
  <2> QED
    BY <1>1, <1>3, <1>5, <1>6
    DEF RemainingAmounts, ConsumedAmounts, RestoredAmounts, RemainingOf, n
<1>9. q.demands \in Seq(Demands) /\ r.demands \in Seq(Demands)
  <2>1. reservations'[k] \in Reservations
    BY <1>2 DEF TypeInv, TypeOK
  <2> QED
    BY <2>1, ReservationTyped DEF Reservations
<1>10. Len(q.demands) = n
  BY <1>3, <1>5
<1> HIDE DEF r, q, n
<1>11. ReservedBy(r, t) = x
  <2>1. SameLegs(r.demands, r.demands)
    BY DEF SameLegs
  <2> QED
    BY <2>1, <1>4, <1>8, AmountAtCong DEF ReservedBy, n
<1>12. ReservedBy(q, t) = 0
  BY <1>4, <1>8, <1>10, AmountAtZero DEF ReservedBy
<1>13. ConsumedBy(q, t) = ConsumedBy(r, t)
  BY <1>4, <1>7, <1>8, AmountAtCong DEF ConsumedBy, n
<1>14. RestoredBy(q, t) = RestoredBy(r, t)
  <2>1. SameLegs(CapacityDemands(r), CapacityDemands(q))
    BY <1>7, <1>9, SameCapacityLegs
  <2>2. Len(CapacityDemands(r)) = n
    BY <1>4, CapacityDemandsLength DEF n
  <2>3. \A i \in 1 .. n : RestoredAmounts(r)[i] = RestoredAmounts(q)[i]
    BY <1>8
  <2> QED
    BY <1>4, <2>1, <2>2, <2>3, AmountAtCong DEF RestoredBy
<1>15. x \in Nat
  <2>1. \A i \in 1 .. n : /\ r.demands[i].reserved \in Nat /\ r.demands[i].consumed \in Nat
                          /\ r.demands[i].consumed <= r.demands[i].reserved
    BY ReservationTyped DEF TypeInv, DemandsBounded, n, r
  <2>2. \A i \in 1 .. n : remaining[i] \in Nat
    BY <1>6, <2>1
  <2> QED
    BY <1>4, <2>2, AmountAtNat DEF n
<1>16. targets'[t] = [targets[t] EXCEPT !.reserved = @ - x]
  BY <1>1
<1> HIDE DEF x
<1>17. ReservedBy(r, t) = ReservedBy(q, t) + x
  BY <1>11, <1>12, <1>15
<1> QED
  BY <1>13, <1>14, <1>15, <1>16, <1>17 DEF r, q

(***************************************************************************)
(* CLOSE conserves every target.                                           *)
(***************************************************************************)
LEMMA CloseConserves ==
    ASSUME TypeInv, TypeInv', NEW k \in 1 .. Len(reservations), NEW at \in Times,
           ApplyClose(k, at), NEW t \in TargetKeys, ConservedAt(t)
    PROVE  ConservedAt(t)'
<1> DEFINE r == reservations[k]
           q == reservations'[k]
<1>1. /\ Len(reservations') = Len(reservations)
      /\ \A j \in 1 .. Len(reservations) : j # k => reservations'[j] = reservations[j]
  BY AccountingKeepsIdentity
<1>2. PICK x \in Nat :
        /\ ReservedBy(r, t) = ReservedBy(q, t) + x
        /\ ConsumedBy(q, t) = ConsumedBy(r, t)
        /\ RestoredBy(q, t) = RestoredBy(r, t)
        /\ targets'[t] = [targets[t] EXCEPT !.reserved = @ - x]
  BY CloseMoves
<1>3. targets[t] \in Balances /\ targets'[t] \in Balances
  BY DEF TypeInv, TypeOK
<1>4. /\ targets[t].reserved \in Int /\ targets[t].consumed \in Int /\ targets[t].restored \in Int
      /\ targets'[t].reserved = targets[t].reserved - x
      /\ targets'[t].consumed = targets[t].consumed
      /\ targets'[t].restored = targets[t].restored
  BY <1>2, <1>3 DEF Balances
<1>5. /\ ReservedBy(q, t) \in Int /\ ConsumedBy(r, t) \in Int /\ RestoredBy(r, t) \in Int
  <2>1. reservations[k] \in Reservations /\ reservations'[k] \in Reservations
    BY <1>1 DEF TypeInv, TypeOK
  <2> QED
    BY <2>1, HeldInt
<1> HIDE DEF r, q
<1>6. /\ targets'[t].reserved - targets[t].reserved = ReservedBy(q, t) - ReservedBy(r, t)
      /\ targets'[t].consumed - targets[t].consumed = ConsumedBy(q, t) - ConsumedBy(r, t)
      /\ targets'[t].restored - targets[t].restored = RestoredBy(q, t) - RestoredBy(r, t)
  BY <1>2, <1>4, <1>5
<1> QED
  BY <1>1, <1>3, <1>6, ConservedUpdate DEF r, q

(***************************************************************************)
(* RESTORE credits each capacity target what it credits its reservation.   *)
(***************************************************************************)
LEMMA RestoreMoves ==
    ASSUME TypeInv, TypeInv', NEW k \in 1 .. Len(reservations), NEW amounts \in AmountLists(k),
           NEW at \in Times, ApplyRestore(k, amounts, at), NEW t \in TargetKeys
    PROVE  \E x \in Nat :
              /\ ReservedBy(reservations'[k], t) = ReservedBy(reservations[k], t)
              /\ ConsumedBy(reservations'[k], t) = ConsumedBy(reservations[k], t)
              /\ RestoredBy(reservations'[k], t) = RestoredBy(reservations[k], t) + x
              /\ targets'[t] = [targets[t] EXCEPT !.restored = @ + x]
<1> DEFINE r == reservations[k]
           q == reservations'[k]
           n == Len(r.demands)
           ds == [i \in 1 .. n |-> [r.demands[i] EXCEPT !.restored = @ + amounts[i]]]
           x == AmountAt(CapacityDemands(r), amounts, t)
<1>1. /\ targets' = [u \in TargetKeys |->
                       [targets[u] EXCEPT !.restored = @ + AmountAt(CapacityDemands(r), amounts, u)]]
      /\ reservations' = [reservations EXCEPT ![k].demands = ds]
  BY DEF ApplyRestore
<1>2. /\ Len(reservations') = Len(reservations)
      /\ \A j \in 1 .. Len(reservations) : j # k => reservations'[j] = reservations[j]
  BY AccountingKeepsIdentity
<1>3. q.demands = ds /\ q.status = r.status
  <2>1. reservations' = [reservations EXCEPT
                           ![k] = [reservations[k] EXCEPT !.status = r.status, !.demands = ds]]
    BY <1>1, ReservationTyped DEF Reservations
  <2> HIDE DEF ds
  <2> QED
    BY <2>1, RewrittenDemands
<1>4. /\ n \in Nat /\ \A i \in 1 .. n : amounts[i] \in Nat
      /\ \A i \in 1 .. n : r.demands[i] \in Demands
  BY ReservationTyped, AmountsTyped
<1>5. /\ Len(ds) = n
      /\ \A i \in 1 .. n : /\ ds[i].legs = r.demands[i].legs
                            /\ ds[i].reserved = r.demands[i].reserved
                            /\ ds[i].consumed = r.demands[i].consumed
                            /\ ds[i].restored = r.demands[i].restored + amounts[i]
                            /\ r.demands[i].restored \in Nat
  <2>1. Len(ds) = n
    BY <1>4
  <2>2. ASSUME NEW d \in Demands, NEW y \in Nat
        PROVE  LET e == [d EXCEPT !.restored = @ + y]
               IN  /\ e.legs = d.legs /\ e.reserved = d.reserved /\ e.consumed = d.consumed
                   /\ e.restored = d.restored + y /\ d.restored \in Nat
    BY DEF Demands
  <2> QED
    BY <1>4, <2>1, <2>2
<1> HIDE DEF ds
<1>6. SameLegs(r.demands, q.demands)
  BY <1>3, <1>5 DEF SameLegs
<1>7. \A i \in 1 .. n : /\ RemainingAmounts(r)[i] = RemainingAmounts(q)[i]
                        /\ ConsumedAmounts(r)[i] = ConsumedAmounts(q)[i]
                        /\ RestoredAmounts(q)[i] = RestoredAmounts(r)[i] + amounts[i]
                        /\ RestoredAmounts(r)[i] \in Int /\ amounts[i] \in Int
  <2> HIDE DEF r, q
  <2> QED
    BY <1>3, <1>4, <1>5 DEF RemainingAmounts, ConsumedAmounts, RestoredAmounts, RemainingOf, n
<1>8. q.demands \in Seq(Demands) /\ r.demands \in Seq(Demands)
  <2>1. reservations'[k] \in Reservations
    BY <1>2 DEF TypeInv, TypeOK
  <2> QED
    BY <2>1, ReservationTyped DEF Reservations
<1> HIDE DEF r, q, n
<1>9. ReservedBy(q, t) = ReservedBy(r, t)
  BY <1>4, <1>6, <1>7, AmountAtCong DEF ReservedBy, n
<1>10. ConsumedBy(q, t) = ConsumedBy(r, t)
  BY <1>4, <1>6, <1>7, AmountAtCong DEF ConsumedBy, n
<1>11. Len(CapacityDemands(r)) = n
  BY <1>4, CapacityDemandsLength DEF n
<1>12. RestoredBy(q, t) = RestoredBy(r, t) + x
  <2>1. SameLegs(CapacityDemands(r), CapacityDemands(q))
    BY <1>6, <1>8, SameCapacityLegs
  <2> QED
    BY <1>4, <1>7, <1>11, <2>1, AmountAtAdd DEF RestoredBy
<1>13. x \in Nat
  BY <1>4, <1>11, AmountAtNat
<1>14. targets'[t] = [targets[t] EXCEPT !.restored = @ + x]
  BY <1>1
<1> HIDE DEF x
<1> QED
  BY <1>9, <1>10, <1>12, <1>13, <1>14 DEF r, q

(***************************************************************************)
(* RESTORE conserves every target.                                         *)
(***************************************************************************)
LEMMA RestoreConserves ==
    ASSUME TypeInv, TypeInv', NEW k \in 1 .. Len(reservations), NEW amounts \in AmountLists(k),
           NEW at \in Times, ApplyRestore(k, amounts, at), NEW t \in TargetKeys, ConservedAt(t)
    PROVE  ConservedAt(t)'
<1> DEFINE r == reservations[k]
           q == reservations'[k]
<1>1. /\ Len(reservations') = Len(reservations)
      /\ \A j \in 1 .. Len(reservations) : j # k => reservations'[j] = reservations[j]
  BY AccountingKeepsIdentity
<1>2. PICK x \in Nat :
        /\ ReservedBy(q, t) = ReservedBy(r, t)
        /\ ConsumedBy(q, t) = ConsumedBy(r, t)
        /\ RestoredBy(q, t) = RestoredBy(r, t) + x
        /\ targets'[t] = [targets[t] EXCEPT !.restored = @ + x]
  BY RestoreMoves
<1>3. targets[t] \in Balances /\ targets'[t] \in Balances
  BY DEF TypeInv, TypeOK
<1>4. /\ targets[t].reserved \in Int /\ targets[t].consumed \in Int /\ targets[t].restored \in Int
      /\ targets'[t].reserved = targets[t].reserved
      /\ targets'[t].consumed = targets[t].consumed
      /\ targets'[t].restored = targets[t].restored + x
  BY <1>2, <1>3 DEF Balances
<1>5. ReservedBy(r, t) \in Int /\ ConsumedBy(r, t) \in Int /\ RestoredBy(r, t) \in Int
  BY ReservationTyped, HeldInt
<1> HIDE DEF r, q
<1>6. /\ targets'[t].reserved - targets[t].reserved = ReservedBy(q, t) - ReservedBy(r, t)
      /\ targets'[t].consumed - targets[t].consumed = ConsumedBy(q, t) - ConsumedBy(r, t)
      /\ targets'[t].restored - targets[t].restored = RestoredBy(q, t) - RestoredBy(r, t)
  BY <1>2, <1>4, <1>5
<1> QED
  BY <1>1, <1>3, <1>6, ConservedUpdate DEF r, q

------------------------------------------------------------------------------
(* The theorem.                                                             *)

ConservationInv == TypeInv /\ Conservation

(***************************************************************************)
(* Every step conserves every target.                                      *)
(***************************************************************************)
LEMMA NextConserves == ConservationInv /\ [Next]_vars => ConservationInv'
<1> SUFFICES ASSUME ConservationInv, [Next]_vars PROVE ConservationInv'
  OBVIOUS
<1>1. TypeInv /\ TypeInv'
  BY NextType DEF ConservationInv
<1>2. Conservation <=> \A t \in TargetKeys : ConservedAt(t)
  BY DEF Conservation, ConservedAt
<1>3. Conservation' <=> \A t \in TargetKeys : ConservedAt(t)'
  BY DEF Conservation, ConservedAt
<1>4. SUFFICES ASSUME NEW t \in TargetKeys PROVE ConservedAt(t)'
  BY <1>1, <1>3 DEF ConservationInv
<1>5. ConservedAt(t)
  BY <1>2 DEF ConservationInv
<1>6. CASE reservations' = reservations /\ targets' = targets
  BY <1>5, <1>6 DEF ConservedAt
<1>7. CASE Next
  <2>1. PICK at \in Times :
          \/ \E p \in Policies : ApplyRegisterPolicy(p, at)
          \/ \E g \in Grants : ApplyRegisterGrant(g, at)
          \/ \E g \in Grants, issuer \in Parties, effectiveAt \in Times :
                ApplyRevoke(g, issuer, effectiveAt, at)
          \/ \E action \in Actions, generation \in 1 .. MaxReservations, g \in Grants,
                actor \in Parties, module \in Modules, cs \in ContributionLists :
                ApplyReserve(action, generation, g, actor, module, cs, at)
          \/ \E k \in 1 .. Len(reservations) :
                \/ \E amounts \in AmountLists(k) : ApplyConsume(k, amounts, at)
                \/ ApplyClose(k, at)
                \/ \E amounts \in AmountLists(k) : ApplyRestore(k, amounts, at)
                \/ \E artifact \in Artifacts, slot \in Slots \cup {NoSlot}, validUntil \in Times :
                      ApplyAdmitAttempt(k, artifact, slot, validUntil, at)
    BY <1>7 DEF Next
  <2>2. CASE \/ \E p \in Policies : ApplyRegisterPolicy(p, at)
             \/ \E g \in Grants : ApplyRegisterGrant(g, at)
             \/ \E g \in Grants, issuer \in Parties, effectiveAt \in Times :
                   ApplyRevoke(g, issuer, effectiveAt, at)
             \/ \E k \in 1 .. Len(reservations), artifact \in Artifacts,
                   slot \in Slots \cup {NoSlot}, validUntil \in Times :
                      ApplyAdmitAttempt(k, artifact, slot, validUntil, at)
    BY <2>2, <1>6 DEF ApplyRegisterPolicy, ApplyRegisterGrant, ApplyRevoke, ApplyAdmitAttempt
  <2> QED
    BY <2>1, <2>2, <1>1, <1>5, ReserveConserves, ConsumeConserves, CloseConserves, RestoreConserves
<1> QED
  BY <1>6, <1>7 DEF vars

(***************************************************************************)
(* The balance of every target is always the sum of what the reservations  *)
(* hold, consumed and restored there: no sequence of reservations, partial *)
(* consumptions, releases and restorations makes the incrementally kept    *)
(* balances drift from the records they summarise.                         *)
(***************************************************************************)
THEOREM BalancesConserved == Spec => []Conservation
<1>1. Init => ConservationInv
  <2> SUFFICES ASSUME Init PROVE ConservationInv
    OBVIOUS
  <2>1. Len(reservations) = 0 /\ \A t \in TargetKeys : targets[t] = ZeroBalance
    BY DEF Init
  <2>2. \A f : SumTo(f, 0) = 0
    BY SumToEquation
  <2>3. Conservation
    BY <2>1, <2>2 DEF Conservation, ZeroBalance
  <2> QED
    BY <2>3, InitType DEF ConservationInv
<1>2. ConservationInv /\ [Next]_vars => ConservationInv'
  BY NextConserves
<1>3. ConservationInv => Conservation
  BY DEF ConservationInv
<1> QED
  BY <1>1, <1>2, <1>3, PTL DEF Spec

------------------------------------------------------------------------------
(* Arithmetic of units and epochs.                                          *)

\* Division with remainder.
LEMMA DivMod ==
    ASSUME NEW a \in Int, NEW u \in Nat \ {0}
    PROVE  a \div u \in Int /\ a % u \in 0 .. u - 1 /\ a = u * (a \div u) + (a % u)
OBVIOUS

\* A multiple leaves no remainder.
LEMMA MultipleMod ==
    ASSUME NEW q \in Int, NEW u \in Nat \ {0}
    PROVE  (u * q) % u = 0
<1> DEFINE a == u * q
           p == a \div u
           r == a % u
<1>1. a \in Int
  OBVIOUS
<1>2. p \in Int /\ r \in 0 .. u - 1 /\ a = u * p + r
  BY <1>1
<1>3. u * (q - p) = r
  BY <1>2
<1> HIDE DEF p, r
<1>4. p \in Int /\ r \in 0 .. u - 1 /\ q - p \in Int
  BY <1>2
<1>5. CASE q - p >= 1
  BY <1>3, <1>4, <1>5
<1>6. CASE q - p <= -1
  BY <1>3, <1>4, <1>6
<1>7. CASE q - p = 0
  BY <1>3, <1>4, <1>7 DEF r
<1> QED
  BY <1>4, <1>5, <1>6, <1>7

(***************************************************************************)
(* Whole numbers of a unit stay whole under addition and subtraction.      *)
(***************************************************************************)
LEMMA WholeUnits ==
    ASSUME NEW a \in Int, NEW b \in Int, NEW d \in Dims, Representable(a, d), Representable(b, d)
    PROVE  Representable(a + b, d) /\ Representable(a - b, d)
<1> DEFINE u == Dim[d].unit
           p == a \div u
           q == b \div u
<1>1. u \in Nat \ {0} /\ a % u = 0 /\ b % u = 0
  BY DimAssumption DEF Representable
<1> HIDE DEF u
<1>2. a = u * p /\ p \in Int /\ b = u * q /\ q \in Int
  BY <1>1, DivMod
<1> HIDE DEF p, q
<1>3. a + b = u * (p + q) /\ a - b = u * (p - q) /\ p + q \in Int /\ p - q \in Int
  BY <1>1, <1>2
<1>4. (a + b) % u = 0 /\ (a - b) % u = 0
  BY <1>1, <1>3, MultipleMod
<1> QED
  BY <1>4 DEF Representable, u

\* Division is monotone.
LEMMA DivMonotone ==
    ASSUME NEW a \in Nat, NEW b \in Nat, NEW u \in Nat \ {0}, a <= b
    PROVE  a \div u <= b \div u
<1> DEFINE p == a \div u
           q == b \div u
           r == a % u
           s == b % u
<1>1. p \in Int /\ r \in 0 .. u - 1 /\ a = u * p + r
  BY DivMod
<1>2. q \in Int /\ s \in 0 .. u - 1 /\ b = u * q + s
  BY DivMod
<1> HIDE DEF p, q, r, s
<1>3. SUFFICES ASSUME q + 1 <= p PROVE FALSE
  BY <1>1, <1>2 DEF p, q
<1>4. PICK d \in Nat : p = q + 1 + d
  <2>1. p - q - 1 \in Nat /\ p = q + 1 + (p - q - 1)
    BY <1>1, <1>2, <1>3
  <2> QED
    BY <2>1
<1>5. u * p = u * q + u + u * d /\ u * d >= 0 /\ u * q \in Int /\ u * d \in Int
  BY <1>1, <1>2, <1>4
<1> QED
  BY <1>1, <1>2, <1>5

(***************************************************************************)
(* The epoch index never falls as time passes, and is -1 or more.          *)
(***************************************************************************)
LEMMA EpochMonotone ==
    ASSUME NEW d \in Dims, NEW s \in Nat, NEW t \in Nat, s <= t
    PROVE  -1 <= EpochIndex(d, s) /\ EpochIndex(d, s) <= EpochIndex(d, t)
<1> DEFINE a == Dim[d].anchor
           n == Dim[d].length
<1>1. a \in Nat /\ n \in Nat \ {0}
  BY DimAssumption
<1> HIDE DEF a, n
<1>2. /\ EpochIndex(d, s) = IF s < a THEN -1 ELSE (s - a) \div n
      /\ EpochIndex(d, t) = IF t < a THEN -1 ELSE (t - a) \div n
  BY DEF EpochIndex, a, n
<1>3. \A x \in Nat : x \div n \in Nat
  BY <1>1
<1>4. CASE t < a
  BY <1>1, <1>2, <1>4
<1>5. CASE ~(t < a) /\ s < a
  <2>1. t - a \in Nat
    BY <1>1, <1>5
  <2>2. (t - a) \div n \in Nat
    BY <1>3, <2>1
  <2> QED
    BY <1>2, <1>5, <2>2
<1>6. CASE ~(s < a)
  <2>1. s - a \in Nat /\ t - a \in Nat /\ s - a <= t - a /\ ~(t < a)
    BY <1>1, <1>6
  <2>2. (s - a) \div n \in Nat /\ (s - a) \div n <= (t - a) \div n
    BY <1>1, <1>3, <2>1, DivMonotone
  <2> QED
    BY <1>2, <1>6, <2>1, <2>2
<1> QED
  BY <1>4, <1>5, <1>6

------------------------------------------------------------------------------
(* Where a reservation is charged.                                          *)

(***************************************************************************)
(* Every demand is charged at exactly the matching dimensions of its       *)
(* lineage, in whole units there, and only in an epoch that has begun.     *)
(***************************************************************************)
Charged(r) ==
    \A i \in 1 .. Len(r.demands) :
        /\ \A g \in Grants, d \in Dims :
             <<g, d>> \in r.demands[i].legs <=>
                /\ g \in Lineage[r.authority]
                /\ d \in DOMAIN Grant[g].limit
                /\ r.demands[i].measure = Dim[d].measure
        /\ \A d \in Dims :
             <<Global, d>> \in r.demands[i].legs => r.demands[i].measure = Dim[d].measure
        /\ \A t \in r.demands[i].legs :
             /\ Representable(r.demands[i].reserved, t[2])
             /\ Representable(r.demands[i].consumed, t[2])
             /\ Dim[t[2]].restoration = "EPOCH" => EpochIndex(t[2], r.reservedAt) >= 0

\* Every demand is charged at the matching dimensions of the policy in force.
ChargedGlobally(r) ==
    \A i \in 1 .. Len(r.demands) : \A d \in DOMAIN Policy[policy].limit :
        r.demands[i].measure = Dim[d].measure => <<Global, d>> \in r.demands[i].legs

ChargedInv ==
    /\ ConservationInv
    /\ ReservedInThePast
    /\ \A k \in 1 .. Len(reservations) : Charged(reservations[k]) /\ ChargedGlobally(reservations[k])
    /\ Len(reservations) > 0 => everReserved /\ policy # NoPolicy

(***************************************************************************)
(* The demands of the reservation an accounting event rewrites: charged    *)
(* where they were, with an exact consumption more or none.                *)
(***************************************************************************)
LEMMA AccountingKeepsLegs ==
    ASSUME TypeInv, NEW k \in 1 .. Len(reservations), NEW at \in Times,
           \/ \E amounts \in AmountLists(k) : ApplyConsume(k, amounts, at)
           \/ ApplyClose(k, at)
           \/ \E amounts \in AmountLists(k) : ApplyRestore(k, amounts, at)
    PROVE  /\ Len(reservations'[k].demands) = Len(reservations[k].demands)
           /\ \A i \in 1 .. Len(reservations[k].demands) :
                /\ reservations'[k].demands[i].legs = reservations[k].demands[i].legs
                /\ reservations'[k].demands[i].measure = reservations[k].demands[i].measure
                /\ reservations'[k].demands[i].reserved = reservations[k].demands[i].reserved
                /\ \/ reservations'[k].demands[i].consumed = reservations[k].demands[i].consumed
                   \/ \E x \in Nat :
                        /\ reservations'[k].demands[i].consumed = reservations[k].demands[i].consumed + x
                        /\ \A t \in reservations[k].demands[i].legs : Representable(x, t[2])
<1> DEFINE r == reservations[k]
           n == Len(r.demands)
<1>1. n \in Nat /\ \A i \in 1 .. n : r.demands[i] \in Demands
  BY ReservationTyped
<1>2. ASSUME NEW amounts \in AmountLists(k), ApplyConsume(k, amounts, at)
      PROVE  /\ Len(reservations'[k].demands) = n
             /\ \A i \in 1 .. n :
                  /\ reservations'[k].demands[i].legs = r.demands[i].legs
                  /\ reservations'[k].demands[i].measure = r.demands[i].measure
                  /\ reservations'[k].demands[i].reserved = r.demands[i].reserved
                  /\ \E x \in Nat :
                        /\ reservations'[k].demands[i].consumed = r.demands[i].consumed + x
                        /\ \A t \in r.demands[i].legs : Representable(x, t[2])
  <2> DEFINE ds == [i \in 1 .. n |-> [r.demands[i] EXCEPT !.consumed = @ + amounts[i]]]
  <2>1. /\ r.status = "ACTIVE" /\ ExactOnLegs(r.demands, amounts)
        /\ reservations' = [reservations EXCEPT ![k].demands = ds]
    BY <1>2 DEF ApplyConsume
  <2>2. reservations'[k].demands = ds
    <3>1. reservations' = [reservations EXCEPT
                             ![k] = [reservations[k] EXCEPT !.status = "ACTIVE", !.demands = ds]]
      BY <2>1, ReservationTyped DEF Reservations
    <3> HIDE DEF ds
    <3> QED
      BY <3>1, RewrittenDemands
  <2>3. ASSUME NEW d \in Demands, NEW y \in Nat
        PROVE  LET e == [d EXCEPT !.consumed = @ + y]
               IN  /\ e.legs = d.legs /\ e.measure = d.measure /\ e.reserved = d.reserved
                   /\ e.consumed = d.consumed + y
    BY DEF Demands
  <2>4. \A i \in 1 .. n : amounts[i] \in Nat
    BY AmountsTyped
  <2>5. \A i \in 1 .. n : \A t \in r.demands[i].legs : Representable(amounts[i], t[2])
    BY <2>1 DEF ExactOnLegs
  <2>6. Len(ds) = n /\ \A i \in 1 .. n : /\ ds[i].legs = r.demands[i].legs
                                         /\ ds[i].measure = r.demands[i].measure
                                         /\ ds[i].reserved = r.demands[i].reserved
                                         /\ ds[i].consumed = r.demands[i].consumed + amounts[i]
    BY <1>1, <2>3, <2>4
  <2> HIDE DEF ds, r, n
  <2> QED
    BY <2>2, <2>4, <2>5, <2>6
<1>3. ASSUME ApplyClose(k, at)
      PROVE  /\ Len(reservations'[k].demands) = n
             /\ \A i \in 1 .. n :
                  /\ reservations'[k].demands[i].legs = r.demands[i].legs
                  /\ reservations'[k].demands[i].measure = r.demands[i].measure
                  /\ reservations'[k].demands[i].reserved = r.demands[i].reserved
                  /\ reservations'[k].demands[i].consumed = r.demands[i].consumed
  <2> DEFINE remaining == [i \in 1 .. n |-> RemainingOf(r.demands[i])]
             ds == [i \in 1 .. n |-> [r.demands[i] EXCEPT !.released = remaining[i]]]
  <2>1. reservations' = [reservations EXCEPT ![k].status = "CLOSED", ![k].demands = ds]
    BY <1>3 DEF ApplyClose
  <2>2. reservations'[k].demands = ds
    <3>1. reservations' = [reservations EXCEPT
                             ![k] = [reservations[k] EXCEPT !.status = "CLOSED", !.demands = ds]]
      BY <2>1, ReservationTyped DEF Reservations
    <3> HIDE DEF ds
    <3> QED
      BY <3>1, RewrittenDemands
  <2>3. ASSUME NEW d \in Demands, NEW y
        PROVE  LET e == [d EXCEPT !.released = y]
               IN  /\ e.legs = d.legs /\ e.measure = d.measure /\ e.reserved = d.reserved
                   /\ e.consumed = d.consumed
    BY DEF Demands
  <2>4. Len(ds) = n /\ \A i \in 1 .. n : /\ ds[i].legs = r.demands[i].legs
                                         /\ ds[i].measure = r.demands[i].measure
                                         /\ ds[i].reserved = r.demands[i].reserved
                                         /\ ds[i].consumed = r.demands[i].consumed
    BY <1>1, <2>3
  <2> HIDE DEF ds, r, n
  <2> QED
    BY <2>2, <2>4
<1>4. ASSUME NEW amounts \in AmountLists(k), ApplyRestore(k, amounts, at)
      PROVE  /\ Len(reservations'[k].demands) = n
             /\ \A i \in 1 .. n :
                  /\ reservations'[k].demands[i].legs = r.demands[i].legs
                  /\ reservations'[k].demands[i].measure = r.demands[i].measure
                  /\ reservations'[k].demands[i].reserved = r.demands[i].reserved
                  /\ reservations'[k].demands[i].consumed = r.demands[i].consumed
  <2> DEFINE ds == [i \in 1 .. n |-> [r.demands[i] EXCEPT !.restored = @ + amounts[i]]]
  <2>1. reservations' = [reservations EXCEPT ![k].demands = ds]
    BY <1>4 DEF ApplyRestore
  <2>2. reservations'[k].demands = ds
    <3>1. reservations' = [reservations EXCEPT
                             ![k] = [reservations[k] EXCEPT !.status = r.status, !.demands = ds]]
      BY <2>1, ReservationTyped DEF Reservations
    <3> HIDE DEF ds
    <3> QED
      BY <3>1, RewrittenDemands
  <2>3. ASSUME NEW d \in Demands, NEW y
        PROVE  LET e == [d EXCEPT !.restored = @ + y]
               IN  /\ e.legs = d.legs /\ e.measure = d.measure /\ e.reserved = d.reserved
                   /\ e.consumed = d.consumed
    BY DEF Demands
  <2>4. Len(ds) = n /\ \A i \in 1 .. n : /\ ds[i].legs = r.demands[i].legs
                                         /\ ds[i].measure = r.demands[i].measure
                                         /\ ds[i].reserved = r.demands[i].reserved
                                         /\ ds[i].consumed = r.demands[i].consumed
    BY <1>1, <2>3
  <2> HIDE DEF ds, r, n
  <2> QED
    BY <2>2, <2>4
<1> HIDE DEF n
<1> QED
  BY <1>2, <1>3, <1>4 DEF n

(***************************************************************************)
(* An accounting event leaves every reservation charged where it was.      *)
(***************************************************************************)
LEMMA AccountingKeepsCharged ==
    ASSUME TypeInv, NEW k \in 1 .. Len(reservations), NEW at \in Times,
           \/ \E amounts \in AmountLists(k) : ApplyConsume(k, amounts, at)
           \/ ApplyClose(k, at)
           \/ \E amounts \in AmountLists(k) : ApplyRestore(k, amounts, at),
           NEW j \in 1 .. Len(reservations), Charged(reservations[j]), ChargedGlobally(reservations[j])
    PROVE  Charged(reservations'[j]) /\ ChargedGlobally(reservations'[j])
<1>1. CASE j # k
  <2>1. reservations'[j] = reservations[j]
    BY <1>1, AccountingKeepsIdentity
  <2> QED
    BY <2>1
<1>2. CASE j = k
  <2> DEFINE r == reservations[k]
             q == reservations'[k]
             n == Len(r.demands)
  <2>1. q.authority = r.authority /\ q.reservedAt = r.reservedAt
    BY AccountingKeepsIdentity DEF SameIdentity
  <2>2. /\ Len(q.demands) = n
        /\ \A i \in 1 .. n :
             /\ q.demands[i].legs = r.demands[i].legs
             /\ q.demands[i].measure = r.demands[i].measure
             /\ q.demands[i].reserved = r.demands[i].reserved
             /\ \/ q.demands[i].consumed = r.demands[i].consumed
                \/ \E x \in Nat : /\ q.demands[i].consumed = r.demands[i].consumed + x
                                  /\ \A t \in r.demands[i].legs : Representable(x, t[2])
    BY AccountingKeepsLegs
  <2>3. \A i \in 1 .. n : r.demands[i] \in Demands
    BY ReservationTyped
  <2>4. Charged(r) /\ ChargedGlobally(r)
    BY <1>2
  <2> HIDE DEF r, q, n
  <2>5. ChargedGlobally(q)
    BY <2>2, <2>4 DEF ChargedGlobally, n
  <2>6. ASSUME NEW i \in 1 .. n, NEW t \in r.demands[i].legs
        PROVE  Representable(q.demands[i].consumed, t[2])
    <3>1. t[2] \in Dims /\ r.demands[i].consumed \in Nat
      BY <2>3 DEF Demands, TargetKeys
    <3>2. Representable(r.demands[i].consumed, t[2])
      BY <2>4 DEF Charged, n
    <3>3. CASE q.demands[i].consumed = r.demands[i].consumed
      BY <3>2, <3>3
    <3>4. CASE \E x \in Nat : /\ q.demands[i].consumed = r.demands[i].consumed + x
                              /\ \A u \in r.demands[i].legs : Representable(x, u[2])
      <4>1. PICK x \in Nat : q.demands[i].consumed = r.demands[i].consumed + x /\ Representable(x, t[2])
        BY <3>4
      <4> DEFINE c == r.demands[i].consumed
                 d == t[2]
      <4>2. c \in Int /\ x \in Int /\ d \in Dims /\ Representable(c, d) /\ Representable(x, d)
        BY <3>1, <3>2, <4>1
      <4> HIDE DEF c, d
      <4>3. Representable(c + x, d)
        BY <4>2, WholeUnits
      <4> QED
        BY <4>1, <4>3 DEF c, d
    <3> QED
      BY <2>2, <3>3, <3>4
  <2>7. Charged(q)
    BY <2>1, <2>2, <2>4, <2>6 DEF Charged, n
  <2> QED
    BY <1>2, <2>5, <2>7 DEF q
<1> QED
  BY <1>1, <1>2

(***************************************************************************)
(* A RESERVE is charged at the matching dimensions of lineage and policy.  *)
(***************************************************************************)
LEMMA ReserveCharges ==
    ASSUME TypeInv, NEW action \in Actions, NEW generation \in 1 .. MaxReservations,
           NEW g \in Grants, NEW actor, NEW module \in Modules,
           NEW cs \in ContributionLists, NEW at \in Times,
           ApplyReserve(action, generation, g, actor, module, cs, at)
    PROVE  /\ Charged(reservations'[Len(reservations) + 1])
           /\ ChargedGlobally(reservations'[Len(reservations) + 1])
           /\ policy' = policy /\ policy # NoPolicy /\ everReserved'
<1> DEFINE demands == [i \in 1 .. Len(cs) |-> DemandOf(g, cs[i])]
           record  == [action |-> action, generation |-> generation, authority |-> g,
                       module |-> module, reservedAt |-> at, status |-> "ACTIVE",
                       demands |-> demands]
           N == Len(reservations)
<1>1. /\ reservations' = Append(reservations, record) /\ policy' = policy /\ policy # NoPolicy
      /\ everReserved' /\ \A i \in 1 .. Len(cs) : CheckLegs(g, policy, cs[i], at)
  BY DEF ApplyReserve, DeriveReservation
<1>2. /\ Len(cs) \in Nat /\ \A i \in 1 .. Len(cs) : cs[i] \in Contributions
  <2>1. cs \in Seq(Contributions)
    BY ContributionsAssumption
  <2> QED
    BY <2>1
<1>3. policy \in Policies
  BY <1>1 DEF TypeInv, TypeOK
<1>4. /\ Len(demands) = Len(cs)
      /\ \A i \in 1 .. Len(cs) :
           /\ demands[i].legs = NodeLegs(g, cs[i]) \cup PolicyLegs(policy, cs[i])
           /\ demands[i].measure = cs[i].measure
           /\ demands[i].reserved = cs[i].atoms /\ demands[i].consumed = 0
  BY <1>2 DEF DemandOf
<1>5. record.demands = demands /\ record.authority = g /\ record.reservedAt = at
  OBVIOUS
<1> HIDE DEF demands, record
<1>6. reservations'[N + 1] = record
  BY <1>1 DEF TypeInv, TypeOK
<1>7. ASSUME NEW i \in 1 .. Len(cs)
      PROVE  /\ \A n \in Grants, d \in Dims :
                  <<n, d>> \in demands[i].legs <=>
                     n \in Lineage[g] /\ d \in DOMAIN Grant[n].limit /\ demands[i].measure = Dim[d].measure
             /\ \A d \in Dims : <<Global, d>> \in demands[i].legs <=>
                     d \in DOMAIN Policy[policy].limit /\ demands[i].measure = Dim[d].measure
  <2>1. ASSUME NEW n, NEW d \in Dims
        PROVE  /\ <<n, d>> \in NodeLegs(g, cs[i]) <=>
                    n \in Lineage[g] /\ d \in DOMAIN Grant[n].limit /\ cs[i].measure = Dim[d].measure
               /\ <<n, d>> \in PolicyLegs(policy, cs[i]) <=>
                    n = Global /\ d \in DOMAIN Policy[policy].limit /\ cs[i].measure = Dim[d].measure
    BY DEF NodeLegs, PolicyLegs, ContributionMatches
  <2>2. Global \notin Grants
    BY GrantAssumption
  <2>3. Lineage[g] \subseteq Grants
    BY DEF ApplyReserve, DeriveReservation, ResolveLineage, TypeInv, TypeOK
  <2> QED
    BY <1>4, <2>1, <2>2, <2>3
<1>8. ASSUME NEW i \in 1 .. Len(cs), NEW t \in demands[i].legs
      PROVE  /\ Representable(demands[i].reserved, t[2])
             /\ Representable(demands[i].consumed, t[2])
             /\ Dim[t[2]].restoration = "EPOCH" => EpochIndex(t[2], at) >= 0
  <2>1. t \in NodeLegs(g, cs[i]) \cup PolicyLegs(policy, cs[i])
    BY <1>4
  <2>2. LegFor(cs[i], t, at)
    BY <1>1, <2>1 DEF CheckLegs
  <2>3. t[2] \in Dims
    BY <2>1 DEF NodeLegs, PolicyLegs
  <2>4. Dim[t[2]].unit \in Nat \ {0}
    BY <2>3, DimAssumption
  <2>5. Representable(0, t[2])
    <3>1. (Dim[t[2]].unit * 0) % Dim[t[2]].unit = 0
      BY <2>4, MultipleMod
    <3>2. Dim[t[2]].unit * 0 = 0
      BY <2>4
    <3> QED
      BY <3>1, <3>2 DEF Representable
  <2> QED
    BY <1>4, <2>2, <2>5 DEF LegFor
<1>9. Charged(record)
  BY <1>4, <1>5, <1>7, <1>8 DEF Charged
<1>10. ChargedGlobally(record)
  <2>1. DOMAIN Policy[policy].limit \subseteq Dims
    BY <1>3, PolicyAssumption
  <2> QED
    BY <1>4, <1>5, <1>7, <2>1 DEF ChargedGlobally
<1> QED
  BY <1>1, <1>6, <1>9, <1>10

(***************************************************************************)
(* A step accounts for a reservation, makes one, or leaves all of them and *)
(* the balances alone.                                                     *)
(***************************************************************************)
LEMMA StepKinds ==
    ASSUME TypeInv, [Next]_vars
    PROVE  \/ /\ reservations' = reservations /\ targets' = targets
              /\ everReserved' = everReserved /\ lastAt' >= lastAt
              /\ \/ policy' = policy
                 \/ \E p \in Policies : policy' = p /\ CheckPolicyBaseline(p)
           \/ \E at \in Times, action \in Actions, generation \in 1 .. MaxReservations, g \in Grants,
                 actor \in Parties, module \in Modules, cs \in ContributionLists :
                 ApplyReserve(action, generation, g, actor, module, cs, at)
           \/ \E at \in Times, k \in 1 .. Len(reservations) :
                 \/ \E amounts \in AmountLists(k) : ApplyConsume(k, amounts, at)
                 \/ ApplyClose(k, at)
                 \/ \E amounts \in AmountLists(k) : ApplyRestore(k, amounts, at)
<1> DEFINE Quiet == /\ reservations' = reservations /\ targets' = targets
                    /\ everReserved' = everReserved /\ lastAt' >= lastAt
                    /\ \/ policy' = policy
                       \/ \E p \in Policies : policy' = p /\ CheckPolicyBaseline(p)
<1>1. CASE UNCHANGED vars
  BY <1>1 DEF vars, TypeInv, TypeOK
<1>2. CASE Next
  <2>1. PICK at \in Times :
          \/ \E p \in Policies : ApplyRegisterPolicy(p, at)
          \/ \E g \in Grants : ApplyRegisterGrant(g, at)
          \/ \E g \in Grants, issuer \in Parties, effectiveAt \in Times :
                ApplyRevoke(g, issuer, effectiveAt, at)
          \/ \E action \in Actions, generation \in 1 .. MaxReservations, g \in Grants,
                actor \in Parties, module \in Modules, cs \in ContributionLists :
                ApplyReserve(action, generation, g, actor, module, cs, at)
          \/ \E k \in 1 .. Len(reservations) :
                \/ \E amounts \in AmountLists(k) : ApplyConsume(k, amounts, at)
                \/ ApplyClose(k, at)
                \/ \E amounts \in AmountLists(k) : ApplyRestore(k, amounts, at)
                \/ \E artifact \in Artifacts, slot \in Slots \cup {NoSlot}, validUntil \in Times :
                      ApplyAdmitAttempt(k, artifact, slot, validUntil, at)
    BY <1>2 DEF Next
  <2>2. \A p \in Policies : ApplyRegisterPolicy(p, at) => Quiet
    BY DEF ApplyRegisterPolicy, At
  <2>3. \A g : ApplyRegisterGrant(g, at) => Quiet
    BY DEF ApplyRegisterGrant, At
  <2>4. \A g, issuer, effectiveAt : ApplyRevoke(g, issuer, effectiveAt, at) => Quiet
    BY DEF ApplyRevoke, At
  <2>5. \A k, artifact, slot, validUntil :
           ApplyAdmitAttempt(k, artifact, slot, validUntil, at) => Quiet
    BY DEF ApplyAdmitAttempt, At
  <2> HIDE DEF Quiet
  <2>6. \/ Quiet
        \/ \E action \in Actions, generation \in 1 .. MaxReservations, g \in Grants,
              actor \in Parties, module \in Modules, cs \in ContributionLists :
              ApplyReserve(action, generation, g, actor, module, cs, at)
        \/ \E k \in 1 .. Len(reservations) :
              \/ \E amounts \in AmountLists(k) : ApplyConsume(k, amounts, at)
              \/ ApplyClose(k, at)
              \/ \E amounts \in AmountLists(k) : ApplyRestore(k, amounts, at)
    BY <2>1, <2>2, <2>3, <2>4, <2>5
  <2> QED
    BY <2>6 DEF Quiet
<1> QED
  BY <1>1, <1>2

(***************************************************************************)
(* Every step keeps the reservations charged where they match.             *)
(***************************************************************************)
LEMMA NextCharged == ChargedInv /\ [Next]_vars => ChargedInv'
<1> SUFFICES ASSUME ChargedInv, [Next]_vars PROVE ChargedInv'
  OBVIOUS
<1> DEFINE N == Len(reservations)
           ChargedNow == \A j \in 1 .. Len(reservations) :
                            Charged(reservations[j]) /\ ChargedGlobally(reservations[j])
           Open == Len(reservations) > 0 => everReserved /\ policy # NoPolicy
<1>1. TypeInv /\ ConservationInv' /\ TypeInv'
  BY NextConserves DEF ChargedInv, ConservationInv
<1>2. N \in Nat /\ Times \subseteq Nat /\ lastAt \in Nat
  BY <1>1, TimesAssumption DEF TypeInv, TypeOK
<1>3. /\ \A j \in 1 .. N : Charged(reservations[j]) /\ ChargedGlobally(reservations[j])
      /\ \A j \in 1 .. N : reservations[j].reservedAt <= lastAt /\ reservations[j].reservedAt \in Nat
      /\ N > 0 => everReserved /\ policy # NoPolicy
  <2>1. \A j \in 1 .. N : reservations[j] \in Reservations
    BY <1>1 DEF TypeInv, TypeOK
  <2> QED
    BY <1>2, <2>1 DEF ChargedInv, ReservedInThePast, Reservations
<1>4. CASE /\ reservations' = reservations /\ everReserved' = everReserved /\ lastAt' >= lastAt
           /\ \/ policy' = policy
              \/ \E p \in Policies : policy' = p /\ CheckPolicyBaseline(p)
  <2>1. ReservedInThePast'
    <3>1. lastAt' \in Nat
      BY <1>1 DEF TypeInv, TypeOK
    <3> QED
      BY <1>2, <1>3, <1>4, <3>1 DEF ReservedInThePast
  <2>2. Open'
    BY <1>3, <1>4, PolicyAssumption
  <2>3. ASSUME NEW j \in 1 .. N PROVE ChargedGlobally(reservations[j])'
    <3>1. N > 0
      BY <1>2
    <3>2. DOMAIN Policy[policy'].limit \subseteq DOMAIN Policy[policy].limit
      BY <1>3, <1>4, <3>1 DEF CheckPolicyBaseline
    <3> QED
      BY <1>3, <1>4, <3>2 DEF ChargedGlobally
  <2>4. ChargedNow'
    BY <1>3, <1>4, <2>3 DEF Charged
  <2> QED
    BY <1>1, <2>1, <2>2, <2>4 DEF ChargedInv
<1>5. CASE \E at \in Times, action \in Actions, generation \in 1 .. MaxReservations, g \in Grants,
              actor \in Parties, module \in Modules, cs \in ContributionLists :
              ApplyReserve(action, generation, g, actor, module, cs, at)
  <2>1. PICK at \in Times, action \in Actions, generation \in 1 .. MaxReservations, g \in Grants,
             actor \in Parties, module \in Modules, cs \in ContributionLists :
             ApplyReserve(action, generation, g, actor, module, cs, at)
    BY <1>5
  <2>2. /\ Len(reservations') = N + 1 /\ \A j \in 1 .. N : reservations'[j] = reservations[j]
        /\ reservations'[N + 1].reservedAt = at /\ lastAt' = at /\ at >= lastAt
    BY <1>1, <2>1, ReserveAppends
  <2>3. /\ Charged(reservations'[N + 1]) /\ ChargedGlobally(reservations'[N + 1])
        /\ policy' = policy /\ policy # NoPolicy /\ everReserved'
    BY <1>1, <2>1, ReserveCharges
  <2>4. \A j \in 1 .. N + 1 : j \in 1 .. N \/ j = N + 1
    BY <1>2
  <2>5. ReservedInThePast'
    BY <1>2, <1>3, <2>2, <2>4 DEF ReservedInThePast
  <2>6. \A j \in 1 .. N + 1 : Charged(reservations'[j]) /\ ChargedGlobally(reservations'[j])
    BY <1>3, <2>2, <2>3, <2>4
  <2>7. ChargedNow'
    BY <2>2, <2>3, <2>6 DEF Charged, ChargedGlobally
  <2> QED
    BY <1>1, <2>3, <2>5, <2>7 DEF ChargedInv
<1>6. CASE \E at \in Times, k \in 1 .. Len(reservations) :
              \/ \E amounts \in AmountLists(k) : ApplyConsume(k, amounts, at)
              \/ ApplyClose(k, at)
              \/ \E amounts \in AmountLists(k) : ApplyRestore(k, amounts, at)
  <2>1. PICK at \in Times, k \in 1 .. N :
              \/ \E amounts \in AmountLists(k) : ApplyConsume(k, amounts, at)
              \/ ApplyClose(k, at)
              \/ \E amounts \in AmountLists(k) : ApplyRestore(k, amounts, at)
    BY <1>6
  <2>2. /\ Len(reservations') = N /\ lastAt' = at /\ at >= lastAt
        /\ \A j \in 1 .. N : reservations'[j].reservedAt = reservations[j].reservedAt
    BY <1>1, <2>1, AccountingKeepsIdentity DEF SameIdentity
  <2>3. policy' = policy /\ everReserved' = everReserved
    BY <2>1 DEF ApplyConsume, ApplyClose, ApplyRestore
  <2>4. \A j \in 1 .. N : Charged(reservations'[j]) /\ ChargedGlobally(reservations'[j])
    BY <1>1, <1>3, <2>1, AccountingKeepsCharged
  <2>5. ReservedInThePast'
    BY <1>2, <1>3, <2>2 DEF ReservedInThePast
  <2>6. ChargedNow'
    BY <2>2, <2>3, <2>4 DEF Charged, ChargedGlobally
  <2> QED
    BY <1>1, <1>3, <2>2, <2>3, <2>5, <2>6 DEF ChargedInv
<1> QED
  BY <1>1, <1>4, <1>5, <1>6, StepKinds

\* The invariant holds before anything is reserved.
LEMMA InitCharged == Init => ChargedInv
<1> SUFFICES ASSUME Init PROVE ChargedInv
  OBVIOUS
<1>1. Len(reservations) = 0 /\ \A t \in TargetKeys : targets[t] = ZeroBalance
  BY DEF Init
<1>2. \A f : SumTo(f, 0) = 0
  BY SumToEquation
<1>3. Conservation
  BY <1>1, <1>2 DEF Conservation, ZeroBalance
<1> QED
  BY <1>1, <1>3, InitType DEF ChargedInv, ConservationInv, ReservedInThePast

------------------------------------------------------------------------------
(* What a reservation occupies.                                             *)

(***************************************************************************)
(* What a reservation holds, consumed and restored is not negative.        *)
(***************************************************************************)
LEMMA HeldNat ==
    ASSUME TypeInv, NEW k \in 1 .. Len(reservations), NEW t
    PROVE  /\ ReservedBy(reservations[k], t) \in Nat
           /\ ConsumedBy(reservations[k], t) \in Nat
           /\ RestoredBy(reservations[k], t) \in Nat
<1> DEFINE r == reservations[k]
           n == Len(r.demands)
<1>1. /\ n \in Nat
      /\ \A i \in 1 .. n : /\ r.demands[i].reserved \in Nat /\ r.demands[i].consumed \in Nat
                           /\ r.demands[i].restored \in Nat
                           /\ r.demands[i].consumed <= r.demands[i].reserved
  BY ReservationTyped DEF TypeInv, DemandsBounded
<1>2. Len(CapacityDemands(r)) = n
  BY <1>1, CapacityDemandsLength
<1> HIDE DEF r
<1>3. \A i \in 1 .. n : /\ RemainingAmounts(r)[i] \in Nat /\ ConsumedAmounts(r)[i] \in Nat
                        /\ RestoredAmounts(r)[i] \in Nat
  BY <1>1 DEF RemainingAmounts, ConsumedAmounts, RestoredAmounts, RemainingOf
<1>4. ReservedBy(r, t) \in Nat /\ ConsumedBy(r, t) \in Nat
  BY <1>1, <1>3, AmountAtNat DEF ReservedBy, ConsumedBy
<1>5. RestoredBy(r, t) \in Nat
  BY <1>1, <1>2, <1>3, AmountAtNat DEF RestoredBy
<1> QED
  BY <1>4, <1>5 DEF r

(***************************************************************************)
(* A reservation charged at t exactly where its demands match t's          *)
(* dimension occupies there what it holds and consumed, less what was      *)
(* restored.                                                               *)
(***************************************************************************)
LEMMA OccupiedIsHeld ==
    ASSUME TypeInv, NEW k \in 1 .. Len(reservations), NEW o, NEW d \in Dims,
           \A i \in 1 .. Len(reservations[k].demands) :
              <<o, d>> \in reservations[k].demands[i].legs <=>
                 reservations[k].demands[i].measure = Dim[d].measure
    PROVE  Occupied(reservations[k], d) =
             ReservedBy(reservations[k], <<o, d>>) + ConsumedBy(reservations[k], <<o, d>>)
               - RestoredBy(reservations[k], <<o, d>>)
<1> DEFINE r == reservations[k]
           n == Len(r.demands)
           t == <<o, d>>
           A == RemainingAmounts(r)
           f == [i \in 1 .. n |-> IF t \in r.demands[i].legs THEN A[i] ELSE 0]
           g == [i \in 1 .. n |-> IF t \in r.demands[i].legs THEN ConsumedAmounts(r)[i] ELSE 0]
           h == [i \in 1 .. n |-> IF t \in CapacityDemands(r)[i].legs THEN RestoredAmounts(r)[i] ELSE 0]
           s == [i \in 1 .. n |-> f[i] + g[i]]
           o1 == [i \in 1 .. n |->
                    IF r.demands[i].measure # Dim[d].measure THEN 0
                    ELSE r.demands[i].consumed + A[i]
                         - (IF Dim[d].restoration = "CAPACITY" THEN r.demands[i].restored ELSE 0)]
<1>1. n \in Nat /\ \A i \in 1 .. n : r.demands[i] \in Demands
  BY ReservationTyped
<1>2. \A i \in 1 .. n : /\ r.demands[i].reserved \in Nat /\ r.demands[i].consumed \in Nat
                        /\ r.demands[i].restored \in Nat
  BY <1>1 DEF Demands
<1>3. Len(CapacityDemands(r)) = n
  BY <1>1, CapacityDemandsLength
<1>4. \A i \in 1 .. n : t \in CapacityDemands(r)[i].legs <=>
                          t \in r.demands[i].legs /\ Dim[d].restoration = "CAPACITY"
  <2>1. \A e \in Demands : [e EXCEPT !.legs = CapacityLegs(e)].legs = CapacityLegs(e)
    BY DEF Demands
  <2>2. \A i \in 1 .. n : CapacityDemands(r)[i].legs = CapacityLegs(r.demands[i])
    BY <1>1, <2>1 DEF CapacityDemands
  <2> QED
    BY <2>2 DEF CapacityLegs
<1>5. \A i \in 1 .. n : t \in r.demands[i].legs <=> r.demands[i].measure = Dim[d].measure
  OBVIOUS
<1>6. /\ ReservedBy(r, t) = SumTo(f, n) /\ ConsumedBy(r, t) = SumTo(g, n)
      /\ RestoredBy(r, t) = SumTo(h, n) /\ Occupied(r, d) = SumTo(o1, n)
  BY <1>3 DEF ReservedBy, ConsumedBy, RestoredBy, Occupied, AmountAt
<1> HIDE DEF r, t
<1>7. \A i \in 1 .. n : /\ A[i] \in Int
                        /\ ConsumedAmounts(r)[i] = r.demands[i].consumed
                        /\ RestoredAmounts(r)[i] = r.demands[i].restored
  BY <1>2 DEF RemainingAmounts, ConsumedAmounts, RestoredAmounts, RemainingOf
<1> HIDE DEF A, n
<1>8. ASSUME NEW i \in 1 .. n
      PROVE  /\ f[i] \in Int /\ g[i] \in Int /\ h[i] \in Int /\ o1[i] \in Int
             /\ s[i] = f[i] + g[i] /\ s[i] \in Int /\ s[i] = o1[i] + h[i]
  <2>1. /\ A[i] \in Int /\ r.demands[i].consumed \in Nat /\ r.demands[i].restored \in Nat
        /\ ConsumedAmounts(r)[i] = r.demands[i].consumed
        /\ RestoredAmounts(r)[i] = r.demands[i].restored
    BY <1>2, <1>7
  <2>2. CASE t \in r.demands[i].legs
    <3>1. /\ f[i] = A[i] /\ g[i] = r.demands[i].consumed /\ s[i] = A[i] + r.demands[i].consumed
          /\ o1[i] = r.demands[i].consumed + A[i]
                     - (IF Dim[d].restoration = "CAPACITY" THEN r.demands[i].restored ELSE 0)
          /\ h[i] = (IF Dim[d].restoration = "CAPACITY" THEN r.demands[i].restored ELSE 0)
      BY <1>4, <1>5, <2>1, <2>2
    <3> QED
      BY <2>1, <3>1
  <2>3. CASE t \notin r.demands[i].legs
    <3>1. f[i] = 0 /\ g[i] = 0 /\ s[i] = f[i] + g[i] /\ o1[i] = 0 /\ h[i] = 0
      BY <1>4, <1>5, <2>3
    <3> QED
      BY <3>1
  <2> QED
    BY <2>2, <2>3
<1> HIDE DEF f, g, h, s, o1
<1>9. n \in Nat
  BY <1>1
<1>10. SumTo(s, n) = SumTo(f, n) + SumTo(g, n)
  BY <1>8, <1>9, SumToAdd
<1>11. SumTo(s, n) = SumTo(o1, n) + SumTo(h, n)
  BY <1>8, <1>9, SumToAdd
<1>12. SumTo(f, n) \in Int /\ SumTo(g, n) \in Int /\ SumTo(h, n) \in Int /\ SumTo(o1, n) \in Int
  BY <1>8, <1>9, SumToInt
<1>13. SumTo(o1, n) = SumTo(f, n) + SumTo(g, n) - SumTo(h, n)
  BY <1>10, <1>11, <1>12
<1> QED
  BY <1>6, <1>13 DEF r, t

\* x is f plus g less h, up to n.
Nets(x, f, g, h, n) ==
    \A i \in 1 .. n : f[i] \in Int /\ g[i] \in Int /\ h[i] \in Int /\ x[i] = f[i] + g[i] - h[i]

(***************************************************************************)
(* Sums over the reservations of what each occupies, of which some count.  *)
(***************************************************************************)
LEMMA SumOfDifference ==
    ASSUME NEW n \in Nat, NEW f, NEW g, NEW h, NEW x, Nets(x, f, g, h, n)
    PROVE  SumTo(x, n) = SumTo(f, n) + SumTo(g, n) - SumTo(h, n)
<1> DEFINE s == [i \in 1 .. n |-> f[i] + g[i]]
<1>1. \A i \in 1 .. n : f[i] \in Int /\ g[i] \in Int /\ s[i] = f[i] + g[i]
  BY DEF Nets
<1>2. \A i \in 1 .. n : x[i] \in Int /\ h[i] \in Int /\ s[i] = x[i] + h[i]
  BY DEF Nets
<1> HIDE DEF s
<1>3. SumTo(s, n) = SumTo(f, n) + SumTo(g, n)
  BY <1>1, SumToAdd
<1>4. SumTo(s, n) = SumTo(x, n) + SumTo(h, n)
  BY <1>2, SumToAdd
<1>5. SumTo(f, n) \in Int /\ SumTo(g, n) \in Int /\ SumTo(h, n) \in Int /\ SumTo(x, n) \in Int
  BY <1>1, <1>2, SumToInt
<1> QED
  BY <1>3, <1>4, <1>5

(***************************************************************************)
(* A ceiling of the policy in force has been charged for the whole history *)
(* of the principal: what checkPolicyBaseline is for, whatever sequence of *)
(* policies was registered.                                                *)
(***************************************************************************)
THEOREM CeilingsSeeHistory == Spec => []PolicyHistoryComplete
<1>1. ChargedInv => PolicyHistoryComplete
  <2> SUFFICES ASSUME ChargedInv, policy # NoPolicy, NEW d \in DOMAIN Policy[policy].limit
               PROVE  TotalOccupied(d) =
                        targets[<<Global, d>>].reserved + targets[<<Global, d>>].consumed
                          - targets[<<Global, d>>].restored
    BY DEF PolicyHistoryComplete
  <2> DEFINE t == <<Global, d>>
             N == Len(reservations)
             f == [k \in 1 .. N |-> ReservedBy(reservations[k], t)]
             g == [k \in 1 .. N |-> ConsumedBy(reservations[k], t)]
             h == [k \in 1 .. N |-> RestoredBy(reservations[k], t)]
             x == [k \in 1 .. N |-> Occupied(reservations[k], d)]
  <2>1. TypeInv /\ N \in Nat
    BY DEF ChargedInv, ConservationInv, TypeInv, TypeOK
  <2>2. d \in Dims /\ t \in TargetKeys
    BY <2>1, PolicyAssumption DEF TypeInv, TypeOK, TargetKeys, Owners
  <2>3. ASSUME NEW k \in 1 .. N
        PROVE  /\ Occupied(reservations[k], d) =
                    ReservedBy(reservations[k], t) + ConsumedBy(reservations[k], t)
                      - RestoredBy(reservations[k], t)
               /\ ReservedBy(reservations[k], t) \in Int /\ ConsumedBy(reservations[k], t) \in Int
               /\ RestoredBy(reservations[k], t) \in Int
    <3>1. \A i \in 1 .. Len(reservations[k].demands) :
             t \in reservations[k].demands[i].legs <=>
                reservations[k].demands[i].measure = Dim[d].measure
      BY <2>2 DEF ChargedInv, Charged, ChargedGlobally
    <3>2. reservations[k] \in Reservations
      BY <2>1, ReservationTyped
    <3> QED
      BY <2>1, <2>2, <3>1, <3>2, OccupiedIsHeld, HeldInt
  <2>4. /\ targets[t].reserved = SumTo(f, N) /\ targets[t].consumed = SumTo(g, N)
        /\ targets[t].restored = SumTo(h, N)
    BY <2>2 DEF ChargedInv, ConservationInv, Conservation
  <2>5. TotalOccupied(d) = SumTo(x, N)
    BY DEF TotalOccupied
  <2>6. Nets(x, f, g, h, N)
    BY <2>3 DEF Nets
  <2> HIDE DEF f, g, h, x, t, N
  <2>7. SumTo(x, N) = SumTo(f, N) + SumTo(g, N) - SumTo(h, N)
    BY <2>1, <2>6, SumOfDifference
  <2> QED
    BY <2>4, <2>5, <2>7 DEF t
<1>2. Init => ChargedInv
  BY InitCharged
<1>3. ChargedInv /\ [Next]_vars => ChargedInv'
  BY NextCharged
<1> QED
  BY <1>1, <1>2, <1>3, PTL DEF Spec

(***************************************************************************)
(* A CLOSE is never refused: what remains of an open reservation is a      *)
(* whole number of units on every leg, after any sequence of partial       *)
(* consumptions, and every target still holds it.                          *)
(***************************************************************************)
THEOREM ReleaseAlwaysPossible == Spec => []ReleaseNeverRefused
<1>1. ChargedInv => ReleaseNeverRefused
  <2> SUFFICES ASSUME ChargedInv, NEW k \in 1 .. Len(reservations), reservations[k].status = "ACTIVE"
               PROVE  /\ ExactOnLegs(reservations[k].demands, RemainingAmounts(reservations[k]))
                      /\ \A t \in Touched(reservations[k].demands) :
                            targets[t].reserved >= ReservedBy(reservations[k], t)
    BY DEF ReleaseNeverRefused
  <2> DEFINE r == reservations[k]
             n == Len(r.demands)
             N == Len(reservations)
  <2>1. TypeInv /\ N \in Nat /\ Charged(r)
    BY DEF ChargedInv, ConservationInv, TypeInv, TypeOK
  <2>2. n \in Nat /\ \A i \in 1 .. n : r.demands[i] \in Demands
    BY <2>1, ReservationTyped
  <2>3. \A i \in 1 .. n : /\ r.demands[i].legs \subseteq TargetKeys
                          /\ r.demands[i].reserved \in Nat /\ r.demands[i].consumed \in Nat
    BY <2>2 DEF Demands
  <2>4. ASSUME NEW i \in 1 .. n, NEW t \in r.demands[i].legs
        PROVE  Representable(RemainingAmounts(r)[i], t[2])
    <3> DEFINE a == r.demands[i].reserved
               b == r.demands[i].consumed
               d == t[2]
    <3>1. RemainingAmounts(r)[i] = a - b
      BY DEF RemainingAmounts, RemainingOf
    <3>2. d \in Dims /\ a \in Int /\ b \in Int
      BY <2>3 DEF TargetKeys
    <3>3. Representable(a, d) /\ Representable(b, d)
      BY <2>1 DEF Charged
    <3> HIDE DEF a, b, d
    <3>4. Representable(a - b, d)
      BY <3>2, <3>3, WholeUnits
    <3> QED
      BY <3>1, <3>4 DEF d
  <2>5. ExactOnLegs(r.demands, RemainingAmounts(r))
    BY <2>4 DEF ExactOnLegs
  <2>6. ASSUME NEW t \in Touched(r.demands) PROVE targets[t].reserved >= ReservedBy(r, t)
    <3> DEFINE f == [j \in 1 .. N |-> ReservedBy(reservations[j], t)]
    <3>1. t \in TargetKeys
      BY <2>3 DEF Touched
    <3>2. targets[t].reserved = SumTo(f, N)
      BY <3>1 DEF ChargedInv, ConservationInv, Conservation
    <3>3. \A j \in 1 .. N : f[j] \in Nat
      BY <2>1, HeldNat
    <3>4. f[k] = ReservedBy(r, t) /\ k \in 1 .. N
      OBVIOUS
    <3> HIDE DEF f, N, r
    <3>5. f[k] <= SumTo(f, N) /\ SumTo(f, N) \in Nat
      BY <2>1, <3>3, <3>4, SumToNat
    <3>6. f[k] \in Nat
      BY <3>3, <3>4
    <3> QED
      BY <3>2, <3>4, <3>5, <3>6
  <2> QED
    BY <2>5, <2>6
<1>2. Init => ChargedInv
  BY InitCharged
<1>3. ChargedInv /\ [Next]_vars => ChargedInv'
  BY NextCharged
<1> QED
  BY <1>1, <1>2, <1>3, PTL DEF Spec

------------------------------------------------------------------------------
(* What the checked availability bounds.                                    *)

(***************************************************************************)
(* What those of the reservations rs that were made in epoch e consumed,   *)
(* and what they hold or consumed, at t.                                   *)
(***************************************************************************)
SpentIn(rs, t, e) ==
    SumTo([k \in 1 .. Len(rs) |-> IF LegEpoch(rs[k], t[2]) = e THEN ConsumedBy(rs[k], t) ELSE 0],
          Len(rs))
TakenIn(rs, t, e) ==
    SumTo([k \in 1 .. Len(rs) |-> IF LegEpoch(rs[k], t[2]) = e
                                  THEN ReservedBy(rs[k], t) + ConsumedBy(rs[k], t) ELSE 0],
          Len(rs))

\* A budget or a capacity is within its limit.
TotalBounded(t) ==
    targets[t].reserved + targets[t].consumed
      - (IF Dim[t[2]].restoration = "CAPACITY" THEN targets[t].restored ELSE 0)
      <= Grant[t[1]].limit[t[2]]

(***************************************************************************)
(* An epoch budget is within its limit in each epoch, and the balance has  *)
(* the consumption of the latest epoch anything was consumed in.           *)
(***************************************************************************)
EpochsBounded(t) ==
    /\ targets[t].epoch <= EpochIndex(t[2], lastAt)
    /\ targets[t].epochConsumed = SpentIn(reservations, t, targets[t].epoch)
    /\ \A k \in 1 .. Len(reservations) :
         LegEpoch(reservations[k], t[2]) > targets[t].epoch => ConsumedBy(reservations[k], t) = 0
    /\ \A e \in Int : TakenIn(reservations, t, e) <= Grant[t[1]].limit[t[2]]

Bounded(t) ==
    IF Dim[t[2]].restoration = "EPOCH" THEN EpochsBounded(t) ELSE TotalBounded(t)

GrantTargets == {t \in Grants \X Dims : t[2] \in DOMAIN Grant[t[1]].limit}

AuthorityInv == ChargedInv /\ \A t \in GrantTargets : Bounded(t)

(***************************************************************************)
(* Sums are monotone.                                                      *)
(***************************************************************************)
LEMMA SumToMonotone ==
    ASSUME NEW n \in Nat, NEW f, NEW g, \A i \in 1 .. n : f[i] \in Int /\ g[i] \in Int /\ f[i] <= g[i]
    PROVE  SumTo(f, n) <= SumTo(g, n)
<1> DEFINE h == [i \in 1 .. n |-> g[i] - f[i]]
<1>1. \A i \in 1 .. n : f[i] \in Int /\ h[i] \in Nat /\ g[i] = f[i] + h[i]
  OBVIOUS
<1> HIDE DEF h
<1>2. SumTo(g, n) = SumTo(f, n) + SumTo(h, n)
  BY <1>1, SumToAdd
<1>3. SumTo(h, n) \in Nat
  BY <1>1, SumToNat
<1>4. SumTo(f, n) \in Int
  BY <1>1, SumToInt
<1> QED
  BY <1>2, <1>3, <1>4

\* A sum of zeros.
LEMMA SumToZero ==
    ASSUME NEW n \in Nat, NEW f, \A i \in 1 .. n : f[i] = 0
    PROVE  SumTo(f, n) = 0
<1> DEFINE s == SumTo(f, n)
<1>1. \A i \in 1 .. n : f[i] \in Int /\ f[i] = f[i] + f[i]
  OBVIOUS
<1>2. s = s + s
  BY <1>1, SumToAdd
<1>3. s \in Int
  BY <1>1, SumToInt
<1> HIDE DEF s
<1>4. s = 0
  BY <1>2, <1>3
<1> QED
  BY <1>4 DEF s

(***************************************************************************)
(* A target of a grant, its limit and its balance.                         *)
(***************************************************************************)
LEMMA GrantTargetTyped ==
    ASSUME TypeInv, NEW t \in GrantTargets
    PROVE  /\ t \in TargetKeys /\ t[1] \in Grants /\ t[2] \in Dims /\ t = <<t[1], t[2]>>
           /\ Grant[t[1]].limit[t[2]] \in Nat
           /\ LimitOf(t, policy) = Grant[t[1]].limit[t[2]]
           /\ targets[t] \in Balances
           /\ targets[t].reserved \in Int /\ targets[t].consumed \in Int
           /\ targets[t].restored \in Int /\ targets[t].epoch \in Int
           /\ targets[t].epochConsumed \in Int
<1>1. t \in TargetKeys /\ t[1] \in Grants /\ t[2] \in Dims /\ t = <<t[1], t[2]>>
  BY DEF GrantTargets, TargetKeys, Owners
<1>2. Grant[t[1]].limit[t[2]] \in Nat
  BY <1>1, GrantAssumption DEF GrantTargets
<1>3. LimitOf(t, policy) = Grant[t[1]].limit[t[2]]
  BY <1>1, GrantAssumption DEF LimitOf
<1>4. targets[t] \in Balances
  BY <1>1 DEF TypeInv, TypeOK
<1> QED
  BY <1>1, <1>2, <1>3, <1>4 DEF Balances

\* What rewriting reservation k of rs, into qs, does to an epoch's sums at t.
EpochsMove(rs, qs, k, t, e) ==
    /\ SpentIn(rs, t, e) \in Int /\ TakenIn(rs, t, e) \in Int
    /\ LegEpoch(rs[k], t[2]) # e =>
         SpentIn(qs, t, e) = SpentIn(rs, t, e) /\ TakenIn(qs, t, e) = TakenIn(rs, t, e)
    /\ LegEpoch(rs[k], t[2]) = e =>
         /\ SpentIn(qs, t, e) =
              SpentIn(rs, t, e) + (ConsumedBy(qs[k], t) - ConsumedBy(rs[k], t))
         /\ TakenIn(qs, t, e) =
              TakenIn(rs, t, e) + ((ReservedBy(qs[k], t) + ConsumedBy(qs[k], t))
                                    - (ReservedBy(rs[k], t) + ConsumedBy(rs[k], t)))

(***************************************************************************)
(* One reservation of an epoch changes what the epoch spent and took.      *)
(***************************************************************************)
LEMMA EpochSumsUpdate ==
    ASSUME NEW rs \in Seq(Reservations), NEW qs \in Seq(Reservations), Len(qs) = Len(rs),
           NEW k \in 1 .. Len(rs), \A j \in 1 .. Len(rs) : j # k => qs[j] = rs[j],
           qs[k].reservedAt = rs[k].reservedAt, NEW t, NEW e
    PROVE  EpochsMove(rs, qs, k, t, e)
<1> DEFINE N == Len(rs)
           f1 == [j \in 1 .. N |-> IF LegEpoch(rs[j], t[2]) = e THEN ConsumedBy(rs[j], t) ELSE 0]
           g1 == [j \in 1 .. N |-> IF LegEpoch(qs[j], t[2]) = e THEN ConsumedBy(qs[j], t) ELSE 0]
           f2 == [j \in 1 .. N |-> IF LegEpoch(rs[j], t[2]) = e
                                   THEN ReservedBy(rs[j], t) + ConsumedBy(rs[j], t) ELSE 0]
           g2 == [j \in 1 .. N |-> IF LegEpoch(qs[j], t[2]) = e
                                   THEN ReservedBy(qs[j], t) + ConsumedBy(qs[j], t) ELSE 0]
<1>1. N \in Nat /\ \A j \in 1 .. N : rs[j] \in Reservations /\ qs[j] \in Reservations
  OBVIOUS
<1>2. \A j \in 1 .. N : /\ ReservedBy(rs[j], t) \in Int /\ ConsumedBy(rs[j], t) \in Int
                        /\ ReservedBy(qs[j], t) \in Int /\ ConsumedBy(qs[j], t) \in Int
  BY <1>1, HeldInt
<1>3. /\ SpentIn(rs, t, e) = SumTo(f1, N) /\ SpentIn(qs, t, e) = SumTo(g1, N)
      /\ TakenIn(rs, t, e) = SumTo(f2, N) /\ TakenIn(qs, t, e) = SumTo(g2, N)
  BY DEF SpentIn, TakenIn
<1>4. /\ \A j \in 1 .. N : f1[j] \in Int /\ g1[j] \in Int
      /\ \A j \in 1 .. N : f2[j] \in Int /\ g2[j] \in Int
  BY <1>2
<1>5. /\ \A j \in 1 .. N : j # k => g1[j] = f1[j]
      /\ \A j \in 1 .. N : j # k => g2[j] = f2[j]
  OBVIOUS
<1>6. LegEpoch(qs[k], t[2]) = LegEpoch(rs[k], t[2])
  BY DEF LegEpoch
<1>7. LegEpoch(rs[k], t[2]) # e => f1[k] = 0 /\ g1[k] = 0 /\ f2[k] = 0 /\ g2[k] = 0
  BY <1>6
<1>8. LegEpoch(rs[k], t[2]) = e =>
        /\ f1[k] = ConsumedBy(rs[k], t) /\ g1[k] = ConsumedBy(qs[k], t)
        /\ f2[k] = ReservedBy(rs[k], t) + ConsumedBy(rs[k], t)
        /\ g2[k] = ReservedBy(qs[k], t) + ConsumedBy(qs[k], t)
  BY <1>6
<1> HIDE DEF f1, g1, f2, g2, N
<1> k \in 1 .. N
  BY DEF N
<1>9. SumTo(g1, N) = SumTo(f1, N) + (g1[k] - f1[k])
  <2>1. \A j \in 1 .. N : f1[j] \in Int /\ g1[j] \in Int
    BY <1>4
  <2>2. \A j \in 1 .. N : j # k => g1[j] = f1[j]
    BY <1>5
  <2> QED
    BY <1>1, <2>1, <2>2, SumToUpdate, Zenon
<1>10. SumTo(g2, N) = SumTo(f2, N) + (g2[k] - f2[k])
  <2>1. \A j \in 1 .. N : f2[j] \in Int /\ g2[j] \in Int
    BY <1>4
  <2>2. \A j \in 1 .. N : j # k => g2[j] = f2[j]
    BY <1>5
  <2> QED
    BY <1>1, <2>1, <2>2, SumToUpdate, Zenon
<1>11. SumTo(f1, N) \in Int /\ SumTo(f2, N) \in Int
  BY <1>1, <1>4, SumToInt
<1>12. CASE LegEpoch(rs[k], t[2]) # e
  <2>1. g1[k] - f1[k] = 0 /\ g2[k] - f2[k] = 0
    BY <1>7, <1>12
  <2> QED
    BY <1>3, <1>9, <1>10, <1>11, <1>12, <2>1 DEF EpochsMove
<1>13. CASE LegEpoch(rs[k], t[2]) = e
  BY <1>3, <1>8, <1>9, <1>10, <1>11, <1>13 DEF EpochsMove
<1> QED
  BY <1>12, <1>13

\* What appending reservation r to rs does to an epoch's sums at t.
EpochsGrow(rs, r, t, e) ==
    LET qs == Append(rs, r)
    IN  /\ SpentIn(rs, t, e) \in Int /\ TakenIn(rs, t, e) \in Int
        /\ SpentIn(qs, t, e) = SpentIn(rs, t, e)
             + (IF LegEpoch(r, t[2]) = e THEN ConsumedBy(r, t) ELSE 0)
        /\ TakenIn(qs, t, e) = TakenIn(rs, t, e)
             + (IF LegEpoch(r, t[2]) = e THEN ReservedBy(r, t) + ConsumedBy(r, t) ELSE 0)

(***************************************************************************)
(* A reservation more adds to what its own epoch spent and took.           *)
(***************************************************************************)
LEMMA EpochSumsAppend ==
    ASSUME NEW rs \in Seq(Reservations), NEW r, NEW t, NEW e
    PROVE  EpochsGrow(rs, r, t, e)
<1> DEFINE N == Len(rs)
           qs == Append(rs, r)
           f1 == [j \in 1 .. N |-> IF LegEpoch(rs[j], t[2]) = e THEN ConsumedBy(rs[j], t) ELSE 0]
           g1 == [j \in 1 .. N + 1 |-> IF LegEpoch(qs[j], t[2]) = e THEN ConsumedBy(qs[j], t) ELSE 0]
           f2 == [j \in 1 .. N |-> IF LegEpoch(rs[j], t[2]) = e
                                   THEN ReservedBy(rs[j], t) + ConsumedBy(rs[j], t) ELSE 0]
           g2 == [j \in 1 .. N + 1 |-> IF LegEpoch(qs[j], t[2]) = e
                                       THEN ReservedBy(qs[j], t) + ConsumedBy(qs[j], t) ELSE 0]
<1>1. /\ N \in Nat /\ Len(qs) = N + 1 /\ qs[N + 1] = r
      /\ \A j \in 1 .. N : qs[j] = rs[j] /\ rs[j] \in Reservations
  OBVIOUS
<1> HIDE DEF qs
<1>2. /\ SpentIn(rs, t, e) = SumTo(f1, N) /\ TakenIn(rs, t, e) = SumTo(f2, N)
      /\ SpentIn(qs, t, e) = SumTo(g1, N + 1) /\ TakenIn(qs, t, e) = SumTo(g2, N + 1)
  BY <1>1 DEF SpentIn, TakenIn
<1>3. \A j \in 1 .. N : ReservedBy(rs[j], t) \in Int /\ ConsumedBy(rs[j], t) \in Int
  BY <1>1, HeldInt
<1>8. \A j \in 1 .. N : g1[j] = f1[j]
  BY <1>1
<1>9. \A j \in 1 .. N : g2[j] = f2[j]
  BY <1>1
<1>4. /\ \A j \in 1 .. N : f1[j] \in Int
      /\ \A j \in 1 .. N : f2[j] \in Int
      /\ g1[N + 1] = IF LegEpoch(r, t[2]) = e THEN ConsumedBy(r, t) ELSE 0
      /\ g2[N + 1] = IF LegEpoch(r, t[2]) = e THEN ReservedBy(r, t) + ConsumedBy(r, t) ELSE 0
  BY <1>1, <1>3
<1> HIDE DEF f1, g1, f2, g2, N
<1>5. SumTo(f1, N) \in Int /\ SumTo(f2, N) \in Int
  BY <1>1, <1>4, SumToInt
<1>6. SumTo(g1, N + 1) = SumTo(f1, N) + g1[N + 1] /\ SumTo(g2, N + 1) = SumTo(f2, N) + g2[N + 1]
  <2>1. SumTo(g1, N + 1) = SumTo(f1, N) + g1[N + 1]
    BY <1>1, <1>8, SumToAppend
  <2>2. SumTo(g2, N + 1) = SumTo(f2, N) + g2[N + 1]
    BY <1>1, <1>9, SumToAppend
  <2> QED
    BY <2>1, <2>2
<1>7. /\ SpentIn(rs, t, e) \in Int /\ TakenIn(rs, t, e) \in Int
      /\ SpentIn(qs, t, e) = SpentIn(rs, t, e)
           + (IF LegEpoch(r, t[2]) = e THEN ConsumedBy(r, t) ELSE 0)
      /\ TakenIn(qs, t, e) = TakenIn(rs, t, e)
           + (IF LegEpoch(r, t[2]) = e THEN ReservedBy(r, t) + ConsumedBy(r, t) ELSE 0)
  BY <1>2, <1>4, <1>5, <1>6, Zenon
<1> QED
  BY <1>7, Zenon DEF EpochsGrow, qs

(***************************************************************************)
(* An epoch took what it spent and at most what the target still reserves. *)
(***************************************************************************)
LEMMA TakenAtMost ==
    ASSUME TypeInv, NEW t, ConservedAt(t), NEW e
    PROVE  TakenIn(reservations, t, e) <= targets[t].reserved + SpentIn(reservations, t, e)
<1> DEFINE N == Len(reservations)
           a == [j \in 1 .. N |-> ReservedBy(reservations[j], t)]
           b == [j \in 1 .. N |-> IF LegEpoch(reservations[j], t[2]) = e
                                  THEN ConsumedBy(reservations[j], t) ELSE 0]
           c == [j \in 1 .. N |-> IF LegEpoch(reservations[j], t[2]) = e
                                  THEN ReservedBy(reservations[j], t) + ConsumedBy(reservations[j], t)
                                  ELSE 0]
           s == [j \in 1 .. N |-> a[j] + b[j]]
<1>1. N \in Nat
  BY DEF TypeInv, TypeOK
<1>2. \A j \in 1 .. N : ReservedBy(reservations[j], t) \in Nat /\ ConsumedBy(reservations[j], t) \in Nat
  BY HeldNat
<1>3. /\ targets[t].reserved = SumTo(a, N) /\ SpentIn(reservations, t, e) = SumTo(b, N)
      /\ TakenIn(reservations, t, e) = SumTo(c, N)
  BY DEF ConservedAt, SpentIn, TakenIn
<1>4. /\ \A j \in 1 .. N : a[j] \in Int /\ b[j] \in Int /\ s[j] = a[j] + b[j]
      /\ \A j \in 1 .. N : c[j] \in Int /\ s[j] \in Int /\ c[j] <= s[j]
  BY <1>2
<1> HIDE DEF a, b, c, s, N
<1>5. SumTo(s, N) = SumTo(a, N) + SumTo(b, N)
  BY <1>1, <1>4, SumToAdd
<1>6. SumTo(c, N) <= SumTo(s, N)
  BY <1>1, <1>4, SumToMonotone
<1> QED
  BY <1>3, <1>5, <1>6

------------------------------------------------------------------------------
(* Steps keep the limits.                                                   *)

\* Adding or taking nothing.
LEMMA PlusZero ==
    ASSUME NEW a \in Int
    PROVE  a = a + 0 /\ a = a - 0 /\ a = a + 0 + 0 /\ a = a - 0 - 0
  OBVIOUS

LEMMA PlusZeroBetween ==
    ASSUME NEW a \in Int, NEW y \in Nat
    PROVE  a + y = a + y + 0 /\ a + y = a + 0 + y /\ a - y = a - y - 0 /\ a - y = a - 0 - y
  OBVIOUS

(***************************************************************************)
(* What an accounting event moves at a target: x from reserved to          *)
(* consumed, y out of reserved, z into restored; the epoch moves only with *)
(* a consumption on a leg.                                                 *)
(***************************************************************************)
LEMMA AccountingMoves ==
    ASSUME TypeInv, TypeInv', NEW k \in 1 .. Len(reservations), NEW at \in Times,
           \/ \E amounts \in AmountLists(k) : ApplyConsume(k, amounts, at)
           \/ ApplyClose(k, at)
           \/ \E amounts \in AmountLists(k) : ApplyRestore(k, amounts, at),
           NEW t \in TargetKeys
    PROVE  \E x, y, z \in Nat :
              /\ ReservedBy(reservations[k], t) = ReservedBy(reservations'[k], t) + x + y
              /\ ConsumedBy(reservations'[k], t) = ConsumedBy(reservations[k], t) + x
              /\ targets'[t].reserved = targets[t].reserved - x - y
              /\ targets'[t].consumed = targets[t].consumed + x
              /\ targets'[t].restored = targets[t].restored + z
              /\ \/ /\ x = 0
                    /\ targets'[t].epoch = targets[t].epoch
                    /\ targets'[t].epochConsumed = targets[t].epochConsumed
                 \/ /\ t \in Touched(reservations[k].demands)
                    /\ targets'[t].epoch = ConsumeAt(targets[t], x, LegEpoch(reservations[k], t[2])).epoch
                    /\ targets'[t].epochConsumed =
                         ConsumeAt(targets[t], x, LegEpoch(reservations[k], t[2])).epochConsumed
<1> DEFINE r == reservations[k]
           q == reservations'[k]
           Moved(x, y, z) ==
              /\ ReservedBy(r, t) = ReservedBy(q, t) + x + y
              /\ ConsumedBy(q, t) = ConsumedBy(r, t) + x
              /\ targets'[t].reserved = targets[t].reserved - x - y
              /\ targets'[t].consumed = targets[t].consumed + x
              /\ targets'[t].restored = targets[t].restored + z
              /\ \/ /\ x = 0
                    /\ targets'[t].epoch = targets[t].epoch
                    /\ targets'[t].epochConsumed = targets[t].epochConsumed
                 \/ /\ t \in Touched(r.demands)
                    /\ targets'[t].epoch = ConsumeAt(targets[t], x, LegEpoch(r, t[2])).epoch
                    /\ targets'[t].epochConsumed = ConsumeAt(targets[t], x, LegEpoch(r, t[2])).epochConsumed
<1>1. targets[t] \in Balances
  BY DEF TypeInv, TypeOK
<1>2. /\ targets[t].reserved \in Int /\ targets[t].consumed \in Int
      /\ targets[t].restored \in Int
  BY <1>1 DEF Balances
<1>3. ReservedBy(r, t) \in Int /\ ConsumedBy(r, t) \in Int /\ ReservedBy(q, t) \in Int
  <2>1. k \in 1 .. Len(reservations')
    BY AccountingKeepsIdentity
  <2>2. reservations[k] \in Reservations /\ reservations'[k] \in Reservations
    BY <2>1 DEF TypeInv, TypeOK
  <2> QED
    BY <2>2, HeldInt
<1>4. ASSUME NEW amounts \in AmountLists(k), ApplyConsume(k, amounts, at)
      PROVE  \E x \in Nat : Moved(x, 0, 0)
  <2>1. PICK x \in Nat :
          /\ ReservedBy(r, t) = ReservedBy(q, t) + x
          /\ ConsumedBy(q, t) = ConsumedBy(r, t) + x
          /\ IF t \in Touched(r.demands)
             THEN targets'[t] = ConsumeAt(targets[t], x, LegEpoch(r, t[2]))
             ELSE targets'[t] = targets[t] /\ x = 0
    BY <1>4, ConsumeMoves
  <2> HIDE DEF r, q
  <2>2. CASE t \in Touched(r.demands)
    <3>1. targets'[t] = ConsumeAt(targets[t], x, LegEpoch(r, t[2]))
      BY <2>1, <2>2
    <3>2. /\ targets'[t].reserved = targets[t].reserved - x
          /\ targets'[t].consumed = targets[t].consumed + x
          /\ targets'[t].restored = targets[t].restored
      BY <3>1 DEF ConsumeAt
    <3>3. /\ ReservedBy(r, t) = ReservedBy(q, t) + x + 0
          /\ targets'[t].reserved = targets[t].reserved - x - 0
          /\ targets'[t].restored = targets[t].restored + 0
      BY <1>2, <1>3, <2>1, <3>2, PlusZero, PlusZeroBetween, Zenon
    <3>4. Moved(x, 0, 0)
      BY <2>1, <2>2, <3>1, <3>2, <3>3
    <3> QED
      BY <3>4
  <2>3. CASE t \notin Touched(r.demands)
    <3>1. targets'[t] = targets[t] /\ x = 0
      BY <2>1, <2>3
    <3>2. Moved(0, 0, 0)
      BY <1>2, <1>3, <2>1, <3>1
    <3> QED
      BY <3>2
  <2> QED
    BY <2>2, <2>3
<1>5. ASSUME ApplyClose(k, at)
      PROVE  \E y \in Nat : Moved(0, y, 0)
  <2>1. PICK y \in Nat :
          /\ ReservedBy(r, t) = ReservedBy(q, t) + y
          /\ ConsumedBy(q, t) = ConsumedBy(r, t)
          /\ targets'[t] = [targets[t] EXCEPT !.reserved = @ - y]
    BY <1>5, CloseMoves
  <2> HIDE DEF r, q
  <2>2. /\ targets'[t].reserved = targets[t].reserved - y
        /\ targets'[t].consumed = targets[t].consumed
        /\ targets'[t].restored = targets[t].restored
        /\ targets'[t].epoch = targets[t].epoch
        /\ targets'[t].epochConsumed = targets[t].epochConsumed
    BY <1>1, <2>1 DEF Balances
  <2>3. Moved(0, y, 0)
    <3>1. /\ ReservedBy(r, t) = ReservedBy(q, t) + 0 + y /\ ConsumedBy(q, t) = ConsumedBy(r, t) + 0
      BY <1>3, <2>1, PlusZero, PlusZeroBetween, Zenon
    <3>2. /\ targets'[t].reserved = targets[t].reserved - 0 - y
          /\ targets'[t].consumed = targets[t].consumed + 0
          /\ targets'[t].restored = targets[t].restored + 0
      BY <1>2, <2>2, PlusZero, PlusZeroBetween, Zenon
    <3> QED
      BY <2>2, <3>1, <3>2
  <2> QED
    BY <2>3
<1>6. ASSUME NEW amounts \in AmountLists(k), ApplyRestore(k, amounts, at)
      PROVE  \E z \in Nat : Moved(0, 0, z)
  <2>1. PICK z \in Nat :
          /\ ReservedBy(q, t) = ReservedBy(r, t)
          /\ ConsumedBy(q, t) = ConsumedBy(r, t)
          /\ targets'[t] = [targets[t] EXCEPT !.restored = @ + z]
    BY <1>6, RestoreMoves
  <2> HIDE DEF r, q
  <2>2. /\ targets'[t].reserved = targets[t].reserved
        /\ targets'[t].consumed = targets[t].consumed
        /\ targets'[t].restored = targets[t].restored + z
        /\ targets'[t].epoch = targets[t].epoch
        /\ targets'[t].epochConsumed = targets[t].epochConsumed
    BY <1>1, <2>1 DEF Balances
  <2>3. Moved(0, 0, z)
    BY <1>2, <1>3, <2>1, <2>2
  <2> QED
    BY <2>3
<1> HIDE DEF Moved
<1>7. \E x, y, z \in Nat : Moved(x, y, z)
  BY <1>4, <1>5, <1>6
<1> QED
  BY <1>7 DEF Moved

(***************************************************************************)
(* An accounting event takes nothing more of a budget or a capacity.       *)
(***************************************************************************)
LEMMA AccountingTotal ==
    ASSUME TypeInv, TypeInv', NEW k \in 1 .. Len(reservations), NEW at \in Times,
           \/ \E amounts \in AmountLists(k) : ApplyConsume(k, amounts, at)
           \/ ApplyClose(k, at)
           \/ \E amounts \in AmountLists(k) : ApplyRestore(k, amounts, at),
           NEW t \in GrantTargets, TotalBounded(t)
    PROVE  TotalBounded(t)'
<1> DEFINE L == Grant[t[1]].limit[t[2]]
<1>1. /\ t \in TargetKeys /\ L \in Nat /\ targets[t].reserved \in Int /\ targets[t].consumed \in Int
      /\ targets[t].restored \in Int
  BY GrantTargetTyped
<1>2. PICK x, y, z \in Nat :
        /\ targets'[t].reserved = targets[t].reserved - x - y
        /\ targets'[t].consumed = targets[t].consumed + x
        /\ targets'[t].restored = targets[t].restored + z
  BY <1>1, AccountingMoves
<1>3. targets[t].reserved + targets[t].consumed
        - (IF Dim[t[2]].restoration = "CAPACITY" THEN targets[t].restored ELSE 0) <= L
  BY DEF TotalBounded
<1> HIDE DEF L
<1>4. targets'[t].reserved + targets'[t].consumed
        - (IF Dim[t[2]].restoration = "CAPACITY" THEN targets'[t].restored ELSE 0) <= L
  <2>1. CASE Dim[t[2]].restoration = "CAPACITY"
    <3>1. targets[t].reserved + targets[t].consumed - targets[t].restored <= L
      BY <1>3, <2>1
    <3> DEFINE a == targets[t].reserved
               b == targets[t].consumed
               c == targets[t].restored
               d == targets'[t].reserved
               e == targets'[t].consumed
               f == targets'[t].restored
    <3>2. /\ a \in Int /\ b \in Int /\ c \in Int /\ a + b - c <= L /\ L \in Nat
          /\ d = a - x - y /\ e = b + x /\ f = c + z
      BY <1>1, <1>2, <3>1, Zenon
    <3> HIDE DEF a, b, c, d, e, f
    <3>4. d + e - f <= L
      BY <3>2
    <3>3. targets'[t].reserved + targets'[t].consumed - targets'[t].restored <= L
      BY <3>4 DEF d, e, f
    <3> QED
      BY <2>1, <3>3
  <2>2. CASE Dim[t[2]].restoration # "CAPACITY"
    <3>1. targets[t].reserved + targets[t].consumed - 0 <= L
      BY <1>3, <2>2
    <3> DEFINE a == targets[t].reserved
               b == targets[t].consumed
               d == targets'[t].reserved
               e == targets'[t].consumed
    <3>2. /\ a \in Int /\ b \in Int /\ a + b - 0 <= L /\ L \in Nat
          /\ d = a - x - y /\ e = b + x
      BY <1>1, <1>2, <3>1, Zenon
    <3> HIDE DEF a, b, d, e
    <3>3. d + e - 0 <= L
      BY <3>2
    <3>4. targets'[t].reserved + targets'[t].consumed - 0 <= L
      BY <3>3 DEF d, e
    <3> QED
      BY <2>2, <3>4
  <2> QED
    BY <2>1, <2>2
<1> QED
  BY <1>4 DEF TotalBounded, L

(***************************************************************************)
(* A RESERVE takes of a budget or a capacity no more than was available.   *)
(***************************************************************************)
LEMMA ReserveTotal ==
    ASSUME TypeInv, NEW action \in Actions, NEW generation \in 1 .. MaxReservations,
           NEW g \in Grants, NEW actor, NEW module \in Modules,
           NEW cs \in ContributionLists, NEW at \in Times,
           ApplyReserve(action, generation, g, actor, module, cs, at),
           NEW t \in GrantTargets, TotalBounded(t), Dim[t[2]].restoration # "EPOCH"
    PROVE  TotalBounded(t)'
<1> DEFINE L == Grant[t[1]].limit[t[2]]
           r == reservations'[Len(reservations) + 1]
           x == ReservedBy(r, t)
           back == IF Dim[t[2]].restoration = "CAPACITY" THEN targets[t].restored ELSE 0
<1>1. /\ t \in TargetKeys /\ L \in Nat /\ targets[t].reserved \in Int /\ targets[t].consumed \in Int
      /\ targets[t].restored \in Int /\ LimitOf(t, policy) = L /\ t[2] \in Dims
      /\ targets[t] \in Balances
  BY GrantTargetTyped
<1>2. /\ x \in Nat /\ (x = 0 \/ x <= AvailableOf(t, at))
      /\ targets'[t] = [targets[t] EXCEPT !.reserved = @ + x]
  BY <1>1, ReserveMoves
<1> HIDE DEF x
<1>3. AvailableOf(t, at) = L - targets[t].consumed - targets[t].reserved + back
  <2>1. Dim[t[2]].restoration \in {"NONE", "CAPACITY"}
    BY <1>1, DimAssumption DEF Restorations
  <2>2. CASE Dim[t[2]].restoration = "NONE"
    BY <1>1, <2>2 DEF AvailableOf
  <2>3. CASE Dim[t[2]].restoration = "CAPACITY"
    BY <1>1, <2>3 DEF AvailableOf
  <2> QED
    BY <2>1, <2>2, <2>3
<1>4. targets[t].reserved + targets[t].consumed - back <= L /\ back \in Int
  BY <1>1 DEF TotalBounded
<1>5. /\ targets'[t].reserved = targets[t].reserved + x /\ targets'[t].consumed = targets[t].consumed
      /\ targets'[t].restored = targets[t].restored
  BY <1>1, <1>2 DEF Balances
<1> HIDE DEF L, back
<1>6. targets'[t].reserved + targets'[t].consumed - back <= L
  BY <1>1, <1>2, <1>3, <1>4, <1>5
<1> QED
  BY <1>5, <1>6 DEF TotalBounded, L, back

(***************************************************************************)
(* An accounting event takes nothing more of an epoch budget, and records  *)
(* what it consumes in the epoch its reservation was made in.              *)
(***************************************************************************)
LEMMA AccountingEpochs ==
    ASSUME ChargedInv, TypeInv', NEW k \in 1 .. Len(reservations), NEW at \in Times,
           \/ \E amounts \in AmountLists(k) : ApplyConsume(k, amounts, at)
           \/ ApplyClose(k, at)
           \/ \E amounts \in AmountLists(k) : ApplyRestore(k, amounts, at),
           NEW t \in GrantTargets, EpochsBounded(t), Dim[t[2]].restoration = "EPOCH"
    PROVE  EpochsBounded(t)'
<1> DEFINE L == Grant[t[1]].limit[t[2]]
           d == t[2]
           rs == reservations
           qs == reservations'
           N == Len(rs)
           e == LegEpoch(rs[k], d)
           b == targets[t].epoch
           c == targets[t].epochConsumed
<1>1. TypeInv
  BY DEF ChargedInv, ConservationInv
<1>2. t \in TargetKeys /\ d \in Dims /\ L \in Nat /\ b \in Int /\ c \in Int
  BY <1>1, GrantTargetTyped
<1>3. PICK x, y, z \in Nat :
        /\ ReservedBy(rs[k], t) = ReservedBy(qs[k], t) + x + y
        /\ ConsumedBy(qs[k], t) = ConsumedBy(rs[k], t) + x
        /\ \/ x = 0 /\ targets'[t].epoch = b /\ targets'[t].epochConsumed = c
           \/ /\ t \in Touched(rs[k].demands)
              /\ targets'[t].epoch = ConsumeAt(targets[t], x, e).epoch
              /\ targets'[t].epochConsumed = ConsumeAt(targets[t], x, e).epochConsumed
  BY <1>1, <1>2, AccountingMoves
<1>4. /\ rs \in Seq(Reservations) /\ qs \in Seq(Reservations) /\ N \in Nat
  BY <1>1 DEF TypeInv, TypeOK
<1>5. /\ Len(qs) = N /\ \A j \in 1 .. N : j # k => qs[j] = rs[j]
      /\ \A j \in 1 .. N : qs[j].reservedAt = rs[j].reservedAt
      /\ lastAt' = at /\ at >= lastAt
  BY <1>1, AccountingKeepsIdentity DEF SameIdentity
<1>6. \A j \in 1 .. N : LegEpoch(qs[j], d) = LegEpoch(rs[j], d)
  BY <1>5 DEF LegEpoch
<1>7. /\ b <= EpochIndex(d, lastAt) /\ c = SpentIn(rs, t, b)
      /\ \A j \in 1 .. N : LegEpoch(rs[j], d) > b => ConsumedBy(rs[j], t) = 0
      /\ \A i \in Int : TakenIn(rs, t, i) <= L
  BY DEF EpochsBounded
<1>8. /\ e \in Int /\ e <= EpochIndex(d, lastAt)
      /\ t \in Touched(rs[k].demands) => e >= 0
  <2>1. rs[k] \in Reservations /\ rs[k].reservedAt <= lastAt /\ Charged(rs[k])
    BY <1>4 DEF ChargedInv, ReservedInThePast
  <2>2. rs[k].reservedAt \in Nat /\ lastAt \in Nat /\ e = EpochIndex(d, rs[k].reservedAt)
    BY <1>1, <2>1, TimesAssumption DEF Reservations, TypeInv, TypeOK, LegEpoch
  <2>3. e \in Int /\ e <= EpochIndex(d, lastAt)
    BY <1>2, <2>1, <2>2, EpochInt, EpochMonotone
  <2>4. t \in Touched(rs[k].demands) => e >= 0
    BY <2>1, <2>2 DEF Touched, Charged
  <2> QED
    BY <2>3, <2>4
<1>9. EpochIndex(d, lastAt) <= EpochIndex(d, lastAt') /\ EpochIndex(d, lastAt) \in Int
      /\ EpochIndex(d, lastAt') \in Int
  <2>1. lastAt \in Nat /\ lastAt' \in Nat /\ lastAt <= lastAt'
    BY <1>1, <1>5, TimesAssumption DEF TypeInv, TypeOK
  <2> QED
    BY <1>2, <2>1, EpochMonotone, EpochInt
<1>10. /\ ReservedBy(rs[k], t) \in Int /\ ReservedBy(qs[k], t) \in Int
       /\ ConsumedBy(rs[k], t) \in Int /\ ConsumedBy(qs[k], t) \in Int
  BY <1>4, <1>5, HeldInt
<1>11. EpochsBounded(t)' <=>
         /\ targets'[t].epoch <= EpochIndex(d, lastAt')
         /\ targets'[t].epochConsumed = SpentIn(qs, t, targets'[t].epoch)
         /\ \A j \in 1 .. N : LegEpoch(qs[j], d) > targets'[t].epoch => ConsumedBy(qs[j], t) = 0
         /\ \A i \in Int : TakenIn(qs, t, i) <= L
  BY <1>5 DEF EpochsBounded
<1>12. ASSUME NEW i
       PROVE  /\ SpentIn(rs, t, i) \in Int /\ TakenIn(rs, t, i) \in Int
              /\ e # i => SpentIn(qs, t, i) = SpentIn(rs, t, i) /\ TakenIn(qs, t, i) = TakenIn(rs, t, i)
              /\ e = i => /\ SpentIn(qs, t, i) = SpentIn(rs, t, i) + (ConsumedBy(qs[k], t) - ConsumedBy(rs[k], t))
                          /\ TakenIn(qs, t, i) =
                               TakenIn(rs, t, i) + ((ReservedBy(qs[k], t) + ConsumedBy(qs[k], t))
                                                     - (ReservedBy(rs[k], t) + ConsumedBy(rs[k], t)))
  <2>1. Len(qs) = Len(rs)
    BY <1>5
  <2>2. qs[k].reservedAt = rs[k].reservedAt
    BY <1>5
  <2>4. \A j \in 1 .. Len(rs) : j # k => qs[j] = rs[j]
    BY <1>5
  <2>5. rs \in Seq(Reservations)
    BY <1>4
  <2>6. qs \in Seq(Reservations)
    BY <1>4
  <2>7. k \in 1 .. Len(rs)
    OBVIOUS
  <2> HIDE DEF rs, qs, d, e, N
  <2>3. EpochsMove(rs, qs, k, t, i)
    BY <2>1, <2>2, <2>4, <2>5, <2>6, <2>7, EpochSumsUpdate, Zenon
  <2> QED
    BY <2>3 DEF EpochsMove, e, d
<1>13. \A j \in 1 .. N : j # k => ConsumedBy(qs[j], t) = ConsumedBy(rs[j], t)
  BY <1>5
<1> HIDE DEF L, d, rs, qs, N, e, b, c
<1> k \in 1 .. N
  BY DEF N, rs
<1>14. /\ ConsumedBy(qs[k], t) - ConsumedBy(rs[k], t) = x
       /\ (ReservedBy(qs[k], t) + ConsumedBy(qs[k], t))
            - (ReservedBy(rs[k], t) + ConsumedBy(rs[k], t)) = -y
  <2> DEFINE p == ReservedBy(qs[k], t)
             q == ConsumedBy(rs[k], t)
  <2>1. p \in Int /\ q \in Int
    BY <1>10
  <2>2. ReservedBy(rs[k], t) = p + x + y /\ ConsumedBy(qs[k], t) = q + x
    BY <1>3
  <2> HIDE DEF p, q
  <2>3. (q + x) - q = x /\ (p + (q + x)) - ((p + x + y) + q) = -y
    BY <2>1
  <2> QED
    BY <2>2, <2>3 DEF p, q
<1>15. \A i \in Int : TakenIn(qs, t, i) <= L
  <2> TAKE i \in Int
  <2>1. TakenIn(rs, t, i) \in Int /\ TakenIn(rs, t, i) <= L
    BY <1>7, <1>12
  <2>2. CASE e # i
    BY <1>12, <2>1, <2>2
  <2>3. CASE e = i
    <3>1. TakenIn(qs, t, i) = TakenIn(rs, t, i) + (-y)
      BY <1>12, <1>14, <2>3
    <3> QED
      BY <1>2, <2>1, <3>1
  <2> QED
    BY <2>2, <2>3
<1>16. CASE x = 0 /\ targets'[t].epoch = b /\ targets'[t].epochConsumed = c
  <2>1. b <= EpochIndex(d, lastAt')
    BY <1>2, <1>7, <1>9
  <2>2. SpentIn(qs, t, b) = c
    <3>1. SpentIn(rs, t, b) \in Int
      BY <1>12
    <3>2. CASE e # b
      BY <1>7, <1>12, <3>2
    <3>3. CASE e = b
      <4>1. SpentIn(qs, t, b) = SpentIn(rs, t, b) + x
        BY <1>12, <1>14, <3>3
      <4> QED
        BY <1>7, <1>16, <3>1, <4>1
    <3> QED
      BY <3>2, <3>3
  <2>3. \A j \in 1 .. N : LegEpoch(qs[j], d) > b => ConsumedBy(qs[j], t) = 0
    <3>1. ConsumedBy(qs[k], t) = ConsumedBy(rs[k], t)
      BY <1>10, <1>14, <1>16
    <3> QED
      BY <1>6, <1>7, <1>13, <3>1
  <2> QED
    BY <1>11, <1>15, <1>16, <2>1, <2>2, <2>3
<1>17. CASE /\ t \in Touched(rs[k].demands)
            /\ targets'[t].epoch = ConsumeAt(targets[t], x, e).epoch
            /\ targets'[t].epochConsumed = ConsumeAt(targets[t], x, e).epochConsumed
  <2>1. /\ e >= 0
        /\ targets'[t].epoch = IF b < e THEN e ELSE b
        /\ targets'[t].epochConsumed = IF b < e THEN x
                                       ELSE IF b = e /\ e >= 0 THEN c + x ELSE c
    BY <1>8, <1>17 DEF ConsumeAt, b, c
  <2>2. targets'[t].epoch <= EpochIndex(d, lastAt')
    BY <1>2, <1>7, <1>8, <1>9, <2>1
  <2>3. ASSUME NEW j \in 1 .. N, LegEpoch(qs[j], d) > targets'[t].epoch
        PROVE  ConsumedBy(qs[j], t) = 0
    <3>0. LegEpoch(qs[j], d) \in Int
      <4>1. rs[j] \in Reservations
        BY <1>4 DEF N
      <4>2. rs[j].reservedAt \in Nat
        BY <4>1, TimesAssumption DEF Reservations
      <4>3. LegEpoch(rs[j], d) \in Int
        BY <1>2, <4>2, EpochInt DEF LegEpoch
      <4> QED
        BY <1>6, <4>3
    <3>1. j # k /\ LegEpoch(rs[j], d) > b
      BY <1>2, <1>6, <1>8, <2>1, <2>3, <3>0 DEF e
    <3> QED
      BY <1>7, <1>13, <3>1
  <2>4. targets'[t].epochConsumed = SpentIn(qs, t, targets'[t].epoch)
    <3>1. CASE b < e
      <4>1. SpentIn(qs, t, e) = SpentIn(rs, t, e) + x
        BY <1>12, <1>14
      <4>2. SpentIn(rs, t, e) = 0
        <5> DEFINE f == [j \in 1 .. Len(rs) |->
                           IF LegEpoch(rs[j], t[2]) = e THEN ConsumedBy(rs[j], t) ELSE 0]
        <5>1. \A j \in 1 .. N : LegEpoch(rs[j], d) = e => LegEpoch(rs[j], d) > b
          BY <1>2, <1>8, <3>1
        <5>2. \A j \in 1 .. Len(rs) : f[j] = 0
          BY <1>7, <5>1 DEF N, d
        <5>3. SpentIn(rs, t, e) = SumTo(f, Len(rs))
          BY DEF SpentIn
        <5> HIDE DEF f
        <5> QED
          BY <1>4, <5>2, <5>3, SumToZero DEF N
      <4> QED
        BY <2>1, <3>1, <4>1, <4>2
    <3>2. CASE b = e
      <4>1. SpentIn(qs, t, e) = SpentIn(rs, t, e) + x
        BY <1>12, <1>14
      <4>2. targets'[t].epoch = e /\ targets'[t].epochConsumed = c + x
        BY <1>2, <1>8, <2>1, <3>2
      <4> QED
        BY <1>7, <3>2, <4>1, <4>2
    <3>3. CASE b > e
      <4>1. SpentIn(qs, t, b) = SpentIn(rs, t, b)
        BY <1>2, <1>8, <1>12, <3>3
      <4>2. targets'[t].epoch = b /\ targets'[t].epochConsumed = c
        BY <1>2, <1>8, <2>1, <3>3
      <4> QED
        BY <1>7, <4>1, <4>2
    <3> QED
      BY <1>2, <1>8, <3>1, <3>2, <3>3
  <2> QED
    BY <1>11, <1>15, <2>2, <2>3, <2>4
<1> QED
  BY <1>3, <1>16, <1>17

(***************************************************************************)
(* A RESERVE takes of an epoch budget no more than was available in the    *)
(* epoch of its own time, which is the latest epoch there is.              *)
(***************************************************************************)
LEMMA ReserveEpochs ==
    ASSUME ChargedInv, NEW action \in Actions, NEW generation \in 1 .. MaxReservations,
           NEW g \in Grants, NEW actor, NEW module \in Modules,
           NEW cs \in ContributionLists, NEW at \in Times,
           ApplyReserve(action, generation, g, actor, module, cs, at),
           NEW t \in GrantTargets, EpochsBounded(t), Dim[t[2]].restoration = "EPOCH"
    PROVE  EpochsBounded(t)'
<1> DEFINE L == Grant[t[1]].limit[t[2]]
           d == t[2]
           rs == reservations
           qs == reservations'
           N == Len(rs)
           r == qs[N + 1]
           x == ReservedBy(r, t)
           e == EpochIndex(d, at)
           b == targets[t].epoch
           c == targets[t].epochConsumed
           held == targets[t].reserved
<1>1. TypeInv /\ Conservation
  BY DEF ChargedInv, ConservationInv
<1>2. /\ t \in TargetKeys /\ d \in Dims /\ L \in Nat /\ b \in Int /\ c \in Int /\ held \in Int
      /\ targets[t] \in Balances /\ LimitOf(t, policy) = L
  BY <1>1, GrantTargetTyped
<1>3. /\ qs = Append(rs, r) /\ x \in Nat /\ (x = 0 \/ x <= AvailableOf(t, at))
      /\ ConsumedBy(r, t) = 0
      /\ targets'[t] = [targets[t] EXCEPT !.reserved = @ + x]
  BY <1>1, <1>2, ReserveMoves
<1>4. /\ Len(qs) = N + 1 /\ \A j \in 1 .. N : qs[j] = rs[j]
      /\ r.reservedAt = at /\ lastAt' = at /\ at >= lastAt
  BY <1>1, ReserveAppends
<1>5. rs \in Seq(Reservations) /\ N \in Nat
  BY <1>1 DEF TypeInv, TypeOK
<1>6. targets'[t].epoch = b /\ targets'[t].epochConsumed = c
  BY <1>2, <1>3 DEF Balances
<1>7. LegEpoch(r, d) = e
  BY <1>4 DEF LegEpoch
<1>8. /\ b <= EpochIndex(d, lastAt) /\ c = SpentIn(rs, t, b)
      /\ \A j \in 1 .. N : LegEpoch(rs[j], d) > b => ConsumedBy(rs[j], t) = 0
      /\ \A i \in Int : TakenIn(rs, t, i) <= L
  BY DEF EpochsBounded
<1>9. EpochIndex(d, lastAt) <= e /\ EpochIndex(d, lastAt) \in Int /\ e \in Int
  <2>1. lastAt \in Nat /\ at \in Nat /\ lastAt <= at
    BY <1>1, <1>4, TimesAssumption DEF TypeInv, TypeOK
  <2> QED
    BY <1>2, <2>1, EpochMonotone, EpochInt
<1>10. b <= e
  BY <1>2, <1>8, <1>9
<1>11. EpochsBounded(t)' <=>
         /\ targets'[t].epoch <= EpochIndex(d, lastAt')
         /\ targets'[t].epochConsumed = SpentIn(qs, t, targets'[t].epoch)
         /\ \A j \in 1 .. Len(qs) : LegEpoch(qs[j], d) > targets'[t].epoch => ConsumedBy(qs[j], t) = 0
         /\ \A i \in Int : TakenIn(qs, t, i) <= L
  BY DEF EpochsBounded
<1>12. AvailableOf(t, at) = L - (IF b = e THEN c ELSE 0) - held
  BY <1>2 DEF AvailableOf
<1>13. ConservedAt(t)
  BY <1>1, <1>2 DEF Conservation, ConservedAt
<1>14. ASSUME NEW i
       PROVE  /\ SpentIn(rs, t, i) \in Int /\ TakenIn(rs, t, i) \in Int
              /\ SpentIn(qs, t, i) = SpentIn(rs, t, i)
              /\ TakenIn(qs, t, i) = TakenIn(rs, t, i) + (IF e = i THEN x ELSE 0)
  <2>1. EpochsGrow(rs, r, t, i)
    BY <1>5, EpochSumsAppend, Zenon
  <2> HIDE DEF rs, qs, r, d, e, x
  <2>2. /\ SpentIn(rs, t, i) \in Int /\ TakenIn(rs, t, i) \in Int
        /\ SpentIn(qs, t, i) = SpentIn(rs, t, i) + (IF e = i THEN 0 ELSE 0)
        /\ TakenIn(qs, t, i) = TakenIn(rs, t, i) + (IF e = i THEN x + 0 ELSE 0)
    BY <1>3, <1>7, <2>1 DEF EpochsGrow, d, x
  <2> QED
    BY <1>3, <2>2
<1>15. TakenIn(rs, t, e) <= held + SpentIn(rs, t, e)
  BY <1>1, <1>13, TakenAtMost
<1>16. b # e => SpentIn(rs, t, e) = 0
  <2> SUFFICES ASSUME b # e PROVE SpentIn(rs, t, e) = 0
    OBVIOUS
  <2> DEFINE f == [j \in 1 .. Len(rs) |->
                     IF LegEpoch(rs[j], t[2]) = e THEN ConsumedBy(rs[j], t) ELSE 0]
  <2>1. e > b
    BY <1>2, <1>9, <1>10
  <2>2. \A j \in 1 .. Len(rs) : f[j] = 0
    BY <1>8, <2>1
  <2>3. SpentIn(rs, t, e) = SumTo(f, Len(rs))
    BY DEF SpentIn
  <2> HIDE DEF f
  <2> QED
    BY <1>5, <2>2, <2>3, SumToZero
<1>17. \A j \in 1 .. N + 1 : LegEpoch(qs[j], d) > b => ConsumedBy(qs[j], t) = 0
  <2>1. \A j \in 1 .. N + 1 : j \in 1 .. N \/ j = N + 1
    BY <1>5
  <2> QED
    BY <1>3, <1>4, <1>8, <2>1
<1> HIDE DEF L, d, rs, qs, N, r, x, e, b, c, held
<1>18. ASSUME NEW i \in Int PROVE TakenIn(qs, t, i) <= L
  <2>1. TakenIn(rs, t, i) \in Int /\ TakenIn(rs, t, i) <= L
    BY <1>8, <1>14
  <2>2. CASE e # i \/ x = 0
    <3>1. TakenIn(qs, t, i) = TakenIn(rs, t, i) + 0
      BY <1>14, <2>2
    <3> QED
      BY <2>1, <3>1
  <2>3. CASE e = i /\ x # 0
    <3>1. TakenIn(qs, t, i) = TakenIn(rs, t, i) + x
      BY <1>14, <2>3
    <3>2. SpentIn(rs, t, e) = IF b = e THEN c ELSE 0
      BY <1>8, <1>16
    <3>3. x <= L - SpentIn(rs, t, e) - held
      BY <1>3, <1>12, <2>3, <3>2
    <3>4. TakenIn(rs, t, i) <= held + SpentIn(rs, t, e) /\ SpentIn(rs, t, e) \in Int
      BY <1>14, <1>15, <2>3
    <3> QED
      BY <1>2, <1>3, <2>1, <3>1, <3>3, <3>4
  <2> QED
    BY <2>2, <2>3
<1>19. c = SpentIn(qs, t, b)
  BY <1>8, <1>14
<1>20. targets'[t].epoch <= EpochIndex(d, lastAt')
  BY <1>4, <1>6, <1>10 DEF e
<1> QED
  BY <1>4, <1>6, <1>11, <1>17, <1>18, <1>19, <1>20

(***************************************************************************)
(* Every step keeps every target of a grant within its limit.              *)
(***************************************************************************)
LEMMA NextAuthority == AuthorityInv /\ [Next]_vars => AuthorityInv'
<1> SUFFICES ASSUME AuthorityInv, [Next]_vars PROVE AuthorityInv'
  OBVIOUS
<1>1. ChargedInv /\ ChargedInv'
  BY NextCharged DEF AuthorityInv
<1>2. TypeInv /\ TypeInv'
  BY <1>1 DEF ChargedInv, ConservationInv
<1>3. SUFFICES ASSUME NEW t \in GrantTargets PROVE Bounded(t)'
  BY <1>1 DEF AuthorityInv
<1>4. Bounded(t)
  BY DEF AuthorityInv
<1>5. CASE Dim[t[2]].restoration = "EPOCH"
  <2>1. EpochsBounded(t)
    BY <1>4, <1>5 DEF Bounded
  <2>2. ASSUME reservations' = reservations, targets' = targets, lastAt' >= lastAt
        PROVE  EpochsBounded(t)'
    <3> DEFINE d == t[2]
    <3>1. lastAt \in Nat /\ lastAt' \in Nat /\ lastAt <= lastAt'
      BY <1>2, <2>2, TimesAssumption DEF TypeInv, TypeOK
    <3>2. d \in Dims /\ targets[t].epoch \in Int
      BY <1>2, GrantTargetTyped
    <3>3. /\ EpochIndex(d, lastAt) <= EpochIndex(d, lastAt')
          /\ EpochIndex(d, lastAt) \in Int /\ EpochIndex(d, lastAt') \in Int
      BY <3>1, <3>2, EpochMonotone, EpochInt
    <3>4. targets[t].epoch <= EpochIndex(d, lastAt)
      BY <2>1 DEF EpochsBounded
    <3> HIDE DEF d
    <3>5. targets[t].epoch <= EpochIndex(d, lastAt')
      BY <3>2, <3>3, <3>4
    <3> QED
      BY <2>1, <2>2, <3>5 DEF EpochsBounded, d
  <2>3. ASSUME NEW at \in Times, NEW action \in Actions, NEW generation \in 1 .. MaxReservations,
               NEW g \in Grants, NEW actor \in Parties, NEW module \in Modules,
               NEW cs \in ContributionLists,
               ApplyReserve(action, generation, g, actor, module, cs, at)
        PROVE  EpochsBounded(t)'
    BY <1>1, <1>5, <2>1, <2>3, ReserveEpochs
  <2>4. ASSUME NEW at \in Times, NEW k \in 1 .. Len(reservations),
               \/ \E amounts \in AmountLists(k) : ApplyConsume(k, amounts, at)
               \/ ApplyClose(k, at)
               \/ \E amounts \in AmountLists(k) : ApplyRestore(k, amounts, at)
        PROVE  EpochsBounded(t)'
    BY <1>1, <1>2, <1>5, <2>1, <2>4, AccountingEpochs
  <2>5. EpochsBounded(t)'
    BY <1>2, <2>2, <2>3, <2>4, StepKinds
  <2> QED
    BY <1>5, <2>5 DEF Bounded
<1>6. CASE Dim[t[2]].restoration # "EPOCH"
  <2>1. TotalBounded(t)
    BY <1>4, <1>6 DEF Bounded
  <2>2. ASSUME reservations' = reservations, targets' = targets, lastAt' >= lastAt
        PROVE  TotalBounded(t)'
    BY <2>1, <2>2 DEF TotalBounded
  <2>3. ASSUME NEW at \in Times, NEW action \in Actions, NEW generation \in 1 .. MaxReservations,
               NEW g \in Grants, NEW actor \in Parties, NEW module \in Modules,
               NEW cs \in ContributionLists,
               ApplyReserve(action, generation, g, actor, module, cs, at)
        PROVE  TotalBounded(t)'
    BY <1>2, <1>6, <2>1, <2>3, ReserveTotal
  <2>4. ASSUME NEW at \in Times, NEW k \in 1 .. Len(reservations),
               \/ \E amounts \in AmountLists(k) : ApplyConsume(k, amounts, at)
               \/ ApplyClose(k, at)
               \/ \E amounts \in AmountLists(k) : ApplyRestore(k, amounts, at)
        PROVE  TotalBounded(t)'
    BY <1>2, <2>1, <2>4, AccountingTotal
  <2>5. TotalBounded(t)'
    BY <1>2, <2>2, <2>3, <2>4, StepKinds
  <2> QED
    BY <1>6, <2>5 DEF Bounded
<1> QED
  BY <1>5, <1>6

\* No authority is used before anything is reserved.
LEMMA InitAuthority == Init => AuthorityInv
<1> SUFFICES ASSUME Init PROVE AuthorityInv
  OBVIOUS
<1>1. ChargedInv /\ TypeInv
  BY InitCharged DEF ChargedInv, ConservationInv
<1>2. SUFFICES ASSUME NEW t \in GrantTargets PROVE Bounded(t)
  BY <1>1 DEF AuthorityInv
<1>3. t \in TargetKeys /\ t[2] \in Dims /\ Grant[t[1]].limit[t[2]] \in Nat
  BY <1>1, GrantTargetTyped
<1>4. Len(reservations) = 0 /\ targets[t] = ZeroBalance /\ lastAt = 0
  BY <1>3 DEF Init
<1>5. -1 <= EpochIndex(t[2], lastAt)
  BY <1>3, <1>4, EpochMonotone
<1>6. \A f : SumTo(f, 0) = 0
  BY SumToEquation
<1>7. \A e : SpentIn(reservations, t, e) = 0 /\ TakenIn(reservations, t, e) = 0
  BY <1>4, <1>6 DEF SpentIn, TakenIn
<1>8. EpochsBounded(t)
  BY <1>3, <1>4, <1>5, <1>7 DEF EpochsBounded, ZeroBalance
<1>9. TotalBounded(t)
  BY <1>3, <1>4 DEF TotalBounded, ZeroBalance
<1> QED
  BY <1>8, <1>9 DEF Bounded

(***************************************************************************)
(* What a reservation under a grant occupies is what it holds at the       *)
(* grant's target; what a reservation elsewhere holds there is nothing.    *)
(***************************************************************************)
LEMMA SubtreeHolds ==
    ASSUME ChargedInv, NEW k \in 1 .. Len(reservations), NEW t \in GrantTargets
    PROVE  IF t[1] \in Lineage[reservations[k].authority]
           THEN Occupied(reservations[k], t[2]) =
                  ReservedBy(reservations[k], t) + ConsumedBy(reservations[k], t)
                    - RestoredBy(reservations[k], t)
           ELSE /\ ReservedBy(reservations[k], t) = 0 /\ ConsumedBy(reservations[k], t) = 0
                /\ RestoredBy(reservations[k], t) = 0
<1> DEFINE r == reservations[k]
           n == Len(r.demands)
<1>1. TypeInv /\ Charged(r)
  BY DEF ChargedInv, ConservationInv
<1>2. /\ t[1] \in Grants /\ t[2] \in Dims /\ t = <<t[1], t[2]>> /\ t[2] \in DOMAIN Grant[t[1]].limit
  BY <1>1, GrantTargetTyped DEF GrantTargets
<1>3. \A i \in 1 .. n : t \in r.demands[i].legs <=>
                           /\ t[1] \in Lineage[r.authority]
                           /\ r.demands[i].measure = Dim[t[2]].measure
  BY <1>1, <1>2 DEF Charged
<1>4. CASE t[1] \in Lineage[r.authority]
  <2>1. \A i \in 1 .. n : <<t[1], t[2]>> \in r.demands[i].legs <=>
                             r.demands[i].measure = Dim[t[2]].measure
    BY <1>2, <1>3, <1>4
  <2>2. Occupied(r, t[2]) = ReservedBy(r, <<t[1], t[2]>>) + ConsumedBy(r, <<t[1], t[2]>>)
                              - RestoredBy(r, <<t[1], t[2]>>)
    BY <1>1, <1>2, <2>1, OccupiedIsHeld
  <2> QED
    BY <1>2, <1>4, <2>2
<1>5. CASE t[1] \notin Lineage[r.authority]
  <2>1. n \in Nat /\ Len(CapacityDemands(r)) = n
    BY <1>1, ReservationTyped, CapacityDemandsLength
  <2>2. \A i \in 1 .. n : t \notin r.demands[i].legs /\ t \notin CapacityDemands(r)[i].legs
    <3>1. \A i \in 1 .. n : r.demands[i] \in Demands
      BY <1>1, ReservationTyped
    <3>2. \A i \in 1 .. n : CapacityDemands(r)[i].legs = CapacityLegs(r.demands[i])
      BY <3>1 DEF CapacityDemands, Demands
    <3> QED
      BY <1>3, <1>5, <3>2 DEF CapacityLegs
  <2> HIDE DEF r
  <2>3. /\ AmountAt(r.demands, RemainingAmounts(r), t) = 0
        /\ AmountAt(r.demands, ConsumedAmounts(r), t) = 0
    BY <2>1, <2>2, AmountAtZero
  <2>4. AmountAt(CapacityDemands(r), RestoredAmounts(r), t) = 0
    BY <2>1, <2>2, AmountAtZero
  <2> QED
    BY <1>5, <2>3, <2>4 DEF ReservedBy, ConsumedBy, RestoredBy, r
<1> QED
  BY <1>4, <1>5

(***************************************************************************)
(* Nothing delegated under a grant occupies more of a dimension than the   *)
(* grant signed, whatever is delegated, reserved, consumed, released and   *)
(* restored in whatever order: the code checks one balance against one     *)
(* limit, and that bounds the whole subtree.                               *)
(***************************************************************************)
THEOREM AuthorityIsNeverExceeded == Spec => []WithinAuthority
<1>1. AuthorityInv => WithinAuthority
  <2> SUFFICES ASSUME AuthorityInv, NEW g \in nodes, NEW d \in DOMAIN Grant[g].limit,
                      NEW k0 \in 1 .. Len(reservations)
               PROVE  SubtreeOccupied(g, d, LegEpoch(reservations[k0], d)) <= Grant[g].limit[d]
    BY DEF WithinAuthority
  <2> DEFINE t == <<g, d>>
             N == Len(reservations)
             R(k) == ReservedBy(reservations[k], t)
             C(k) == ConsumedBy(reservations[k], t)
             S(k) == RestoredBy(reservations[k], t)
             Under(k) == g \in Lineage[reservations[k].authority]
             e == LegEpoch(reservations[k0], d)
             occ == [k \in 1 .. N |->
                       IF Under(k) /\ LegEpoch(reservations[k], d) = e
                       THEN Occupied(reservations[k], d) ELSE 0]
             L == Grant[g].limit[d]
  <2>1. ChargedInv /\ TypeInv /\ Conservation
    BY DEF AuthorityInv, ChargedInv, ConservationInv
  <2>2. g \in Grants /\ d \in Dims
    BY <2>1, GrantAssumption DEF TypeInv, TypeOK
  <2>3. t \in GrantTargets /\ t[1] = g /\ t[2] = d
    BY <2>2 DEF GrantTargets
  <2>4. N \in Nat /\ L \in Nat /\ t \in TargetKeys
    BY <2>1, <2>3, GrantTargetTyped DEF TypeInv, TypeOK
  <2>5. \A k \in 1 .. N : R(k) \in Nat /\ C(k) \in Nat /\ S(k) \in Nat
    BY <2>1, HeldNat
  <2>6. \A k \in 1 .. N : IF Under(k) THEN Occupied(reservations[k], d) = R(k) + C(k) - S(k)
                          ELSE R(k) = 0 /\ C(k) = 0 /\ S(k) = 0
    BY <2>1, <2>3, SubtreeHolds
  <2>7. SubtreeOccupied(g, d, e) = SumTo(occ, N)
    BY DEF SubtreeOccupied
  <2>8. Bounded(t)
    BY <2>3 DEF AuthorityInv
  <2>9. CASE Dim[d].restoration = "EPOCH"
    <3> DEFINE taken == [k \in 1 .. Len(reservations) |->
                           IF LegEpoch(reservations[k], t[2]) = e
                           THEN ReservedBy(reservations[k], t) + ConsumedBy(reservations[k], t) ELSE 0]
    <3>1. e \in Int
      <4>1. reservations[k0].reservedAt \in Nat
        BY <2>1, ReservationTyped, TimesAssumption DEF Reservations
      <4> QED
        BY <2>2, <2>9, <4>1, EpochInt DEF LegEpoch
    <3>2. TakenIn(reservations, t, e) <= L
      BY <2>3, <2>8, <2>9, <3>1 DEF Bounded, EpochsBounded
    <3>3. TakenIn(reservations, t, e) = SumTo(taken, N)
      BY DEF TakenIn
    <3>4. \A k \in 1 .. N : occ[k] \in Int /\ taken[k] \in Int /\ occ[k] <= taken[k]
      <4> TAKE k \in 1 .. N
      <4>1. taken[k] = IF LegEpoch(reservations[k], d) = e THEN R(k) + C(k) ELSE 0
        BY <2>3
      <4>2. occ[k] = IF Under(k) /\ LegEpoch(reservations[k], d) = e
                     THEN R(k) + C(k) - S(k) ELSE 0
        BY <2>6
      <4>3. R(k) \in Nat /\ C(k) \in Nat /\ S(k) \in Nat
        BY <2>5
      <4> HIDE DEF occ, taken, R, C, S, Under, e
      <4> QED
        BY <4>1, <4>2, <4>3
    <3> HIDE DEF occ, taken, N
    <3>5. SumTo(occ, N) <= SumTo(taken, N)
      BY <2>4, <3>4, SumToMonotone
    <3>6. SumTo(occ, N) \in Int /\ SumTo(taken, N) \in Int
      BY <2>4, <3>4, SumToInt
    <3> HIDE DEF L
    <3>7. SumTo(occ, N) <= L
      BY <2>4, <3>2, <3>3, <3>5, <3>6
    <3> QED
      BY <2>7, <3>7 DEF L, e
  <2>10. CASE Dim[d].restoration # "EPOCH"
    <3> DEFINE f == [k \in 1 .. N |-> ReservedBy(reservations[k], t)]
               h == [k \in 1 .. N |-> ConsumedBy(reservations[k], t)]
               s == [k \in 1 .. N |-> RestoredBy(reservations[k], t)]
    <3>1. \A k \in 1 .. N : LegEpoch(reservations[k], d) = e
      BY <2>10 DEF LegEpoch
    <3>2. /\ targets[t].reserved = SumTo(f, N) /\ targets[t].consumed = SumTo(h, N)
          /\ targets[t].restored = SumTo(s, N)
      BY <2>1, <2>4 DEF Conservation
    <3>3. \A k \in 1 .. N : f[k] \in Int /\ h[k] \in Int /\ s[k] \in Int /\ occ[k] = f[k] + h[k] - s[k]
      <4> TAKE k \in 1 .. N
      <4>1. occ[k] = IF Under(k) THEN Occupied(reservations[k], d) ELSE 0
        BY <3>1
      <4>2. f[k] = R(k) /\ h[k] = C(k) /\ s[k] = S(k)
        OBVIOUS
      <4>3. R(k) \in Nat /\ C(k) \in Nat /\ S(k) \in Nat
        BY <2>5
      <4>4. IF Under(k) THEN Occupied(reservations[k], d) = R(k) + C(k) - S(k)
            ELSE R(k) = 0 /\ C(k) = 0 /\ S(k) = 0
        BY <2>6
      <4> HIDE DEF occ, f, h, s, R, C, S, Under
      <4> QED
        BY <4>1, <4>2, <4>3, <4>4
    <3>4. \A k \in 1 .. N : s[k] \in Nat
      BY <2>5
    <3>5. SumTo(f, N) + SumTo(h, N)
            - (IF Dim[d].restoration = "CAPACITY" THEN SumTo(s, N) ELSE 0) <= L
      BY <2>3, <2>8, <2>10, <3>2 DEF Bounded, TotalBounded
    <3> HIDE DEF occ, f, h, s, N, L
    <3>6. SumTo(occ, N) = SumTo(f, N) + SumTo(h, N) - SumTo(s, N)
      <4>1. N \in Nat
        BY <2>4
      <4>2. Nets(occ, f, h, s, N)
        BY <3>3 DEF Nets
      <4> QED
        BY <4>1, <4>2, SumOfDifference
    <3>7. SumTo(s, N) \in Nat
      BY <2>4, <3>4, SumToNat
    <3>8. SumTo(f, N) \in Int /\ SumTo(h, N) \in Int
      BY <2>4, <3>3, SumToInt
    <3>9. SumTo(occ, N) <= L
      <4> DEFINE a == SumTo(f, N)
                 b == SumTo(h, N)
                 c == SumTo(s, N)
                 back == IF Dim[d].restoration = "CAPACITY" THEN c ELSE 0
      <4>1. a \in Int /\ b \in Int /\ c \in Nat /\ back \in Int /\ back <= c
        BY <3>7, <3>8
      <4>2. a + b - back <= L
        BY <3>5
      <4> HIDE DEF a, b, c, back
      <4>3. a + b - c <= L
        BY <2>4, <4>1, <4>2
      <4> QED
        BY <3>6, <4>3 DEF a, b, c
    <3> QED
      BY <2>7, <3>9 DEF L, e
  <2> QED
    BY <2>9, <2>10
<1>2. Init => AuthorityInv
  BY InitAuthority
<1>3. AuthorityInv /\ [Next]_vars => AuthorityInv'
  BY NextAuthority
<1> QED
  BY <1>1, <1>2, <1>3, PTL DEF Spec
=============================================================================
