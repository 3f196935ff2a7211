--------------------------- MODULE AuthorityLedger ---------------------------
(***************************************************************************)
(* The authority ledger of one principal: the state that                   *)
(* packages/ledger/src/reducer.ts folds from the event log, with one       *)
(* action per event kind.  An action is enabled exactly when the reducer   *)
(* accepts the event; a refused event leaves the state unchanged and is a  *)
(* stuttering step.  A batch (applyBatch) is a sequence of these steps     *)
(* that commits as a whole, so what holds after every event holds after    *)
(* every batch; the batch, its version and its head are modelled in        *)
(* SqliteStore.                                                            *)
(*                                                                         *)
(* Quantities are counted in the finest unit any dimension uses.  A        *)
(* dimension with fewer decimals holds only multiples of its unit:         *)
(* rescaleExact keeps the value and refuses an amount that is not one.     *)
(***************************************************************************)
EXTENDS Integers, Sequences, FiniteSets, Sums

CONSTANTS
    Principal,        \* the principal whose ledger this is
    Parties,          \* parties that hold, issue, act and revoke
    Modules,          \* domain modules a plan may name
    Dims,             \* ledger dimension identities
    Dim,              \* Dims -> [measure, restoration, unit, anchor, length]
    Grants,           \* the signed grants that may be submitted
    Grant,            \* Grants -> [parent, issuer, holder, modules, depth, notBefore, expiresAt, strict, limit]
    Root,             \* the parent of a root grant
    Policies,         \* the principal policies that may be submitted
    Policy,           \* Policies -> [sequence, strict, limit]
    NoPolicy,         \* no policy is registered yet
    Global,           \* the owner of a principal-global target
    Actions,          \* action identities
    ContributionLists,\* the contribution lists a charge plan may carry
    Artifacts,        \* artifact identities
    Slots,            \* venue replay slots
    NoSlot,           \* an admission that binds no slot
    Times,            \* evaluation times
    Amounts,          \* amounts an accounting event may carry
    MAX_LINEAGE_LENGTH,
    UINT256_MAX,
    MaxReservations   \* bound: reservations ever committed

Owners == Grants \cup {Global}

\* A charge target: a dimension of a registered grant or of the policy.
TargetKeys == Owners \X Dims

\* One line of a charge plan: what it moves, and whether a limit must cover it.
Contributions == [measure : STRING, atoms : Nat \ {0}, required : BOOLEAN]

Restorations == {"NONE", "EPOCH", "CAPACITY"}

ASSUME TimesAssumption == Times \subseteq Nat
ASSUME AmountsAssumption == Amounts \subseteq Nat
ASSUME BoundsAssumption ==
    /\ MAX_LINEAGE_LENGTH \in Nat \ {0}
    /\ UINT256_MAX \in Nat
    /\ MaxReservations \in Nat
ASSUME DimAssumption ==
    Dim \in [Dims -> [measure : STRING, restoration : Restorations,
                      unit : Nat \ {0}, anchor : Nat, length : Nat \ {0}]]
ASSUME ContributionsAssumption ==
    \A cs \in ContributionLists :
        /\ cs \in Seq(Contributions)
        /\ Len(cs) > 0
ASSUME GrantAssumption ==
    /\ Root \notin Grants /\ Global \notin Grants
    /\ \A g \in Grants :
         /\ Grant[g].parent \in Grants \cup {Root}
         /\ {Grant[g].issuer, Grant[g].holder} \subseteq Parties
         /\ Grant[g].parent = Root => Grant[g].issuer = Principal
         /\ Grant[g].modules \subseteq Modules
         /\ {Grant[g].depth, Grant[g].notBefore, Grant[g].expiresAt,
             Grant[g].strict} \subseteq Nat
         /\ DOMAIN Grant[g].limit \subseteq Dims
         /\ \A d \in DOMAIN Grant[g].limit : Grant[g].limit[d] \in Nat
ASSUME PolicyAssumption ==
    /\ NoPolicy \notin Policies
    /\ \A p \in Policies :
         /\ {Policy[p].sequence, Policy[p].strict} \subseteq Nat
         /\ DOMAIN Policy[p].limit \subseteq Dims
         /\ \A d \in DOMAIN Policy[p].limit : Policy[p].limit[d] \in Nat
ASSUME SlotAssumption == NoSlot \notin Slots

VARIABLES
    lastAt,        \* the latest evaluation time any committed event carried
    policy,        \* the policy in force, or NoPolicy
    everReserved,  \* whether any reservation was ever committed
    nodes,         \* the registered grants
    revoked,       \* the nodes with their own revocation recorded
    targets,       \* the balance of every charge target
    reservations,  \* every reservation, in commit order
    actions,       \* per action: the last generation and the open reservation
    attempts       \* every admitted attempt, in admission order

vars == <<lastAt, policy, everReserved, nodes, revoked, targets, reservations,
          actions, attempts>>

------------------------------------------------------------------------------
(* The delegation graph (graph.ts).                                         *)

(***************************************************************************)
(* The path of each grant by distance: itself at 0, Root past its root.    *)
(***************************************************************************)
Ancestor ==
    [g \in Grants |->
        LET up[i \in 0 .. MAX_LINEAGE_LENGTH] ==
              IF i = 0 THEN g
              ELSE IF up[i - 1] = Root THEN Root ELSE Grant[up[i - 1]].parent
        IN  up]

Distances == 0 .. MAX_LINEAGE_LENGTH - 1

Lineage == [g \in Grants |-> {Ancestor[g][i] : i \in Distances} \ {Root}]

(***************************************************************************)
(* The whole path to the root is registered, and is not too long.          *)
(***************************************************************************)
ResolveLineage(g) ==
    /\ Lineage[g] \subseteq nodes
    /\ Ancestor[g][MAX_LINEAGE_LENGTH] = Root

(***************************************************************************)
(* eff(root) = depth(root), eff(child) = min(eff(parent) - 1, depth(child))*)
(* clamped at 0, in closed form.                                           *)
(***************************************************************************)
EffectiveDepth ==
    [g \in Grants |->
        LET slack == {Grant[Ancestor[g][i]].depth - i :
                         i \in {k \in Distances : Ancestor[g][k] # Root}}
        IN  IF \E s \in slack : s < 0 THEN 0
            ELSE CHOOSE s \in slack : \A r \in slack : s <= r]

\* A faulty variant: only the leaf's own revocation is looked at.
FaultyLineageValidLeafOnly(g, at) ==
    /\ policy # NoPolicy
    /\ g \notin revoked
    /\ \A n \in Lineage[g] : Grant[n].notBefore <= at /\ at < Grant[n].expiresAt

(***************************************************************************)
(* Every node of the lineage is in its window, not revoked, issued by its  *)
(* parent's holder and permitted by its parent's effective depth.          *)
(***************************************************************************)
CheckLineageValid(g, at) ==
    /\ policy # NoPolicy
    /\ \A n \in Lineage[g] :
         /\ IF Grant[n].parent = Root
            THEN Grant[n].issuer = Principal
            ELSE /\ Grant[n].issuer = Grant[Grant[n].parent].holder
                 /\ EffectiveDepth[Grant[n].parent] >= 1
         /\ n \notin revoked
         /\ Grant[n].notBefore <= at /\ at < Grant[n].expiresAt

\* A faulty variant: the module set of the child is not compared.
FaultySubsetIgnoresModules(parent, child) ==
    /\ EffectiveDepth[parent] >= 1
    /\ Grant[child].depth = 0 \/ Grant[child].depth <= EffectiveDepth[parent] - 1
    /\ Grant[parent].notBefore <= Grant[child].notBefore
    /\ Grant[child].expiresAt <= Grant[parent].expiresAt
    /\ Grant[child].strict >= Grant[parent].strict

(***************************************************************************)
(* The child is no wider than its parent.  The terms a delegation must     *)
(* restate (bounds, invariants, state policies) are ordered by one number, *)
(* their strictness.                                                       *)
(***************************************************************************)
DelegationSubset(parent, child) ==
    LET p == Grant[parent]
        c == Grant[child]
    IN  /\ EffectiveDepth[parent] >= 1
        /\ c.depth = 0 \/ c.depth <= EffectiveDepth[parent] - 1
        /\ p.notBefore <= c.notBefore /\ c.expiresAt <= p.expiresAt
        /\ c.modules \subseteq p.modules
        /\ c.strict >= p.strict
        /\ \A d \in DOMAIN c.limit \cap DOMAIN p.limit : c.limit[d] <= p.limit[d]

CheckGrantRegistration(g, at) ==
    /\ policy # NoPolicy
    /\ g \notin nodes
    /\ at < Grant[g].expiresAt
    /\ Grant[g].parent # Root =>
         /\ ResolveLineage(Grant[g].parent)
         /\ CheckLineageValid(Grant[g].parent, at)
         /\ Grant[g].issuer = Grant[Grant[g].parent].holder
         /\ DelegationSubset(Grant[g].parent, g)
         /\ Cardinality(Lineage[Grant[g].parent]) < MAX_LINEAGE_LENGTH

\* A faulty variant: the target is not looked up first.
FaultyRevocationUnresolved(g, issuer, effectiveAt, at) ==
    effectiveAt <= at /\ g \notin revoked /\ issuer = Grant[g].issuer

CheckRevocation(g, issuer, effectiveAt, at) ==
    /\ ResolveLineage(g)
    /\ effectiveAt <= at
    /\ Lineage[g] \cap revoked = {}
    /\ issuer \in {Grant[n].issuer : n \in Lineage[g]}

(***************************************************************************)
(* The modules every node of the lineage grants (effectiveAuthority,       *)
(* moduleAllowed).                                                         *)
(***************************************************************************)
ModuleAllowed(g, module) == \A n \in Lineage[g] : module \in Grant[n].modules

------------------------------------------------------------------------------
(* Charging (charging.ts, state.ts).                                        *)

ContributionMatches(c, d) == c.measure = Dim[d].measure

\* rescaleExact succeeds: the amount is a whole number of the dimension's unit.
Representable(x, d) == x % Dim[d].unit = 0

\* -1 stands for the code's null: the epoch has not started.
EpochIndex(d, at) ==
    IF at < Dim[d].anchor THEN -1 ELSE (at - Dim[d].anchor) \div Dim[d].length

\* A faulty variant: only the leaf of the lineage is charged.
FaultyNodeLegsLeafOnly(g, c) ==
    {t \in {g} \X Dims :
        t[2] \in DOMAIN Grant[g].limit /\ ContributionMatches(c, t[2])}

NodeLegs(g, c) ==
    {t \in Lineage[g] \X Dims :
        t[2] \in DOMAIN Grant[t[1]].limit /\ ContributionMatches(c, t[2])}

PolicyLegs(p, c) ==
    {t \in {Global} \X Dims :
        t[2] \in DOMAIN Policy[p].limit /\ ContributionMatches(c, t[2])}

\* A faulty variant: an amount the dimension cannot hold exactly is charged.
FaultyLegInexact(c, t, at) ==
    Dim[t[2]].restoration = "EPOCH" => EpochIndex(t[2], at) >= 0

LegFor(c, t, at) ==
    /\ Representable(c.atoms, t[2])
    /\ Dim[t[2]].restoration = "EPOCH" => EpochIndex(t[2], at) >= 0

(***************************************************************************)
(* Every matching dimension of every node of the lineage, then of the      *)
(* policy.  A required contribution matches the lineage somewhere.         *)
(***************************************************************************)
CheckLegs(g, p, c, at) ==
    /\ c.required => NodeLegs(g, c) # {}
    /\ \A t \in NodeLegs(g, c) \cup PolicyLegs(p, c) : LegFor(c, t, at)

LimitOf(t, p) ==
    IF t[1] = Global THEN Policy[p].limit[t[2]] ELSE Grant[t[1]].limit[t[2]]

AvailableOf(t, at) ==
    LET b == targets[t]
        g == LimitOf(t, policy)
    IN  CASE Dim[t[2]].restoration = "NONE" -> g - b.consumed - b.reserved
          [] Dim[t[2]].restoration = "EPOCH" ->
               g - (IF b.epoch = EpochIndex(t[2], at) THEN b.epochConsumed ELSE 0)
                 - b.reserved
          [] OTHER -> g - b.consumed - b.reserved + b.restored

(***************************************************************************)
(* What amounts, one per demand, move at target t: the sum over the        *)
(* demands with a leg there.                                               *)
(***************************************************************************)
AmountAt(demands, amounts, t) ==
    SumTo([i \in 1 .. Len(demands) |->
              IF t \in demands[i].legs THEN amounts[i] ELSE 0], Len(demands))

Touched(demands) == UNION {demands[i].legs : i \in 1 .. Len(demands)}

(***************************************************************************)
(* The aggregate demand fits every target, or nothing is reserved.         *)
(***************************************************************************)
CheckAvailability(demands, amounts, at) ==
    \A t \in Touched(demands) :
        LET requested == AmountAt(demands, amounts, t)
        IN  /\ targets[t].reserved + requested <= UINT256_MAX
            /\ requested <= AvailableOf(t, at)

------------------------------------------------------------------------------
(* The transitions (reducer.ts).                                            *)

ZeroBalance == [reserved |-> 0, consumed |-> 0, restored |-> 0,
                epoch |-> -1, epochConsumed |-> 0]

Init ==
    /\ lastAt = 0
    /\ policy = NoPolicy
    /\ everReserved = FALSE
    /\ nodes = {}
    /\ revoked = {}
    /\ targets = [t \in TargetKeys |-> ZeroBalance]
    /\ reservations = <<>>
    /\ actions = [a \in Actions |-> [lastGeneration |-> 0, open |-> 0]]
    /\ attempts = <<>>

\* applyEvent: evaluation time never regresses.
At(at) ==
    /\ at >= lastAt
    /\ lastAt' = at

\* A faulty variant: a dimension new to the policy needs no baseline.
FaultyBaselineIgnoresDimensions(p) ==
    (policy # NoPolicy /\ everReserved) => Policy[p].strict <= Policy[policy].strict

(***************************************************************************)
(* Once anything was reserved, a replacement policy adds no dimension and  *)
(* no stronger invariant: neither could account for what was admitted      *)
(* without it.                                                             *)
(***************************************************************************)
CheckPolicyBaseline(p) ==
    (policy # NoPolicy /\ everReserved) =>
        /\ DOMAIN Policy[p].limit \subseteq DOMAIN Policy[policy].limit
        /\ Policy[p].strict <= Policy[policy].strict

ApplyRegisterPolicy(p, at) ==
    /\ At(at)
    /\ policy # NoPolicy => Policy[p].sequence > Policy[policy].sequence
    /\ CheckPolicyBaseline(p)
    /\ policy' = p
    /\ UNCHANGED <<everReserved, nodes, revoked, targets, reservations, actions, attempts>>

ApplyRegisterGrant(g, at) ==
    /\ At(at)
    /\ CheckGrantRegistration(g, at)
    /\ nodes' = nodes \cup {g}
    /\ UNCHANGED <<policy, everReserved, revoked, targets, reservations, actions, attempts>>

(***************************************************************************)
(* The node is marked; its outstanding reservations are untouched.         *)
(***************************************************************************)
ApplyRevoke(g, issuer, effectiveAt, at) ==
    /\ At(at)
    /\ CheckRevocation(g, issuer, effectiveAt, at)
    /\ revoked' = revoked \cup {g}
    /\ UNCHANGED <<policy, everReserved, nodes, targets, reservations, actions, attempts>>

DemandOf(g, c) ==
    [legs |-> NodeLegs(g, c) \cup PolicyLegs(policy, c), measure |-> c.measure,
     reserved |-> c.atoms, consumed |-> 0, released |-> 0, restored |-> 0]

\* A faulty variant: the previous generation may still be open.
FaultyDeriveOverlapping(action, generation, g, actor, module, cs, at) ==
    /\ policy # NoPolicy
    /\ ResolveLineage(g)
    /\ CheckLineageValid(g, at)
    /\ actor = Grant[g].holder
    /\ ModuleAllowed(g, module)
    /\ generation = actions[action].lastGeneration + 1
    /\ \A i \in 1 .. Len(cs) : CheckLegs(g, policy, cs[i], at)

(***************************************************************************)
(* The lineage, holder, module, generation and legs of a plan; the legs    *)
(* are recorded, and are what later events charge.                         *)
(***************************************************************************)
DeriveReservation(action, generation, g, actor, module, cs, at) ==
    /\ policy # NoPolicy
    /\ ResolveLineage(g)
    /\ CheckLineageValid(g, at)
    /\ actor = Grant[g].holder
    /\ ModuleAllowed(g, module)
    /\ actions[action].open = 0
    /\ generation = actions[action].lastGeneration + 1
    /\ \A i \in 1 .. Len(cs) : CheckLegs(g, policy, cs[i], at)

ApplyReserve(action, generation, g, actor, module, cs, at) ==
    LET demands == [i \in 1 .. Len(cs) |-> DemandOf(g, cs[i])]
        amounts == [i \in 1 .. Len(cs) |-> cs[i].atoms]
        record  == [action |-> action, generation |-> generation, authority |-> g,
                    module |-> module, reservedAt |-> at, status |-> "ACTIVE",
                    demands |-> demands]
    IN  /\ Len(reservations) < MaxReservations
        /\ At(at)
        /\ DeriveReservation(action, generation, g, actor, module, cs, at)
        /\ CheckAvailability(demands, amounts, at)
        /\ targets' = [t \in TargetKeys |->
                         [targets[t] EXCEPT !.reserved = @ + AmountAt(demands, amounts, t)]]
        /\ reservations' = Append(reservations, record)
        /\ actions' = [actions EXCEPT ![action] =
                         [lastGeneration |-> generation, open |-> Len(reservations) + 1]]
        /\ everReserved' = TRUE
        /\ UNCHANGED <<policy, nodes, revoked, attempts>>

RemainingOf(d) == d.reserved - d.consumed

(***************************************************************************)
(* forEachLeg succeeds: each amount is exact on each leg it moves.         *)
(***************************************************************************)
ExactOnLegs(demands, amounts) ==
    \A i \in 1 .. Len(demands) :
        \A t \in demands[i].legs : Representable(amounts[i], t[2])

\* A faulty variant: what is consumed stays reserved too.
FaultyConsumeKeepsReserved(b, x, epoch) == [b EXCEPT !.consumed = @ + x]

(***************************************************************************)
(* A consumption moves reserved to consumed at every leg, and to the epoch *)
(* the reservation was made in unless a later epoch is already recorded.   *)
(***************************************************************************)
ConsumeAt(b, x, epoch) ==
    [reserved |-> b.reserved - x, consumed |-> b.consumed + x, restored |-> b.restored,
     epoch |-> IF b.epoch < epoch THEN epoch ELSE b.epoch,
     epochConsumed |-> IF b.epoch < epoch THEN x
                       ELSE IF b.epoch = epoch /\ epoch >= 0 THEN b.epochConsumed + x
                       ELSE b.epochConsumed]

LegEpoch(r, d) ==
    IF Dim[d].restoration = "EPOCH" THEN EpochIndex(d, r.reservedAt) ELSE -1

ApplyConsume(k, amounts, at) ==
    LET r == reservations[k]
        x(t) == AmountAt(r.demands, amounts, t)
    IN  /\ At(at)
        /\ r.status = "ACTIVE"
        /\ \E i \in 1 .. Len(r.demands) : amounts[i] > 0
        /\ \A i \in 1 .. Len(r.demands) : amounts[i] <= RemainingOf(r.demands[i])
        /\ ExactOnLegs(r.demands, amounts)
        /\ \A t \in Touched(r.demands) : targets[t].consumed + x(t) <= UINT256_MAX
        /\ targets' = [t \in TargetKeys |->
                         IF t \in Touched(r.demands)
                         THEN ConsumeAt(targets[t], x(t), LegEpoch(r, t[2]))
                         ELSE targets[t]]
        /\ reservations' = [reservations EXCEPT ![k].demands =
                              [i \in 1 .. Len(r.demands) |->
                                 [r.demands[i] EXCEPT !.consumed = @ + amounts[i]]]]
        /\ UNCHANGED <<policy, everReserved, nodes, revoked, actions, attempts>>

(***************************************************************************)
(* A close releases exactly what remains and frees the action for its      *)
(* next generation.                                                        *)
(***************************************************************************)
ApplyClose(k, at) ==
    LET r == reservations[k]
        remaining == [i \in 1 .. Len(r.demands) |-> RemainingOf(r.demands[i])]
    IN  /\ At(at)
        /\ r.status = "ACTIVE"
        /\ ExactOnLegs(r.demands, remaining)
        /\ targets' = [t \in TargetKeys |->
                         [targets[t] EXCEPT !.reserved = @ - AmountAt(r.demands, remaining, t)]]
        /\ reservations' = [reservations EXCEPT
                              ![k].status = "CLOSED",
                              ![k].demands = [i \in 1 .. Len(r.demands) |->
                                  [r.demands[i] EXCEPT !.released = remaining[i]]]]
        /\ actions' = IF actions[r.action].open = k
                      THEN [actions EXCEPT ![r.action].open = 0]
                      ELSE actions
        /\ UNCHANGED <<policy, everReserved, nodes, revoked, attempts>>

CapacityLegs(demand) == {t \in demand.legs : Dim[t[2]].restoration = "CAPACITY"}

CapacityDemands(r) ==
    [i \in 1 .. Len(r.demands) |-> [r.demands[i] EXCEPT !.legs = CapacityLegs(r.demands[i])]]

(***************************************************************************)
(* A restoration credits only the CAPACITY legs the reservation was        *)
(* charged to, before or after it closed.                                  *)
(***************************************************************************)
ApplyRestore(k, amounts, at) ==
    LET r == reservations[k]
    IN  /\ At(at)
        /\ \E i \in 1 .. Len(r.demands) : amounts[i] > 0
        /\ \A i \in 1 .. Len(r.demands) :
             /\ amounts[i] <= r.demands[i].consumed - r.demands[i].restored
             /\ amounts[i] > 0 => CapacityLegs(r.demands[i]) # {}
        /\ ExactOnLegs(CapacityDemands(r), amounts)
        /\ targets' = [t \in TargetKeys |->
                         [targets[t] EXCEPT
                            !.restored = @ + AmountAt(CapacityDemands(r), amounts, t)]]
        /\ reservations' = [reservations EXCEPT ![k].demands =
                              [i \in 1 .. Len(r.demands) |->
                                 [r.demands[i] EXCEPT !.restored = @ + amounts[i]]]]
        /\ UNCHANGED <<policy, everReserved, nodes, revoked, actions, attempts>>

ArtifactUnbound(artifact) == \A i \in 1 .. Len(attempts) : attempts[i].artifact # artifact

\* A faulty variant: the slot index is never consulted.
FaultySlotReusable(slot) == TRUE

SlotUnbound(slot) == slot # NoSlot => \A i \in 1 .. Len(attempts) : attempts[i].slot # slot

AttemptsOf(k) == {i \in 1 .. Len(attempts) : attempts[i].reservation = k}

(***************************************************************************)
(* An attempt is admitted once for an open reservation whose lineage is    *)
(* still valid, binding an artifact and a slot no attempt ever bound.      *)
(***************************************************************************)
ApplyAdmitAttempt(k, artifact, slot, validUntil, at) ==
    /\ At(at)
    /\ reservations[k].status = "ACTIVE"
    /\ AttemptsOf(k) = {}
    /\ ArtifactUnbound(artifact)
    /\ SlotUnbound(slot)
    /\ validUntil > at
    /\ ResolveLineage(reservations[k].authority)
    /\ CheckLineageValid(reservations[k].authority, at)
    /\ attempts' = Append(attempts, [reservation |-> k, artifact |-> artifact, slot |-> slot,
                                     validUntil |-> validUntil, admittedTime |-> at])
    /\ UNCHANGED <<policy, everReserved, nodes, revoked, targets, reservations, actions>>

AmountLists(k) == [1 .. Len(reservations[k].demands) -> Amounts]

Next ==
    \E at \in Times :
        \/ \E p \in Policies : ApplyRegisterPolicy(p, at)
        \/ \E g \in Grants : ApplyRegisterGrant(g, at)
        \/ \E g \in Grants, issuer \in Parties, effectiveAt \in Times :
              ApplyRevoke(g, issuer, effectiveAt, at)
        \/ \E action \in Actions, generation \in 1 .. MaxReservations, g \in Grants,
              actor \in Parties, module \in Modules, cs \in ContributionLists :
              ApplyReserve(action, generation, g, actor, module, cs, at)
        \/ \E k \in 1 .. Len(reservations) :
              \/ \E amounts \in AmountLists(k) : ApplyConsume(k, amounts, at)
              \/ ApplyClose(k, at)
              \/ \E amounts \in AmountLists(k) : ApplyRestore(k, amounts, at)
              \/ \E artifact \in Artifacts, slot \in Slots \cup {NoSlot}, validUntil \in Times :
                    ApplyAdmitAttempt(k, artifact, slot, validUntil, at)

Spec == Init /\ [][Next]_vars

------------------------------------------------------------------------------
(* Properties.                                                              *)

Demands == [legs : SUBSET TargetKeys, measure : STRING, reserved : Nat,
            consumed : Nat, released : Nat, restored : Nat]

Reservations == [action : Actions, generation : Nat \ {0}, authority : Grants,
                 module : Modules, reservedAt : Times, status : {"ACTIVE", "CLOSED"},
                 demands : Seq(Demands)]

Balances == [reserved : Int, consumed : Int, restored : Int,
             epoch : Int, epochConsumed : Int]

AttemptRecords == [reservation : Nat, artifact : Artifacts, slot : Slots \cup {NoSlot},
                   validUntil : Times, admittedTime : Times]

(***************************************************************************)
(* Type invariant of LedgerState (state.ts).                               *)
(***************************************************************************)
TypeOK ==
    /\ lastAt \in Nat
    /\ policy \in Policies \cup {NoPolicy}
    /\ everReserved \in BOOLEAN
    /\ nodes \subseteq Grants
    /\ revoked \subseteq nodes
    /\ targets \in [TargetKeys -> Balances]
    /\ reservations \in Seq(Reservations)
    /\ actions \in [Actions -> [lastGeneration : Nat, open : 0 .. Len(reservations)]]
    /\ attempts \in Seq(AttemptRecords)

(***************************************************************************)
(* No demand consumed more than it reserved or restored more than it       *)
(* consumed: what makes the release of a CLOSE a natural number.           *)
(***************************************************************************)
DemandsBounded ==
    \A k \in 1 .. Len(reservations) : \A i \in 1 .. Len(reservations[k].demands) :
        /\ reservations[k].demands[i].restored <= reservations[k].demands[i].consumed
        /\ reservations[k].demands[i].consumed <= reservations[k].demands[i].reserved

\* What is still reserved, consumed and restored of each demand of a reservation.
RemainingAmounts(r) ==
    [i \in 1 .. Len(r.demands) |->
        IF r.status = "ACTIVE" THEN RemainingOf(r.demands[i]) ELSE 0]
ConsumedAmounts(r) == [i \in 1 .. Len(r.demands) |-> r.demands[i].consumed]
RestoredAmounts(r) == [i \in 1 .. Len(r.demands) |-> r.demands[i].restored]

\* What reservation r holds, has consumed and had restored at target t.
ReservedBy(r, t) == AmountAt(r.demands, RemainingAmounts(r), t)
ConsumedBy(r, t) == AmountAt(r.demands, ConsumedAmounts(r), t)
RestoredBy(r, t) == AmountAt(CapacityDemands(r), RestoredAmounts(r), t)

(***************************************************************************)
(* The stored balance of a target is the sum, over every reservation ever  *)
(* committed, of what its legs there still reserve, consumed and restored: *)
(* the incrementally maintained targets of state.ts agree with the         *)
(* reservations they were charged by ("Σ remaining of ACTIVE legs").       *)
(***************************************************************************)
Conservation ==
    \A t \in TargetKeys :
        LET N == Len(reservations)
        IN  /\ targets[t].reserved = SumTo([k \in 1 .. N |-> ReservedBy(reservations[k], t)], N)
            /\ targets[t].consumed = SumTo([k \in 1 .. N |-> ConsumedBy(reservations[k], t)], N)
            /\ targets[t].restored = SumTo([k \in 1 .. N |-> RestoredBy(reservations[k], t)], N)

\* What reservation r occupies of dimension d, from its demands alone.
Occupied(r, d) ==
    SumTo([i \in 1 .. Len(r.demands) |->
             IF r.demands[i].measure # Dim[d].measure THEN 0
             ELSE r.demands[i].consumed + RemainingAmounts(r)[i]
                  - (IF Dim[d].restoration = "CAPACITY" THEN r.demands[i].restored ELSE 0)],
          Len(r.demands))

SubtreeOccupied(g, d, epoch) ==
    SumTo([k \in 1 .. Len(reservations) |->
             IF g \in Lineage[reservations[k].authority] /\ LegEpoch(reservations[k], d) = epoch
             THEN Occupied(reservations[k], d) ELSE 0], Len(reservations))

(***************************************************************************)
(* Nothing a grant delegates, through any number of levels and to any      *)
(* number of delegates, ever occupies more of a dimension than the grant   *)
(* signed: in total for a budget, per window for an epoch budget, net of   *)
(* restoration for a capacity.  Stated over the reservations under the     *)
(* grant and neither over the balances nor over the recorded legs.         *)
(***************************************************************************)
WithinAuthority ==
    \A g \in nodes : \A d \in DOMAIN Grant[g].limit :
        \A epoch \in {LegEpoch(reservations[k], d) : k \in 1 .. Len(reservations)} :
            SubtreeOccupied(g, d, epoch) <= Grant[g].limit[d]

TotalOccupied(d) ==
    SumTo([k \in 1 .. Len(reservations) |-> Occupied(reservations[k], d)], Len(reservations))

(***************************************************************************)
(* A principal-global dimension in force has been charged for every        *)
(* reservation ever made under any policy: what checkPolicyBaseline is     *)
(* for.  No replacement sequence leaves a ceiling that starts from less    *)
(* than the principal's whole history.                                     *)
(***************************************************************************)
PolicyHistoryComplete ==
    policy # NoPolicy =>
        \A d \in DOMAIN Policy[policy].limit :
            LET b == targets[<<Global, d>>]
            IN  TotalOccupied(d) = b.reserved + b.consumed - b.restored

(***************************************************************************)
(* A generation is opened only when the previous one closed: generations   *)
(* of an action are consecutive from 1, at most the last is ACTIVE, and    *)
(* the action's open reservation is exactly that one.                      *)
(***************************************************************************)
OneOpenGeneration ==
    \A a \in Actions :
        LET mine == {k \in 1 .. Len(reservations) : reservations[k].action = a}
        IN  /\ {reservations[k].generation : k \in mine} = 1 .. actions[a].lastGeneration
            /\ \A j, k \in mine : reservations[j].generation = reservations[k].generation => j = k
            /\ {k \in mine : reservations[k].status = "ACTIVE"} =
                 (IF actions[a].open = 0 THEN {} ELSE {actions[a].open})
            /\ \A k \in mine : reservations[k].status = "ACTIVE" =>
                 reservations[k].generation = actions[a].lastGeneration

(***************************************************************************)
(* An artifact identity and a venue slot are bound by at most one attempt  *)
(* for the ledger's whole life, and a reservation has at most one attempt, *)
(* admitted no earlier than the reservation (attempt.ts).                  *)
(***************************************************************************)
BoundOnce ==
    /\ \A i, j \in 1 .. Len(attempts) : i # j =>
         /\ attempts[i].artifact # attempts[j].artifact
         /\ attempts[i].slot = NoSlot \/ attempts[i].slot # attempts[j].slot
         /\ attempts[i].reservation # attempts[j].reservation
    /\ \A i \in 1 .. Len(attempts) :
         /\ attempts[i].reservation \in 1 .. Len(reservations)
         /\ reservations[attempts[i].reservation].reservedAt <= attempts[i].admittedTime
         /\ attempts[i].admittedTime < attempts[i].validUntil

(***************************************************************************)
(* An open reservation can always be closed: what remains of it is exact   *)
(* on each of its legs, and each target still holds it.  A partial         *)
(* consumption never leaves a remainder that no CLOSE can release.         *)
(***************************************************************************)
ReleaseNeverRefused ==
    \A k \in 1 .. Len(reservations) :
        LET r == reservations[k]
        IN  r.status = "ACTIVE" =>
              /\ ExactOnLegs(r.demands, RemainingAmounts(r))
              /\ \A t \in Touched(r.demands) :
                   targets[t].reserved >= ReservedBy(r, t)

(***************************************************************************)
(* A registered node narrows every ancestor, not only its parent, and its  *)
(* effective delegation depth is the depth it signed (the claim subset.ts  *)
(* makes of a lineage registered through the check).                       *)
(***************************************************************************)
LineageNarrows ==
    \A g \in nodes :
        /\ ResolveLineage(g)
        /\ EffectiveDepth[g] = Grant[g].depth
        /\ \A a \in Lineage[g] :
             /\ Grant[g].modules \subseteq Grant[a].modules
             /\ Grant[a].notBefore <= Grant[g].notBefore
             /\ Grant[g].expiresAt <= Grant[a].expiresAt
             /\ Grant[a].strict <= Grant[g].strict

(***************************************************************************)
(* Once a node is revoked, nothing is reserved and no attempt is admitted  *)
(* anywhere below it again, whoever holds the descendant and whenever it   *)
(* was registered; what was already open may still settle.                 *)
(***************************************************************************)
UnderRevoked == {g \in nodes : Lineage[g] \cap revoked # {}}

NoAuthorityAfterRevocation ==
    [][/\ \A k \in Len(reservations) + 1 .. Len(reservations') :
            reservations'[k].authority \notin UnderRevoked
       /\ \A i \in Len(attempts) + 1 .. Len(attempts') :
            reservations[attempts'[i].reservation].authority \notin UnderRevoked]_vars

=============================================================================
