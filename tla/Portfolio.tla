------------------------------ MODULE Portfolio ------------------------------
(***************************************************************************)
(* The portfolio layer (packages/portfolio/src): the Mandate Room that     *)
(* coordinates the agents of one Portfolio Mandate over an allocation      *)
(* book, the Portfolio Verifier that re-derives the Room's result, and the *)
(* reservation of the verified children in the ledger.                     *)
(*                                                                         *)
(* Several calls of runPortfolio share the ledger.  The Room and the       *)
(* verifier are synchronous, so at most one call is inside them; the calls *)
(* interleave where they await the ledger.  What a call read of the ledger *)
(* before its Room may be stale when it reserves.                          *)
(*                                                                         *)
(* Agents, proposals and releases are numbers, in the order of their       *)
(* party values and digests.  A message carries a proposal or a release    *)
(* and says whether it authenticates: names this mandate, a known agent,   *)
(* and that agent's signature.  Every other check of a proposal that is    *)
(* not about quantity (identity, scope, windows) is                        *)
(* Proposal[p].admissible.  A proposal declares its demand; what its       *)
(* action charges is the domain module's to say, from the account's state, *)
(* and may be something else.                                              *)
(***************************************************************************)
EXTENDS Sums, FiniteSets, FiniteSetsExt

CONSTANTS
    N,           \* the number of agents
    Resources,   \* the resources with a portfolio limit
    Limit,       \* limits of the mandate
    HardMax,     \* HardMax[a]: the hard maxima agent a lists, by resource
    Preferred,   \* Preferred[a]: the preferred allocation of agent a
    Mode,        \* allocationMode
    ProposalCount,
    Proposal,    \* [agent, sequence, demand, minimum, utility, admissible]
    Releases,
    Release,     \* [agent, sequence, amounts]
    MayCharge,   \* MayCharge[p]: what the module may charge p's action, by the account's state
    Says,        \* Says[a]: the messages agent a's strategy may return
    MaxRounds,   \* maxRounds
    Runs,        \* the calls of runPortfolio
    MaxAttempts  \* maxAttempts of the reservation's RetryPolicy

Agents == 1 .. N
Proposals == 1 .. ProposalCount
Vectors == [Resources -> Nat]

\* The action of a child does not compile, or the module does not decide it.
NoCharge == <<>>

NoHost == "none"

Idle == [kind |-> "IDLE", id |-> 0, authentic |-> TRUE]

ASSUME PortfolioAssumption ==
    /\ N \in Nat
    /\ Limit \in Vectors
    /\ \A a \in Agents : /\ DOMAIN HardMax[a] \subseteq Resources
                         /\ \A r \in DOMAIN HardMax[a] : HardMax[a][r] \in 0 .. Limit[r]
    /\ Preferred \in [Agents -> Vectors]
    /\ Mode \in {"PREALLOCATED", "DYNAMIC", "HYBRID"}
    /\ ProposalCount \in Nat
    /\ \A p \in Proposals :
          /\ Proposal[p].agent \in Agents
          /\ Proposal[p].sequence \in Nat
          /\ Proposal[p].demand \in Vectors /\ Proposal[p].minimum \in Vectors
          /\ Proposal[p].utility \in Nat
          /\ Proposal[p].admissible \in BOOLEAN
          /\ MayCharge[p] \subseteq Vectors \cup {NoCharge}
    /\ \A x \in Releases :
          /\ Release[x].agent \in Agents
          /\ Release[x].sequence \in Nat
          /\ Release[x].amounts \in Vectors
    /\ MaxRounds \in Nat
    /\ MaxAttempts \in Nat \ {0}
    /\ NoHost \notin Runs

(***************************************************************************)
(* A valid mandate (checkPortfolioMandate): the preferred allocations are  *)
(* within the hard maxima and, together, within the limits; a DYNAMIC one  *)
(* has none.                                                               *)
(***************************************************************************)
ValidMandate ==
    /\ \A a \in Agents : \A r \in DOMAIN HardMax[a] : Preferred[a][r] <= HardMax[a][r]
    /\ \A r \in Resources : SumTo([a \in Agents |-> Preferred[a][r]], N) <= Limit[r]
    /\ Mode = "DYNAMIC" => \A a \in Agents : \A r \in Resources : Preferred[a][r] = 0

ASSUME MandateAssumption == ValidMandate

VARIABLES
    held,      \* ledger: "none", "active", "closed" or "consumed", per proposal
    charges,   \* ledger: what the reservation of a proposal charges
    revoked,   \* ledger: the mandate's root is revoked
    runs,      \* the calls of runPortfolio
    host,      \* the call inside the Room or the verifier, NoHost if none
    phase,     \* "none", "act", "messages", "decide" or "verify"
    round,
    inbox,     \* the messages of this round not yet looked at, per agent
    book,      \* the allocation book: [allocated, committed, lots, log]
    accepted,  \* the accepted proposals
    seen,      \* the digests seen
    lastProposal, lastRelease,  \* the sequences of the last ones taken, per agent; -1 for none
    byDigest, byRelease,        \* the last submission of each: "none", "good" or "bad"
    oversize,  \* screened proposals refused for their quantity only
    eligible,  \* screened proposals with no reason
    later,     \* eligible ones the agent's unused allocation does not cover
    target     \* the decision just made, if REDUCE_REQUESTED: [proposal, amounts]

roomVars == <<phase, round, inbox, book, accepted, seen, lastProposal, lastRelease, byDigest,
              byRelease, oversize, eligible, later, target>>
vars == <<held, charges, revoked, runs, host, roomVars>>

NoTarget == [proposal |-> 0, amounts |-> [r \in Resources |-> 0]]

-----------------------------------------------------------------------------
(***************************************************************************)
(* The allocation book.  A lot holds what one release, or the unallocated  *)
(* remainder, left of every resource; lots are in creation order.          *)
(***************************************************************************)
AgentCap(a, r) == IF r \in DOMAIN HardMax[a] THEN HardMax[a][r] ELSE Limit[r]

InitialBook ==
    [allocated |-> Preferred,
     committed |-> [a \in Agents |-> [r \in Resources |-> 0]],
     lots      |-> <<[r \in Resources |-> Limit[r] - SumTo([a \in Agents |-> Preferred[a][r]], N)]>>,
     log       |-> <<>>]

Unused(b, a, r) == b.allocated[a][r] - b.committed[a][r]

Pooled(b, r) == SumTo([i \in DOMAIN b.lots |-> b.lots[i][r]], Len(b.lots))

AppliedBefore(b, op) == \E i \in DOMAIN b.log : b.log[i].kind = op.kind /\ b.log[i].id = op.id

MayCommit(b, op) ==
    \A r \in Resources : b.committed[op.agent][r] + op.amounts[r] <= b.allocated[op.agent][r]

MayRelease(b, op) == \A r \in Resources : op.amounts[r] <= Unused(b, op.agent, r)

MayClaim(b, op) ==
    /\ Mode # "PREALLOCATED"
    /\ op.lot \in DOMAIN b.lots
    /\ op.amount > 0 /\ op.amount <= b.lots[op.lot][op.resource]
    /\ b.allocated[op.agent][op.resource] + op.amount <= AgentCap(op.agent, op.resource)

MayApply(b, op) ==
    /\ ~AppliedBefore(b, op)
    /\ CASE op.kind = "COMMIT"  -> MayCommit(b, op)
         [] op.kind = "RELEASE" -> MayRelease(b, op)
         [] op.kind = "CLAIM"   -> MayClaim(b, op)

\* A claim that leaves its lot as it was.
FaultyClaimed(b, op) ==
    [b EXCEPT !.allocated[op.agent][op.resource] = @ + op.amount,
              !.log = Append(@, op)]

Committed(b, op) ==
    [b EXCEPT !.committed[op.agent] = [r \in Resources |-> @[r] + op.amounts[r]],
              !.log = Append(@, op)]

Released(b, op) ==
    [b EXCEPT !.allocated[op.agent] = [r \in Resources |-> @[r] - op.amounts[r]],
              !.lots = Append(@, op.amounts),
              !.log = Append(@, op)]

Claimed(b, op) ==
    [b EXCEPT !.allocated[op.agent][op.resource] = @ + op.amount,
              !.lots[op.lot][op.resource] = @ - op.amount,
              !.log = Append(@, op)]

Apply(b, op) ==
    CASE op.kind = "COMMIT"  -> Committed(b, op)
      [] op.kind = "RELEASE" -> Released(b, op)
      [] op.kind = "CLAIM"   -> Claimed(b, op)

(***************************************************************************)
(* replayAllocation: whether every operation of a log applies, from the    *)
(* initial book, and the book that results.                                *)
(***************************************************************************)
Replay(ops) ==
    LET after[i \in 0 .. Len(ops)] ==
            IF i = 0 THEN [ok |-> TRUE, book |-> InitialBook]
            ELSE IF after[i - 1].ok /\ MayApply(after[i - 1].book, ops[i])
                 THEN [ok |-> TRUE, book |-> Apply(after[i - 1].book, ops[i])]
                 ELSE [ok |-> FALSE, book |-> after[i - 1].book]
    IN  after[Len(ops)]

\* checkBookInvariant.
BookInvariant(b) ==
    /\ \A r \in Resources :
          SumTo([a \in Agents |-> b.allocated[a][r]], N) + Pooled(b, r) = Limit[r]
    /\ \A a \in Agents : \A r \in Resources :
          /\ b.committed[a][r] <= b.allocated[a][r]
          /\ b.allocated[a][r] <= IF Mode = "PREALLOCATED" THEN Preferred[a][r] ELSE AgentCap(a, r)
    /\ \A i \in DOMAIN b.lots : \A r \in Resources : b.lots[i][r] >= 0

\* What the agent could hold, whatever the lots have left.
FaultyObtainable(b, a, r) ==
    Unused(b, a, r) + IF Mode = "PREALLOCATED" THEN 0 ELSE AgentCap(a, r) - b.allocated[a][r]

\* What agent a could commit of r now: its unused allocation and what it may claim.
Obtainable(b, a, r) ==
    LET headroom == AgentCap(a, r) - b.allocated[a][r] IN
    Unused(b, a, r) + (IF Mode = "PREALLOCATED" THEN 0
                       ELSE IF headroom < Pooled(b, r) THEN headroom ELSE Pooled(b, r))

-----------------------------------------------------------------------------
(***************************************************************************)
(* The ledger.  A child is reserved once, ever: its action's identity is   *)
(* its proposal's, closed or not.                                          *)
(***************************************************************************)
Charged == {p \in Proposals : held[p] \in {"active", "consumed"}}

\* What the proposals of ps demand of r, together.
DemandOf(ps, r) ==
    SumTo([p \in Proposals |-> IF p \in ps THEN Proposal[p].demand[r] ELSE 0], ProposalCount)

By(ps, a) == {p \in ps : Proposal[p].agent = a}

\* What the reservations of ps charge of r, together.
ChargeOf(ps, r) ==
    SumTo([p \in Proposals |-> IF p \in ps THEN charges[p][r] ELSE 0], ProposalCount)

Available(r) == Limit[r] - ChargeOf(Charged, r)

OwnAvailable(a, r) == HardMax[a][r] - ChargeOf(By(Charged, a), r)

\* Every commit moves the ledger's version.
Version ==
    Cardinality({p \in Proposals : held[p] # "none"})
        + Cardinality({p \in Proposals : held[p] \in {"closed", "consumed"}})
        + (IF revoked THEN 1 ELSE 0)

LedgerAllows(p, want) ==
    LET a == Proposal[p].agent IN
    /\ ~revoked
    /\ held[p] = "none"
    /\ \A r \in Resources : want[r] <= Available(r)
    /\ \A r \in DOMAIN HardMax[a] : want[r] <= OwnAvailable(a, r)

(***************************************************************************)
(* availabilityFrom, and the headroom the Room and the verifier read of it.*)
(***************************************************************************)
AvailabilityNow ==
    [portfolio |-> [r \in Resources |-> Available(r)],
     agents    |-> [a \in Agents |-> [r \in DOMAIN HardMax[a] |-> OwnAvailable(a, r)]]]

Headroom(av, a, r) ==
    IF r \in DOMAIN av.agents[a] /\ av.agents[a][r] <= av.portfolio[r]
    THEN av.agents[a][r] ELSE av.portfolio[r]

(***************************************************************************)
(* screenProposal: an authentic proposal derives a child unless its demand *)
(* or anything else of it is beyond the agent or the portfolio.            *)
(***************************************************************************)
Message ==
    {Idle} \cup [kind : {"PROPOSE"}, id : Proposals, authentic : BOOLEAN]
           \cup [kind : {"RELEASE"}, id : Releases, authentic : BOOLEAN]

Signature(m) == IF m.authentic THEN "good" ELSE "bad"

WithinMandate(p) ==
    /\ \A r \in DOMAIN HardMax[Proposal[p].agent] :
          Proposal[p].demand[r] <= HardMax[Proposal[p].agent][r]
    /\ \A r \in Resources : Proposal[p].demand[r] <= Limit[r]

Derivable(p) == Proposal[p].admissible /\ WithinMandate(p)

QuantityOnly(p) == Proposal[p].admissible /\ ~WithinMandate(p)

-----------------------------------------------------------------------------
NoRunYet ==
    [pc |-> "idle", avail |-> AvailabilityNow, before |-> {}, todo |-> {}, child |-> 0,
     charge |-> NoCharge, version |-> 0, attempt |-> 0, got |-> {}, refused |-> {}]

EmptyRoom ==
    /\ phase' = "none"
    /\ round' = 0
    /\ inbox' = [a \in Agents |-> Idle]
    /\ book' = InitialBook
    /\ accepted' = {} /\ seen' = {}
    /\ lastProposal' = [a \in Agents |-> -1] /\ lastRelease' = [a \in Agents |-> -1]
    /\ byDigest' = [p \in Proposals |-> "none"] /\ byRelease' = [x \in Releases |-> "none"]
    /\ oversize' = {} /\ eligible' = {} /\ later' = {}
    /\ target' = NoTarget

Init ==
    /\ held = [p \in Proposals |-> "none"]
    /\ charges = [p \in Proposals |-> [r \in Resources |-> 0]]
    /\ revoked = FALSE
    /\ runs = [n \in Runs |-> NoRunYet]
    /\ host = NoHost
    /\ phase = "none"
    /\ round = 0
    /\ inbox = [a \in Agents |-> Idle]
    /\ book = InitialBook
    /\ accepted = {} /\ seen = {}
    /\ lastProposal = [a \in Agents |-> -1] /\ lastRelease = [a \in Agents |-> -1]
    /\ byDigest = [p \in Proposals |-> "none"] /\ byRelease = [x \in Releases |-> "none"]
    /\ oversize = {} /\ eligible = {} /\ later = {}
    /\ target = NoTarget

(***************************************************************************)
(* runPortfolio, up to the Room: read what the ledger has room for.        *)
(***************************************************************************)
Start(n) ==
    /\ host = NoHost
    /\ runs[n].pc = "idle"
    /\ runs' = [runs EXCEPT ![n] =
                   [NoRunYet EXCEPT !.pc = "room",
                                    !.before = {p \in Proposals : held[p] # "none"}]]
    /\ host' = n
    /\ phase' = "act"
    /\ UNCHANGED <<held, charges, revoked, round, inbox, book, accepted, seen, lastProposal,
                   lastRelease, byDigest, byRelease, oversize, eligible, later, target>>

-----------------------------------------------------------------------------
(***************************************************************************)
(* The Room, one round after another.  Every round the agents speak; the   *)
(* Room stops when all are idle or the rounds are used up.  It then takes  *)
(* the releases in agent order, screens the proposals in digest order and  *)
(* decides them.  Nothing of it is visible to another call.                *)
(***************************************************************************)
Act ==
    /\ phase = "act"
    /\ \/ /\ round < MaxRounds
          /\ \E said \in [Agents -> Message] :
                /\ \A a \in Agents : said[a] \in Says[a] \cup {Idle}
                /\ IF \A a \in Agents : said[a] = Idle
                   THEN phase' = "verify" /\ UNCHANGED <<round, inbox>>
                   ELSE phase' = "messages" /\ round' = round + 1 /\ inbox' = said
       \/ /\ round = MaxRounds
          /\ phase' = "verify"
          /\ UNCHANGED <<round, inbox>>
    /\ UNCHANGED <<held, charges, revoked, runs, host, book, accepted, seen, lastProposal,
                   lastRelease, byDigest, byRelease, oversize, eligible, later, target>>

ReleaseOp(x) ==
    [kind |-> "RELEASE", id |-> x, agent |-> Release[x].agent, amounts |-> Release[x].amounts]

Releasing == {a \in Agents : inbox[a].kind = "RELEASE"}

First(x, S) == x \in S /\ \A y \in S : x <= y

HandleRelease ==
    /\ phase = "messages"
    /\ \E sender \in Agents :
       LET x       == inbox[sender].id
           owner   == Release[x].agent
           applies == /\ owner = sender
                      /\ inbox[sender].authentic
                      /\ Release[x].sequence > lastRelease[owner]
                      /\ MayApply(book, ReleaseOp(x))
       IN  /\ First(sender, Releasing)
           /\ byRelease' = [byRelease EXCEPT ![x] = Signature(inbox[sender])]
           /\ book' = IF applies THEN Apply(book, ReleaseOp(x)) ELSE book
           /\ lastRelease' = IF applies
                             THEN [lastRelease EXCEPT ![owner] = Release[x].sequence]
                             ELSE lastRelease
           /\ inbox' = [inbox EXCEPT ![sender] = Idle]
    /\ UNCHANGED <<held, charges, revoked, runs, host, phase, round, accepted, seen, lastProposal,
                   byDigest, oversize, eligible, later, target>>

Proposing == {a \in Agents : inbox[a].kind = "PROPOSE"}

\* The sender of the next proposal in digest order, then in agent order.
NextSender(a) ==
    /\ a \in Proposing
    /\ \A b \in Proposing : \/ inbox[a].id < inbox[b].id
                            \/ inbox[a].id = inbox[b].id /\ a <= b

\* A screening that takes a sequence the agent has already used.
FaultyReplayed(p, authentic) == p \in seen

Replayed(p, authentic) ==
    \/ p \in seen
    \/ authentic /\ Proposal[p].sequence <= lastProposal[Proposal[p].agent]

Screen ==
    /\ phase = "messages"
    /\ Releasing = {}
    /\ \E sender \in Agents :
       LET m     == inbox[sender]
           p     == m.id
           agent == Proposal[p].agent
           extra == agent # sender \/ Replayed(p, m.authentic)
       IN  /\ NextSender(sender)
           /\ byDigest' = [byDigest EXCEPT ![p] = Signature(m)]
           /\ seen' = seen \cup {p}
           /\ lastProposal' =
                 [lastProposal EXCEPT ![agent] =
                     IF m.authentic /\ Proposal[p].sequence > @ THEN Proposal[p].sequence ELSE @]
           /\ eligible' = IF m.authentic /\ Derivable(p) /\ ~extra
                          THEN eligible \cup {p} ELSE eligible
           /\ oversize' = IF m.authentic /\ QuantityOnly(p) /\ ~extra
                          THEN oversize \cup {p} ELSE oversize
           /\ inbox' = [inbox EXCEPT ![sender] = Idle]
    /\ UNCHANGED <<held, charges, revoked, runs, host, phase, round, book, accepted, lastRelease,
                   byRelease, later, target>>

EndScreening ==
    /\ phase = "messages"
    /\ Releasing = {} /\ Proposing = {}
    /\ phase' = "decide"
    /\ UNCHANGED <<held, charges, revoked, runs, host, round, inbox, book, accepted, seen,
                   lastProposal, lastRelease, byDigest, byRelease, oversize, eligible, later,
                   target>>

-----------------------------------------------------------------------------
(***************************************************************************)
(* Decisions: first the proposals refused for their quantity, then the     *)
(* ones an unused allocation covers, in digest order, then the rest by     *)
(* utility.  A demand the allocation does not cover is claimed from the    *)
(* lots in creation order; one step here is one operation on the book.     *)
(***************************************************************************)
Demanded(p) == {r \in Resources : Proposal[p].demand[r] > 0}

Lacking(p, r) == Proposal[p].demand[r] - Unused(book, Proposal[p].agent, r)

Covered(p) == \A r \in Demanded(p) : Lacking(p, r) <= 0

\* fitsLedger, of a demand of agent a.
FitsLedger(a, want) ==
    LET av == runs[host].avail IN
    \A r \in Resources :
        want[r] > 0 =>
            /\ DemandOf(accepted, r) + want[r] <= av.portfolio[r]
            /\ DemandOf(By(accepted, a), r) + want[r] <= Headroom(av, a, r)

\* plan succeeds: every claim it makes of the lots, and the commit, apply.
CanPlan(a, want) ==
    \A r \in Resources :
        LET lacking == want[r] - Unused(book, a, r) IN
        lacking > 0 => /\ Mode # "PREALLOCATED"
                       /\ lacking <= Pooled(book, r)
                       /\ book.allocated[a][r] + lacking <= AgentCap(a, r)

TargetFor(p) ==
    LET a  == Proposal[p].agent
        av == runs[host].avail
        Most(r) == Min({Obtainable(book, a, r),
                        Headroom(av, a, r) - DemandOf(By(accepted, a), r),
                        av.portfolio[r] - DemandOf(accepted, r)})
    IN  [r \in Resources |-> IF r \in Demanded(p) /\ Most(r) > 0 THEN Most(r) ELSE 0]

\* REDUCE_REQUESTED with a target that leaves the agent its minimum, else REJECTED.
ReduceOrReject(p) ==
    LET t == TargetFor(p) IN
    target' = IF /\ \A r \in Demanded(p) : t[r] >= Proposal[p].minimum[r]
                 /\ \E r \in Resources : t[r] > 0
              THEN [proposal |-> p, amounts |-> t] ELSE NoTarget

CommitOp(p) ==
    [kind |-> "COMMIT", id |-> p, agent |-> Proposal[p].agent, amounts |-> Proposal[p].demand]

Accept(p) ==
    /\ MayApply(book, CommitOp(p))
    /\ book' = Apply(book, CommitOp(p))
    /\ accepted' = accepted \cup {p}
    /\ target' = NoTarget

DecideOversize ==
    /\ phase = "decide"
    /\ \E p \in oversize :
          /\ First(p, oversize)
          /\ ReduceOrReject(p)
          /\ oversize' = oversize \ {p}
    /\ UNCHANGED <<held, charges, revoked, runs, host, phase, round, inbox, book, accepted, seen,
                   lastProposal, lastRelease, byDigest, byRelease, eligible, later>>

DecideEligible ==
    /\ phase = "decide"
    /\ oversize = {}
    /\ \E p \in eligible :
       /\ First(p, eligible)
       /\ eligible' = eligible \ {p}
       /\ \/ /\ Covered(p) /\ FitsLedger(Proposal[p].agent, Proposal[p].demand)
             /\ Accept(p)
             /\ UNCHANGED later
          \/ /\ ~(Covered(p) /\ FitsLedger(Proposal[p].agent, Proposal[p].demand))
             /\ later' = later \cup {p}
             /\ target' = NoTarget
             /\ UNCHANGED <<book, accepted>>
    /\ UNCHANGED <<held, charges, revoked, runs, host, phase, round, inbox, seen, lastProposal,
                   lastRelease, byDigest, byRelease, oversize>>

\* The most useful one, then the first by digest.
Preferable(p) ==
    \A q \in later : \/ Proposal[p].utility > Proposal[q].utility
                     \/ Proposal[p].utility = Proposal[q].utility /\ p <= q

\* planClaims: what p lacks of r, from the first lot that has some.
ClaimOp(p, r, lot) ==
    [kind |-> "CLAIM", id |-> <<p, r, lot>>, agent |-> Proposal[p].agent, lot |-> lot,
     resource |-> r,
     amount |-> IF book.lots[lot][r] < Lacking(p, r) THEN book.lots[lot][r] ELSE Lacking(p, r)]

DecideLater ==
    /\ phase = "decide"
    /\ oversize = {} /\ eligible = {}
    /\ \E p \in later :
       LET a == Proposal[p].agent
           planned == FitsLedger(a, Proposal[p].demand) /\ CanPlan(a, Proposal[p].demand)
       IN  /\ Preferable(p)
           /\ \/ /\ planned /\ Covered(p)
                 /\ Accept(p)
                 /\ later' = later \ {p}
              \/ /\ planned
                 /\ \E r \in Demanded(p), lot \in DOMAIN book.lots :
                       /\ Lacking(p, r) > 0
                       /\ First(lot, {i \in DOMAIN book.lots : book.lots[i][r] > 0})
                       /\ MayApply(book, ClaimOp(p, r, lot))
                       /\ book' = Apply(book, ClaimOp(p, r, lot))
                 /\ target' = NoTarget
                 /\ UNCHANGED <<accepted, later>>
              \/ /\ ~planned
                 /\ ReduceOrReject(p)
                 /\ later' = later \ {p}
                 /\ UNCHANGED <<book, accepted>>
    /\ UNCHANGED <<held, charges, revoked, runs, host, phase, round, inbox, seen, lastProposal,
                   lastRelease, byDigest, byRelease, oversize, eligible>>

EndRound ==
    /\ phase = "decide"
    /\ oversize = {} /\ eligible = {} /\ later = {}
    /\ phase' = "act"
    /\ target' = NoTarget
    /\ UNCHANGED <<held, charges, revoked, runs, host, round, inbox, book, accepted, seen,
                   lastProposal, lastRelease, byDigest, byRelease, oversize, eligible, later>>

-----------------------------------------------------------------------------
(***************************************************************************)
(* verifyPortfolio: every accepted proposal screened again, as it was last *)
(* submitted; the operations replayed from the initial book; releases      *)
(* genuine and in sequence; every accepted demand committed exactly, once, *)
(* and nothing else; and all of it within what the ledger had room for.    *)
(***************************************************************************)
OpsOf(kind) == {i \in DOMAIN book.log : book.log[i].kind = kind}

ProposalsVerified ==
    \A p \in accepted :
        /\ byDigest[p] = "good" /\ Derivable(p)
        /\ \A q \in By(accepted, Proposal[p].agent) :
              q # p => Proposal[q].sequence # Proposal[p].sequence

ReleasesVerified ==
    \A i \in OpsOf("RELEASE") :
        LET x == book.log[i].id IN
        /\ byRelease[x] = "good"
        /\ book.log[i].agent = Release[x].agent /\ book.log[i].amounts = Release[x].amounts
        /\ \A j \in OpsOf("RELEASE") :
              j < i /\ book.log[j].agent = book.log[i].agent
                  => Release[book.log[j].id].sequence < Release[x].sequence

ClaimsVerified ==
    \A i, j \in OpsOf("CLAIM") : book.log[i].id = book.log[j].id => i = j

CommitsVerified ==
    /\ \A i \in OpsOf("COMMIT") : /\ book.log[i].id \in accepted
                                  /\ book.log[i] = CommitOp(book.log[i].id)
    /\ \A p \in accepted : Cardinality({i \in OpsOf("COMMIT") : book.log[i].id = p}) = 1

AvailabilityVerified ==
    LET av == runs[host].avail IN
    \A r \in Resources :
        /\ DemandOf(accepted, r) <= av.portfolio[r]
        /\ \A a \in Agents : DemandOf(By(accepted, a), r) <= Headroom(av, a, r)

Verified ==
    /\ Replay(book.log).ok /\ BookInvariant(Replay(book.log).book)
    /\ ProposalsVerified /\ ReleasesVerified /\ ClaimsVerified /\ CommitsVerified
    /\ AvailabilityVerified

Verify ==
    /\ phase = "verify"
    /\ runs' = [runs EXCEPT ![host] =
                   [runs[host] EXCEPT !.pc = "reserve",
                                      !.todo = IF Verified THEN accepted ELSE {}]]
    /\ host' = NoHost
    /\ EmptyRoom
    /\ UNCHANGED <<held, charges, revoked>>

-----------------------------------------------------------------------------
(***************************************************************************)
(* The verified children are reserved one at a time, each by a pure        *)
(* decision, then by attempts that read, decide and append at the version  *)
(* read.  The request is built once, from the account's state as it is     *)
(* then.  refused keeps the children a decision refused; one that lost     *)
(* every attempt (LEDGER_CONFLICT) is dropped.  The transcript is verified *)
(* again before each child, with the answer it had.                        *)
(***************************************************************************)
Reserving(n, pc) == host = NoHost /\ runs[n].pc = pc

Refuse(n) ==
    runs' = [runs EXCEPT ![n] =
                [runs[n] EXCEPT !.pc = "reserve", !.refused = @ \cup {runs[n].child},
                                !.child = 0, !.charge = NoCharge, !.attempt = 0, !.version = 0]]

\* requestFor, of a child still to be reserved.
TakeChild(n) ==
    /\ Reserving(n, "reserve")
    /\ \E p \in runs[n].todo : \E charge \in MayCharge[p] :
          runs' = [runs EXCEPT ![n] =
                      [runs[n] EXCEPT !.pc = "decide", !.child = p, !.charge = charge,
                                      !.todo = @ \ {p}]]
    /\ UNCHANGED <<held, charges, revoked, host, roomVars>>

\* The engine's decision on the child's request.
Decides(n) == runs[n].charge # NoCharge /\ LedgerAllows(runs[n].child, runs[n].charge)

\* A reservation of whatever the module charges.
FaultyExact(p, charge) == TRUE

\* The module reserves exactly what the Room approved (else RESERVATION_DEMAND_MISMATCH).
Exact(p, charge) == charge = Proposal[p].demand

DecideChild(n) ==
    /\ Reserving(n, "decide")
    /\ LET reservable == Decides(n) /\ Exact(runs[n].child, runs[n].charge) IN
       \/ /\ reservable
          /\ runs' = [runs EXCEPT ![n] = [runs[n] EXCEPT !.pc = "attempt", !.attempt = 1]]
       \/ /\ ~reservable
          /\ Refuse(n)
    /\ UNCHANGED <<held, charges, revoked, host, roomVars>>

Attempt(n) ==
    /\ Reserving(n, "attempt")
    /\ \/ /\ Decides(n)
          /\ runs' = [runs EXCEPT ![n] = [runs[n] EXCEPT !.pc = "append", !.version = Version]]
       \/ /\ ~Decides(n)
          /\ Refuse(n)
    /\ UNCHANGED <<held, charges, revoked, host, roomVars>>

CompareAndAppend(n) ==
    /\ Reserving(n, "append")
    /\ \/ /\ runs[n].version = Version
          /\ held' = [held EXCEPT ![runs[n].child] = "active"]
          /\ charges' = [charges EXCEPT ![runs[n].child] = runs[n].charge]
          /\ UNCHANGED revoked
          /\ runs' = [runs EXCEPT ![n] =
                         [runs[n] EXCEPT !.pc = "reserve", !.got = @ \cup {runs[n].child},
                                         !.child = 0, !.charge = NoCharge, !.attempt = 0,
                                         !.version = 0]]
       \/ /\ runs[n].version # Version /\ runs[n].attempt < MaxAttempts
          /\ runs' = [runs EXCEPT ![n] =
                         [runs[n] EXCEPT !.pc = "attempt", !.attempt = @ + 1, !.version = 0]]
          /\ UNCHANGED <<held, charges, revoked>>
       \/ /\ runs[n].version # Version /\ runs[n].attempt = MaxAttempts
          /\ runs' = [runs EXCEPT ![n] =
                         [runs[n] EXCEPT !.pc = "reserve",
                                         !.child = 0, !.charge = NoCharge, !.attempt = 0,
                                         !.version = 0]]
          /\ UNCHANGED <<held, charges, revoked>>
    /\ UNCHANGED <<host, roomVars>>

\* The executor, the gateway or an operator settles an active reservation.
Close(p) ==
    /\ host = NoHost
    /\ held[p] = "active"
    /\ held' = [held EXCEPT ![p] = "closed"]
    /\ UNCHANGED <<charges, revoked, runs, host, roomVars>>

Consume(p) ==
    /\ host = NoHost
    /\ held[p] = "active"
    /\ held' = [held EXCEPT ![p] = "consumed"]
    /\ UNCHANGED <<charges, revoked, runs, host, roomVars>>

\* The principal revokes the mandate's root.
Revoke ==
    /\ host = NoHost
    /\ ~revoked
    /\ revoked' = TRUE
    /\ UNCHANGED <<held, charges, runs, host, roomVars>>

RoomStep ==
    \/ Act \/ HandleRelease \/ Screen \/ EndScreening
    \/ DecideOversize \/ DecideEligible \/ DecideLater \/ EndRound
    \/ Verify

Next ==
    \/ RoomStep
    \/ \E n \in Runs : Start(n) \/ TakeChild(n) \/ DecideChild(n) \/ Attempt(n) \/ CompareAndAppend(n)
    \/ \E p \in Proposals : Close(p) \/ Consume(p)
    \/ Revoke

Spec == Init /\ [][Next]_vars

-----------------------------------------------------------------------------
(***************************************************************************)
(* However proposals, releases and claims interleave, no atom of a limit   *)
(* is held twice or lost: what the agents are allocated and what the lots  *)
(* hold always add up to the limit, commitments stay within allocations    *)
(* and allocations within each agent's own maximum (checkBookInvariant;    *)
(* "Empty for any book applyAllocation produced from initialBook").        *)
(***************************************************************************)
BookConserved == BookInvariant(book)

(***************************************************************************)
(* The verifier, which trusts nothing of the Room, accepts what the Room   *)
(* produced.  The one exception: an accepted proposal, or an applied       *)
(* release, sent once more under a bad signature.  The Room ignores the    *)
(* second copy as a replay; the verifier's maps keep the last copy of a    *)
(* digest (verifier.ts 129, 158), so it refuses the whole Room.            *)
(***************************************************************************)
RoomVerifies ==
    phase = "verify" =>
        \/ Verified
        \/ \E p \in accepted : byDigest[p] = "bad"
        \/ \E i \in OpsOf("RELEASE") : byRelease[book.log[i].id] = "bad"

(***************************************************************************)
(* A REDUCE_REQUESTED target is the most there is: proposed now, the       *)
(* target would be accepted by the very checks that refused the demand,    *)
(* and one more atom of any demanded resource would not, nor would the     *)
(* demand itself.                                                          *)
(***************************************************************************)
ReductionTargetIsMost ==
    target # NoTarget =>
        LET a == Proposal[target.proposal].agent
            Acceptable(want) == FitsLedger(a, want) /\ CanPlan(a, want)
        IN  /\ Acceptable(target.amounts)
            /\ \A r \in Demanded(target.proposal) :
                  ~Acceptable([target.amounts EXCEPT ![r] = @ + 1])
            /\ ~Acceptable(Proposal[target.proposal].demand)

(***************************************************************************)
(* A verified child whose action charges exactly what its agent declared   *)
(* is refused only for staleness: it was reserved before, ever, another    *)
(* call's reservation landed after this call read what the ledger had room *)
(* for, or the mandate is revoked.  On an unchanged ledger, Room, verifier *)
(* and ledger disagree only about a child the module does not decide or    *)
(* one that misstates its demand; that child is refused itself             *)
(* (RESERVATION_DEMAND_MISMATCH), and never makes the ledger refuse the    *)
(* honest children verified with it.                                       *)
(***************************************************************************)
HonestRefusedOnlyWhenStale ==
    [][\A n \in Runs : \A p \in runs'[n].refused \ runs[n].refused :
          \/ runs[n].charge = NoCharge
          \/ runs[n].charge # Proposal[p].demand
          \/ held[p] # "none" \/ revoked
          \/ \E q \in Proposals : /\ held[q] # "none"
                                  /\ q \notin runs[n].before \cup runs[n].got]_vars
=============================================================================
