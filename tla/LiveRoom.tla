------------------------------ MODULE LiveRoom ------------------------------
(***************************************************************************)
(* The live Mandate Room (packages/live-agents/src/room): agents whose     *)
(* valid proposals compete for shared authority are asked, generation by   *)
(* generation, to keep, reduce or release what they requested.             *)
(*                                                                         *)
(* All the calls of a generation are in flight at once.  A reply lands in  *)
(* a callback, at any time: in its generation, after its own timeout,      *)
(* after the generation closed, or in a later generation.  The Room closes *)
(* a generation as soon as the answers so far, everyone else unchanged,    *)
(* fit; when nobody is pending; or when the mandate is superseded.         *)
(*                                                                         *)
(* An agent's size is a natural number of atoms, and it demands that many  *)
(* of every resource it uses.                                              *)
(***************************************************************************)
EXTENDS Integers, FiniteSets, FiniteSetsExt

CONSTANTS
    Roles,          \* the agents
    Resources,      \* the portfolio's shared resources
    Uses,           \* Uses[q]: the agents whose candidates demand resource q
    Limit,          \* Limit[q]: what the ledger has left of resource q
    Own,            \* Own[r]: what the ledger has left of agent r's own limit
    Minimum,        \* Minimum[r]: the least size of agent r's candidate
    Resizable,      \* the agents whose candidate may be reduced
    MaxGenerations  \* maxGenerations of RoomDeps

ASSUME RoomAssumption ==
    /\ IsFiniteSet(Roles)
    /\ Uses \in [Resources -> SUBSET Roles]
    /\ Limit \in [Resources -> Nat]
    /\ Own \in [Roles -> Nat]
    /\ Minimum \in [Roles -> Nat \ {0}]
    /\ Resizable \subseteq Roles
    /\ MaxGenerations \in Nat \ {0}

VARIABLES
    status,     \* "none" or "open"
    requests,   \* the size each agent asks for now; 0: not a participant, or released
    askable,    \* the agents competing for a shared resource
    generation, \* GenerationGate.#generation
    answers,    \* this generation's answers: a partial function on Roles
    pending,    \* the agents of this generation that neither answered nor timed out
    calls,      \* provider calls that have not returned: <<agent, generation>>
    closed,     \* round.closed, "no" for null
    aborted     \* the epoch's AbortSignal: the mandate was superseded or paused

roomVars == <<status, requests, askable, generation, answers, pending, calls, closed>>

NoAnswers == [r \in {} |-> 0]
NoRequests == [r \in Roles |-> 0]

RoomTypeOK ==
    /\ status \in {"none", "open"}
    /\ requests \in [Roles -> Nat]
    /\ askable \subseteq Roles
    /\ generation \in 0 .. MaxGenerations
    /\ DOMAIN answers \subseteq Roles
    /\ \A r \in DOMAIN answers : answers[r] \in Nat
    /\ pending \subseteq Roles
    /\ calls \subseteq Roles \X (1 .. MaxGenerations)
    /\ closed \in {"no", "FEASIBLE", "ALL_ANSWERED", "SUPERSEDED"}
    /\ aborted \in BOOLEAN

RoomInit ==
    /\ status = "none"
    /\ requests = NoRequests
    /\ askable = {}
    /\ generation = 0
    /\ answers = NoAnswers
    /\ pending = {}
    /\ calls = {}
    /\ closed = "no"
    /\ aborted = FALSE

-----------------------------------------------------------------------------
(***************************************************************************)
(* What a set of requests demands (assess, classifyConflict).              *)
(***************************************************************************)
DemandOn(q, reqs) == MapThenSumSet(LAMBDA r : reqs[r], Uses[q])

Over(q, reqs) == DemandOn(q, reqs) > Limit[q]

OverOwnLimit(r, reqs) == reqs[r] > Own[r] /\ \E q \in Resources : r \in Uses[q]

Feasible(reqs) ==
    /\ \A q \in Resources : ~Over(q, reqs)
    /\ \A r \in Roles : ~OverOwnLimit(r, reqs)

Demanders(q, reqs) == {r \in Uses[q] : reqs[r] > 0}

(***************************************************************************)
(* The agents in excess on their own: over their own limit, or the only    *)
(* demander of a resource that is over.  No Room opens for them.           *)
(***************************************************************************)
LocalExcess(reqs) ==
    {r \in Roles : \/ OverOwnLimit(r, reqs)
                   \/ \E q \in Resources : Over(q, reqs) /\ Demanders(q, reqs) = {r}}

(***************************************************************************)
(* The agents competing for a resource that is over and that several want. *)
(***************************************************************************)
SharedParties(reqs) ==
    UNION {Demanders(q, reqs) : q \in {p \in Resources :
                Over(p, reqs) /\ Cardinality(Demanders(p, reqs)) > 1}}

(***************************************************************************)
(* The sizes at which agent r, everyone else unchanged, is no longer in    *)
(* excess on its own; the code's binary search finds the largest.          *)
(***************************************************************************)
FittingSizes(r, reqs) ==
    {n \in Minimum[r] .. reqs[r] : r \notin LocalExcess([reqs EXCEPT ![r] = n])}

-----------------------------------------------------------------------------
(***************************************************************************)
(* The generation's tentative requests, and whether it closes on them.     *)
(***************************************************************************)
Tentative(ans) == [r \in Roles |-> IF r \in DOMAIN ans THEN ans[r] ELSE requests[r]]

\* A close that forgets the generation nobody is left to answer.
FaultyTryClose(reqs, waiting) == IF Feasible(reqs) THEN "FEASIBLE" ELSE "no"

TryClose(reqs, waiting) ==
    IF Feasible(reqs) THEN "FEASIBLE"
    ELSE IF waiting = {} THEN "ALL_ANSWERED"
    ELSE "no"

(***************************************************************************)
(* Open generation g over reqs: every askable agent still asking for       *)
(* something is called, and the generation may close before any reply.     *)
(***************************************************************************)
OpenGeneration(g, reqs, asked) ==
    LET active == {r \in asked : reqs[r] > 0} IN
    /\ requests' = reqs
    /\ askable' = asked
    /\ generation' = g
    /\ answers' = NoAnswers
    /\ pending' = active
    /\ calls' = calls \cup (active \X {g})
    /\ closed' = TryClose(reqs, active)
    /\ status' = "open"

OpenRoom(reqs) == OpenGeneration(1, reqs, SharedParties(reqs))

(***************************************************************************)
(* The negotiation replies the parser accepts from agent r: KEEP and       *)
(* ABSTAIN leave its request, RELEASE gives all of it up, REDUCE lowers it *)
(* to no less than the candidate's minimum.                                *)
(***************************************************************************)
Replies(r) ==
    {0, requests[r]}
        \cup {n \in 1 .. requests[r] - 1 : r \in Resizable /\ n >= Minimum[r]}

\* A callback that does not look at round.closed before it records the answer.
FaultyCurrent(c) == status = "open" /\ c[2] = generation /\ c[1] \in pending

(***************************************************************************)
(* The reply counts only in the generation it answers, while that is open. *)
(***************************************************************************)
Current(c) == status = "open" /\ c[2] = generation /\ closed = "no" /\ c[1] \in pending

Reply(c, n) ==
    /\ c \in calls
    /\ calls' = calls \ {c}
    /\ IF Current(c)
       THEN LET ans == [r \in DOMAIN answers \cup {c[1]} |->
                            IF r = c[1] THEN n ELSE answers[r]]
            IN  /\ answers' = ans
                /\ pending' = pending \ {c[1]}
                /\ closed' = IF closed = "no"
                             THEN TryClose(Tentative(ans), pending \ {c[1]}) ELSE closed
       ELSE UNCHANGED <<answers, pending, closed>>
    /\ UNCHANGED <<status, requests, askable, generation, aborted>>

(***************************************************************************)
(* A reply that fails or does not parse leaves the agent unchanged.        *)
(***************************************************************************)
BadReply(c) ==
    /\ c \in calls
    /\ Current(c)
    /\ calls' = calls \ {c}
    /\ pending' = pending \ {c[1]}
    /\ closed' = TryClose(Tentative(answers), pending \ {c[1]})
    /\ UNCHANGED <<status, requests, askable, generation, answers, aborted>>

(***************************************************************************)
(* The round's timer fires for agent r.  Its provider call stays in flight *)
(* and may land later.                                                     *)
(***************************************************************************)
TimeOut(r) ==
    /\ status = "open"
    /\ closed = "no"
    /\ r \in pending
    /\ pending' = pending \ {r}
    /\ closed' = TryClose(Tentative(answers), pending \ {r})
    /\ UNCHANGED <<status, requests, askable, generation, answers, calls, aborted>>

(***************************************************************************)
(* What an abort of the epoch does to an open generation.                  *)
(***************************************************************************)
OnAbort ==
    /\ aborted' = TRUE
    /\ closed' = IF status = "open" /\ closed = "no" THEN "SUPERSEDED" ELSE closed
    /\ UNCHANGED <<status, requests, askable, generation, answers, pending, calls>>

(***************************************************************************)
(* The coordinator resumes after a close: the answers are applied, and the *)
(* Room finishes or opens another generation.                              *)
(***************************************************************************)
LastGeneration == generation = MaxGenerations

RoomResult ==
    CASE closed = "SUPERSEDED"                    -> "SUPERSEDED"
      [] closed # "SUPERSEDED" /\ Feasible(Tentative(answers)) -> "PROPOSED"
      [] OTHER -> IF LastGeneration THEN "NO_FEASIBLE_PORTFOLIO"
                  ELSE IF aborted THEN "SUPERSEDED" ELSE "open"

NextGeneration ==
    /\ status = "open"
    /\ closed # "no"
    /\ RoomResult = "open"
    /\ OpenGeneration(generation + 1, Tentative(answers), askable)
    /\ UNCHANGED aborted

(***************************************************************************)
(* The Room is finalized, and its caller goes on with RoomResult and the   *)
(* tentative requests.  Replies still in flight reach a finalized gate,    *)
(* which ignores them, so the model drops them here.                       *)
(***************************************************************************)
ResetRoom ==
    /\ status' = "none"
    /\ requests' = NoRequests
    /\ askable' = {}
    /\ generation' = 0
    /\ answers' = NoAnswers
    /\ pending' = {}
    /\ calls' = {}
    /\ closed' = "no"

FinishRoom ==
    /\ status = "open"
    /\ closed # "no"
    /\ RoomResult # "open"
    /\ ResetRoom

RoomStep ==
    \/ \E c \in calls : \E n \in Replies(c[1]) : Reply(c, n)
    \/ \E c \in calls : BadReply(c)
    \/ \E r \in Roles : TimeOut(r)
    \/ NextGeneration

-----------------------------------------------------------------------------
(***************************************************************************)
(* A Room never takes more than the conflict needs: when a generation      *)
(* closes because the answers fit, some answer was necessary, that is,     *)
(* with that agent's request put back the others would not have fitted.    *)
(* It fails if a reply that lands between the close and the coordinator's  *)
(* resumption is still recorded.                                           *)
(***************************************************************************)
NoNeedlessReduction ==
    (status = "open" /\ closed = "FEASIBLE") =>
        \E r \in DOMAIN answers :
            ~Feasible([Tentative(answers) EXCEPT ![r] = requests[r]])

(***************************************************************************)
(* A Room cannot hang: while a generation is open, some agent is still     *)
(* pending, so a reply or its round's timer is still to come, whatever was *)
(* lost, late, invalid or released.                                        *)
(***************************************************************************)
RoomCanClose == (status = "open" /\ closed = "no") => pending # {}

=============================================================================
