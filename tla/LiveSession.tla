----------------------------- MODULE LiveSession ----------------------------
(***************************************************************************)
(* A live agent session (packages/live-agents/src): the mandate versions a *)
(* principal authorizes, the runs and policy-stress tests that reserve     *)
(* under the active version, pause, the durable session store and restore  *)
(* after a crash.                                                          *)
(*                                                                         *)
(* One process, several asynchronous activities: at most one authorization *)
(* (commit), one pause and one run are in flight, and they interleave at   *)
(* every await.  Two durable stores change separately: the ledger (roots   *)
(* and reservations, AuthorityLedger) and session.db (db below).  A crash  *)
(* may fall between any two writes, also inside one synchronous section    *)
(* (TornWrites).                                                           *)
(*                                                                         *)
(* Every prepare compiles a new mandate (its expiry is read from the       *)
(* clock), so a mandate is a number: its place in `mandates'.  A plan      *)
(* commitment embeds the digest of its mandate, so it is that number too.  *)
(***************************************************************************)
EXTENDS LiveRoom, Sequences, SequencesExt

CONSTANTS
    Sizes,        \* the sizes discovery may find an agent's proposal to have
    Coordinated,  \* the mandates whose draft lets agents re-divide capital
    Methods,      \* the ways of authorizing the principal uses
    MaxMandates,  \* bound on prepared mandates
    MaxEpochs,    \* MAX_EPOCHS
    MaxRuns,      \* bound on runs and policy-stress tests
    MaxPlans,     \* bound on planning passes
    MaxCrashes    \* bound on crashes

Mandates == 1 .. MaxMandates

ASSUME SessionAssumption ==
    /\ Sizes \subseteq Nat
    /\ Coordinated \subseteq Mandates
    /\ Methods \subseteq {"KEY", "WALLET", "PLAN"}
    /\ {MaxMandates, MaxEpochs, MaxRuns, MaxPlans, MaxCrashes} \subseteq Nat

VARIABLES
    mandates,     \* the prepared mandates: [version, method]
    roots,        \* ledger: "absent", "live" or "revoked", per mandate
    reservations, \* ledger: [mandate, role, phase, run]
    db,           \* session.db
    mode,         \* "running", "down", "restored" or "unrestorable"
    versions,     \* MandateVersions.#entries: [mandate, status]
    paused,       \* MandateVersions.#paused
    reserved,     \* MandateVersions.#reserved
    reserving,    \* MandateVersions.#reserving
    executions,   \* LiveSession.#reserved
    orphans,      \* LiveSession.orphans
    challenges,   \* ChallengeBook: "none", "open" or "spent", per mandate
    commit,       \* the authorization in flight: [pc, mandate]; pc # "idle" is #busy
    pause,        \* the pause in flight: [pc, version]
    run,          \* the run in flight: [pc, version, epoch, phase, items, got]
    runs,         \* runs started
    crashes,      \* crashes so far
    unmarked      \* history: the executions of the passes that threw before they were marked

ledger == <<roots, reservations>>
memory == <<versions, paused, reserved, reserving, executions, orphans, challenges>>
vars == <<mandates, ledger, db, mode, memory, commit, pause, run, runs, crashes, unmarked, roomVars,
          aborted>>

Phases == {"FINAL", "REFRESH", "REALLOCATION", "STRESS"}
Statuses == {"ACTIVE", "SUPERSEDED", "REVOKED"}

Reservations == [mandate : Mandates, role : Roles, phase : Phases, run : 1 .. MaxRuns]

Versions == [mandate : Mandates, status : Statuses]

PlanningRecords ==
    [version : 1 .. MaxMandates + 1, commit : 0 .. MaxMandates, proposed : BOOLEAN,
     status : {"PROPOSED", "ACCEPTED", "SIGNED", "PLAN_STALE"}]

NoRun == [pc |-> "idle", version |-> 0, epoch |-> 0, phase |-> "FINAL", items |-> {}, got |-> {}]
NoCommit == [pc |-> "idle", mandate |-> 0]
NoPause == [pc |-> "idle", version |-> 0]

(***************************************************************************)
(* The type invariant.                                                     *)
(***************************************************************************)
TypeOK ==
    /\ RoomTypeOK
    /\ mandates \in Seq([version : 1 .. MaxMandates, method : Methods])
    /\ roots \in [Mandates -> {"absent", "live", "revoked"}]
    /\ reservations \subseteq Reservations
    /\ db.versions \in Seq(Versions) /\ versions \in Seq(Versions)
    /\ db.planning \in Seq(PlanningRecords)
    /\ db.executions \subseteq Reservations /\ executions \subseteq Reservations
    /\ orphans \subseteq Reservations
    /\ db.approvals \subseteq 1 .. MaxMandates
    /\ db.lineage \subseteq 1 .. MaxMandates
    /\ {db.paused, db.reserved, paused, reserved, reserving} \subseteq BOOLEAN
    /\ mode \in {"running", "down", "restored", "unrestorable"}
    /\ challenges \in [Mandates -> {"none", "open", "spent"}]
    /\ commit \in [pc : {"idle", "revoke", "register", "delegate", "record"},
                   mandate : 0 .. MaxMandates]
    /\ pause \in [pc : {"idle", "revoke", "record"}, version : 0 .. MaxMandates]
    /\ run \in [pc : {"idle", "discover", "replan", "room", "again", "reserve", "record", "release"},
                version : 0 .. MaxMandates, epoch : 0 .. MaxEpochs, phase : Phases,
                items : SUBSET Roles, got : SUBSET Reservations]
    /\ runs \in 0 .. MaxRuns
    /\ crashes \in 0 .. MaxCrashes
    /\ unmarked \subseteq Reservations

Init ==
    /\ RoomInit
    /\ mandates = <<>>
    /\ roots = [m \in Mandates |-> "absent"]
    /\ reservations = {}
    /\ db = [versions |-> <<>>, paused |-> FALSE, reserved |-> FALSE, executions |-> {},
             planning |-> <<>>, approvals |-> {}, lineage |-> {}]
    /\ mode = "running"
    /\ versions = <<>>
    /\ paused = FALSE
    /\ reserved = FALSE
    /\ reserving = FALSE
    /\ executions = {}
    /\ orphans = {}
    /\ challenges = [m \in Mandates |-> "none"]
    /\ commit = NoCommit
    /\ pause = NoPause
    /\ run = NoRun
    /\ runs = 0
    /\ crashes = 0
    /\ unmarked = {}

-----------------------------------------------------------------------------
(***************************************************************************)
(* MandateVersions: what its flags allow.                                  *)
(***************************************************************************)
NextVersion == Len(versions) + 1

LastVersion == versions[Len(versions)]

\* The version number in force, 0 for null.
Active ==
    IF ~paused /\ versions # <<>> /\ LastVersion.status = "ACTIVE" THEN Len(versions) ELSE 0

Busy == commit.pc # "idle"

Held == Busy \/ reserving

Closed == paused \/ (versions # <<>> /\ reserved)

\* The principal whose ledger stream a mandate's root and reservations are in.
PrincipalOf(m) == IF mandates[m].method = "PLAN" THEN "wallet" ELSE "demo"

(***************************************************************************)
(* Planning records.                                                       *)
(***************************************************************************)
\* The place of the last record of version v that is not stale, 0 if none.
LastRecordOf(v) ==
    LET idx == {i \in DOMAIN db.planning :
                    db.planning[i].version = v /\ db.planning[i].status # "PLAN_STALE"}
    IN  IF idx = {} THEN 0 ELSE Max(idx)

(***************************************************************************)
(* #acceptanceFor: the version's last record, or a new one, carries the    *)
(* commitment of mandate m.                                                *)
(***************************************************************************)
AcceptanceFor(v, m, st) ==
    LET i == LastRecordOf(v) IN
    IF i = 0
    THEN Append(db.planning, [version |-> v, commit |-> m, proposed |-> FALSE, status |-> st])
    ELSE [db.planning EXCEPT ![i].commit = m, ![i].status = st]

(***************************************************************************)
(* #authorized: the record that carries the wallet's own commitment, if    *)
(* there still is one, is SIGNED.                                          *)
(***************************************************************************)
SignedRecords(planning, v, m) ==
    LET idx == {i \in DOMAIN planning : planning[i].version = v /\ planning[i].commit = m} IN
    IF idx = {} THEN planning ELSE [planning EXCEPT ![Max(idx)].status = "SIGNED"]

-----------------------------------------------------------------------------
(***************************************************************************)
(* Authoring.                                                              *)
(***************************************************************************)
\* prepare: nothing is held or closed, and the draft compiles.
Prepare(method) ==
    /\ mode = "running"
    /\ method \in Methods
    /\ ~Held
    /\ ~Closed
    /\ Len(mandates) < MaxMandates
    /\ mandates' = Append(mandates, [version |-> NextVersion, method |-> method])

WalletChallenge ==
    /\ Prepare("WALLET")
    /\ challenges' = [challenges EXCEPT ![Len(mandates) + 1] = "open"]
    /\ UNCHANGED <<ledger, db, mode, versions, paused, reserved, reserving, executions, orphans,
                   commit, pause, run, runs, crashes, unmarked, roomVars, aborted>>

(***************************************************************************)
(* The plan-bound challenge records the accepted allocation, with its      *)
(* commitment, before the version exists.                                  *)
(***************************************************************************)
SpineChallenge ==
    /\ Prepare("PLAN")
    /\ challenges' = [challenges EXCEPT ![Len(mandates) + 1] = "open"]
    /\ db' = [db EXCEPT !.planning = AcceptanceFor(NextVersion, Len(mandates) + 1, "ACCEPTED")]
    /\ UNCHANGED <<ledger, mode, versions, paused, reserved, reserving, executions, orphans,
                   commit, pause, run, runs, crashes, unmarked, roomVars, aborted>>

\* The challenge's deadline passes, or it took too many invalid signatures.
ChallengeDies(m) ==
    /\ mode = "running"
    /\ challenges[m] = "open"
    /\ challenges' = [challenges EXCEPT ![m] = "spent"]
    /\ UNCHANGED <<mandates, ledger, db, mode, versions, paused, reserved, reserving, executions,
                   orphans, commit, pause, run, runs, crashes, unmarked, roomVars, aborted>>

\* commit, up to its first await.
CommitStarts(m) ==
    commit' = [pc |-> IF versions = <<>> THEN "register" ELSE "revoke", mandate |-> m]

AuthorizeWithKey ==
    /\ Prepare("KEY")
    /\ CommitStarts(Len(mandates) + 1)
    /\ UNCHANGED <<ledger, db, mode, memory, pause, run, runs, crashes, unmarked,
                   roomVars, aborted>>

(***************************************************************************)
(* authorizeWithWallet with a valid signature.  The challenge is consumed  *)
(* before anything is committed; the V1 approval is inserted under its     *)
(* version number, once, so a second insert for that version throws.       *)
(***************************************************************************)
ApprovalThrows(m) == mandates[m].method = "WALLET" /\ mandates[m].version \in db.approvals

SignChallenge(m) ==
    /\ mode = "running"
    /\ challenges[m] = "open"
    /\ mandates[m].version = NextVersion
    /\ challenges' = [challenges EXCEPT ![m] = "spent"]
    /\ db' = IF mandates[m].method = "WALLET"
             THEN [db EXCEPT !.approvals = @ \cup {mandates[m].version}] ELSE db
    /\ IF ApprovalThrows(m) \/ Held \/ Closed THEN UNCHANGED commit ELSE CommitStarts(m)
    /\ UNCHANGED <<mandates, ledger, mode, versions, paused, reserved, reserving, executions,
                   orphans, pause, run, runs, crashes, unmarked, roomVars, aborted>>

-----------------------------------------------------------------------------
(***************************************************************************)
(* commit, after its awaits.  Each ledger write is one attempt: another    *)
(* write that lands in between refuses it with a conflict.                 *)
(***************************************************************************)
\* The record section of a commit, as its successive states of session.db.
Superseded(vs) == IF vs = <<>> THEN vs ELSE [vs EXCEPT ![Len(vs)].status = "SUPERSEDED"]

CommitWrites(m) ==
    LET v     == Len(db.versions) + 1
        first == [db EXCEPT !.versions = Superseded(@)]
        then  == [first EXCEPT !.versions = Append(@, [mandate |-> m, status |-> "ACTIVE"])]
    IN  CASE mandates[m].method = "PLAN" ->
                 {<<first, then, [then EXCEPT !.planning = SignedRecords(@, v, m)]>>}
          [] mandates[m].method = "WALLET" -> {<<first, then>>}
          [] mandates[m].method = "KEY" ->
                 { <<first, then>>,
                   <<first, then, [then EXCEPT !.planning = AcceptanceFor(v, m, "ACCEPTED")],
                                  [then EXCEPT !.planning = AcceptanceFor(v, m, "SIGNED")]>> }

\* A failed registration: the revoked predecessor is recorded, then the pause.
FailClosed(vs) == IF vs = <<>> THEN vs ELSE [vs EXCEPT ![Len(vs)].status = "REVOKED"]

CommitRevoke ==
    /\ commit.pc = "revoke"
    /\ LET p == LastVersion.mandate IN
       \/ /\ roots[p] = "live"
          /\ roots' = [roots EXCEPT ![p] = "revoked"]
          /\ commit' = [commit EXCEPT !.pc = "register"]
       \/ /\ roots[p] = "revoked" \/ pause.pc # "idle"
          /\ commit' = NoCommit
          /\ UNCHANGED roots

\* registerPortfolio: the policy and the root, then every delegation.
CommitRegister ==
    /\ commit.pc \in {"register", "delegate"}
    /\ roots' = [roots EXCEPT ![commit.mandate] = "live"]
    /\ commit' = [commit EXCEPT !.pc = IF @ = "register" THEN "delegate" ELSE "record"]

CommitRefused ==
    /\ commit.pc \in {"register", "delegate"}
    /\ versions' = FailClosed(versions)
    /\ paused' = (versions # <<>> \/ paused)
    /\ db' = [db EXCEPT !.versions = FailClosed(@), !.paused = paused']
    /\ commit' = NoCommit

CommitRecord ==
    /\ commit.pc = "record"
    /\ \E w \in CommitWrites(commit.mandate) : db' = w[Len(w)]
    /\ versions' = Append(Superseded(versions), [mandate |-> commit.mandate, status |-> "ACTIVE"])
    /\ IF versions # <<>> THEN OnAbort ELSE UNCHANGED <<roomVars, aborted>>
    /\ commit' = NoCommit

Committing ==
    \/ /\ CommitRevoke \/ CommitRegister
       /\ UNCHANGED <<mandates, reservations, db, mode, memory, pause, run, runs, crashes, unmarked,
                      roomVars, aborted>>
    \/ /\ CommitRefused
       /\ UNCHANGED <<mandates, ledger, mode, reserved, reserving, executions, orphans,
                      challenges, pause, run, runs, crashes, unmarked, roomVars, aborted>>
    \/ /\ CommitRecord
       /\ UNCHANGED <<mandates, ledger, mode, paused, reserved, reserving, executions, orphans,
                      challenges, pause, run, runs, crashes, unmarked>>

-----------------------------------------------------------------------------
(***************************************************************************)
(* pause: refused while an authorization or a reservation is in flight,    *)
(* but it holds nothing itself while its revocation is.                    *)
(***************************************************************************)
Pause ==
    /\ mode \in {"running", "restored"}
    /\ pause.pc = "idle"
    /\ ~Held
    /\ Active # 0
    /\ pause' = [pc |-> "revoke", version |-> Active]
    /\ UNCHANGED <<mandates, ledger, db, mode, memory, commit, run, runs, crashes, unmarked,
                   roomVars, aborted>>

\* A pause that goes on to record a revocation the ledger refused.
FaultyRevokeRefused == [pause EXCEPT !.pc = "record"]

\* The refusal throws out of pause, before anything is recorded.
RevokeRefused == NoPause

PauseRevoke ==
    /\ pause.pc = "revoke"
    /\ LET p == versions[pause.version].mandate IN
       \/ /\ roots[p] = "live"
          /\ roots' = [roots EXCEPT ![p] = "revoked"]
          /\ pause' = [pause EXCEPT !.pc = "record"]
       \/ /\ roots[p] = "revoked" \/ Held
          /\ pause' = RevokeRefused
          /\ UNCHANGED roots
    /\ UNCHANGED <<mandates, reservations, db, mode, memory, commit, run, runs, crashes, unmarked,
                   roomVars, aborted>>

Revoked(vs, v) == [vs EXCEPT ![v].status = "REVOKED"]

PauseRecord ==
    /\ pause.pc = "record"
    /\ versions' = Revoked(versions, pause.version)
    /\ paused' = TRUE
    /\ db' = [db EXCEPT !.versions = Revoked(@, pause.version), !.paused = TRUE]
    /\ pause' = NoPause
    /\ OnAbort
    /\ UNCHANGED <<mandates, ledger, mode, reserved, reserving, executions, orphans, challenges,
                   commit, run, runs, crashes, unmarked>>

-----------------------------------------------------------------------------
(***************************************************************************)
(* Planning: a Planning Room proposes a split, and the principal applies   *)
(* it to the draft, which clears the commitment the record carried.        *)
(***************************************************************************)
Plans == Cardinality({i \in DOMAIN db.planning : db.planning[i].proposed})

Plan ==
    /\ mode = "running"
    /\ run.pc = "idle"
    /\ Plans < MaxPlans
    /\ NextVersion <= MaxMandates
    /\ db' = [db EXCEPT !.planning =
                Append(@, [version |-> NextVersion, commit |-> 0, proposed |-> TRUE,
                           status |-> "PROPOSED"])]
    /\ UNCHANGED <<mandates, ledger, mode, memory, commit, pause, run, runs, crashes, unmarked,
                   roomVars, aborted>>

ApplyPlan ==
    /\ mode = "running"
    /\ run.pc = "idle"
    /\ \E i \in DOMAIN db.planning :
          /\ db.planning[i].proposed
          /\ db' = [db EXCEPT !.planning[i].commit = 0, !.planning[i].status = "ACCEPTED"]
    /\ UNCHANGED <<mandates, ledger, mode, memory, commit, pause, run, runs, crashes, unmarked,
                   roomVars, aborted>>

-----------------------------------------------------------------------------
(***************************************************************************)
(* A run.                                                                  *)
(***************************************************************************)
\* The loop of run() from its top: under the version now in force, or over.
EpochFrom(e) ==
    IF e > MaxEpochs \/ Active = 0 THEN NoRun
    ELSE [NoRun EXCEPT !.pc = "discover", !.version = Active, !.epoch = e]

StartRun ==
    /\ mode = "running"
    /\ run.pc = "idle"
    /\ Active # 0
    /\ runs < MaxRuns
    /\ runs' = runs + 1
    /\ run' = EpochFrom(1)
    /\ aborted' = FALSE
    /\ UNCHANGED <<mandates, ledger, db, mode, memory, commit, pause, crashes, unmarked, roomVars>>

\* The epoch was aborted: everything superseded is dropped, the next begins.
Supersede ==
    /\ run' = EpochFrom(run.epoch + 1)
    /\ aborted' = FALSE
    /\ UNCHANGED reserving

(***************************************************************************)
(* #reverify up to its first await: hold the version still, or give up     *)
(* because an authorization is in progress.                                *)
(***************************************************************************)
BeginHold(phase, items) ==
    IF Held \/ items = {}
    THEN run' = NoRun /\ UNCHANGED reserving
    ELSE /\ reserving' = TRUE
         /\ run' = [run EXCEPT !.pc = "reserve", !.phase = phase, !.items = items, !.got = {}]

\* What is left of the epoch once the sizes are settled.
AuthorizeFinal(reqs) ==
    IF aborted THEN Supersede
    ELSE BeginHold("FINAL", {r \in Roles : reqs[r] > 0}) /\ UNCHANGED aborted

\* Agents still in excess on their own after their one re-plan drop out.
Dropped(reqs) == [r \in Roles |-> IF r \in LocalExcess(reqs) THEN 0 ELSE reqs[r]]

\* A conflict opens a Room only when several compete and the mandate lets them coordinate.
OpensRoom(reqs) ==
    /\ ~Feasible(reqs)
    /\ versions[run.version].mandate \in Coordinated
    /\ Cardinality(SharedParties(reqs)) > 1

Settle(reqs) ==
    IF OpensRoom(reqs)
    THEN OpenRoom(reqs) /\ run' = [run EXCEPT !.pc = "room"] /\ UNCHANGED <<reserving, aborted>>
    ELSE AuthorizeFinal(reqs) /\ ResetRoom

sessionFrame == <<mandates, ledger, db, mode, versions, paused, reserved, executions, orphans,
                  challenges, commit, pause, runs, crashes, unmarked>>

\* Discovery returns: each agent proposed a size, or nothing admissible.
Discover ==
    /\ run.pc = "discover"
    /\ \E reqs \in [Roles -> Sizes] :
          IF aborted THEN Supersede /\ UNCHANGED roomVars
          ELSE IF LocalExcess(reqs) # {}
          THEN /\ run' = [run EXCEPT !.pc = "replan"]
               /\ requests' = reqs
               /\ UNCHANGED <<reserving, aborted, status, askable, generation, answers, pending,
                              calls, closed>>
          ELSE Settle(reqs)
    /\ UNCHANGED sessionFrame

(***************************************************************************)
(* The one re-plan of each agent in local excess returns: a size between   *)
(* its minimum and the largest that fits, or none; two more passes drop    *)
(* whoever is still over, and after a second drop no Room is considered.   *)
(***************************************************************************)
Replanned(r) ==
    IF r \notin LocalExcess(requests) THEN {requests[r]}
    ELSE {0} \cup {n \in Minimum[r] .. requests[r] - 1 :
                     \E f \in FittingSizes(r, requests) : n <= f}

Replan ==
    /\ run.pc = "replan"
    /\ IF aborted THEN Supersede /\ ResetRoom
       ELSE \E reqs \in [Roles -> UNION {Replanned(r) : r \in Roles}] :
                /\ \A r \in Roles : reqs[r] \in Replanned(r)
                /\ IF LocalExcess(Dropped(reqs)) = {} THEN Settle(Dropped(reqs))
                   ELSE AuthorizeFinal(Dropped(Dropped(reqs))) /\ ResetRoom
    /\ UNCHANGED sessionFrame

RoomEnds ==
    /\ run.pc = "room"
    /\ FinishRoom
    /\ CASE RoomResult = "SUPERSEDED"            -> Supersede
         [] RoomResult = "PROPOSED"              -> AuthorizeFinal(Tentative(answers))
         [] RoomResult = "NO_FEASIBLE_PORTFOLIO" -> run' = NoRun /\ UNCHANGED <<reserving, aborted>>
    /\ UNCHANGED sessionFrame

(***************************************************************************)
(* runPortfolio: the verified children are reserved one ledger write at a  *)
(* time; the ledger refuses a child under a revoked root.                  *)
(***************************************************************************)
Reservation(r) ==
    [mandate |-> versions[run.version].mandate, role |-> r, phase |-> run.phase, run |-> runs]

\* A ledger that does not look at the chain's revocations.
FaultyMayReserve(m) == roots[m] # "absent"

MayReserve(m) == roots[m] = "live"

Reserve(r) ==
    /\ run.pc = "reserve"
    /\ r \in run.items
    /\ LET rest == run.items \ {r}
           got  == run.got \cup {Reservation(r)}
           next == IF rest # {} THEN "reserve" ELSE IF run.phase = "STRESS" THEN "release" ELSE "record"
       IN  \/ /\ run' = [run EXCEPT !.items = rest, !.pc = next]
              /\ UNCHANGED reservations
           \/ /\ MayReserve(Reservation(r).mandate)
              /\ reservations' = reservations \cup {Reservation(r)}
              /\ run' = [run EXCEPT !.items = rest, !.pc = next, !.got = got]
    /\ UNCHANGED <<mandates, roots, db, mode, memory, commit, pause, runs, crashes, unmarked,
                   roomVars, aborted>>

\* The store fails in the middle of a pass: the hold is released with nothing marked or recorded.
ReserveThrows ==
    /\ run.pc = "reserve"
    /\ run' = NoRun
    /\ reserving' = FALSE
    /\ UNCHANGED <<sessionFrame, roomVars, aborted>>

\* The executions the session records are those the ledger reserved.
RecordReserved ==
    /\ run.pc = "record"
    /\ executions' = executions \cup run.got
    /\ db' = [db EXCEPT !.executions = @ \cup run.got]
    /\ run' = [run EXCEPT !.pc = "release"]
    /\ UNCHANGED <<mandates, ledger, mode, versions, paused, reserved, reserving, orphans,
                   challenges, commit, pause, runs, crashes, unmarked, roomVars, aborted>>

(***************************************************************************)
(* A write throws while the executions are recorded: those before it are   *)
(* in both records, the one whose putReserved threw only in memory, and    *)
(* the hold is released by endReservation(false).                          *)
(***************************************************************************)
RecordThrows ==
    /\ run.pc = "record"
    /\ \E s \in SUBSET run.got : \E t \in {{}} \cup {{x} : x \in run.got \ s} :
          /\ executions' = executions \cup s \cup t
          /\ unmarked' = unmarked \cup s \cup t
          /\ db' = [db EXCEPT !.executions = @ \cup s]
    /\ run' = NoRun
    /\ reserving' = FALSE
    /\ UNCHANGED <<mandates, ledger, mode, versions, paused, reserved, orphans, challenges, commit,
                   pause, runs, crashes, roomVars, aborted>>

(***************************************************************************)
(* endReservation, and what follows the pass: a stale proposal gets one    *)
(* fresh cycle, released capital is offered to the agents that hold a      *)
(* reservation; each only if the version is still the one in force.        *)
(***************************************************************************)
\* A release of the hold that forgets to mark the version reserved.
FaultyMarks == FALSE

Marks == run.got # {}

Continuations ==
    {NoRun}
      \cup {[run EXCEPT !.pc = "again", !.phase = "REFRESH", !.items = rs] :
              rs \in {s \in SUBSET (Roles \ {x.role : x \in run.got}) :
                        run.phase = "FINAL" /\ Active = run.version /\ s # {}}}
      \cup {[run EXCEPT !.pc = "again", !.phase = "REALLOCATION", !.items = rs] :
              rs \in {s \in SUBSET {x.role : x \in {y \in reservations : y.run = runs}} :
                        /\ run.phase \in {"FINAL", "REFRESH"}
                        /\ Active = run.version
                        /\ versions[run.version].mandate \in Coordinated
                        /\ s # {}}}

\* The signed plan of a version, the start of its reallocation lineage.
HasSignedPlan(v) ==
    \E i \in DOMAIN db.planning :
        db.planning[i].version = v /\ db.planning[i].status = "SIGNED" /\ db.planning[i].commit # 0

EndReservation ==
    /\ run.pc = "release"
    /\ reserving' = FALSE
    /\ reserved' = (reserved \/ Marks)
    /\ db' = [db EXCEPT !.reserved = @ \/ Marks,
                        !.lineage = IF run.phase = "REALLOCATION" /\ run.got # {}
                                       /\ HasSignedPlan(run.version)
                                    THEN @ \cup {run.version} ELSE @]
    /\ run' \in IF run.phase = "STRESS" THEN {NoRun} ELSE Continuations
    /\ UNCHANGED <<mandates, ledger, mode, versions, paused, executions, orphans, challenges,
                   commit, pause, runs, crashes, unmarked, roomVars, aborted>>

\* The flags cannot be written: the version is marked in memory only, and the run ends.
MarkThrows ==
    /\ run.pc = "release"
    /\ Marks /\ ~reserved
    /\ reserving' = FALSE
    /\ reserved' = TRUE
    /\ run' = NoRun
    /\ UNCHANGED <<mandates, ledger, db, mode, versions, paused, executions, orphans, challenges,
                   commit, pause, runs, crashes, unmarked, roomVars, aborted>>

\* A refresh, a reallocation or a policy-stress case reaches #reverify again, or has nothing to submit.
Again ==
    /\ run.pc = "again"
    /\ BeginHold(run.phase, run.items) \/ (run' = NoRun /\ UNCHANGED reserving)
    /\ UNCHANGED <<sessionFrame, roomVars, aborted>>

StartPolicyStress ==
    /\ mode = "running"
    /\ run.pc = "idle"
    /\ Active # 0
    /\ runs < MaxRuns
    /\ runs' = runs + 1
    /\ \E r \in Roles :
          run' = [NoRun EXCEPT !.pc = "again", !.version = Active, !.phase = "STRESS", !.items = {r}]
    /\ UNCHANGED <<mandates, ledger, db, mode, memory, commit, pause, crashes, unmarked,
                   roomVars, aborted>>

InRoom ==
    /\ run.pc = "room"
    /\ RoomStep
    /\ UNCHANGED <<mandates, ledger, db, mode, memory, commit, pause, run, runs, crashes, unmarked>>

Running ==
    \/ Discover
    \/ Replan
    \/ InRoom
    \/ RoomEnds
    \/ \E r \in Roles : Reserve(r)
    \/ ReserveThrows
    \/ RecordReserved
    \/ RecordThrows
    \/ EndReservation
    \/ MarkThrows
    \/ Again

-----------------------------------------------------------------------------
(***************************************************************************)
(* Crash.  What session.db may hold then: everything written so far, and   *)
(* any prefix of the writes of the synchronous section being executed.     *)
(***************************************************************************)
TornWrites ==
    {db}
      \cup (IF commit.pc = "record"
            THEN UNION {{w[i] : i \in DOMAIN w} : w \in CommitWrites(commit.mandate)} ELSE {})
      \cup (IF commit.pc \in {"register", "delegate"}
            THEN {[db EXCEPT !.versions = FailClosed(@)]} ELSE {})
      \cup (IF pause.pc = "record"
            THEN {[db EXCEPT !.versions = Revoked(@, pause.version)]} ELSE {})
      \cup (IF run.pc = "record"
            THEN {[db EXCEPT !.executions = @ \cup s] : s \in SUBSET run.got} ELSE {})

Crash ==
    /\ mode \in {"running", "restored"}
    /\ crashes < MaxCrashes
    /\ crashes' = crashes + 1
    /\ mode' = "down"
    /\ db' \in TornWrites
    /\ versions' = <<>>
    /\ paused' = FALSE
    /\ reserved' = FALSE
    /\ reserving' = FALSE
    /\ executions' = {}
    /\ orphans' = {}
    /\ challenges' = [m \in Mandates |-> "none"]
    /\ commit' = NoCommit
    /\ pause' = NoPause
    /\ run' = NoRun
    /\ ResetRoom
    /\ aborted' = FALSE
    /\ UNCHANGED <<mandates, ledger, runs, unmarked>>

(***************************************************************************)
(* restoreState: when the records and the ledger agree.                    *)
(***************************************************************************)
\* Every version's root is in the ledger, and is revoked unless the version is ACTIVE.
VersionsAgree(d) ==
    \A i \in DOMAIN d.versions :
        /\ roots[d.versions[i].mandate] # "absent"
        /\ d.versions[i].status # "ACTIVE" => roots[d.versions[i].mandate] = "revoked"

\* The reservations restore reads: those of the first version's principal.
LedgerReservations(d) ==
    IF d.versions = <<>> THEN {}
    ELSE {x \in reservations : PrincipalOf(x.mandate) = PrincipalOf(d.versions[1].mandate)}

ExecutionsAgree(d) == d.versions # <<>> => d.executions \subseteq LedgerReservations(d)

\* Every plan commitment belongs to the mandate of its version, which exists.
PlanningAgrees(d) ==
    /\ \A i \in DOMAIN d.planning :
          LET p == d.planning[i] IN
          /\ p.commit # 0 => /\ p.version \in DOMAIN d.versions
                             /\ d.versions[p.version].mandate = p.commit
          /\ p.status = "SIGNED" => p.version \in DOMAIN d.versions /\ p.commit # 0
    /\ \A v \in DOMAIN d.versions :
          mandates[d.versions[v].mandate].method = "PLAN" =>
              \E i \in DOMAIN d.planning :
                  /\ d.planning[i].version = v
                  /\ d.planning[i].status = "SIGNED"
                  /\ d.planning[i].commit = d.versions[v].mandate
    /\ \A v \in d.lineage :
          /\ v \in DOMAIN d.versions
          /\ \E i \in DOMAIN d.planning : d.planning[i].version = v /\ d.planning[i].status = "SIGNED"

Restorable(d) == VersionsAgree(d) /\ ExecutionsAgree(d) /\ PlanningAgrees(d)

\* A restore that believes its own record of the versions.
FaultyRestoredVersions(d) == d.versions

\* The ledger wins: a version it revoked is restored REVOKED.
RestoredVersions(d) ==
    [i \in DOMAIN d.versions |->
        IF roots[d.versions[i].mandate] = "revoked" /\ d.versions[i].status = "ACTIVE"
        THEN [d.versions[i] EXCEPT !.status = "REVOKED"] ELSE d.versions[i]]

Restore ==
    /\ mode = "down"
    /\ IF Restorable(db)
       THEN /\ mode' = "restored"
            /\ versions' = RestoredVersions(db)
            /\ paused' = (db.paused \/ RestoredVersions(db) # db.versions)
            /\ reserved' = (db.reserved \/ LedgerReservations(db) # {})
            /\ executions' = db.executions
            /\ orphans' = LedgerReservations(db) \ db.executions
            /\ \E stale \in SUBSET {i \in DOMAIN db.planning : db.planning[i].status = "PROPOSED"} :
                  db' = [db EXCEPT !.planning = [i \in DOMAIN db.planning |->
                            IF i \in stale THEN [db.planning[i] EXCEPT !.status = "PLAN_STALE"]
                            ELSE db.planning[i]]]
       ELSE /\ mode' = "unrestorable"
            /\ UNCHANGED <<db, versions, paused, reserved, executions, orphans>>
    /\ UNCHANGED <<mandates, ledger, reserving, challenges, commit, pause, run, runs, crashes, unmarked,
                   roomVars, aborted>>

-----------------------------------------------------------------------------
Authoring ==
    \/ WalletChallenge
    \/ SpineChallenge
    \/ AuthorizeWithKey
    \/ \E m \in Mandates : SignChallenge(m)
    \/ \E m \in Mandates : ChallengeDies(m)
    \/ Plan
    \/ ApplyPlan

Next ==
    \/ Authoring
    \/ Committing
    \/ Pause \/ PauseRevoke \/ PauseRecord
    \/ StartRun \/ StartPolicyStress
    \/ Running
    \/ Crash
    \/ Restore

Spec == Init /\ [][Next]_vars

-----------------------------------------------------------------------------
(***************************************************************************)
(* Whatever version a run captured before its awaits, the ledger reserves  *)
(* only under the root of the version in force at that moment: an          *)
(* amendment revokes its predecessor before its own version is recorded,   *)
(* and a pause before its record.                                          *)
(***************************************************************************)
ReservedUnderActive ==
    [][\A x \in reservations' \ reservations :
          /\ Active # 0
          /\ x.mandate = LastVersion.mandate]_vars

(***************************************************************************)
(* Once the pass that recorded an execution ended, no version is           *)
(* authorized over it: its version stays the last.  The exception is a     *)
(* pass that threw in the middle of its records (RecordThrows): it never   *)
(* marks its version, although "Amendments stop once anything was reserved *)
(* in the session" (mandate-versioning.ts:27).                             *)
(***************************************************************************)
MarkedExecutionsPinVersion ==
    \A x \in executions \ unmarked : x.mandate = LastVersion.mandate

(***************************************************************************)
(* Wherever a crash falls, the records of the versions agree with the      *)
(* ledger: no version without its root, no SUPERSEDED or REVOKED record    *)
(* over a live root; and, while one principal authorized every version, no *)
(* recorded execution the ledger does not hold.                            *)
(***************************************************************************)
OnePrincipal(vs) ==
    \A i, j \in DOMAIN vs : PrincipalOf(vs[i].mandate) = PrincipalOf(vs[j].mandate)

LedgerRestores ==
    mode # "unrestorable" =>
        \A d \in TornWrites :
            /\ VersionsAgree(d)
            /\ OnePrincipal(d.versions) => ExecutionsAgree(d)

(***************************************************************************)
(* A restored session claims no authority the ledger does not grant, and   *)
(* loses none of its reservations: the version in force has a live root,   *)
(* and while one principal authorized every version each reservation in    *)
(* the ledger under one of its versions is an execution or an orphan.      *)
(***************************************************************************)
RestoredFromLedger ==
    mode = "restored" =>
        /\ Active # 0 /\ pause.pc # "record" => roots[LastVersion.mandate] = "live"
        /\ OnePrincipal(versions) =>
              \A x \in reservations :
                  (\E i \in DOMAIN versions : versions[i].mandate = x.mandate)
                      => reserved /\ x \in executions \cup orphans

(***************************************************************************)
(* What the documentation promises of a restart: it returns to the same    *)
(* session ("Sessions are durable", docs/demo/live-ai-lab.md).             *)
(***************************************************************************)
RestartReturns == mode # "unrestorable"

=============================================================================
