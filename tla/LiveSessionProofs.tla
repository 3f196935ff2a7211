-------------------------- MODULE LiveSessionProofs --------------------------
(***************************************************************************)
(* Theorems about LiveSession and its Room, for any number of agents,      *)
(* mandates, epochs, runs, plans and crashes.  A commit, a pause and a run *)
(* interleave freely; the invariant says what each may still rely on when  *)
(* it goes on after an await, and what session.db holds wherever the       *)
(* process dies.                                                           *)
(***************************************************************************)
EXTENDS LiveSession, TLAPS

------------------------------------------------------------------------------
(* The Room.                                                                *)

(***************************************************************************)
(* Outside a run's Room nothing is open.  While a generation is open,      *)
(* someone is pending, nobody pending has answered, and the answers so far *)
(* do not fit.                                                             *)
(***************************************************************************)
RoomInv ==
    /\ closed \in {"no", "FEASIBLE", "ALL_ANSWERED", "SUPERSEDED"}
    /\ status = "open" => run.pc = "room"
    /\ requests \in [Roles -> Nat]
    /\ askable \subseteq Roles /\ pending \subseteq Roles
    /\ DOMAIN answers \subseteq Roles
    /\ \A r \in DOMAIN answers : answers[r] \in Nat
    /\ pending \cap DOMAIN answers = {}
    /\ (status = "open" /\ closed = "no") => pending # {} /\ ~Feasible(Tentative(answers))
    /\ NoNeedlessReduction

------------------------------------------------------------------------------
(* The session.                                                             *)

HoldLabels == {"reserve", "record", "release"}
RunLabels == {"idle", "discover", "replan", "room", "again"} \cup HoldLabels

\* What a session.db is.
StoreShape(d) ==
    d = [versions |-> d.versions, paused |-> d.paused, reserved |-> d.reserved,
         executions |-> d.executions, planning |-> d.planning, approvals |-> d.approvals,
         lineage |-> d.lineage]

IsStore(d) == StoreShape(d) /\ d.versions \in Seq(Versions)

MandateRecords == [version : Nat, method : {"KEY", "WALLET", "PLAN"}]
MandateLists == Seq(MandateRecords)

RunRecords ==
    [pc : RunLabels, version : Nat, epoch : Nat, phase : Phases,
     items : SUBSET Roles, got : SUBSET Reservations]

SessionTyped ==
    /\ mandates \in MandateLists
    /\ Len(mandates) <= MaxMandates
    /\ roots \in [Mandates -> {"absent", "live", "revoked"}]
    /\ reservations \subseteq Reservations
    /\ versions \in Seq(Versions)
    /\ paused \in BOOLEAN /\ reserved \in BOOLEAN /\ reserving \in BOOLEAN
    /\ challenges \in [Mandates -> {"none", "open", "spent"}]
    /\ mode \in {"running", "down", "restored", "unrestorable"}
    /\ commit \in [pc : {"idle", "revoke", "register", "delegate", "record"},
                   mandate : 0 .. MaxMandates]
    /\ pause \in [pc : {"idle", "revoke", "record"}, version : Nat]
    /\ run \in RunRecords
    /\ runs \in 0 .. MaxRuns
    /\ run.pc # "idle" => runs > 0

(***************************************************************************)
(* The ledger rt knows every version of vs, each under the mandate of ms   *)
(* prepared for its number; a version that is not ACTIVE is revoked there, *)
(* and only the last may be ACTIVE.                                        *)
(***************************************************************************)
Known(ms, rt, vs) ==
    \A i \in 1 .. Len(vs) :
        /\ vs[i].mandate \in 1 .. Len(ms)
        /\ ms[vs[i].mandate].version = i
        /\ rt[vs[i].mandate] # "absent"
        /\ vs[i].status # "ACTIVE" => rt[vs[i].mandate] = "revoked"
        /\ i < Len(vs) => vs[i].status # "ACTIVE"

\* The executions xs are in the ledger rsv, each under a version of vs: the last, unless it is in um.
ExecutionsLast(vs, xs, rsv, um) ==
    \A x \in xs :
        /\ x \in rsv
        /\ \E i \in 1 .. Len(vs) : vs[i].mandate = x.mandate
        /\ x \in um \/ x.mandate = vs[Len(vs)].mandate

(***************************************************************************)
(* What session.db holds whenever the process dies.                        *)
(***************************************************************************)
Durable(d, ms, rt, rsv, um) ==
    IsStore(d) /\ Known(ms, rt, d.versions) /\ ExecutionsLast(d.versions, d.executions, rsv, um)

\* The versions in memory and in session.db, before and after restore.
RunningInv ==
    mode = "running" =>
        /\ versions = db.versions
        /\ db.executions \subseteq executions /\ executions \subseteq db.executions \cup unmarked
        /\ paused => versions # <<>> /\ roots[LastVersion.mandate] = "revoked"

RestoredInv ==
    mode = "restored" =>
        /\ Len(versions) = Len(db.versions) /\ executions = db.executions
        /\ \A i \in 1 .. Len(versions) :
             /\ versions[i].mandate = db.versions[i].mandate
             /\ versions[i].status = "ACTIVE" => db.versions[i].status = "ACTIVE"
        /\ Active # 0 /\ pause.pc # "record" => roots[LastVersion.mandate] = "live"
        /\ OnePrincipal(versions) =>
             \A x \in reservations :
                 (\E i \in DOMAIN versions : versions[i].mandate = x.mandate)
                     => reserved /\ x \in executions \cup orphans

DownInv ==
    /\ mode \in {"down", "unrestorable"} => versions = <<>> /\ executions = {} /\ pause.pc = "idle"
    /\ mode # "running" => commit.pc = "idle" /\ run.pc = "idle"

MemoryInv ==
    /\ Durable(db, mandates, roots, reservations, unmarked)
    /\ Known(mandates, roots, versions)
    /\ RunningInv
    /\ RestoredInv
    /\ DownInv
    /\ \A m \in Mandates : challenges[m] = "open" => m \in 1 .. Len(mandates)

CommitInv ==
    commit.pc # "idle" =>
        /\ commit.mandate \in 1 .. Len(mandates)
        /\ mandates[commit.mandate].version = Len(versions) + 1
        /\ executions \subseteq unmarked /\ ~reserving
        /\ commit.pc = "revoke" => versions # <<>>
        /\ commit.pc # "revoke" =>
             /\ ~paused /\ pause.pc # "record"
             /\ versions # <<>> => roots[LastVersion.mandate] = "revoked"
        /\ commit.pc \in {"delegate", "record"} => roots[commit.mandate] = "live"

PauseInv ==
    /\ pause.pc # "idle" => pause.version \in 1 .. Len(versions)
    /\ pause.pc = "record" =>
         /\ pause.version = Len(versions)
         /\ roots[LastVersion.mandate] = "revoked"

RunInv ==
    /\ run.pc # "idle" => run.version \in 1 .. Len(versions)
    /\ reserving <=> run.pc \in HoldLabels
    /\ run.pc \in HoldLabels =>
         \A x \in run.got : x \in reservations /\ x.mandate = LastVersion.mandate
    /\ mode = "running" /\ ~(executions \subseteq unmarked) =>
         reserved \/ (run.pc = "release" /\ run.got # {})

SessionInv ==
    /\ SessionTyped
    /\ RoomInv
    /\ MemoryInv
    /\ CommitInv
    /\ PauseInv
    /\ RunInv

CoreInv == SessionTyped /\ MemoryInv /\ CommitInv /\ PauseInv /\ RunInv

------------------------------------------------------------------------------
(* Lists of versions.                                                       *)

RootMaps == [Mandates -> {"absent", "live", "revoked"}]

\* The same versions of the same mandates, but for their status.
SameMandates(vs, ws) ==
    /\ ws \in Seq(Versions) /\ Len(ws) = Len(vs)
    /\ \A i \in 1 .. Len(vs) : ws[i].mandate = vs[i].mandate

\* What a list of versions holds.
LEMMA VersionTyped ==
    ASSUME NEW vs \in Seq(Versions)
    PROVE  /\ Len(vs) \in Nat
           /\ \A i \in 1 .. Len(vs) : /\ vs[i] \in Versions
                                      /\ vs[i].mandate \in Mandates /\ vs[i].status \in Statuses
<1>1. Len(vs) \in Nat /\ \A i \in 1 .. Len(vs) : vs[i] \in Versions
  OBVIOUS
<1> QED
  BY <1>1 DEF Versions

(***************************************************************************)
(* Preparing a mandate changes nothing for the versions there are.         *)
(***************************************************************************)
LEMMA KnownPrepared ==
    ASSUME NEW ms \in MandateLists, NEW rt, NEW vs \in Seq(Versions), Known(ms, rt, vs), NEW x
    PROVE  Known(Append(ms, x), rt, vs)
<1>1. /\ Len(ms) \in Nat /\ Len(Append(ms, x)) = Len(ms) + 1
      /\ \A j \in 1 .. Len(ms) : Append(ms, x)[j] = ms[j]
  BY DEF MandateLists
<1> QED
  BY <1>1 DEF Known

(***************************************************************************)
(* Revoking a root agrees with every version.                              *)
(***************************************************************************)
LEMMA KnownRevoke ==
    ASSUME NEW ms, NEW rt \in RootMaps, NEW vs \in Seq(Versions), Known(ms, rt, vs), NEW p
    PROVE  Known(ms, [rt EXCEPT ![p] = "revoked"], vs)
<1>1. \A i \in 1 .. Len(vs) : vs[i].mandate \in Mandates
  BY VersionTyped
<1> DEFINE q == [rt EXCEPT ![p] = "revoked"]
<1>2. \A m \in Mandates : q[m] = IF m = p THEN "revoked" ELSE rt[m]
  BY DEF RootMaps
<1> HIDE DEF q
<1>3. Known(ms, q, vs)
  BY <1>1, <1>2 DEF Known
<1> QED
  BY <1>3 DEF q

(***************************************************************************)
(* Registering the next version's mandate touches no version there is.     *)
(***************************************************************************)
LEMMA KnownRegister ==
    ASSUME NEW ms, NEW rt \in RootMaps, NEW vs \in Seq(Versions), Known(ms, rt, vs), NEW m,
           ms[m].version = Len(vs) + 1
    PROVE  Known(ms, [rt EXCEPT ![m] = "live"], vs)
<1>1. Len(vs) \in Nat /\ \A i \in 1 .. Len(vs) : vs[i].mandate \in Mandates
  BY VersionTyped
<1>2. \A i \in 1 .. Len(vs) : vs[i].mandate # m
  BY <1>1 DEF Known
<1> DEFINE q == [rt EXCEPT ![m] = "live"]
<1>3. \A i \in 1 .. Len(vs) : q[vs[i].mandate] = rt[vs[i].mandate]
  BY <1>1, <1>2 DEF RootMaps
<1> HIDE DEF q
<1>4. Known(ms, q, vs)
  BY <1>3 DEF Known
<1> QED
  BY <1>4 DEF q

(***************************************************************************)
(* Rewriting the status of a version.                                      *)
(***************************************************************************)
WithStatus(vs, v, st) == [vs EXCEPT ![v].status = st]

\* It changes nothing else.
LEMMA LastStatus ==
    ASSUME NEW vs \in Seq(Versions), NEW v \in 1 .. Len(vs), NEW st \in Statuses
    PROVE  /\ SameMandates(vs, WithStatus(vs, v, st))
           /\ WithStatus(vs, v, st)[v].status = st
           /\ \A i \in 1 .. Len(vs) : i # v => WithStatus(vs, v, st)[i] = vs[i]
<1> DEFINE ws == WithStatus(vs, v, st)
<1>1. \A i \in 1 .. Len(vs) : vs[i] \in Versions
  OBVIOUS
<1>2. /\ Len(ws) = Len(vs) /\ DOMAIN ws = 1 .. Len(vs)
      /\ \A i \in 1 .. Len(vs) : i # v => ws[i] = vs[i]
      /\ ws[v] = [vs[v] EXCEPT !.status = st]
  BY DEF WithStatus
<1>3. ws[v] \in Versions /\ ws[v].mandate = vs[v].mandate /\ ws[v].status = st
  BY <1>1, <1>2 DEF Versions
<1>4. \A i \in 1 .. Len(vs) : ws[i] \in Versions
  BY <1>1, <1>2, <1>3
<1>5. ws \in Seq(Versions)
  BY <1>2, <1>4 DEF WithStatus
<1> HIDE DEF ws
<1>6. \A i \in 1 .. Len(vs) : ws[i].mandate = vs[i].mandate
  BY <1>2, <1>3
<1> QED
  BY <1>2, <1>3, <1>5, <1>6 DEF SameMandates, ws

(***************************************************************************)
(* A status that only becomes SUPERSEDED or REVOKED over a revoked root.   *)
(***************************************************************************)
LEMMA KnownLater ==
    ASSUME NEW ms, NEW rt, NEW vs \in Seq(Versions), NEW ws, Known(ms, rt, vs), SameMandates(vs, ws),
           \A i \in 1 .. Len(vs) : ws[i].status # vs[i].status =>
                                     ws[i].status # "ACTIVE" /\ rt[vs[i].mandate] = "revoked"
    PROVE  Known(ms, rt, ws)
BY DEF Known, SameMandates

(***************************************************************************)
(* Closing a version whose root is revoked.                                *)
(***************************************************************************)
LEMMA KnownClosed ==
    ASSUME NEW ms, NEW rt, NEW vs \in Seq(Versions), NEW v \in 1 .. Len(vs), NEW st \in Statuses,
           Known(ms, rt, vs), rt[vs[v].mandate] = "revoked", st # "ACTIVE"
    PROVE  /\ SameMandates(vs, WithStatus(vs, v, st)) /\ Known(ms, rt, WithStatus(vs, v, st))
           /\ WithStatus(vs, v, st)[v].status = st
           /\ \A i \in 1 .. Len(vs) : i # v => WithStatus(vs, v, st)[i] = vs[i]
<1> DEFINE f == WithStatus(vs, v, st)
<1>1. /\ SameMandates(vs, f) /\ f[v].status = st
      /\ \A i \in 1 .. Len(vs) : i # v => f[i] = vs[i]
  BY LastStatus
<1> HIDE DEF f
<1>2. \A i \in 1 .. Len(vs) : f[i].status # vs[i].status =>
                                 f[i].status # "ACTIVE" /\ rt[vs[i].mandate] = "revoked"
  BY <1>1
<1>3. Known(ms, rt, f)
  BY <1>1, <1>2, KnownLater, Zenon
<1> QED
  BY <1>1, <1>3 DEF f

(***************************************************************************)
(* What the two writes to the last version do.                             *)
(***************************************************************************)
LEMMA LastClosed ==
    ASSUME NEW ms, NEW rt, NEW vs \in Seq(Versions), Known(ms, rt, vs),
           vs # <<>> => rt[vs[Len(vs)].mandate] = "revoked"
    PROVE  /\ SameMandates(vs, Superseded(vs)) /\ Known(ms, rt, Superseded(vs))
           /\ vs # <<>> => Superseded(vs)[Len(vs)].status # "ACTIVE"
           /\ SameMandates(vs, FailClosed(vs)) /\ Known(ms, rt, FailClosed(vs))
<1>1. CASE vs = <<>>
  BY <1>1 DEF Superseded, FailClosed, SameMandates
<1>2. CASE vs # <<>>
  <2>1. Len(vs) \in 1 .. Len(vs)
    BY <1>2
  <2>2. rt[vs[Len(vs)].mandate] = "revoked"
    BY <1>2
  <2>3. /\ Superseded(vs) = WithStatus(vs, Len(vs), "SUPERSEDED")
        /\ FailClosed(vs) = WithStatus(vs, Len(vs), "REVOKED")
    BY <1>2 DEF Superseded, FailClosed, WithStatus
  <2>4. "SUPERSEDED" \in Statuses /\ "REVOKED" \in Statuses
    BY DEF Statuses
  <2>5. ASSUME NEW st \in Statuses, st # "ACTIVE"
        PROVE  /\ SameMandates(vs, WithStatus(vs, Len(vs), st))
               /\ Known(ms, rt, WithStatus(vs, Len(vs), st))
               /\ WithStatus(vs, Len(vs), st)[Len(vs)].status = st
    BY <2>1, <2>2, <2>5, KnownClosed
  <2>6. "SUPERSEDED" # "ACTIVE" /\ "REVOKED" # "ACTIVE"
    OBVIOUS
  <2>7. /\ SameMandates(vs, WithStatus(vs, Len(vs), "SUPERSEDED"))
        /\ Known(ms, rt, WithStatus(vs, Len(vs), "SUPERSEDED"))
        /\ WithStatus(vs, Len(vs), "SUPERSEDED")[Len(vs)].status = "SUPERSEDED"
    BY <2>4, <2>5, <2>6
  <2>8. /\ SameMandates(vs, WithStatus(vs, Len(vs), "REVOKED"))
        /\ Known(ms, rt, WithStatus(vs, Len(vs), "REVOKED"))
    BY <2>4, <2>5, <2>6
  <2> QED
    BY <2>3, <2>6, <2>7, <2>8
<1> QED
  BY <1>1, <1>2

(***************************************************************************)
(* Recording version m after the others are closed.                        *)
(***************************************************************************)
LEMMA KnownRecorded ==
    ASSUME NEW ms, NEW rt, NEW vs \in Seq(Versions), Known(ms, rt, vs),
           vs # <<>> => rt[vs[Len(vs)].mandate] = "revoked",
           NEW m \in Mandates, m \in 1 .. Len(ms), ms[m].version = Len(vs) + 1, rt[m] = "live"
    PROVE  LET ws == Append(Superseded(vs), [mandate |-> m, status |-> "ACTIVE"])
           IN  /\ ws \in Seq(Versions) /\ Len(ws) = Len(vs) + 1 /\ ws[Len(ws)].mandate = m
               /\ Known(ms, rt, ws)
               /\ \A i \in 1 .. Len(vs) : ws[i].mandate = vs[i].mandate
<1> DEFINE s == Superseded(vs)
           x == [mandate |-> m, status |-> "ACTIVE"]
           ws == Append(s, x)
           n == Len(vs)
<1>1. /\ SameMandates(vs, s) /\ Known(ms, rt, s) /\ (vs # <<>> => s[n].status # "ACTIVE")
  BY LastClosed
<1>2. s \in Seq(Versions) /\ Len(s) = n /\ n \in Nat
  BY <1>1 DEF SameMandates
<1>3. x \in Versions /\ x.mandate = m /\ x.status = "ACTIVE"
  BY DEF Versions, Statuses
<1> HIDE DEF s, x
<1>4. /\ ws \in Seq(Versions) /\ Len(ws) = n + 1 /\ ws[n + 1] = x
      /\ \A i \in 1 .. n : ws[i] = s[i]
  BY <1>2, <1>3
<1>5. \A i \in 1 .. n + 1 : i \in 1 .. n \/ i = n + 1
  BY <1>2
<1>6. \A i \in 1 .. n : s[i].status # "ACTIVE"
  <2>1. n > 0 => vs # <<>>
    OBVIOUS
  <2> QED
    BY <1>1, <1>2, <2>1 DEF Known
<1> HIDE DEF ws
<1>7. ASSUME NEW i \in 1 .. n + 1
      PROVE  /\ ws[i].mandate \in 1 .. Len(ms) /\ ms[ws[i].mandate].version = i
             /\ rt[ws[i].mandate] # "absent"
             /\ ws[i].status # "ACTIVE" => rt[ws[i].mandate] = "revoked"
             /\ i < n + 1 => ws[i].status # "ACTIVE"
  <2>1. CASE i \in 1 .. n
    BY <1>1, <1>2, <1>4, <1>6, <2>1 DEF Known
  <2>2. CASE i = n + 1
    BY <1>2, <1>3, <1>4, <2>2
  <2> QED
    BY <1>5, <2>1, <2>2
<1>8. Known(ms, rt, ws)
  BY <1>4, <1>7 DEF Known
<1>9. \A i \in 1 .. n : ws[i].mandate = vs[i].mandate
  BY <1>1, <1>4 DEF SameMandates
<1> QED
  BY <1>3, <1>4, <1>8, <1>9 DEF ws, s, x

(***************************************************************************)
(* Executions stay under their versions when statuses change, and, when    *)
(* none of them is marked, when a version is appended.                     *)
(***************************************************************************)
LEMMA ExecutionsKept ==
    ASSUME NEW vs \in Seq(Versions), NEW ws \in Seq(Versions), NEW xs, NEW rsv, NEW um,
           ExecutionsLast(vs, xs, rsv, um), Len(vs) <= Len(ws),
           \A i \in 1 .. Len(vs) : ws[i].mandate = vs[i].mandate,
           Len(ws) = Len(vs) \/ xs \subseteq um
    PROVE  ExecutionsLast(ws, xs, rsv, um)
<1> SUFFICES ASSUME NEW x \in xs
             PROVE  /\ x \in rsv
                    /\ \E i \in 1 .. Len(ws) : ws[i].mandate = x.mandate
                    /\ x \in um \/ x.mandate = ws[Len(ws)].mandate
  BY DEF ExecutionsLast
<1>1. PICK i \in 1 .. Len(vs) : vs[i].mandate = x.mandate
  BY DEF ExecutionsLast
<1>2. Len(vs) \in Nat /\ Len(ws) \in Nat
  OBVIOUS
<1>3. i \in 1 .. Len(ws) /\ ws[i].mandate = x.mandate
  BY <1>1, <1>2
<1>4. x \in um \/ (x.mandate = vs[Len(vs)].mandate /\ Len(ws) = Len(vs))
  BY DEF ExecutionsLast
<1>5. Len(vs) \in 1 .. Len(vs)
  BY <1>1, <1>2
<1> QED
  BY <1>3, <1>4, <1>5 DEF ExecutionsLast

(***************************************************************************)
(* Recording the revocation of version v.                                  *)
(***************************************************************************)
LEMMA KnownRevoked ==
    ASSUME NEW ms, NEW rt, NEW vs \in Seq(Versions), NEW v \in 1 .. Len(vs),
           Known(ms, rt, vs), rt[vs[v].mandate] = "revoked"
    PROVE  /\ SameMandates(vs, Revoked(vs, v)) /\ Known(ms, rt, Revoked(vs, v))
           /\ Revoked(vs, v)[v].status = "REVOKED"
           /\ \A i \in 1 .. Len(vs) : i # v => Revoked(vs, v)[i] = vs[i]
<1>1. "REVOKED" \in Statuses /\ "REVOKED" # "ACTIVE"
  BY DEF Statuses
<1>2. Revoked(vs, v) = WithStatus(vs, v, "REVOKED")
  BY DEF Revoked, WithStatus
<1>3. ASSUME NEW st \in Statuses, st # "ACTIVE"
      PROVE  /\ SameMandates(vs, WithStatus(vs, v, st)) /\ Known(ms, rt, WithStatus(vs, v, st))
             /\ WithStatus(vs, v, st)[v].status = st
             /\ \A i \in 1 .. Len(vs) : i # v => WithStatus(vs, v, st)[i] = vs[i]
  BY <1>3, KnownClosed
<1> QED
  BY <1>1, <1>2, <1>3

(***************************************************************************)
(* The last version is the only one whose root may be live.                *)
(***************************************************************************)
LEMMA LiveIsLast ==
    ASSUME NEW ms, NEW rt, NEW vs \in Seq(Versions), NEW v \in 1 .. Len(vs),
           Known(ms, rt, vs), rt[vs[v].mandate] = "live"
    PROVE  v = Len(vs) /\ vs[v].status = "ACTIVE"
<1>1. vs[v].status = "ACTIVE"
  BY DEF Known
<1>2. ~(v < Len(vs))
  BY <1>1 DEF Known
<1>3. Len(vs) \in Nat
  OBVIOUS
<1> QED
  BY <1>1, <1>2, <1>3

------------------------------------------------------------------------------
(* Authoring.                                                               *)

(***************************************************************************)
(* When nothing is held or closed, nothing executes or is being paused     *)
(* over a first version.                                                   *)
(***************************************************************************)
LEMMA NothingInFlight ==
    ASSUME CoreInv, mode = "running", ~Held, ~Closed
    PROVE  /\ executions \subseteq unmarked /\ ~reserving
           /\ versions = <<>> => ~paused /\ pause.pc # "record"
<1>1. ~reserving /\ run.pc \notin HoldLabels
  BY DEF CoreInv, RunInv, Held, SessionTyped
<1>2. ~(executions \subseteq unmarked) => reserved
  BY <1>1 DEF CoreInv, RunInv, HoldLabels
<1>4. versions = <<>> => Len(versions) = 0
  OBVIOUS
<1>3. ~(executions \subseteq unmarked) => versions # <<>>
  <2>1. ~(executions \subseteq unmarked) => \E x \in db.executions : TRUE
    BY DEF CoreInv, MemoryInv, RunningInv
  <2>2. ~(executions \subseteq unmarked) => \E i \in 1 .. Len(db.versions) : TRUE
    BY <2>1 DEF CoreInv, MemoryInv, Durable, ExecutionsLast
  <2>3. versions = db.versions
    BY DEF CoreInv, MemoryInv, RunningInv
  <2> QED
    BY <1>4, <2>2, <2>3
<1> QED
  BY <1>1, <1>2, <1>3, <1>4 DEF Closed, CoreInv, PauseInv

(***************************************************************************)
(* An authoring step: it may prepare a mandate, open or spend a challenge, *)
(* write a planning record or an approval, and start a commit.             *)
(***************************************************************************)
LEMMA Authored ==
    ASSUME CoreInv, mode = "running",
           mandates' \in MandateLists, Len(mandates') <= MaxMandates,
           Known(mandates', roots, versions),
           Len(mandates) <= Len(mandates'), \A m \in 1 .. Len(mandates) : mandates'[m] = mandates[m],
           challenges' \in [Mandates -> {"none", "open", "spent"}],
           \A m \in Mandates : challenges'[m] = "open" => m \in 1 .. Len(mandates'),
           IsStore(db'), db'.versions = db.versions, db'.executions = db.executions,
           \/ commit' = commit
           \/ \E m \in 1 .. Len(mandates') :
                ~Held /\ ~Closed /\ CommitStarts(m) /\ mandates'[m].version = NextVersion,
           UNCHANGED <<ledger, mode, versions, paused, reserved, reserving, executions, orphans,
                       pause, run, runs, unmarked>>
    PROVE  CoreInv'
<1> USE DEF ledger
<1>0. Len(mandates) \in Nat /\ Len(mandates') \in Nat /\ MaxMandates \in Nat
  BY SessionAssumption DEF CoreInv, SessionTyped, MandateLists
<1>1. ASSUME NEW m \in 1 .. Len(mandates'), ~Held, ~Closed, CommitStarts(m),
             mandates'[m].version = NextVersion
      PROVE  /\ commit' \in [pc : {"idle", "revoke", "register", "delegate", "record"},
                               mandate : 0 .. MaxMandates]
             /\ commit'.pc # "idle" /\ CommitInv'
  <2>1. /\ executions \subseteq unmarked /\ ~reserving
        /\ versions = <<>> => ~paused /\ pause.pc # "record"
    BY <1>1, NothingInFlight
  <2>2. commit'.mandate = m /\ commit'.pc = IF versions = <<>> THEN "register" ELSE "revoke"
    BY <1>1 DEF CommitStarts
  <2>3. commit' \in [pc : {"idle", "revoke", "register", "delegate", "record"},
                      mandate : 0 .. MaxMandates]
    BY <1>0, <1>1 DEF CommitStarts
  <2>4. CommitInv'
    BY <1>1, <2>1, <2>2 DEF CommitInv, NextVersion
  <2> QED
    BY <2>2, <2>3, <2>4
<1>2. ASSUME commit' = commit
      PROVE  CommitInv'
  <2>1. commit.pc # "idle" => commit.mandate \in 1 .. Len(mandates)
    BY DEF CoreInv, CommitInv
  <2> QED
    BY <1>0, <1>2, <2>1 DEF CoreInv, CommitInv, LastVersion
<1>3. commit' \in [pc : {"idle", "revoke", "register", "delegate", "record"},
                    mandate : 0 .. MaxMandates]
      /\ CommitInv'
  BY <1>1, <1>2 DEF CoreInv, SessionTyped
<1>4. SessionTyped'
  BY <1>3 DEF CoreInv, SessionTyped, MandateLists
<1>5. MemoryInv'
  BY DEF CoreInv, MemoryInv, Durable, ExecutionsLast, RunningInv, RestoredInv, DownInv, LastVersion
<1>6. PauseInv' /\ RunInv'
  BY DEF CoreInv, PauseInv, RunInv, LastVersion
<1> QED
  BY <1>3, <1>4, <1>5, <1>6 DEF CoreInv

(***************************************************************************)
(* A prepared mandate is the next one, for the next version.               *)
(***************************************************************************)
LEMMA Prepared ==
    ASSUME CoreInv, NEW method, Prepare(method)
    PROVE  /\ mode = "running" /\ ~Held /\ ~Closed
           /\ mandates' \in MandateLists /\ Len(mandates') = Len(mandates) + 1
           /\ Len(mandates') <= MaxMandates /\ Len(mandates) \in Nat /\ MaxMandates \in Nat
           /\ Known(mandates', roots, versions)
           /\ \A m \in 1 .. Len(mandates) : mandates'[m] = mandates[m]
           /\ mandates'[Len(mandates) + 1].version = NextVersion
<1> DEFINE x == [version |-> NextVersion, method |-> method]
<1>1. mandates \in MandateLists /\ versions \in Seq(Versions) /\ Len(mandates) \in Nat
      /\ MaxMandates \in Nat /\ Known(mandates, roots, versions)
  BY SessionAssumption DEF CoreInv, SessionTyped, MandateLists, MemoryInv
<1>2. /\ mode = "running" /\ ~Held /\ ~Closed /\ Len(mandates) < MaxMandates
      /\ mandates' = Append(mandates, x) /\ method \in {"KEY", "WALLET", "PLAN"}
  BY SessionAssumption DEF Prepare
<1>3. NextVersion \in Nat /\ x.version = NextVersion
      /\ x \in MandateRecords
  BY <1>1, <1>2 DEF NextVersion, MandateRecords
<1> HIDE DEF x
<1>4. /\ mandates' \in MandateLists /\ Len(mandates') = Len(mandates) + 1
      /\ mandates'[Len(mandates) + 1] = x
      /\ \A m \in 1 .. Len(mandates) : mandates'[m] = mandates[m]
  BY <1>1, <1>2, <1>3 DEF MandateLists
<1>5. Known(mandates', roots, versions)
  BY <1>1, <1>2, KnownPrepared
<1> QED
  BY <1>1, <1>2, <1>3, <1>4, <1>5

(***************************************************************************)
(* Its challenge is opened.                                                *)
(***************************************************************************)
LEMMA ChallengeOpened ==
    ASSUME CoreInv, NEW method, Prepare(method),
           challenges' = [challenges EXCEPT ![Len(mandates) + 1] = "open"]
    PROVE  /\ challenges' \in [Mandates -> {"none", "open", "spent"}]
           /\ \A m \in Mandates : challenges'[m] = "open" => m \in 1 .. Len(mandates')
<1> DEFINE n == Len(mandates) + 1
<1>1. Len(mandates') = n /\ Len(mandates) \in Nat
  BY Prepared
<1>2. /\ challenges \in [Mandates -> {"none", "open", "spent"}]
      /\ \A m \in Mandates : challenges[m] = "open" => m \in 1 .. Len(mandates)
  BY DEF CoreInv, SessionTyped, MemoryInv
<1>3. \A m \in Mandates : challenges'[m] = IF m = n THEN "open" ELSE challenges[m]
  BY <1>2
<1>4. n \in 1 .. n /\ \A m \in 1 .. Len(mandates) : m \in 1 .. n
  BY <1>1
<1>5. challenges' \in [Mandates -> {"none", "open", "spent"}]
  BY <1>2
<1> HIDE DEF n
<1> QED
  BY <1>1, <1>2, <1>3, <1>4, <1>5

\* The wallet's challenge.
LEMMA WalletChallengeStep ==
    ASSUME CoreInv, WalletChallenge
    PROVE  CoreInv'
<1> DEFINE n == Len(mandates) + 1
<1>1. Prepare("WALLET")
  BY DEF WalletChallenge
<1>2. /\ challenges' = [challenges EXCEPT ![n] = "open"]
      /\ UNCHANGED <<ledger, mode, versions, paused, reserved, reserving, executions, orphans,
                     pause, run, runs, unmarked>>
      /\ db' = db /\ commit' = commit
  BY DEF WalletChallenge
<1>3. /\ challenges \in [Mandates -> {"none", "open", "spent"}] /\ IsStore(db)
      /\ \A m \in Mandates : challenges[m] = "open" => m \in 1 .. Len(mandates)
  BY DEF CoreInv, SessionTyped, MemoryInv, Durable
<1>4. /\ challenges' \in [Mandates -> {"none", "open", "spent"}]
      /\ \A m \in Mandates : challenges'[m] = "open" => m \in 1 .. Len(mandates')
  BY <1>1, <1>2, ChallengeOpened
<1>5. IsStore(db') /\ db'.versions = db.versions /\ db'.executions = db.executions
  BY <1>2, <1>3
<1>6. Len(mandates') = n /\ Len(mandates) <= Len(mandates')
  BY <1>1, Prepared
<1>7. /\ mode = "running" /\ mandates' \in MandateLists /\ Len(mandates') <= MaxMandates
      /\ Known(mandates', roots, versions)
      /\ \A m \in 1 .. Len(mandates) : mandates'[m] = mandates[m]
  BY <1>1, Prepared
<1> QED
  BY <1>2, <1>4, <1>5, <1>6, <1>7, Authored

\* The plan-bound challenge.
LEMMA SpineChallengeStep ==
    ASSUME CoreInv, SpineChallenge
    PROVE  CoreInv'
<1> DEFINE n == Len(mandates) + 1
           e == AcceptanceFor(NextVersion, Len(mandates) + 1, "ACCEPTED")
<1>1. Prepare("PLAN")
  BY DEF SpineChallenge
<1>2. /\ challenges' = [challenges EXCEPT ![n] = "open"]
      /\ UNCHANGED <<ledger, mode, versions, paused, reserved, reserving, executions, orphans,
                     pause, run, runs, unmarked>>
      /\ db' = [db EXCEPT !.planning = e] /\ commit' = commit
  BY DEF SpineChallenge
<1> HIDE DEF e
<1>3. /\ challenges \in [Mandates -> {"none", "open", "spent"}] /\ IsStore(db)
      /\ \A m \in Mandates : challenges[m] = "open" => m \in 1 .. Len(mandates)
  BY DEF CoreInv, SessionTyped, MemoryInv, Durable
<1>4. /\ challenges' \in [Mandates -> {"none", "open", "spent"}]
      /\ \A m \in Mandates : challenges'[m] = "open" => m \in 1 .. Len(mandates')
  BY <1>1, <1>2, ChallengeOpened
<1>5. IsStore(db') /\ db'.versions = db.versions /\ db'.executions = db.executions
  BY <1>2, <1>3 DEF IsStore, StoreShape
<1>6. Len(mandates') = n /\ Len(mandates) <= Len(mandates')
  BY <1>1, Prepared
<1>7. /\ mode = "running" /\ mandates' \in MandateLists /\ Len(mandates') <= MaxMandates
      /\ Known(mandates', roots, versions)
      /\ \A m \in 1 .. Len(mandates) : mandates'[m] = mandates[m]
  BY <1>1, Prepared
<1> QED
  BY <1>2, <1>4, <1>5, <1>6, <1>7, Authored

\* The principal signs with the session's own key.
LEMMA AuthorizeWithKeyStep ==
    ASSUME CoreInv, AuthorizeWithKey
    PROVE  CoreInv'
<1> DEFINE n == Len(mandates) + 1
<1>1. Prepare("KEY") /\ CommitStarts(n)
  BY DEF AuthorizeWithKey
<1>2. /\ UNCHANGED <<ledger, mode, versions, paused, reserved, reserving, executions, orphans,
                     pause, run, runs, unmarked>>
      /\ db' = db /\ challenges' = challenges
  BY DEF AuthorizeWithKey, memory
<1>3. /\ challenges \in [Mandates -> {"none", "open", "spent"}] /\ IsStore(db)
      /\ \A m \in Mandates : challenges[m] = "open" => m \in 1 .. Len(mandates)
  BY DEF CoreInv, SessionTyped, MemoryInv, Durable
<1>4. Len(mandates') = n /\ Len(mandates) <= Len(mandates') /\ n \in 1 .. Len(mandates')
  BY <1>1, Prepared
<1>5. /\ challenges' \in [Mandates -> {"none", "open", "spent"}]
      /\ \A m \in Mandates : challenges'[m] = "open" => m \in 1 .. Len(mandates')
  BY <1>1, <1>2, <1>3, <1>4, Prepared
<1>6. IsStore(db') /\ db'.versions = db.versions /\ db'.executions = db.executions
  BY <1>2, <1>3
<1>7. \E m \in 1 .. Len(mandates') :
        ~Held /\ ~Closed /\ CommitStarts(m) /\ mandates'[m].version = NextVersion
  BY <1>1, <1>4, Prepared
<1> QED
  BY <1>1, <1>2, <1>4, <1>5, <1>6, <1>7, Prepared, Authored

\* A challenge signed with the wallet: its commit starts, unless it is refused.
LEMMA SignChallengeStep ==
    ASSUME CoreInv, NEW m \in Mandates, SignChallenge(m)
    PROVE  CoreInv'
<1>1. /\ mode = "running" /\ challenges[m] = "open" /\ mandates[m].version = NextVersion
      /\ challenges' = [challenges EXCEPT ![m] = "spent"] /\ mandates' = mandates
      /\ UNCHANGED <<ledger, mode, versions, paused, reserved, reserving, executions, orphans,
                     pause, run, runs, unmarked>>
  BY DEF SignChallenge
<1>2. db' = db \/ db' = [db EXCEPT !.approvals = @ \cup {mandates[m].version}]
  BY DEF SignChallenge
<1>3. commit' = commit \/ (~Held /\ ~Closed /\ CommitStarts(m))
  BY DEF SignChallenge
<1>4. /\ challenges \in [Mandates -> {"none", "open", "spent"}] /\ IsStore(db)
      /\ \A k \in Mandates : challenges[k] = "open" => k \in 1 .. Len(mandates)
      /\ mandates \in MandateLists /\ Len(mandates) \in Nat /\ Len(mandates) <= MaxMandates
      /\ Known(mandates, roots, versions)
  BY DEF CoreInv, SessionTyped, MemoryInv, Durable, MandateLists
<1>5. /\ challenges' \in [Mandates -> {"none", "open", "spent"}]
      /\ \A k \in Mandates : challenges'[k] = "open" => k \in 1 .. Len(mandates')
  BY <1>1, <1>4
<1>6. IsStore(db') /\ db'.versions = db.versions /\ db'.executions = db.executions
  BY <1>2, <1>4 DEF IsStore, StoreShape
<1>7. /\ mandates' \in MandateLists /\ Len(mandates') <= MaxMandates /\ Len(mandates) <= Len(mandates')
      /\ Known(mandates', roots, versions) /\ \A k \in 1 .. Len(mandates) : mandates'[k] = mandates[k]
  BY <1>1, <1>4
<1>8. \/ commit' = commit
      \/ \E k \in 1 .. Len(mandates') :
            ~Held /\ ~Closed /\ CommitStarts(k) /\ mandates'[k].version = NextVersion
  BY <1>1, <1>3, <1>4
<1> QED
  BY <1>1, <1>5, <1>6, <1>7, <1>8, Authored

\* A challenge that expires, and the two writes of the planning records.
LEMMA DraftStep ==
    ASSUME CoreInv, (\E m \in Mandates : ChallengeDies(m)) \/ Plan \/ ApplyPlan
    PROVE  CoreInv'
<1>1. /\ mode = "running" /\ mandates' = mandates /\ commit' = commit
      /\ UNCHANGED <<ledger, mode, versions, paused, reserved, reserving, executions, orphans,
                     pause, run, runs, unmarked>>
  BY DEF ChallengeDies, Plan, ApplyPlan, memory
<1>2. /\ challenges \in [Mandates -> {"none", "open", "spent"}] /\ IsStore(db)
      /\ \A k \in Mandates : challenges[k] = "open" => k \in 1 .. Len(mandates)
      /\ mandates \in MandateLists /\ Len(mandates) \in Nat /\ Len(mandates) <= MaxMandates
      /\ Known(mandates, roots, versions)
  BY DEF CoreInv, SessionTyped, MemoryInv, Durable, MandateLists
<1>3. \/ challenges' = challenges
      \/ \E m \in Mandates : challenges' = [challenges EXCEPT ![m] = "spent"]
  BY DEF ChallengeDies, Plan, ApplyPlan, memory
<1>4. /\ challenges' \in [Mandates -> {"none", "open", "spent"}]
      /\ \A k \in Mandates : challenges'[k] = "open" => k \in 1 .. Len(mandates')
  BY <1>1, <1>2, <1>3
<1>5. IsStore(db') /\ db'.versions = db.versions /\ db'.executions = db.executions
  <2>1. CASE db' = db
    BY <1>2, <2>1
  <2>2. CASE \E e : db' = [db EXCEPT !.planning = e]
    BY <1>2, <2>2 DEF IsStore, StoreShape
  <2>3. db' = db \/ \E e : db' = [db EXCEPT !.planning = e]
    <3>1. CASE \E m \in Mandates : ChallengeDies(m)
      BY <3>1 DEF ChallengeDies
    <3>2. CASE Plan
      BY <3>2 DEF Plan
    <3>3. CASE ApplyPlan
      <4>1. PICK i \in DOMAIN db.planning :
              db' = [db EXCEPT !.planning[i].commit = 0, !.planning[i].status = "ACCEPTED"]
        BY <3>3 DEF ApplyPlan
      <4>2. db' = [db EXCEPT !.planning = [db.planning EXCEPT ![i].commit = 0, ![i].status = "ACCEPTED"]]
        BY <1>2, <4>1 DEF IsStore, StoreShape
      <4> QED
        BY <4>2
    <3> QED
      BY <3>1, <3>2, <3>3
  <2> QED
    BY <2>1, <2>2, <2>3
<1>6. /\ mandates' \in MandateLists /\ Len(mandates') <= MaxMandates /\ Len(mandates) <= Len(mandates')
      /\ Known(mandates', roots, versions) /\ \A k \in 1 .. Len(mandates) : mandates'[k] = mandates[k]
  BY <1>1, <1>2
<1> QED
  BY <1>1, <1>4, <1>5, <1>6, Authored

------------------------------------------------------------------------------
(* Committing.                                                              *)

\* Writes to two of the fields of session.db.
WithVersions(d, e) == [d EXCEPT !.versions = e]
WithPlanning(d, e) == [d EXCEPT !.planning = e]

\* What they leave alone.
LEMMA StoreWrites ==
    ASSUME NEW d, StoreShape(d), NEW e
    PROVE  /\ StoreShape(WithVersions(d, e)) /\ WithVersions(d, e).versions = e
           /\ WithVersions(d, e).executions = d.executions
           /\ StoreShape(WithPlanning(d, e)) /\ WithPlanning(d, e).versions = d.versions
           /\ WithPlanning(d, e).executions = d.executions
BY DEF StoreShape, WithVersions, WithPlanning

(***************************************************************************)
(* Every write of a commit's record section either closes the last version *)
(* or has appended the new one too; the last has.                          *)
(***************************************************************************)
LEMMA CommitWritesShape ==
    ASSUME StoreShape(db), NEW m, mandates[m].method \in {"KEY", "WALLET", "PLAN"},
           NEW w \in CommitWrites(m)
    PROVE  LET s == Superseded(db.versions)
               a == Append(s, [mandate |-> m, status |-> "ACTIVE"])
           IN  /\ \A i \in DOMAIN w : /\ StoreShape(w[i]) /\ w[i].executions = db.executions
                                      /\ w[i].versions = s \/ w[i].versions = a
               /\ StoreShape(w[Len(w)]) /\ w[Len(w)].executions = db.executions
               /\ w[Len(w)].versions = a
<1> DEFINE s == Superseded(db.versions)
           a == Append(s, [mandate |-> m, status |-> "ACTIVE"])
           v == Len(db.versions) + 1
           first == WithVersions(db, s)
           then == WithVersions(first, a)
           w1(e) == <<first, then, WithPlanning(then, e)>>
           w2 == <<first, then>>
           w3(e, g) == <<first, then, WithPlanning(then, e), WithPlanning(then, g)>>
           Good(d) == /\ StoreShape(d) /\ d.executions = db.executions
                      /\ d.versions = s \/ d.versions = a
           Done(d) == Good(d) /\ d.versions = a
           Shaped(u) == (\A i \in DOMAIN u : Good(u[i])) /\ Done(u[Len(u)])
<1> HIDE DEF s, a
<1>0. StoreShape(first) /\ first.versions = s /\ first.executions = db.executions
  BY StoreWrites, Zenon
<1>1. Good(first)
  BY <1>0
<1> HIDE DEF first
<1>a. StoreShape(then) /\ then.versions = a /\ then.executions = db.executions
  BY <1>0, StoreWrites
<1>4. Done(then) /\ Good(then)
  BY <1>a
<1> HIDE DEF then
<1>2. ASSUME NEW e
      PROVE  Done(WithPlanning(then, e)) /\ Good(WithPlanning(then, e))
  BY <1>a, StoreWrites
<1>3. w = w2 \/ (\E e : w = w1(e)) \/ (\E e, g : w = w3(e, g))
  <2> HIDE DEF w1, w2, w3
  <2>1. CASE mandates[m].method = "PLAN"
    <3>1. w = w1(SignedRecords(then.planning, v, m))
      BY <2>1 DEF CommitWrites, w1, first, then, s, a, WithVersions, WithPlanning
    <3> QED
      BY <3>1
  <2>2. CASE mandates[m].method = "WALLET"
    BY <2>2 DEF CommitWrites, w2, first, then, s, a, WithVersions, WithPlanning
  <2>3. CASE mandates[m].method = "KEY"
    <3>1. w = w2 \/ w = w3(AcceptanceFor(v, m, "ACCEPTED"), AcceptanceFor(v, m, "SIGNED"))
      BY <2>3 DEF CommitWrites, w2, w3, first, then, s, a, WithVersions, WithPlanning
    <3> QED
      BY <3>1
  <2> QED
    BY <2>1, <2>2, <2>3
<1> HIDE DEF Good, Done
<1>5. Shaped(w2)
  BY <1>1, <1>4
<1>6. ASSUME NEW e PROVE Shaped(w1(e))
  BY <1>1, <1>4, <1>2
<1>7. ASSUME NEW e, NEW g PROVE Shaped(w3(e, g))
  BY <1>1, <1>4, <1>2
<1>8. Shaped(w)
  <2> HIDE DEF Shaped, w1, w2, w3
  <2> QED
    BY <1>3, <1>5, <1>6, <1>7
<1> QED
  BY <1>8 DEF Good, Done, s, a

\* The variables a commit's ledger writes leave alone.
LedgerWriteFrame ==
    UNCHANGED <<mandates, reservations, db, mode, memory, pause, run, runs, unmarked>>

\* Facts about a commit in flight.
LEMMA CommitFacts ==
    ASSUME CoreInv, commit.pc # "idle"
    PROVE  /\ mode = "running" /\ versions = db.versions /\ ~reserving
           /\ executions \subseteq unmarked /\ db.executions \subseteq executions
           /\ ExecutionsLast(versions, db.executions, reservations, unmarked)
           /\ run.pc \notin HoldLabels /\ versions \in Seq(Versions) /\ Len(versions) \in Nat
           /\ Known(mandates, roots, versions) /\ roots \in RootMaps
           /\ versions # <<>> => Len(versions) \in 1 .. Len(versions) /\ LastVersion.mandate \in Mandates
           /\ commit.mandate \in 1 .. Len(mandates) /\ commit.mandate \in Mandates
           /\ mandates[commit.mandate].version = Len(versions) + 1
           /\ mandates[commit.mandate].method \in {"KEY", "WALLET", "PLAN"}
<1>1. /\ mode = "running" /\ executions \subseteq unmarked /\ ~reserving
      /\ versions \in Seq(Versions) /\ Known(mandates, roots, versions) /\ roots \in RootMaps
      /\ commit.mandate \in 1 .. Len(mandates)
      /\ mandates[commit.mandate].version = Len(versions) + 1
  BY DEF CoreInv, SessionTyped, MemoryInv, DownInv, CommitInv, RootMaps
<1>2. /\ versions = db.versions /\ run.pc \notin HoldLabels
      /\ db.executions \subseteq executions
      /\ ExecutionsLast(versions, db.executions, reservations, unmarked)
  BY <1>1 DEF CoreInv, MemoryInv, RunningInv, RunInv, Durable
<1>3. /\ Len(mandates) \in Nat /\ Len(mandates) <= MaxMandates /\ MaxMandates \in Nat
      /\ \A k \in 1 .. Len(mandates) : mandates[k].method \in {"KEY", "WALLET", "PLAN"}
  <2>1. /\ mandates \in MandateLists
        /\ Len(mandates) <= MaxMandates
    BY DEF CoreInv, SessionTyped
  <2>2. \A k \in 1 .. Len(mandates) : mandates[k] \in MandateRecords
    BY <2>1 DEF MandateLists
  <2>3. Len(mandates) \in Nat
    BY <2>1 DEF MandateLists
  <2>4. MaxMandates \in Nat
    BY SessionAssumption
  <2>5. \A k \in 1 .. Len(mandates) : mandates[k].method \in {"KEY", "WALLET", "PLAN"}
    BY <2>2 DEF MandateRecords
  <2> QED
    BY <2>1, <2>3, <2>4, <2>5
<1>4. commit.mandate \in Mandates
  BY <1>1, <1>3 DEF Mandates
<1>5. Len(versions) \in Nat /\ (versions # <<>> => Len(versions) \in 1 .. Len(versions))
  BY <1>1
<1>6. versions # <<>> => LastVersion.mandate \in Mandates
  BY <1>1, <1>5, VersionTyped DEF LastVersion
<1> QED
  BY <1>1, <1>2, <1>3, <1>4, <1>5, <1>6

\* The predecessor is revoked first, or the commit is given up.
LEMMA CommitRevokeStep ==
    ASSUME CoreInv, CommitRevoke, LedgerWriteFrame
    PROVE  CoreInv'
<1> DEFINE p == LastVersion.mandate
<1> USE DEF LedgerWriteFrame, memory
<1>0. commit.pc = "revoke" /\ commit.pc # "idle" /\ versions # <<>>
  BY DEF CommitRevoke, CoreInv, CommitInv
<1>1. CASE roots[p] = "live" /\ roots' = [roots EXCEPT ![p] = "revoked"]
           /\ commit' = [commit EXCEPT !.pc = "register"]
  <2>1. /\ commit'.pc = "register" /\ commit'.mandate = commit.mandate
        /\ commit' \in [pc : {"idle", "revoke", "register", "delegate", "record"},
                         mandate : 0 .. MaxMandates]
    BY <1>1 DEF CoreInv, SessionTyped
  <2>2. /\ roots' \in RootMaps /\ roots'[p] = "revoked"
        /\ Known(mandates, roots', versions)
        /\ \A m \in Mandates : roots[m] = "revoked" => roots'[m] = "revoked"
    BY <1>0, <1>1, CommitFacts, KnownRevoke DEF RootMaps
  <2>3. ~paused /\ pause.pc # "record"
    BY <1>0, <1>1, CommitFacts DEF CoreInv, MemoryInv, RunningInv, PauseInv
  <2>4. SessionTyped'
    BY <2>1, <2>2 DEF CoreInv, SessionTyped, RootMaps
  <2>5. MemoryInv'
    BY <1>0, <2>2, <2>3, CommitFacts
    DEF CoreInv, MemoryInv, Durable, ExecutionsLast, RunningInv, RestoredInv, DownInv
  <2>6. CommitInv'
    BY <1>0, <2>1, <2>2, <2>3, CommitFacts DEF CoreInv, CommitInv, LastVersion
  <2>7. PauseInv' /\ RunInv'
    BY <2>3 DEF CoreInv, PauseInv, RunInv, LastVersion
  <2> QED
    BY <2>4, <2>5, <2>6, <2>7 DEF CoreInv
<1>2. CASE commit' = NoCommit /\ UNCHANGED roots
  <2>1. commit'.pc = "idle" /\ commit' \in [pc : {"idle", "revoke", "register", "delegate", "record"},
                         mandate : 0 .. MaxMandates]
    BY <1>2, SessionAssumption DEF NoCommit
  <2>2. SessionTyped'
    BY <1>2, <2>1 DEF CoreInv, SessionTyped
  <2>3. MemoryInv'
    BY <1>0, <1>2, <2>1, CommitFacts
    DEF CoreInv, MemoryInv, Durable, ExecutionsLast, RunningInv, RestoredInv, DownInv, LastVersion
  <2>4. CommitInv' /\ PauseInv' /\ RunInv'
    BY <1>2, <2>1 DEF CoreInv, CommitInv, PauseInv, RunInv, LastVersion
  <2> QED
    BY <2>2, <2>3, <2>4 DEF CoreInv
<1> QED
  BY <1>1, <1>2 DEF CommitRevoke

\* The new root is registered; no version yet names it.
LEMMA CommitRegisterStep ==
    ASSUME CoreInv, CommitRegister, LedgerWriteFrame
    PROVE  CoreInv'
<1> DEFINE m == commit.mandate
<1> USE DEF LedgerWriteFrame, memory
<1>0. commit.pc \in {"register", "delegate"} /\ commit.pc # "idle"
      /\ ~paused /\ pause.pc # "record" /\ (versions # <<>> => roots[LastVersion.mandate] = "revoked")
  BY DEF CommitRegister, CoreInv, CommitInv
<1>1. /\ commit'.pc \in {"delegate", "record"} /\ commit'.mandate = m
      /\ commit' \in [pc : {"idle", "revoke", "register", "delegate", "record"},
                       mandate : 0 .. MaxMandates]
      /\ roots' = [roots EXCEPT ![m] = "live"]
  BY DEF CommitRegister, CoreInv, SessionTyped
<1>2. /\ roots' \in RootMaps /\ roots'[m] = "live"
      /\ \A k \in Mandates : k # m => roots'[k] = roots[k]
  BY <1>0, <1>1, CommitFacts DEF RootMaps
<1>3. Known(mandates, roots', versions)
  BY <1>0, <1>1, CommitFacts, KnownRegister
<1>4. versions # <<>> => LastVersion.mandate # m
  <2>1. versions # <<>> => mandates[LastVersion.mandate].version = Len(versions)
    BY <1>0, CommitFacts DEF Known, LastVersion
  <2> QED
    BY <1>0, <2>1, CommitFacts
<1>5. versions # <<>> => roots'[LastVersion.mandate] = "revoked"
  BY <1>0, <1>2, <1>4, CommitFacts
<1>6. SessionTyped'
  BY <1>1, <1>2 DEF CoreInv, SessionTyped, RootMaps
<1>7. MemoryInv'
  BY <1>0, <1>2, <1>3, CommitFacts
  DEF CoreInv, MemoryInv, Durable, ExecutionsLast, RunningInv, RestoredInv, DownInv
<1>8. CommitInv'
  BY <1>0, <1>1, <1>2, <1>5, CommitFacts DEF CoreInv, CommitInv, LastVersion
<1>9. PauseInv' /\ RunInv'
  BY <1>0 DEF CoreInv, PauseInv, RunInv, LastVersion
<1> QED
  BY <1>6, <1>7, <1>8, <1>9 DEF CoreInv

\* A refused registration closes the revoked predecessor and pauses.
LEMMA CommitRefusedStep ==
    ASSUME CoreInv, CommitRefused,
           UNCHANGED <<mandates, ledger, mode, reserved, reserving, executions, orphans,
                       challenges, pause, run, runs, unmarked>>
    PROVE  CoreInv'
<1> USE DEF ledger
<1>0. /\ commit.pc \in {"register", "delegate"} /\ commit.pc # "idle"
      /\ ~paused /\ pause.pc # "record" /\ (versions # <<>> => roots[LastVersion.mandate] = "revoked")
      /\ versions' = FailClosed(versions) /\ paused' = (versions # <<>>) /\ commit' = NoCommit
      /\ db' = [db EXCEPT !.versions = FailClosed(@), !.paused = paused']
  BY DEF CommitRefused, CoreInv, CommitInv, SessionTyped
<1>1. /\ SameMandates(versions, versions') /\ Known(mandates, roots, versions')
  BY <1>0, CommitFacts, LastClosed DEF LastVersion
<1>2. /\ versions' \in Seq(Versions) /\ Len(versions') = Len(versions)
      /\ versions # <<>> => versions' # <<>> /\ LastVersion'.mandate = LastVersion.mandate
  BY <1>0, <1>1, CommitFacts DEF SameMandates, LastVersion
<1>3. IsStore(db') /\ db'.versions = versions' /\ db'.executions = db.executions
  BY <1>0, <1>2, CommitFacts DEF CoreInv, MemoryInv, Durable, IsStore, StoreShape, RunningInv
<1>4. commit'.pc = "idle" /\ commit' \in [pc : {"idle", "revoke", "register", "delegate", "record"},
                         mandate : 0 .. MaxMandates]
  BY <1>0, SessionAssumption DEF NoCommit
<1>5. SessionTyped'
  BY <1>0, <1>2, <1>4 DEF CoreInv, SessionTyped
<1>a. ExecutionsLast(versions', db.executions, reservations, unmarked)
  BY <1>0, <1>1, <1>2, CommitFacts, ExecutionsKept DEF SameMandates
<1>6. MemoryInv'
  BY <1>0, <1>1, <1>2, <1>3, <1>4, <1>a, CommitFacts
  DEF CoreInv, MemoryInv, Durable, RunningInv, RestoredInv, DownInv
<1>7. CommitInv' /\ PauseInv' /\ RunInv'
  BY <1>0, <1>2, <1>4, CommitFacts DEF CoreInv, CommitInv, PauseInv, RunInv
<1> QED
  BY <1>5, <1>6, <1>7 DEF CoreInv

\* The new version is recorded, its predecessor closed.
LEMMA CommitRecordStep ==
    ASSUME CoreInv, CommitRecord,
           UNCHANGED <<mandates, ledger, mode, paused, reserved, reserving, executions, orphans,
                       challenges, pause, run, runs, unmarked>>
    PROVE  CoreInv'
<1> USE DEF ledger
<1> DEFINE m == commit.mandate
           s == Superseded(versions)
           a == Append(s, [mandate |-> m, status |-> "ACTIVE"])
<1>0. /\ commit.pc = "record" /\ commit.pc # "idle" /\ roots[m] = "live"
      /\ ~paused /\ pause.pc # "record" /\ (versions # <<>> => roots[LastVersion.mandate] = "revoked")
      /\ versions' = a /\ commit' = NoCommit
  BY DEF CommitRecord, CoreInv, CommitInv
<1>1. /\ a \in Seq(Versions) /\ Len(a) = Len(versions) + 1 /\ Known(mandates, roots, a)
      /\ \A i \in 1 .. Len(versions) : a[i].mandate = versions[i].mandate
  BY <1>0, CommitFacts, KnownRecorded DEF LastVersion
<1>2. PICK w \in CommitWrites(m) : db' = w[Len(w)]
  BY DEF CommitRecord
<1>3. StoreShape(db) /\ versions = db.versions
  BY <1>0, CommitFacts DEF CoreInv, MemoryInv, Durable, IsStore, RunningInv
<1>4. StoreShape(db') /\ db'.executions = db.executions /\ db'.versions = a
  BY <1>0, <1>2, <1>3, CommitFacts, CommitWritesShape
<1> HIDE DEF a
<1>5. commit'.pc = "idle" /\ commit' \in [pc : {"idle", "revoke", "register", "delegate", "record"},
                         mandate : 0 .. MaxMandates]
  BY <1>0, SessionAssumption DEF NoCommit
<1>6. SessionTyped'
  BY <1>0, <1>1, <1>5 DEF CoreInv, SessionTyped
<1>a. ExecutionsLast(a, db.executions, reservations, unmarked)
  BY <1>0, <1>1, CommitFacts, ExecutionsKept
<1>7. MemoryInv'
  BY <1>0, <1>1, <1>4, <1>5, <1>a, CommitFacts
  DEF CoreInv, MemoryInv, Durable, IsStore, RunningInv, RestoredInv, DownInv
<1>8. CommitInv' /\ PauseInv' /\ RunInv'
  BY <1>0, <1>1, <1>5, CommitFacts DEF CoreInv, CommitInv, PauseInv, RunInv
<1> QED
  BY <1>6, <1>7, <1>8 DEF CoreInv

------------------------------------------------------------------------------
(* Pausing.                                                                 *)

\* A pause starts over the version in force.
LEMMA PauseStep ==
    ASSUME CoreInv, Pause
    PROVE  CoreInv'
<1> USE DEF ledger, memory
<1>1. /\ mode \in {"running", "restored"} /\ pause.pc = "idle" /\ commit.pc = "idle" /\ Active # 0
      /\ pause' = [pc |-> "revoke", version |-> Active]
      /\ UNCHANGED <<mandates, ledger, db, mode, memory, commit, run, runs, unmarked>>
  BY DEF Pause, Held, Busy
<1>2. Active = Len(versions) /\ Len(versions) \in Nat /\ Len(versions) \in 1 .. Len(versions)
  <2>1. versions \in Seq(Versions) /\ versions # <<>> /\ Active = Len(versions)
    BY <1>1 DEF Active, CoreInv, SessionTyped
  <2> QED
    BY <2>1
<1>3. pause'.pc = "revoke" /\ pause'.version = Len(versions)
      /\ pause' \in [pc : {"idle", "revoke", "record"}, version : Nat]
  BY <1>1, <1>2
<1>4. SessionTyped'
  BY <1>1, <1>3 DEF CoreInv, SessionTyped
<1>5. Active' = Active /\ LastVersion' = LastVersion /\ (OnePrincipal(versions))' = OnePrincipal(versions)
  BY <1>1 DEF Active, LastVersion, OnePrincipal, PrincipalOf
<1>6. MemoryInv'
  BY <1>1, <1>3, <1>5 DEF CoreInv, MemoryInv, RunningInv, RestoredInv, DownInv
<1>7. CommitInv' /\ PauseInv' /\ RunInv'
  BY <1>1, <1>2, <1>3, <1>5 DEF CoreInv, CommitInv, PauseInv, RunInv
<1> QED
  BY <1>4, <1>6, <1>7 DEF CoreInv

\* Its revocation lands, or is refused.
LEMMA PauseRevokeStep ==
    ASSUME CoreInv, PauseRevoke
    PROVE  CoreInv'
<1> DEFINE v == pause.version
           p == versions[v].mandate
<1> USE DEF ledger, memory
<1>0. /\ pause.pc = "revoke" /\ v \in 1 .. Len(versions)
      /\ UNCHANGED <<mandates, reservations, db, mode, memory, commit, run, runs, unmarked>>
  BY DEF PauseRevoke, CoreInv, PauseInv
<1>1. versions \in Seq(Versions) /\ roots \in RootMaps /\ Known(mandates, roots, versions)
      /\ db.versions \in Seq(Versions) /\ Known(mandates, roots, db.versions)
      /\ versions # <<>> /\ p \in Mandates
  <2>1. versions \in Seq(Versions)
    BY DEF CoreInv, SessionTyped
  <2> QED
    BY <1>0, <2>1, VersionTyped DEF CoreInv, SessionTyped, MemoryInv, Durable, IsStore, RootMaps
<1>2. CASE roots[p] = "live" /\ roots' = [roots EXCEPT ![p] = "revoked"]
           /\ pause' = [pause EXCEPT !.pc = "record"]
  <2>1. v = Len(versions) /\ LastVersion.mandate = p
    BY <1>0, <1>1, <1>2, LiveIsLast DEF LastVersion
  <2>2. /\ roots' \in RootMaps /\ roots'[p] = "revoked"
        /\ Known(mandates, roots', versions) /\ Known(mandates, roots', db.versions)
    BY <1>1, <1>2, KnownRevoke DEF RootMaps
  <2>3. pause'.pc = "record" /\ pause'.version = v
        /\ pause' \in [pc : {"idle", "revoke", "record"}, version : Nat]
    BY <1>2 DEF CoreInv, SessionTyped
  <2>4. commit.pc \in {"idle", "revoke"}
    BY <1>1, <1>2, <2>1 DEF CoreInv, CommitInv
  <2>5. LastVersion' = LastVersion /\ (OnePrincipal(versions))' = OnePrincipal(versions)
    BY <1>0 DEF LastVersion, OnePrincipal, PrincipalOf
  <2>6. SessionTyped'
    BY <1>0, <2>2, <2>3 DEF CoreInv, SessionTyped, RootMaps
  <2>7. MemoryInv'
    BY <1>0, <1>1, <2>1, <2>2, <2>3, <2>5 DEF CoreInv, MemoryInv, Durable, RunningInv, RestoredInv, DownInv
  <2>8. CommitInv' /\ PauseInv' /\ RunInv'
    BY <1>0, <2>1, <2>2, <2>3, <2>4, <2>5 DEF CoreInv, CommitInv, PauseInv, RunInv
  <2> QED
    BY <2>6, <2>7, <2>8 DEF CoreInv
<1>3. CASE pause' = NoPause /\ UNCHANGED roots
  <2>1. pause'.pc = "idle" /\ pause' \in [pc : {"idle", "revoke", "record"}, version : Nat]
    BY <1>3 DEF NoPause
  <2>2. /\ Active' = Active /\ LastVersion' = LastVersion
        /\ (OnePrincipal(versions))' = OnePrincipal(versions)
    BY <1>0 DEF Active, LastVersion, OnePrincipal, PrincipalOf
  <2>3. SessionTyped'
    BY <1>0, <1>3, <2>1 DEF CoreInv, SessionTyped
  <2>4. MemoryInv'
    BY <1>0, <1>3, <2>1, <2>2 DEF CoreInv, MemoryInv, RunningInv, RestoredInv, DownInv
  <2>5. CommitInv' /\ PauseInv' /\ RunInv'
    BY <1>0, <1>3, <2>1, <2>2 DEF CoreInv, CommitInv, PauseInv, RunInv
  <2> QED
    BY <2>3, <2>4, <2>5 DEF CoreInv
<1> QED
  BY <1>2, <1>3 DEF PauseRevoke, RevokeRefused

\* What the record of a pause writes to session.db.
LEMMA PauseFacts ==
    ASSUME CoreInv, pause.pc = "record"
    PROVE  LET v == Len(versions)
               e == db.versions
               f == Revoked(e, v)
           IN  /\ pause.version = v /\ v \in 1 .. Len(versions) /\ v \in 1 .. v
               /\ versions \in Seq(Versions) /\ Known(mandates, roots, versions)
               /\ IsStore(db) /\ e \in Seq(Versions) /\ mode \in {"running", "restored"}
               /\ roots[LastVersion.mandate] = "revoked" /\ commit.pc \in {"idle", "revoke"}
               /\ Len(e) = v
               /\ \A i \in 1 .. v : /\ versions[i].mandate = e[i].mandate
                                    /\ versions[i].status = "ACTIVE" => e[i].status = "ACTIVE"
               /\ SameMandates(e, f) /\ Known(mandates, roots, f)
               /\ \A i \in 1 .. v : i # v => f[i] = e[i]
               /\ ExecutionsLast(f, db.executions, reservations, unmarked)
<1> DEFINE v == Len(versions)
           e == db.versions
           f == Revoked(e, v)
<1>0. /\ pause.version = v /\ v \in 1 .. Len(versions)
      /\ roots[LastVersion.mandate] = "revoked" /\ commit.pc \in {"idle", "revoke"}
  BY DEF CoreInv, PauseInv, CommitInv, SessionTyped
<1>1. /\ versions \in Seq(Versions) /\ Known(mandates, roots, versions)
      /\ IsStore(db) /\ e \in Seq(Versions) /\ Known(mandates, roots, e)
      /\ mode \in {"running", "restored"}
      /\ Len(e) = v
      /\ \A i \in 1 .. v : /\ versions[i].mandate = e[i].mandate
                           /\ versions[i].status = "ACTIVE" => e[i].status = "ACTIVE"
  BY <1>0 DEF CoreInv, SessionTyped, MemoryInv, Durable, IsStore, DownInv, RunningInv, RestoredInv
<1>2. v \in 1 .. v /\ LastVersion = versions[v]
  BY <1>0 DEF LastVersion
<1>3. /\ SameMandates(e, f) /\ Known(mandates, roots, f)
      /\ \A i \in 1 .. v : i # v => f[i] = e[i]
  <2>1. v \in 1 .. Len(e) /\ roots[e[v].mandate] = "revoked" /\ Len(e) = v
    <3> HIDE DEF v, e
    <3> QED
      BY <1>0, <1>1, <1>2
  <2> HIDE DEF v, e
  <2> QED
    BY <1>1, <2>1, KnownRevoked
<1>4. ExecutionsLast(f, db.executions, reservations, unmarked)
  <2>1. ExecutionsLast(e, db.executions, reservations, unmarked)
    BY DEF CoreInv, MemoryInv, Durable
  <2> HIDE DEF f, e
  <2> QED
    BY <1>1, <1>3, <2>1, ExecutionsKept DEF SameMandates
<1> QED
  BY <1>0, <1>1, <1>2, <1>3, <1>4

\* The revocation is recorded.
LEMMA PauseRecordStep ==
    ASSUME CoreInv, PauseRecord
    PROVE  CoreInv'
<1> DEFINE v == Len(versions)
           e == db.versions
           f == Revoked(e, v)
<1> USE DEF ledger
<1>0. /\ pause.pc = "record" /\ pause.version = v /\ v \in 1 .. Len(versions)
      /\ versions' = Revoked(versions, v) /\ paused' = TRUE /\ pause' = NoPause
      /\ db' = [db EXCEPT !.versions = f, !.paused = TRUE]
      /\ roots[LastVersion.mandate] = "revoked" /\ commit.pc \in {"idle", "revoke"}
      /\ UNCHANGED <<mandates, ledger, mode, reserved, reserving, executions, orphans, challenges,
                     commit, run, runs, unmarked>>
  BY DEF PauseRecord, CoreInv, PauseInv, CommitInv, SessionTyped
<1>1. /\ versions \in Seq(Versions) /\ Known(mandates, roots, versions)
      /\ IsStore(db) /\ e \in Seq(Versions) /\ mode \in {"running", "restored"}
      /\ Len(e) = v
      /\ \A i \in 1 .. v : /\ versions[i].mandate = e[i].mandate
                           /\ versions[i].status = "ACTIVE" => e[i].status = "ACTIVE"
  BY <1>0, PauseFacts
<1>2. /\ SameMandates(versions, versions') /\ Known(mandates, roots, versions')
      /\ versions'[v].status = "REVOKED" /\ \A i \in 1 .. v : i # v => versions'[i] = versions[i]
  BY <1>0, <1>1, KnownRevoked DEF LastVersion
<1>3. /\ SameMandates(e, f) /\ Known(mandates, roots, f)
      /\ \A i \in 1 .. v : i # v => f[i] = e[i]
      /\ ExecutionsLast(f, db.executions, reservations, unmarked)
  BY <1>0, PauseFacts
<1>4. /\ versions' \in Seq(Versions) /\ Len(versions') = v /\ v \in Nat /\ versions' # <<>>
      /\ DOMAIN versions' = DOMAIN versions
      /\ \A i \in DOMAIN versions : versions'[i].mandate = versions[i].mandate
      /\ LastVersion'.mandate = LastVersion.mandate
  BY <1>0, <1>1, <1>2 DEF SameMandates, LastVersion
<1> HIDE DEF f
<1>5. IsStore(db') /\ db'.versions = f /\ db'.executions = db.executions
  BY <1>0, <1>1, <1>3 DEF IsStore, StoreShape, SameMandates
<1>6. pause'.pc = "idle" /\ pause' \in [pc : {"idle", "revoke", "record"}, version : Nat]
  BY <1>0 DEF NoPause
<1>7. Active' = 0 /\ (OnePrincipal(versions))' = OnePrincipal(versions)
  BY <1>0, <1>4 DEF Active, OnePrincipal, PrincipalOf
<1>8. SessionTyped'
  BY <1>0, <1>4, <1>6 DEF CoreInv, SessionTyped
<1>9. MemoryInv'
  <2>2. Durable(db', mandates, roots, reservations, unmarked)
    BY <1>3, <1>5 DEF Durable
  <2>3. RunningInv'
    BY <1>0, <1>4, <1>5 DEF CoreInv, MemoryInv, RunningInv, f
  <2>4. RestoredInv'
    <3>1. /\ Len(f) = v
          /\ \A i \in 1 .. v : /\ versions'[i].mandate = f[i].mandate
                               /\ versions'[i].status = "ACTIVE" => f[i].status = "ACTIVE"
      BY <1>1, <1>2, <1>3, <1>4 DEF SameMandates
    <3>2. mode = "restored" => executions = db.executions
      BY DEF CoreInv, MemoryInv, RestoredInv
    <3>3. mode = "restored" /\ OnePrincipal(versions) =>
            \A x \in reservations :
                (\E i \in DOMAIN versions' : versions'[i].mandate = x.mandate)
                    => reserved /\ x \in executions \cup orphans
      BY <1>4 DEF CoreInv, MemoryInv, RestoredInv
    <3>4. SUFFICES ASSUME mode = "restored"
                   PROVE  RestoredInv!2'
      BY <1>0 DEF RestoredInv
    <3>5. /\ Len(versions') = Len(db'.versions) /\ executions' = db'.executions
          /\ \A i \in 1 .. Len(versions') :
               /\ versions'[i].mandate = db'.versions[i].mandate
               /\ versions'[i].status = "ACTIVE" => db'.versions[i].status = "ACTIVE"
      BY <1>0, <1>4, <1>5, <3>1, <3>2, <3>4
    <3>6. /\ ~(Active' # 0)
          /\ (OnePrincipal(versions))' =>
               \A x \in reservations' :
                 (\E i \in DOMAIN versions' : versions'[i].mandate = x.mandate)
                     => reserved' /\ x \in executions' \cup orphans'
      BY <1>0, <1>7, <3>3, <3>4
    <3> QED
      BY <3>5, <3>6
  <2>5. DownInv'
    BY <1>0, <1>1 DEF CoreInv, MemoryInv, DownInv
  <2> QED
    BY <1>0, <1>2, <2>2, <2>3, <2>4, <2>5 DEF CoreInv, MemoryInv
<1>10. CommitInv' /\ PauseInv' /\ RunInv'
  BY <1>0, <1>4, <1>6 DEF CoreInv, CommitInv, PauseInv, RunInv
<1> QED
  BY <1>8, <1>9, <1>10 DEF CoreInv

------------------------------------------------------------------------------
(* Running.                                                                 *)

(***************************************************************************)
(* Where a run may go when it is not in the middle of a pass: it keeps a   *)
(* version of the session, and holds the session only from the start of a  *)
(* pass, while no authorization is in flight.                              *)
(***************************************************************************)
RunGoes ==
    /\ run' \in RunRecords
    /\ run'.pc # "idle" => run'.version \in 1 .. Len(versions)
    /\ reserving' \in BOOLEAN
    /\ reserving' <=> run'.pc \in HoldLabels
    /\ run'.pc \in HoldLabels => run'.got = {} /\ commit.pc = "idle"

\* Such a step keeps the invariant.
LEMMA RunMoves ==
    ASSUME CoreInv, mode = "running", run.pc # "release", RunGoes,
           runs' \in 0 .. MaxRuns, run'.pc # "idle" => runs' > 0,
           UNCHANGED <<mandates, ledger, db, mode, versions, paused, reserved, executions, orphans,
                       challenges, commit, pause, unmarked>>
    PROVE  CoreInv'
<1> USE DEF ledger
<1>1. SessionTyped'
  BY DEF CoreInv, SessionTyped, RunGoes
<1>2. MemoryInv'
  BY DEF CoreInv, MemoryInv, RunningInv, RestoredInv, DownInv, LastVersion
<1>3. CommitInv'
  BY DEF CoreInv, CommitInv, LastVersion, RunGoes
<1>4. PauseInv'
  BY DEF CoreInv, PauseInv, LastVersion
<1>5. RunInv'
  BY DEF CoreInv, RunInv, RunGoes
<1> QED
  BY <1>1, <1>2, <1>3, <1>4, <1>5 DEF CoreInv

\* The labels of a run that is in no pass.
BetweenPasses == {"discover", "replan", "room", "again"}

\* What the invariant says of a run.
LEMMA RunFacts ==
    ASSUME CoreInv, run.pc # "idle"
    PROVE  /\ mode = "running" /\ run \in RunRecords /\ run.version \in 1 .. Len(versions)
           /\ runs \in 0 .. MaxRuns /\ runs > 0 /\ reserving \in BOOLEAN
           /\ run.pc \in BetweenPasses => ~reserving /\ run.pc # "release"
BY DEF CoreInv, SessionTyped, MemoryInv, DownInv, RunInv, BetweenPasses, HoldLabels

\* The empty run.
LEMMA NoRunTyped == NoRun \in RunRecords /\ NoRun.pc = "idle" /\ NoRun.got = {}
BY DEF NoRun, RunRecords, RunLabels, Phases

\* The version in force is the last.
LEMMA ActiveIsLast ==
    ASSUME CoreInv, Active # 0
    PROVE  /\ Active = Len(versions) /\ Active \in 1 .. Len(versions) /\ Active \in Nat
           /\ versions # <<>> /\ ~paused /\ LastVersion.status = "ACTIVE"
<1>1. /\ versions \in Seq(Versions) /\ versions # <<>> /\ Active = Len(versions)
      /\ ~paused /\ LastVersion.status = "ACTIVE"
  BY DEF Active, CoreInv, SessionTyped
<1> QED
  BY <1>1

\* An epoch begins under the version in force.
LEMMA EpochShape ==
    ASSUME CoreInv, NEW e \in Nat
    PROVE  /\ EpochFrom(e) \in RunRecords /\ EpochFrom(e).pc \in {"idle", "discover"}
           /\ EpochFrom(e).pc # "idle" => EpochFrom(e).version \in 1 .. Len(versions)
<1>1. CASE e > MaxEpochs \/ Active = 0
  BY <1>1, NoRunTyped DEF EpochFrom
<1>2. CASE ~(e > MaxEpochs \/ Active = 0)
  <2>1. Active \in 1 .. Len(versions) /\ Active \in Nat
    BY <1>2, ActiveIsLast
  <2>2. EpochFrom(e) = [pc |-> "discover", version |-> Active, epoch |-> e, phase |-> "FINAL",
                        items |-> {}, got |-> {}]
    BY <1>2 DEF EpochFrom, NoRun
  <2> HIDE DEF Active
  <2> QED
    BY <2>1, <2>2 DEF RunRecords, RunLabels, Phases
<1> QED
  BY <1>1, <1>2

\* The epoch is superseded.
LEMMA SupersedeGoes ==
    ASSUME CoreInv, run.pc \in BetweenPasses, Supersede
    PROVE  RunGoes
<1>1. run.pc # "idle" /\ ~reserving /\ reserving' = reserving /\ run \in RunRecords
  BY RunFacts DEF BetweenPasses, Supersede
<1>2. run.epoch + 1 \in Nat
  BY <1>1 DEF RunRecords
<1>3. run' = EpochFrom(run.epoch + 1)
  BY DEF Supersede
<1>4. /\ run' \in RunRecords /\ run'.pc \in {"idle", "discover"}
      /\ run'.pc # "idle" => run'.version \in 1 .. Len(versions)
  BY <1>2, <1>3, EpochShape
<1>5. run'.pc \notin HoldLabels
  BY <1>4 DEF HoldLabels
<1>6. reserving' = FALSE
  BY <1>1 DEF CoreInv, SessionTyped
<1> QED
  BY <1>4, <1>5, <1>6 DEF RunGoes

\* The run is over.
LEMMA RunEndsGoes ==
    ASSUME run' = NoRun, reserving' = FALSE
    PROVE  RunGoes
BY NoRunTyped DEF RunGoes, HoldLabels

\* A pass begins, or the run gives up.
LEMMA BeginHoldGoes ==
    ASSUME CoreInv, run.pc \in BetweenPasses,
           NEW phase \in Phases, NEW items \in SUBSET Roles, BeginHold(phase, items)
    PROVE  RunGoes
<1>1. /\ run.pc # "idle" /\ ~reserving /\ reserving \in BOOLEAN /\ run \in RunRecords
      /\ run.version \in 1 .. Len(versions)
  BY RunFacts DEF BetweenPasses
<1>2. CASE Held \/ items = {}
  <2>1. run' = NoRun /\ reserving' = FALSE
    BY <1>1, <1>2 DEF BeginHold
  <2> QED
    BY <2>1, RunEndsGoes
<1>3. CASE ~(Held \/ items = {})
  <2>1. reserving' = TRUE /\ commit.pc = "idle"
        /\ run' = [run EXCEPT !.pc = "reserve", !.phase = phase, !.items = items, !.got = {}]
    BY <1>3 DEF BeginHold, Held, Busy
  <2>2. run' \in RunRecords /\ run'.pc = "reserve" /\ run'.got = {} /\ run'.version = run.version
    BY <1>1, <2>1 DEF RunRecords, RunLabels, HoldLabels
  <2> QED
    BY <1>1, <2>1, <2>2 DEF RunGoes, HoldLabels
<1> QED
  BY <1>2, <1>3

\* The sizes are settled.
LEMMA AuthorizeFinalGoes ==
    ASSUME CoreInv, run.pc \in BetweenPasses, NEW reqs, AuthorizeFinal(reqs)
    PROVE  RunGoes
<1>1. CASE aborted
  BY <1>1, SupersedeGoes DEF AuthorizeFinal
<1>2. CASE ~aborted
  <2> DEFINE items == {r \in Roles : reqs[r] > 0}
  <2>1. BeginHold("FINAL", items) /\ items \in SUBSET Roles /\ "FINAL" \in Phases
    BY <1>2 DEF AuthorizeFinal, Phases
  <2> HIDE DEF items
  <2> QED
    BY <2>1, BeginHoldGoes
<1> QED
  BY <1>1, <1>2

\* A Room opens, or the pass begins.
LEMMA SettleGoes ==
    ASSUME CoreInv, run.pc \in BetweenPasses, NEW reqs, Settle(reqs)
    PROVE  RunGoes
<1>1. CASE OpensRoom(reqs)
  <2>1. run' = [run EXCEPT !.pc = "room"] /\ reserving' = reserving
    BY <1>1 DEF Settle
  <2>2. /\ run \in RunRecords /\ run.version \in 1 .. Len(versions) /\ ~reserving /\ reserving \in BOOLEAN
    BY RunFacts DEF BetweenPasses
  <2>3. run' \in RunRecords /\ run'.pc = "room" /\ run'.version = run.version
    BY <2>1, <2>2 DEF RunRecords, RunLabels
  <2> QED
    BY <2>1, <2>2, <2>3 DEF RunGoes, HoldLabels
<1>2. CASE ~OpensRoom(reqs)
  BY <1>2, AuthorizeFinalGoes DEF Settle
<1> QED
  BY <1>1, <1>2

\* Every step of a run between its passes.
LEMMA BetweenPassesStep ==
    ASSUME CoreInv, Discover \/ Replan \/ RoomEnds \/ Again \/ InRoom
    PROVE  CoreInv'
<1> USE DEF ledger
<1>1. run.pc \in BetweenPasses /\ run.pc # "idle"
  BY DEF Discover, Replan, RoomEnds, Again, InRoom, BetweenPasses
<1>2. UNCHANGED <<mandates, ledger, db, mode, versions, paused, reserved, executions, orphans,
                  challenges, commit, pause, runs, unmarked>>
  BY DEF Discover, Replan, RoomEnds, Again, InRoom, sessionFrame, memory
<1>3. RunGoes
  <2>0. /\ run \in RunRecords /\ run.version \in 1 .. Len(versions) /\ reserving = FALSE
    BY <1>1, RunFacts
  <2>1. CASE Discover
    <3>1. PICK reqs \in [Roles -> Sizes] :
            \/ Supersede
            \/ run' = [run EXCEPT !.pc = "replan"] /\ reserving' = reserving
            \/ Settle(reqs)
      BY <2>1 DEF Discover
    <3>2. CASE run' = [run EXCEPT !.pc = "replan"] /\ reserving' = reserving
      <4>1. run' \in RunRecords /\ run'.pc = "replan" /\ run'.version = run.version
        BY <2>0, <3>2 DEF RunRecords, RunLabels
      <4> QED
        BY <2>0, <3>2, <4>1 DEF RunGoes, HoldLabels
    <3> QED
      BY <1>1, <3>1, <3>2, SupersedeGoes, SettleGoes
  <2>2. CASE Replan
    <3>1. \/ Supersede
          \/ \E reqs : Settle(reqs) \/ AuthorizeFinal(reqs)
      <4>1. CASE aborted
        BY <2>2, <4>1 DEF Replan
      <4>2. CASE ~aborted
        <5>1. PICK reqs \in [Roles -> UNION {Replanned(r) : r \in Roles}] :
                Settle(Dropped(reqs)) \/ AuthorizeFinal(Dropped(Dropped(reqs)))
          BY <2>2, <4>2 DEF Replan
        <5> QED
          BY <5>1
      <4> QED
        BY <4>1, <4>2
    <3> QED
      BY <1>1, <3>1, SupersedeGoes, SettleGoes, AuthorizeFinalGoes
  <2>3. CASE RoomEnds
    <3>1. \/ Supersede
          \/ AuthorizeFinal(Tentative(answers))
          \/ run' = NoRun /\ reserving' = reserving
      <4>1. RoomResult \in {"SUPERSEDED", "PROPOSED", "NO_FEASIBLE_PORTFOLIO"}
        BY <2>3 DEF RoomEnds, FinishRoom, RoomResult
      <4> HIDE DEF RoomResult
      <4> QED
        BY <2>3, <4>1 DEF RoomEnds
    <3>2. CASE run' = NoRun /\ reserving' = reserving
      BY <2>0, <3>2, RunEndsGoes
    <3> QED
      BY <1>1, <3>1, <3>2, SupersedeGoes, AuthorizeFinalGoes
  <2>4. CASE Again
    <3>1. run.phase \in Phases /\ run.items \in SUBSET Roles
      BY <2>0 DEF RunRecords
    <3>2. BeginHold(run.phase, run.items) \/ (run' = NoRun /\ reserving' = reserving)
      BY <2>4 DEF Again
    <3>3. CASE run' = NoRun /\ reserving' = reserving
      BY <2>0, <3>3, RunEndsGoes
    <3> QED
      BY <1>1, <3>1, <3>2, <3>3, BeginHoldGoes
  <2>5. CASE InRoom
    <3>1. run' = run /\ reserving' = reserving /\ run.pc = "room"
      BY <2>5 DEF InRoom, memory
    <3> QED
      BY <2>0, <3>1 DEF RunGoes, HoldLabels
  <2> QED
    BY <2>1, <2>2, <2>3, <2>4, <2>5
<1> QED
  BY <1>1, <1>2, <1>3, RunFacts, RunMoves

\* A run, or a policy-stress test, starts.
LEMMA StartStep ==
    ASSUME CoreInv, StartRun \/ StartPolicyStress
    PROVE  CoreInv'
<1> USE DEF ledger, memory
<1>1. /\ mode = "running" /\ run.pc = "idle" /\ Active # 0 /\ runs < MaxRuns /\ runs' = runs + 1
      /\ UNCHANGED <<mandates, ledger, db, mode, versions, paused, reserved, reserving, executions,
                     orphans, challenges, commit, pause, unmarked>>
  BY DEF StartRun, StartPolicyStress
<1>2. reserving = FALSE /\ runs \in 0 .. MaxRuns /\ MaxRuns \in Nat
  BY <1>1, SessionAssumption DEF CoreInv, SessionTyped, RunInv, HoldLabels
<1>3. runs' \in 0 .. MaxRuns /\ runs' > 0
  BY <1>1, <1>2
<1>4. /\ run' \in RunRecords /\ run'.pc \in {"idle", "discover", "again"}
      /\ run'.pc # "idle" => run'.version \in 1 .. Len(versions)
  <2>1. CASE StartRun
    BY <2>1, EpochShape DEF StartRun
  <2>2. CASE StartPolicyStress
    <3>1. PICK r \in Roles :
            run' = [NoRun EXCEPT !.pc = "again", !.version = Active, !.phase = "STRESS", !.items = {r}]
      BY <2>2 DEF StartPolicyStress
    <3>2. Active \in 1 .. Len(versions) /\ Active \in Nat
      BY <1>1, ActiveIsLast
    <3>3. run' = [pc |-> "again", version |-> Active, epoch |-> 0, phase |-> "STRESS",
                  items |-> {r}, got |-> {}]
      BY <3>1 DEF NoRun
    <3> HIDE DEF Active
    <3> QED
      BY <3>2, <3>3 DEF RunRecords, RunLabels, Phases
  <2> QED
    BY <2>1, <2>2, <1>1
<1>5. RunGoes
  BY <1>1, <1>2, <1>4 DEF RunGoes, HoldLabels
<1> QED
  BY <1>1, <1>3, <1>5, RunMoves

\* The store fails in the middle of a pass.
LEMMA ReserveThrowsStep ==
    ASSUME CoreInv, ReserveThrows
    PROVE  CoreInv'
<1> USE DEF ledger
<1>1. /\ run.pc = "reserve" /\ run' = NoRun /\ reserving' = FALSE
      /\ UNCHANGED <<mandates, ledger, db, mode, versions, paused, reserved, executions, orphans,
                     challenges, commit, pause, runs, unmarked>>
  BY DEF ReserveThrows, sessionFrame
<1>2. RunGoes /\ mode = "running" /\ runs' \in 0 .. MaxRuns /\ run'.pc = "idle"
  BY <1>1, RunEndsGoes, RunFacts, NoRunTyped
<1> QED
  BY <1>1, <1>2, RunMoves

(***************************************************************************)
(* What the ledger reserves is a child of the version in force.            *)
(***************************************************************************)
LEMMA ReservedFacts ==
    ASSUME CoreInv, NEW r, run.pc = "reserve", r \in run.items, MayReserve(Reservation(r).mandate)
    PROVE  /\ Reservation(r) \in Reservations
           /\ Reservation(r).mandate = LastVersion.mandate
           /\ Active # 0 /\ run.version = Len(versions)
<1> DEFINE v == run.version
           m == versions[v].mandate
<1>1. /\ mode = "running" /\ run \in RunRecords /\ v \in 1 .. Len(versions)
      /\ runs \in 0 .. MaxRuns /\ runs > 0 /\ MaxRuns \in Nat
      /\ versions \in Seq(Versions) /\ Known(mandates, roots, versions)
  BY RunFacts, SessionAssumption DEF CoreInv, SessionTyped, MemoryInv
<1>2. Reservation(r) = [mandate |-> m, role |-> r, phase |-> run.phase, run |-> runs]
      /\ Reservation(r).mandate = m
  BY DEF Reservation
<1>3. roots[m] = "live"
  BY <1>2 DEF MayReserve
<1>4. v = Len(versions) /\ versions[v].status = "ACTIVE"
  BY <1>1, <1>3, LiveIsLast
<1>5. LastVersion = versions[v] /\ versions # <<>>
  BY <1>1, <1>4 DEF LastVersion
<1>6. ~paused
  BY <1>1, <1>3, <1>5 DEF CoreInv, MemoryInv, RunningInv
<1>7. Active # 0
  BY <1>1, <1>4, <1>5, <1>6 DEF Active
<1>8. m \in Mandates
  BY <1>1, VersionTyped
<1>9. r \in Roles /\ run.phase \in Phases /\ runs \in 1 .. MaxRuns
  BY <1>1 DEF RunRecords
<1> HIDE DEF m
<1>10. Reservation(r) \in Reservations
  BY <1>2, <1>8, <1>9 DEF Reservations
<1> QED
  BY <1>2, <1>4, <1>5, <1>7, <1>10 DEF m

\* One ledger write of a pass.
LEMMA ReserveStep ==
    ASSUME CoreInv, NEW r \in Roles, Reserve(r)
    PROVE  CoreInv'
<1> USE DEF ledger, memory
<1>0. /\ run.pc = "reserve" /\ r \in run.items
      /\ UNCHANGED <<mandates, roots, db, mode, versions, paused, reserved, reserving, executions,
                     orphans, challenges, commit, pause, runs, unmarked>>
  BY DEF Reserve
<1>1. /\ mode = "running" /\ run \in RunRecords /\ run.version \in 1 .. Len(versions)
      /\ runs \in 0 .. MaxRuns /\ runs > 0 /\ reserving = TRUE /\ reservations \subseteq Reservations
      /\ \A x \in run.got : x \in reservations /\ x.mandate = LastVersion.mandate
  BY <1>0, RunFacts DEF CoreInv, SessionTyped, RunInv, HoldLabels
<1>2. PICK g \in SUBSET Reservations, next \in {"reserve", "record", "release"} :
        /\ run' = [run EXCEPT !.items = run.items \ {r}, !.pc = next, !.got = g]
        /\ reservations \subseteq reservations' /\ reservations' \subseteq Reservations
        /\ \A x \in g : x \in reservations' /\ x.mandate = LastVersion.mandate
  <2> DEFINE rest == run.items \ {r}
             nxt == IF rest # {} THEN "reserve" ELSE IF run.phase = "STRESS" THEN "release" ELSE "record"
             g2 == run.got \cup {Reservation(r)}
  <2>0. nxt \in {"reserve", "record", "release"}
    OBVIOUS
  <2>1. CASE run' = [run EXCEPT !.items = rest, !.pc = nxt] /\ UNCHANGED reservations
    <3>1. run.got \in SUBSET Reservations
      BY <1>1 DEF RunRecords
    <3>2. run' = [run EXCEPT !.items = rest, !.pc = nxt, !.got = run.got]
      BY <1>1, <2>1 DEF RunRecords
    <3> HIDE DEF nxt
    <3> QED
      BY <1>1, <2>0, <2>1, <3>1, <3>2
  <2>2. CASE /\ MayReserve(Reservation(r).mandate)
             /\ reservations' = reservations \cup {Reservation(r)}
             /\ run' = [run EXCEPT !.items = rest, !.pc = nxt, !.got = g2]
    <3>1. Reservation(r) \in Reservations /\ Reservation(r).mandate = LastVersion.mandate
      BY <1>0, <2>2, ReservedFacts
    <3>2. g2 \in SUBSET Reservations
      BY <1>1, <3>1 DEF RunRecords
    <3>3. \A x \in g2 : x \in reservations' /\ x.mandate = LastVersion.mandate
      BY <1>1, <2>2, <3>1
    <3>4. reservations \subseteq reservations' /\ reservations' \subseteq Reservations
      BY <1>1, <2>2, <3>1
    <3> HIDE DEF nxt, g2
    <3> QED
      BY <2>0, <2>2, <3>2, <3>3, <3>4
  <2> QED
    BY <2>1, <2>2 DEF Reserve
<1>3. /\ run' \in RunRecords /\ run'.pc = next /\ run'.got = g /\ run'.version = run.version
  BY <1>1, <1>2 DEF RunRecords, RunLabels, HoldLabels
<1>4. LastVersion' = LastVersion
  BY <1>0 DEF LastVersion
<1>5. SessionTyped'
  BY <1>0, <1>1, <1>2, <1>3 DEF CoreInv, SessionTyped
<1>6. MemoryInv'
  BY <1>0, <1>1, <1>2, <1>4
  DEF CoreInv, MemoryInv, Durable, ExecutionsLast, RunningInv, RestoredInv, DownInv
<1>7. CommitInv' /\ PauseInv'
  BY <1>0, <1>1, <1>4 DEF CoreInv, CommitInv, PauseInv
<1>8. RunInv'
  BY <1>0, <1>1, <1>2, <1>3, <1>4 DEF CoreInv, RunInv, HoldLabels
<1> QED
  BY <1>5, <1>6, <1>7, <1>8 DEF CoreInv

\* What a pass reserved may be recorded under the last version.
LEMMA GotKept ==
    ASSUME CoreInv, run.pc \in HoldLabels, NEW x \in SUBSET run.got
    PROVE  ExecutionsLast(db.versions, db.executions \cup x, reservations, unmarked)
<1>1. /\ mode = "running" /\ run.version \in 1 .. Len(versions) /\ versions \in Seq(Versions)
      /\ \A y \in run.got : y \in reservations /\ y.mandate = LastVersion.mandate
  BY RunFacts DEF CoreInv, SessionTyped, RunInv, HoldLabels
<1>2. /\ versions = db.versions
      /\ ExecutionsLast(db.versions, db.executions, reservations, unmarked)
  BY <1>1 DEF CoreInv, MemoryInv, RunningInv, Durable
<1>3. Len(db.versions) \in 1 .. Len(db.versions) /\ LastVersion = db.versions[Len(db.versions)]
  BY <1>1, <1>2 DEF LastVersion
<1> QED
  BY <1>1, <1>2, <1>3 DEF ExecutionsLast

\* The session records what the ledger reserved.
LEMMA RecordReservedStep ==
    ASSUME CoreInv, RecordReserved
    PROVE  CoreInv'
<1> USE DEF ledger
<1>0. /\ run.pc = "record" /\ executions' = executions \cup run.got
      /\ db' = [db EXCEPT !.executions = db.executions \cup run.got]
      /\ run' = [run EXCEPT !.pc = "release"]
      /\ UNCHANGED <<mandates, ledger, mode, versions, paused, reserved, reserving, orphans,
                     challenges, commit, pause, runs, unmarked>>
  BY DEF RecordReserved
<1>1. /\ mode = "running" /\ run \in RunRecords /\ run.version \in 1 .. Len(versions)
      /\ runs \in 0 .. MaxRuns /\ runs > 0 /\ reserving = TRUE /\ versions \in Seq(Versions)
      /\ \A x \in run.got : x \in reservations /\ x.mandate = LastVersion.mandate
  BY <1>0, RunFacts DEF CoreInv, SessionTyped, RunInv, HoldLabels
<1>2. /\ versions # <<>> /\ versions = db.versions /\ commit.pc = "idle"
      /\ db.executions \subseteq executions /\ executions \subseteq db.executions \cup unmarked
  BY <1>1 DEF CoreInv, MemoryInv, RunningInv, CommitInv
<1>3. run' \in RunRecords /\ run'.pc = "release" /\ run'.got = run.got /\ run'.version = run.version
  BY <1>0, <1>1 DEF RunRecords, RunLabels, HoldLabels
<1>4. IsStore(db') /\ db'.versions = db.versions /\ db'.executions = db.executions \cup run.got
  BY <1>0 DEF CoreInv, MemoryInv, Durable, IsStore, StoreShape
<1>5. LastVersion' = LastVersion
  BY <1>0 DEF LastVersion
<1>6. SessionTyped'
  BY <1>0, <1>1, <1>3 DEF CoreInv, SessionTyped
<1>7. ExecutionsLast(db.versions, db.executions \cup run.got, reservations, unmarked)
  BY <1>0, GotKept DEF HoldLabels
<1>8. MemoryInv'
  BY <1>0, <1>1, <1>2, <1>4, <1>5, <1>7
  DEF CoreInv, MemoryInv, Durable, RunningInv, RestoredInv, DownInv
<1>9. CommitInv' /\ PauseInv'
  BY <1>0, <1>2, <1>5 DEF CoreInv, CommitInv, PauseInv
<1>10. RunInv'
  BY <1>0, <1>1, <1>3, <1>5 DEF CoreInv, RunInv, HoldLabels
<1> QED
  BY <1>6, <1>8, <1>9, <1>10 DEF CoreInv

\* The pass ends: the version is marked, and the run goes on or is over.
LEMMA EndReservationStep ==
    ASSUME CoreInv, EndReservation
    PROVE  CoreInv'
<1> USE DEF ledger
<1>0. /\ run.pc = "release" /\ reserving' = FALSE /\ reserved' = (reserved \/ run.got # {})
      /\ run' \in {NoRun} \cup Continuations
      /\ UNCHANGED <<mandates, ledger, mode, versions, paused, executions, orphans,
                     challenges, commit, pause, runs, unmarked>>
  BY DEF EndReservation, Marks
<1>1. /\ mode = "running" /\ run \in RunRecords /\ run.version \in 1 .. Len(versions)
      /\ runs \in 0 .. MaxRuns /\ runs > 0 /\ reserving = TRUE /\ reserved \in BOOLEAN
      /\ reservations \subseteq Reservations /\ commit.pc = "idle"
  BY <1>0, RunFacts DEF CoreInv, SessionTyped, RunInv, HoldLabels, CommitInv
<1>2. run' \in RunRecords /\ run'.pc \in {"idle", "again"}
      /\ (run'.pc # "idle" => run'.version = run.version)
  <2>1. CASE run' = NoRun
    BY <2>1, NoRunTyped
  <2>2. CASE run' # NoRun
    <3>1. PICK ph \in {"REFRESH", "REALLOCATION"}, rs \in SUBSET Roles :
            run' = [run EXCEPT !.pc = "again", !.phase = ph, !.items = rs]
      <4>1. \A x \in Reservations : x.role \in Roles
        BY DEF Reservations
      <4>2. \/ \E rs \in SUBSET (Roles \ {x.role : x \in run.got}) :
                 run' = [run EXCEPT !.pc = "again", !.phase = "REFRESH", !.items = rs]
            \/ \E rs \in SUBSET {x.role : x \in {y \in reservations : y.run = runs}} :
                 run' = [run EXCEPT !.pc = "again", !.phase = "REALLOCATION", !.items = rs]
        BY <1>0, <2>2 DEF Continuations
      <4>3. {x.role : x \in {y \in reservations : y.run = runs}} \subseteq Roles
        BY <1>1, <4>1
      <4> QED
        BY <4>2, <4>3
    <3> QED
      BY <1>1, <3>1 DEF RunRecords, RunLabels, Phases
  <2> QED
    BY <2>1, <2>2
<1>3. IsStore(db') /\ db'.versions = db.versions /\ db'.executions = db.executions
  BY DEF EndReservation, CoreInv, MemoryInv, Durable, IsStore, StoreShape
<1>4. LastVersion' = LastVersion
  BY <1>0 DEF LastVersion
<1>5. SessionTyped'
  BY <1>0, <1>1, <1>2 DEF CoreInv, SessionTyped
<1>6. MemoryInv'
  BY <1>0, <1>1, <1>3, <1>4
  DEF CoreInv, MemoryInv, Durable, RunningInv, RestoredInv, DownInv
<1>7. CommitInv' /\ PauseInv'
  BY <1>0, <1>1, <1>4 DEF CoreInv, CommitInv, PauseInv
<1>8. RunInv'
  BY <1>0, <1>1, <1>2 DEF CoreInv, RunInv, HoldLabels
<1> QED
  BY <1>5, <1>6, <1>7, <1>8 DEF CoreInv

(***************************************************************************)
(* A write throws among the records of a pass: what is recorded is         *)
(* unmarked, and the hold ends.                                            *)
(***************************************************************************)
LEMMA RecordThrowsStep ==
    ASSUME CoreInv, RecordThrows
    PROVE  CoreInv'
<1> USE DEF ledger
<1>0. PICK s \in SUBSET run.got, t \in SUBSET run.got :
        /\ executions' = executions \cup s \cup t
        /\ unmarked' = unmarked \cup s \cup t
        /\ db' = [db EXCEPT !.executions = db.executions \cup s]
  <2>1. PICK s \in SUBSET run.got : \E t \in {{}} \cup {{x} : x \in run.got \ s} :
          /\ executions' = executions \cup s \cup t
          /\ unmarked' = unmarked \cup s \cup t
          /\ db' = [db EXCEPT !.executions = db.executions \cup s]
    BY DEF RecordThrows
  <2>2. \A t \in {{}} \cup {{x} : x \in run.got \ s} : t \in SUBSET run.got
    OBVIOUS
  <2> QED
    BY <2>1, <2>2
<1>1. /\ run.pc = "record" /\ run' = NoRun /\ reserving' = FALSE
      /\ UNCHANGED <<mandates, ledger, mode, versions, paused, reserved, orphans, challenges,
                     commit, pause, runs>>
  BY DEF RecordThrows
<1>2. /\ mode = "running" /\ runs \in 0 .. MaxRuns
      /\ run' \in RunRecords /\ run'.pc = "idle" /\ run.pc # "release"
  BY <1>1, RunFacts, NoRunTyped
<1>3. /\ versions = db.versions
      /\ db.executions \subseteq executions /\ executions \subseteq db.executions \cup unmarked
      /\ ExecutionsLast(db.versions, db.executions \cup s, reservations, unmarked)
  BY <1>1, <1>2, GotKept DEF CoreInv, MemoryInv, RunningInv, HoldLabels
<1>4. IsStore(db') /\ db'.versions = db.versions /\ db'.executions = db.executions \cup s
  BY <1>0 DEF CoreInv, MemoryInv, Durable, IsStore, StoreShape
<1>5. ExecutionsLast(db.versions, db.executions \cup s, reservations, unmarked')
  BY <1>0, <1>3 DEF ExecutionsLast
<1>6. LastVersion' = LastVersion
  BY <1>1 DEF LastVersion
<1>7. SessionTyped'
  BY <1>1, <1>2 DEF CoreInv, SessionTyped
<1>8. MemoryInv'
  <2>1. RunningInv'
    BY <1>0, <1>1, <1>3, <1>4, <1>6, <1>2 DEF CoreInv, MemoryInv, RunningInv
  <2> QED
    BY <1>1, <1>2, <1>4, <1>5, <2>1 DEF CoreInv, MemoryInv, Durable, RestoredInv, DownInv
<1>9. executions \subseteq unmarked => executions' \subseteq unmarked'
  BY <1>0
<1>10. CommitInv' /\ PauseInv'
  BY <1>1, <1>6, <1>9 DEF CoreInv, CommitInv, PauseInv
<1>11. RunInv'
  BY <1>1, <1>2, <1>9 DEF CoreInv, RunInv, HoldLabels
<1> QED
  BY <1>7, <1>8, <1>10, <1>11 DEF CoreInv

\* The mark of a pass cannot be written: it is set in memory, and the run is over.
LEMMA MarkThrowsStep ==
    ASSUME CoreInv, MarkThrows
    PROVE  CoreInv'
<1> USE DEF ledger
<1>1. /\ run.pc = "release" /\ run' = NoRun /\ reserving' = FALSE /\ reserved' = TRUE
      /\ UNCHANGED <<mandates, ledger, db, mode, versions, paused, executions, orphans, challenges,
                     commit, pause, runs, unmarked>>
  BY DEF MarkThrows
<1>2. /\ mode = "running" /\ runs \in 0 .. MaxRuns /\ run' \in RunRecords /\ run'.pc = "idle"
  BY <1>1, RunFacts, NoRunTyped
<1>3. LastVersion' = LastVersion
  BY <1>1 DEF LastVersion
<1>4. SessionTyped'
  BY <1>1, <1>2 DEF CoreInv, SessionTyped
<1>5. MemoryInv'
  BY <1>1, <1>2, <1>3 DEF CoreInv, MemoryInv, RunningInv, RestoredInv, DownInv
<1>6. CommitInv' /\ PauseInv' /\ RunInv'
  BY <1>1, <1>2, <1>3 DEF CoreInv, CommitInv, PauseInv, RunInv, HoldLabels
<1> QED
  BY <1>4, <1>5, <1>6 DEF CoreInv

------------------------------------------------------------------------------
(* Crash and restore.                                                       *)

(***************************************************************************)
(* Wherever the process dies, session.db holds what restore needs.         *)
(***************************************************************************)
LEMMA TornDurable ==
    ASSUME CoreInv, NEW d \in TornWrites
    PROVE  Durable(d, mandates, roots, reservations, unmarked)
<1>0. Durable(db, mandates, roots, reservations, unmarked) /\ IsStore(db) /\ StoreShape(db)
  BY DEF CoreInv, MemoryInv, Durable, IsStore
<1>1. CASE d = db
  BY <1>0, <1>1
<1>2. CASE commit.pc = "record" /\ \E w \in CommitWrites(commit.mandate) : \E i \in DOMAIN w : d = w[i]
  <2> DEFINE m == commit.mandate
             s == Superseded(versions)
             a == Append(s, [mandate |-> m, status |-> "ACTIVE"])
  <2>1. PICK w \in CommitWrites(m) : \E i \in DOMAIN w : d = w[i]
    BY <1>2
  <2>2. commit.pc # "idle" /\ roots[m] = "live" /\ (versions # <<>> => roots[LastVersion.mandate] = "revoked")
    BY <1>2 DEF CoreInv, CommitInv
  <2>3. versions = db.versions
    BY <2>2, CommitFacts
  <2>4. StoreShape(d) /\ d.executions = db.executions /\ (d.versions = s \/ d.versions = a)
    BY <1>0, <2>1, <2>2, <2>3, CommitFacts, CommitWritesShape
  <2>5. /\ a \in Seq(Versions) /\ Known(mandates, roots, a) /\ Len(a) = Len(versions) + 1
        /\ \A i \in 1 .. Len(versions) : a[i].mandate = versions[i].mandate
    BY <2>2, CommitFacts, KnownRecorded DEF LastVersion
  <2>6. s \in Seq(Versions) /\ Known(mandates, roots, s) /\ SameMandates(versions, s)
    BY <2>2, CommitFacts, LastClosed DEF LastVersion, SameMandates
  <2> HIDE DEF s, a
  <2>7. ExecutionsLast(a, db.executions, reservations, unmarked)
    BY <2>2, <2>5, CommitFacts, ExecutionsKept
  <2>8. ExecutionsLast(s, db.executions, reservations, unmarked)
    BY <2>2, <2>6, CommitFacts, ExecutionsKept DEF SameMandates
  <2> QED
    BY <2>4, <2>5, <2>6, <2>7, <2>8 DEF Durable, IsStore
<1>3. CASE commit.pc \in {"register", "delegate"} /\ d = [db EXCEPT !.versions = FailClosed(@)]
  <2> DEFINE f == FailClosed(versions)
  <2>1. commit.pc # "idle" /\ (versions # <<>> => roots[LastVersion.mandate] = "revoked")
    BY <1>3 DEF CoreInv, CommitInv
  <2>2. versions = db.versions
    BY <2>1, CommitFacts
  <2>3. f \in Seq(Versions) /\ Known(mandates, roots, f) /\ SameMandates(versions, f)
    BY <2>1, CommitFacts, LastClosed DEF LastVersion, SameMandates
  <2>4. d = WithVersions(db, f)
    BY <1>3, <2>2 DEF WithVersions
  <2> HIDE DEF f
  <2>5. StoreShape(d) /\ d.versions = f /\ d.executions = db.executions
    BY <1>0, <2>4, StoreWrites
  <2>6. ExecutionsLast(f, db.executions, reservations, unmarked)
    BY <2>1, <2>3, CommitFacts, ExecutionsKept DEF SameMandates
  <2> QED
    BY <2>3, <2>5, <2>6 DEF Durable, IsStore
<1>4. CASE pause.pc = "record" /\ d = [db EXCEPT !.versions = Revoked(@, pause.version)]
  <2> DEFINE f == Revoked(db.versions, Len(versions))
  <2>1. /\ pause.version = Len(versions) /\ SameMandates(db.versions, f) /\ Known(mandates, roots, f)
        /\ ExecutionsLast(f, db.executions, reservations, unmarked)
    BY <1>4, PauseFacts
  <2>2. d = WithVersions(db, f)
    BY <1>4, <2>1 DEF WithVersions
  <2> HIDE DEF f
  <2>3. StoreShape(d) /\ d.versions = f /\ d.executions = db.executions
    BY <1>0, <2>2, StoreWrites
  <2> QED
    BY <2>1, <2>3 DEF Durable, IsStore, SameMandates
<1>5. CASE run.pc = "record" /\ \E x \in SUBSET run.got : d = [db EXCEPT !.executions = @ \cup x]
  <2>1. PICK x \in SUBSET run.got : d = [db EXCEPT !.executions = db.executions \cup x]
    BY <1>5
  <2>4. StoreShape(d) /\ d.versions = db.versions /\ d.executions = db.executions \cup x
    BY <1>0, <2>1 DEF StoreShape
  <2>5. ExecutionsLast(db.versions, db.executions \cup x, reservations, unmarked)
    BY <1>5, GotKept DEF HoldLabels
  <2> QED
    BY <1>0, <2>4, <2>5 DEF Durable, IsStore
<1> QED
  BY <1>1, <1>2, <1>3, <1>4, <1>5 DEF TornWrites

\* The process dies: only the ledger and session.db are left.
LEMMA CrashStep ==
    ASSUME CoreInv, Crash
    PROVE  CoreInv'
<1> USE DEF ledger
<1>0. /\ mode' = "down" /\ db' \in TornWrites /\ versions' = <<>> /\ paused' = FALSE /\ reserved' = FALSE
      /\ reserving' = FALSE /\ executions' = {} /\ orphans' = {} /\ commit' = NoCommit
      /\ challenges' = [m \in Mandates |-> "none"] /\ pause' = NoPause /\ run' = NoRun
      /\ UNCHANGED <<mandates, ledger, runs, unmarked>>
  BY DEF Crash
<1>1. Durable(db', mandates, roots, reservations, unmarked)
  BY <1>0, TornDurable
<1>2. /\ commit'.pc = "idle" /\ pause'.pc = "idle" /\ run'.pc = "idle" /\ run' \in RunRecords
      /\ commit' \in [pc : {"idle", "revoke", "register", "delegate", "record"},
                       mandate : 0 .. MaxMandates]
      /\ pause' \in [pc : {"idle", "revoke", "record"}, version : Nat]
  BY <1>0, NoRunTyped, SessionAssumption DEF NoCommit, NoPause
<1>3. versions' \in Seq(Versions) /\ Len(versions') = 0
  BY <1>0
<1>4. SessionTyped'
  BY <1>0, <1>2, <1>3 DEF CoreInv, SessionTyped
<1>5. Known(mandates, roots, versions')
  BY <1>3 DEF Known
<1>6. MemoryInv'
  BY <1>0, <1>1, <1>2, <1>5 DEF MemoryInv, RunningInv, RestoredInv, DownInv
<1>7. CommitInv' /\ PauseInv' /\ RunInv'
  BY <1>0, <1>2 DEF CommitInv, PauseInv, RunInv, HoldLabels
<1> QED
  BY <1>4, <1>6, <1>7 DEF CoreInv

(***************************************************************************)
(* The versions restore rebuilds: the same mandates, REVOKED wherever the  *)
(* ledger revoked an ACTIVE one.                                           *)
(***************************************************************************)
LEMMA RestoredShape ==
    ASSUME CoreInv
    PROVE  LET e == db.versions
               f == RestoredVersions(db)
           IN  /\ e \in Seq(Versions) /\ SameMandates(e, f) /\ Known(mandates, roots, f)
               /\ \A i \in 1 .. Len(e) :
                    f[i].status = "ACTIVE" => /\ e[i].status = "ACTIVE"
                                              /\ roots[e[i].mandate] = "live"
<1> DEFINE e == db.versions
           f == RestoredVersions(db)
           g(i) == IF roots[e[i].mandate] = "revoked" /\ e[i].status = "ACTIVE"
                   THEN [e[i] EXCEPT !.status = "REVOKED"] ELSE e[i]
<1>1. e \in Seq(Versions) /\ Known(mandates, roots, e) /\ roots \in RootMaps
  BY DEF CoreInv, SessionTyped, MemoryInv, Durable, IsStore, RootMaps
<1>2. f = [i \in 1 .. Len(e) |-> g(i)] /\ Len(e) \in Nat
  BY <1>1 DEF RestoredVersions
<1>3. \A i \in 1 .. Len(e) : e[i] \in Versions /\ e[i].mandate \in Mandates
  BY <1>1, VersionTyped
<1>4. ASSUME NEW i \in 1 .. Len(e)
      PROVE  /\ g(i) \in Versions /\ g(i).mandate = e[i].mandate
             /\ g(i).status # e[i].status => g(i).status # "ACTIVE" /\ roots[e[i].mandate] = "revoked"
             /\ g(i).status = "ACTIVE" => e[i].status = "ACTIVE" /\ roots[e[i].mandate] = "live"
  <2>0. e[i] \in Versions
    BY <1>3
  <2>1. CASE roots[e[i].mandate] = "revoked" /\ e[i].status = "ACTIVE"
    <3>1. g(i) = [e[i] EXCEPT !.status = "REVOKED"]
      BY <2>1
    <3> HIDE DEF g
    <3>2. g(i) \in Versions /\ g(i).mandate = e[i].mandate /\ g(i).status = "REVOKED"
      BY <2>0, <3>1 DEF Versions, Statuses
    <3> QED
      BY <2>1, <3>2
  <2>2. CASE ~(roots[e[i].mandate] = "revoked" /\ e[i].status = "ACTIVE")
    <3>1. g(i) = e[i]
      BY <2>2
    <3>2. roots[e[i].mandate] \in {"absent", "live", "revoked"} /\ roots[e[i].mandate] # "absent"
      BY <1>1, <1>3 DEF RootMaps, Known
    <3> HIDE DEF g
    <3> QED
      BY <2>0, <2>2, <3>1, <3>2
  <2> QED
    BY <2>1, <2>2
<1> HIDE DEF g
<1>5. f \in Seq(Versions) /\ Len(f) = Len(e) /\ \A i \in 1 .. Len(e) : f[i] = g(i)
  BY <1>2, <1>4
<1> HIDE DEF f, e
<1>6. SameMandates(e, f)
  BY <1>4, <1>5 DEF SameMandates
<1>7. \A i \in 1 .. Len(e) : f[i].status # e[i].status =>
                               f[i].status # "ACTIVE" /\ roots[e[i].mandate] = "revoked"
  BY <1>4, <1>5
<1>8. Known(mandates, roots, f)
  BY <1>1, <1>6, <1>7, KnownLater, Zenon
<1>9. \A i \in 1 .. Len(e) :
        f[i].status = "ACTIVE" => e[i].status = "ACTIVE" /\ roots[e[i].mandate] = "live"
  BY <1>4, <1>5
<1> QED
  BY <1>1, <1>6, <1>8, <1>9 DEF e, f

\* A new process rebuilds the session, or refuses to.
LEMMA RestoreStep ==
    ASSUME CoreInv, Restore
    PROVE  CoreInv'
<1> DEFINE e == db.versions
           f == RestoredVersions(db)
           x == LedgerReservations(db)
<1> USE DEF ledger
<1>0. /\ mode = "down" /\ UNCHANGED <<mandates, ledger, reserving, challenges, commit, pause, run, runs, unmarked>>
      /\ commit.pc = "idle" /\ run.pc = "idle" /\ pause.pc = "idle" /\ versions = <<>> /\ executions = {}
      /\ Durable(db, mandates, roots, reservations, unmarked) /\ reserving = FALSE
  BY DEF Restore, CoreInv, MemoryInv, DownInv, RunInv, SessionTyped, HoldLabels
<1>1. CASE Restorable(db)
  <2>1. /\ mode' = "restored" /\ versions' = f /\ paused' = (db.paused \/ f # e)
        /\ reserved' = (db.reserved \/ x # {}) /\ executions' = db.executions
        /\ orphans' = x \ db.executions
        /\ \E q : db' = [db EXCEPT !.planning = q]
    BY <1>1 DEF Restore
  <2>2. /\ e \in Seq(Versions) /\ SameMandates(e, f) /\ Known(mandates, roots, f)
        /\ \A i \in 1 .. Len(e) :
              f[i].status = "ACTIVE" => e[i].status = "ACTIVE" /\ roots[e[i].mandate] = "live"
    BY RestoredShape
  <2> HIDE DEF f
  <2>3. /\ f \in Seq(Versions) /\ Len(f) = Len(e) /\ Len(e) \in Nat
        /\ \A i \in 1 .. Len(e) : f[i].mandate = e[i].mandate
    BY <2>2 DEF SameMandates
  <2>4. IsStore(db') /\ db'.versions = e /\ db'.executions = db.executions
    BY <1>0, <2>1 DEF Durable, IsStore, StoreShape
  <2>5. SessionTyped'
    BY <1>0, <2>1, <2>3 DEF CoreInv, SessionTyped
  <2>6. Durable(db', mandates, roots, reservations, unmarked)
    BY <1>0, <2>4 DEF Durable
  <2>7. Active' # 0 => roots[LastVersion'.mandate] = "live"
    <3>1. Active' # 0 => f # <<>> /\ f[Len(f)].status = "ACTIVE" /\ LastVersion' = f[Len(f)]
      BY <2>1 DEF Active, LastVersion
    <3>2. f # <<>> => Len(f) \in 1 .. Len(e)
      BY <2>3
    <3> QED
      BY <2>2, <2>3, <3>1, <3>2
  <2>8. ASSUME (OnePrincipal(versions))', NEW y \in reservations,
               \E i \in DOMAIN versions' : versions'[i].mandate = y.mandate
        PROVE  reserved' /\ y \in executions' \cup orphans'
    <3>1. PICK i \in 1 .. Len(e) : e[i].mandate = y.mandate
      BY <2>1, <2>3, <2>8
    <3>2. 1 \in 1 .. Len(e) /\ e # <<>>
      BY <2>3, <3>1
    <3>3. \A j, k \in DOMAIN f : PrincipalOf(f[j].mandate) = PrincipalOf(f[k].mandate)
      BY <1>0, <2>1, <2>8 DEF OnePrincipal, PrincipalOf
    <3>4. PrincipalOf(e[i].mandate) = PrincipalOf(e[1].mandate)
      BY <2>3, <3>2, <3>3
    <3>5. y \in x
      BY <3>1, <3>2, <3>4 DEF LedgerReservations
    <3> HIDE DEF x
    <3> QED
      BY <2>1, <3>5
  <2>9. RestoredInv'
    <3>1. /\ Len(versions') = Len(db'.versions) /\ executions' = db'.executions
          /\ \A i \in 1 .. Len(versions') :
               /\ versions'[i].mandate = db'.versions[i].mandate
               /\ versions'[i].status = "ACTIVE" => db'.versions[i].status = "ACTIVE"
      BY <2>1, <2>2, <2>3, <2>4
    <3>2. (OnePrincipal(versions))' =>
            \A y \in reservations' :
                 (\E i \in DOMAIN versions' : versions'[i].mandate = y.mandate)
                     => reserved' /\ y \in executions' \cup orphans'
      BY <1>0, <2>8
    <3>3. Active' # 0 => roots'[LastVersion'.mandate] = "live"
      BY <1>0, <2>7
    <3> QED
      BY <3>1, <3>2, <3>3 DEF RestoredInv
  <2>10. MemoryInv'
    BY <1>0, <2>1, <2>2, <2>6, <2>9 DEF CoreInv, MemoryInv, RunningInv, DownInv
  <2>11. CommitInv' /\ PauseInv' /\ RunInv'
    BY <1>0, <2>1 DEF CommitInv, PauseInv, RunInv, HoldLabels
  <2> QED
    BY <2>5, <2>10, <2>11 DEF CoreInv
<1>2. CASE ~Restorable(db)
  <2>1. mode' = "unrestorable" /\ UNCHANGED <<db, versions, paused, reserved, executions, orphans>>
    BY <1>2 DEF Restore
  <2>2. SessionTyped'
    BY <1>0, <2>1 DEF CoreInv, SessionTyped
  <2>3. MemoryInv'
    BY <1>0, <2>1 DEF CoreInv, MemoryInv, RunningInv, RestoredInv, DownInv
  <2>4. CommitInv' /\ PauseInv' /\ RunInv'
    BY <1>0, <2>1 DEF CommitInv, PauseInv, RunInv, HoldLabels
  <2> QED
    BY <2>2, <2>3, <2>4 DEF CoreInv
<1> QED
  BY <1>1, <1>2

------------------------------------------------------------------------------
(* The Room's steps.                                                        *)

\* No Room is open.
LEMMA RoomReset ==
    ASSUME ResetRoom
    PROVE  RoomInv'
<1>1. NoRequests \in [Roles -> Nat] /\ DOMAIN NoAnswers = {}
  BY DEF NoRequests, NoAnswers
<1> QED
  BY <1>1 DEF ResetRoom, RoomInv, NoNeedlessReduction

\* A step that leaves a closed Room, or that stays in the open one.
LEMMA RoomKept ==
    ASSUME RoomInv, UNCHANGED roomVars, status = "open" => run'.pc = "room"
    PROVE  RoomInv'
BY DEF RoomInv, roomVars, NoNeedlessReduction, Tentative

\* An abort closes the generation it finds open.
LEMMA RoomAborted ==
    ASSUME RoomInv, OnAbort, run' = run
    PROVE  RoomInv'
BY DEF RoomInv, OnAbort, NoNeedlessReduction, Tentative

(***************************************************************************)
(* A generation opens over requests that do not fit.                       *)
(***************************************************************************)
LEMMA RoomOpened ==
    ASSUME NEW g, NEW reqs \in [Roles -> Nat], NEW asked \in SUBSET Roles, ~Feasible(reqs),
           OpenGeneration(g, reqs, asked), run'.pc = "room"
    PROVE  RoomInv'
<1> DEFINE active == {r \in asked : reqs[r] > 0}
<1>1. /\ requests' = reqs /\ askable' = asked /\ answers' = NoAnswers /\ pending' = active
      /\ closed' = TryClose(reqs, active)
  BY DEF OpenGeneration
<1>2. closed' = IF active = {} THEN "ALL_ANSWERED" ELSE "no"
  BY <1>1 DEF TryClose
<1>3. (Tentative(answers))' = reqs /\ DOMAIN answers' = {}
  BY <1>1 DEF Tentative, NoAnswers
<1>4. active \subseteq Roles
  OBVIOUS
<1> HIDE DEF active
<1> QED
  BY <1>1, <1>2, <1>3, <1>4 DEF RoomInv, NoNeedlessReduction

\* The sizes the Room's participants end up with.
LEMMA TentativeTyped ==
    ASSUME RoomInv
    PROVE  Tentative(answers) \in [Roles -> Nat]
BY DEF RoomInv, Tentative

(***************************************************************************)
(* A reply that counts: the answers without it did not fit, so where they  *)
(* now fit, it was needed.                                                 *)
(***************************************************************************)
LEMMA RoomReply ==
    ASSUME RoomInv, run' = run, NEW c, NEW n \in Replies(c[1]), Reply(c, n)
    PROVE  RoomInv'
<1>1. CASE ~Current(c)
  <2>1. UNCHANGED <<status, requests, askable, answers, pending, closed>>
    BY <1>1 DEF Reply
  <2> QED
    BY <2>1 DEF RoomInv, NoNeedlessReduction, Tentative
<1>2. CASE Current(c)
  <2> DEFINE k == c[1]
             ans == [r \in DOMAIN answers \cup {k} |-> IF r = k THEN n ELSE answers[r]]
             rest == pending \ {k}
  <2>1. /\ status = "open" /\ closed = "no" /\ k \in pending
        /\ answers' = ans /\ pending' = rest /\ closed' = TryClose(Tentative(ans), rest)
        /\ UNCHANGED <<status, requests, askable>>
    BY <1>2 DEF Reply, Current
  <2>2. k \in Roles /\ k \notin DOMAIN answers /\ ~Feasible(Tentative(answers)) /\ requests[k] \in Nat
    BY <2>1 DEF RoomInv
  <2>3. n \in Nat
    BY <2>2 DEF Replies
  <2>4. /\ DOMAIN ans \subseteq Roles /\ (\A r \in DOMAIN ans : ans[r] \in Nat) /\ k \in DOMAIN ans
        /\ rest \cap DOMAIN ans = {} /\ rest \subseteq Roles
    BY <2>2, <2>3 DEF RoomInv
  <2>5. Tentative(answers) = [Tentative(ans) EXCEPT ![k] = requests[k]]
    BY <2>2 DEF Tentative
  <2>6. (Tentative(answers))' = Tentative(ans)
    BY <2>1 DEF Tentative
  <2> HIDE DEF ans, rest, k
  <2>7. /\ closed' \in {"no", "FEASIBLE", "ALL_ANSWERED"}
        /\ closed' = "no" => rest # {} /\ ~Feasible(Tentative(ans))
    BY <2>1 DEF TryClose
  <2>8. NoNeedlessReduction'
    <3>1. k \in DOMAIN answers' /\ requests' = requests
      BY <2>1, <2>4
    <3>2. [(Tentative(answers))' EXCEPT ![k] = requests'[k]] = Tentative(answers)
      BY <2>5, <2>6, <3>1
    <3>3. ~Feasible([(Tentative(answers))' EXCEPT ![k] = requests'[k]])
      BY <2>2, <3>2
    <3> QED
      BY <3>1, <3>3 DEF NoNeedlessReduction
  <2> QED
    BY <2>1, <2>4, <2>6, <2>7, <2>8 DEF RoomInv
<1> QED
  BY <1>1, <1>2

\* A reply that fails, or a timer, leaves the answers as they were.
LEMMA RoomLost ==
    ASSUME RoomInv, run' = run, NEW r, status = "open", closed = "no",
           pending' = pending \ {r}, closed' = TryClose(Tentative(answers), pending \ {r}),
           UNCHANGED <<status, requests, askable, answers>>
    PROVE  RoomInv'
<1>1. ~Feasible(Tentative(answers)) /\ (Tentative(answers))' = Tentative(answers)
  BY DEF RoomInv, Tentative
<1>2. closed' = IF pending \ {r} = {} THEN "ALL_ANSWERED" ELSE "no"
  BY <1>1 DEF TryClose
<1> QED
  BY <1>1, <1>2 DEF RoomInv, NoNeedlessReduction

\* Every step in the Room.
LEMMA InRoomRoom ==
    ASSUME RoomInv, InRoom
    PROVE  RoomInv'
<1>0. run' = run /\ run.pc = "room" /\ RoomStep
  BY DEF InRoom
<1>1. CASE \E c \in calls : \E n \in Replies(c[1]) : Reply(c, n)
  BY <1>0, <1>1, RoomReply
<1>2. ASSUME NEW c \in calls, BadReply(c)
      PROVE  RoomInv'
  <2>1. /\ status = "open" /\ closed = "no" /\ pending' = pending \ {c[1]}
        /\ closed' = TryClose(Tentative(answers), pending \ {c[1]})
        /\ UNCHANGED <<status, requests, askable, answers>>
    BY <1>2 DEF BadReply, Current
  <2> QED
    BY <1>0, <2>1, RoomLost
<1>3. ASSUME NEW r \in Roles, TimeOut(r)
      PROVE  RoomInv'
  <2>1. /\ status = "open" /\ closed = "no" /\ pending' = pending \ {r}
        /\ closed' = TryClose(Tentative(answers), pending \ {r})
        /\ UNCHANGED <<status, requests, askable, answers>>
    BY <1>3 DEF TimeOut
  <2> QED
    BY <1>0, <2>1, RoomLost
<1>4. CASE NextGeneration
  <2>1. OpenGeneration(generation + 1, Tentative(answers), askable) /\ RoomResult = "open"
    BY <1>4 DEF NextGeneration
  <2>2. ~Feasible(Tentative(answers))
    BY <2>1 DEF RoomResult
  <2>3. Tentative(answers) \in [Roles -> Nat] /\ askable \in SUBSET Roles
    BY TentativeTyped DEF RoomInv
  <2> QED
    BY <1>0, <2>1, <2>2, <2>3, RoomOpened
<1> QED
  BY <1>0, <1>1, <1>2, <1>3, <1>4 DEF RoomStep

\* A Room opens only over a conflict.
LEMMA SettleRoom ==
    ASSUME CoreInv, run.pc \in BetweenPasses, NEW reqs \in [Roles -> Nat], Settle(reqs)
    PROVE  RoomInv'
<1>1. CASE OpensRoom(reqs)
  <2>1. OpenGeneration(1, reqs, SharedParties(reqs)) /\ run' = [run EXCEPT !.pc = "room"]
    BY <1>1 DEF Settle, OpenRoom
  <2>2. ~Feasible(reqs)
    BY <1>1 DEF OpensRoom
  <2>3. run'.pc = "room"
    BY <2>1, RunFacts DEF BetweenPasses, RunRecords
  <2>4. SharedParties(reqs) \in SUBSET Roles
    BY RoomAssumption DEF SharedParties, Demanders
  <2> QED
    BY <2>1, <2>2, <2>3, <2>4, RoomOpened
<1>2. CASE ~OpensRoom(reqs)
  BY <1>2, RoomReset DEF Settle
<1> QED
  BY <1>1, <1>2

\* Discovery opens a Room, or none.
LEMMA DiscoverRoom ==
    ASSUME CoreInv, RoomInv, Discover
    PROVE  RoomInv'
<1>0. run.pc = "discover" /\ run.pc \in BetweenPasses /\ status # "open"
  BY DEF Discover, BetweenPasses, RoomInv
<1>1. PICK reqs \in [Roles -> Sizes] :
        \/ UNCHANGED roomVars
        \/ /\ requests' = reqs
           /\ UNCHANGED <<status, askable, generation, answers, pending, calls, closed>>
        \/ Settle(reqs)
  BY DEF Discover
<1>2. reqs \in [Roles -> Nat]
  BY SessionAssumption
<1>3. CASE UNCHANGED roomVars
  BY <1>0, <1>3, RoomKept
<1>4. CASE requests' = reqs /\ UNCHANGED <<status, askable, generation, answers, pending, calls, closed>>
  BY <1>0, <1>2, <1>4 DEF RoomInv, NoNeedlessReduction
<1>5. CASE Settle(reqs)
  BY <1>0, <1>2, <1>5, SettleRoom
<1> QED
  BY <1>1, <1>3, <1>4, <1>5

\* So does the one re-plan, whose sizes are numbers again.
LEMMA ReplanRoom ==
    ASSUME CoreInv, RoomInv, Replan
    PROVE  RoomInv'
<1>0. run.pc = "replan" /\ run.pc \in BetweenPasses /\ requests \in [Roles -> Nat]
  BY DEF Replan, BetweenPasses, RoomInv
<1>1. CASE ResetRoom
  BY <1>1, RoomReset
<1>2. CASE ~ResetRoom
  <2>1. PICK reqs \in [Roles -> UNION {Replanned(r) : r \in Roles}] :
          (\A r \in Roles : reqs[r] \in Replanned(r)) /\ Settle(Dropped(reqs))
    BY <1>2 DEF Replan
  <2>2. \A r \in Roles : reqs[r] \in Nat
    <3>1. ASSUME NEW r \in Roles
          PROVE  Replanned(r) \subseteq Nat
      BY <1>0, RoomAssumption DEF Replanned
    <3> QED
      BY <2>1, <3>1
  <2>3. Dropped(reqs) \in [Roles -> Nat]
    BY <2>2 DEF Dropped
  <2> QED
    BY <1>0, <2>1, <2>3, SettleRoom
<1> QED
  BY <1>1, <1>2

------------------------------------------------------------------------------
(* The invariant.                                                           *)

\* It holds of a new session.
LEMMA SessionInit ==
    ASSUME Init
    PROVE  SessionInv
<1>1. SessionTyped
  <2>1. /\ mandates \in MandateLists /\ Len(mandates) = 0 /\ versions \in Seq(Versions)
        /\ {MaxMandates, MaxRuns} \subseteq Nat
    BY SessionAssumption DEF Init, MandateLists
  <2>2. commit \in [pc : {"idle", "revoke", "register", "delegate", "record"},
                     mandate : 0 .. MaxMandates]
    BY <2>1 DEF Init, NoCommit
  <2>3. pause \in [pc : {"idle", "revoke", "record"}, version : Nat]
    BY DEF Init, NoPause
  <2>4. run \in RunRecords /\ run.pc = "idle"
    BY NoRunTyped DEF Init
  <2>5. runs \in 0 .. MaxRuns /\ Len(mandates) <= MaxMandates
    BY <2>1 DEF Init
  <2>6. /\ roots \in [Mandates -> {"absent", "live", "revoked"}]
        /\ challenges \in [Mandates -> {"none", "open", "spent"}]
    BY DEF Init
  <2>7. /\ reservations \subseteq Reservations /\ mode = "running"
        /\ paused \in BOOLEAN /\ reserved \in BOOLEAN /\ reserving \in BOOLEAN
    BY DEF Init
  <2> QED
    BY <2>1, <2>2, <2>3, <2>4, <2>5, <2>6, <2>7 DEF SessionTyped
<1>2. RoomInv
  <2>1. NoRequests \in [Roles -> Nat] /\ DOMAIN NoAnswers = {}
    BY DEF NoRequests, NoAnswers
  <2> QED
    BY <2>1 DEF Init, RoomInit, RoomInv, NoNeedlessReduction
<1>3. commit.pc = "idle" /\ pause.pc = "idle" /\ run.pc = "idle"
  BY DEF Init, NoCommit, NoPause, NoRun
<1>4. MemoryInv
  <2>1. Known(mandates, roots, <<>>)
    BY DEF Known
  <2>2. IsStore(db) /\ db.versions = <<>> /\ db.executions = {}
    BY DEF Init, IsStore, StoreShape
  <2> QED
    BY <1>3, <2>1, <2>2
    DEF Init, MemoryInv, Durable, ExecutionsLast, RunningInv, RestoredInv, DownInv
<1>5. CommitInv /\ PauseInv /\ RunInv
  BY <1>3 DEF Init, CommitInv, PauseInv, RunInv, HoldLabels
<1> QED
  BY <1>1, <1>2, <1>4, <1>5 DEF SessionInv

\* Every step keeps it.
LEMMA SessionStep ==
    ASSUME SessionInv, [Next]_vars
    PROVE  SessionInv'
<1> USE DEF ledger
<1>0. CoreInv /\ RoomInv
  BY DEF SessionInv, CoreInv
<1>1. CoreInv'
  <2>1. CASE Authoring
    BY <1>0, <2>1, WalletChallengeStep, SpineChallengeStep, AuthorizeWithKeyStep, SignChallengeStep,
       DraftStep DEF Authoring
  <2>2. CASE Committing
    <3>1. CASE CommitRevoke /\ LedgerWriteFrame
      BY <1>0, <3>1, CommitRevokeStep
    <3>2. CASE CommitRegister /\ LedgerWriteFrame
      BY <1>0, <3>2, CommitRegisterStep
    <3>3. CASE CommitRefused /\ UNCHANGED <<mandates, ledger, mode, reserved, reserving, executions,
                                            orphans, challenges, pause, run, runs, unmarked>>
      BY <1>0, <3>3, CommitRefusedStep
    <3>4. CASE CommitRecord /\ UNCHANGED <<mandates, ledger, mode, paused, reserved, reserving,
                                           executions, orphans, challenges, pause, run, runs, unmarked>>
      BY <1>0, <3>4, CommitRecordStep
    <3> QED
      BY <2>2, <3>1, <3>2, <3>3, <3>4 DEF Committing, LedgerWriteFrame
  <2>3. CASE Pause \/ PauseRevoke \/ PauseRecord
    BY <1>0, <2>3, PauseStep, PauseRevokeStep, PauseRecordStep
  <2>4. CASE StartRun \/ StartPolicyStress
    BY <1>0, <2>4, StartStep
  <2>5. CASE Running
    BY <1>0, <2>5, BetweenPassesStep, ReserveStep, ReserveThrowsStep, RecordReservedStep,
       RecordThrowsStep, EndReservationStep, MarkThrowsStep DEF Running
  <2>6. CASE Crash
    BY <1>0, <2>6, CrashStep
  <2>7. CASE Restore
    BY <1>0, <2>7, RestoreStep
  <2>8. CASE UNCHANGED vars
    <3> USE <2>8 DEF vars, memory
    <3>1. SessionTyped'
      BY <1>0 DEF CoreInv, SessionTyped
    <3>2. MemoryInv'
      <4>1. Active' = Active /\ LastVersion' = LastVersion
            /\ (OnePrincipal(versions))' = OnePrincipal(versions)
        BY DEF Active, LastVersion, OnePrincipal, PrincipalOf
      <4> QED
        BY <1>0, <4>1 DEF CoreInv, MemoryInv, RunningInv, RestoredInv, DownInv
    <3>3. CommitInv' /\ PauseInv' /\ RunInv'
      BY <1>0 DEF CoreInv, CommitInv, PauseInv, RunInv, LastVersion
    <3> QED
      BY <3>1, <3>2, <3>3 DEF CoreInv
  <2> QED
    BY <2>1, <2>2, <2>3, <2>4, <2>5, <2>6, <2>7, <2>8 DEF Next
<1>2. RoomInv'
  <2>1. CASE UNCHANGED roomVars /\ (status = "open" => run'.pc = "room")
    BY <1>0, <2>1, RoomKept
  <2>2. CASE OnAbort /\ run' = run
    BY <1>0, <2>2, RoomAborted
  <2>3. CASE Discover \/ Replan \/ InRoom
    BY <1>0, <2>3, DiscoverRoom, ReplanRoom, InRoomRoom
  <2>4. CASE ResetRoom
    BY <2>4, RoomReset
  <2>5. status = "open" => run.pc = "room"
    BY <1>0 DEF RoomInv
  <2>6. CASE Authoring \/ Pause \/ PauseRevoke \/ Restore \/ UNCHANGED vars
    <3>1. UNCHANGED <<roomVars, run>>
      BY <2>6 DEF Authoring, WalletChallenge, SpineChallenge, AuthorizeWithKey, SignChallenge,
         ChallengeDies, Plan, ApplyPlan, Pause, PauseRevoke, Restore, vars
    <3> QED
      BY <2>1, <2>5, <3>1
  <2>7. CASE Committing \/ PauseRecord
    <3>1. UNCHANGED <<roomVars, run>> \/ (OnAbort /\ run' = run)
      BY <2>7 DEF Committing, CommitRecord, PauseRecord
    <3> QED
      BY <2>1, <2>2, <2>5, <3>1
  <2>8. CASE RoomEnds \/ Crash
    BY <2>4, <2>8 DEF RoomEnds, FinishRoom, Crash
  <2>9. CASE StartRun \/ StartPolicyStress \/ (\E r \in Roles : Reserve(r)) \/ ReserveThrows
             \/ RecordReserved \/ RecordThrows \/ EndReservation \/ MarkThrows \/ Again
    <3>1. run.pc # "room" /\ UNCHANGED roomVars
      BY <2>9 DEF StartRun, StartPolicyStress, Reserve, ReserveThrows, RecordReserved,
         RecordThrows, EndReservation, MarkThrows, Again
    <3> QED
      BY <2>1, <2>5, <3>1
  <2> QED
    BY <2>3, <2>6, <2>7, <2>8, <2>9 DEF Next, Running
<1> QED
  BY <1>1, <1>2 DEF SessionInv, CoreInv

\* So it always holds.
LEMMA SessionAlways == Spec => []SessionInv
BY SessionInit, SessionStep, PTL DEF Spec

------------------------------------------------------------------------------
(* The theorems.                                                            *)

(***************************************************************************)
(* However replies are lost, late, invalid or duplicated, a generation     *)
(* that is open has someone to wait for: its timer will close it.          *)
(***************************************************************************)
THEOREM RoomNeverHangs == Spec => []RoomCanClose
<1>1. SessionInv => RoomCanClose
  BY DEF SessionInv, RoomInv, RoomCanClose
<1> QED
  BY <1>1, SessionAlways, PTL

(***************************************************************************)
(* When a generation closes because the answers fit, some answer was       *)
(* necessary: no agent gives up what nobody needed.                        *)
(***************************************************************************)
THEOREM RoomTakesNoMore == Spec => []NoNeedlessReduction
<1>1. SessionInv => NoNeedlessReduction
  BY DEF SessionInv, RoomInv
<1> QED
  BY <1>1, SessionAlways, PTL

(***************************************************************************)
(* No version is authorized over an execution whose pass ran to its end or *)
(* still runs, whatever commit, pause, run, crash and restore interleave   *)
(* with it, and whichever writes of a pass throw.                          *)
(***************************************************************************)
THEOREM MarkedPinTheVersion == Spec => []MarkedExecutionsPinVersion
<1>1. SessionInv => MarkedExecutionsPinVersion
  <2> SUFFICES ASSUME SessionInv, NEW x \in executions, x \notin unmarked
               PROVE  x.mandate = LastVersion.mandate
    BY DEF MarkedExecutionsPinVersion
  <2>1. mode \in {"running", "restored"} /\ x \in db.executions
    BY DEF SessionInv, SessionTyped, MemoryInv, DownInv, RunningInv, RestoredInv
  <2>2. /\ x.mandate = db.versions[Len(db.versions)].mandate
        /\ \E i \in 1 .. Len(db.versions) : db.versions[i].mandate = x.mandate
    BY <2>1 DEF SessionInv, MemoryInv, Durable, ExecutionsLast
  <2>3. CASE mode = "running"
    BY <2>2, <2>3 DEF SessionInv, MemoryInv, RunningInv, LastVersion
  <2>4. CASE mode = "restored"
    <3>1. db.versions \in Seq(Versions) /\ Len(versions) = Len(db.versions)
          /\ \A i \in 1 .. Len(versions) : versions[i].mandate = db.versions[i].mandate
      BY <2>4 DEF SessionInv, MemoryInv, RestoredInv, Durable, IsStore
    <3>2. Len(versions) \in 1 .. Len(versions)
      BY <2>2, <3>1
    <3> QED
      BY <2>2, <3>1, <3>2 DEF LastVersion
  <2> QED
    BY <2>1, <2>3, <2>4
<1> QED
  BY <1>1, SessionAlways, PTL

(***************************************************************************)
(* Wherever a crash tears the writes of a commit, a pause or a pass, the   *)
(* versions in session.db agree with the ledger, and so do the recorded    *)
(* executions while one principal authorized every version.                *)
(***************************************************************************)
THEOREM TornRecordsAgree == Spec => []LedgerRestores
<1>1. SessionInv => LedgerRestores
  <2> SUFFICES ASSUME SessionInv, NEW d \in TornWrites
               PROVE  VersionsAgree(d) /\ (OnePrincipal(d.versions) => ExecutionsAgree(d))
    BY DEF LedgerRestores
  <2>1. Durable(d, mandates, roots, reservations, unmarked)
    BY TornDurable DEF SessionInv, CoreInv
  <2>2. d.versions \in Seq(Versions) /\ Known(mandates, roots, d.versions)
    BY <2>1 DEF Durable, IsStore
  <2>3. DOMAIN d.versions = 1 .. Len(d.versions)
    BY <2>2
  <2>4. VersionsAgree(d)
    BY <2>2, <2>3 DEF VersionsAgree, Known
  <2>5. ASSUME OnePrincipal(d.versions), d.versions # <<>>
        PROVE  d.executions \subseteq LedgerReservations(d)
    <3>1. 1 \in DOMAIN d.versions
      BY <2>2, <2>5
    <3>2. \A i \in DOMAIN d.versions :
            PrincipalOf(d.versions[i].mandate) = PrincipalOf(d.versions[1].mandate)
      BY <2>5, <3>1 DEF OnePrincipal
    <3>3. ASSUME NEW x \in d.executions
          PROVE  x \in reservations /\ PrincipalOf(x.mandate) = PrincipalOf(d.versions[1].mandate)
      BY <2>1, <2>3, <3>2 DEF Durable, ExecutionsLast
    <3> QED
      BY <2>5, <3>3 DEF LedgerReservations
  <2> QED
    BY <2>4, <2>5 DEF ExecutionsAgree
<1> QED
  BY <1>1, SessionAlways, PTL

(***************************************************************************)
(* A restored session claims no authority the ledger revoked, and forgets  *)
(* no reservation under its versions while one principal authorized them.  *)
(***************************************************************************)
THEOREM LedgerWinsRestore == Spec => []RestoredFromLedger
<1>1. SessionInv => RestoredFromLedger
  BY DEF SessionInv, MemoryInv, RestoredInv, RestoredFromLedger
<1> QED
  BY <1>1, SessionAlways, PTL

(***************************************************************************)
(* The ledger reserves only under the version in force at that moment,     *)
(* whatever version the run captured before its awaits.                    *)
(***************************************************************************)
THEOREM ReservesUnderTheActive == Spec => ReservedUnderActive
<1>1. SessionInv /\ [Next]_vars =>
        [\A x \in reservations' \ reservations :
            /\ Active # 0
            /\ x.mandate = LastVersion.mandate]_vars
  <2> SUFFICES ASSUME SessionInv, Next, NEW x \in reservations' \ reservations
               PROVE  Active # 0 /\ x.mandate = LastVersion.mandate
    OBVIOUS
  <2>1. CASE \E r \in Roles : Reserve(r)
    <3>1. PICK r \in Roles : Reserve(r)
      BY <2>1
    <3>2. run.pc = "reserve" /\ r \in run.items /\ MayReserve(Reservation(r).mandate) /\ x = Reservation(r)
      BY <3>1 DEF Reserve
    <3>3. CoreInv
      BY DEF SessionInv, CoreInv
    <3> QED
      BY <3>2, <3>3, ReservedFacts
  <2>2. CASE ~(\E r \in Roles : Reserve(r))
    <3>1. reservations' = reservations
      BY <2>2
      DEF Next, Authoring, WalletChallenge, SpineChallenge, AuthorizeWithKey, SignChallenge,
          ChallengeDies, Plan, ApplyPlan, Committing, Pause, PauseRevoke, PauseRecord, StartRun,
          StartPolicyStress, Running, Discover, Replan, InRoom, RoomEnds, ReserveThrows,
          RecordReserved, RecordThrows, EndReservation, MarkThrows, Again, Crash, Restore, ledger, sessionFrame
    <3> QED
      BY <3>1
  <2> QED
    BY <2>1, <2>2
<1> QED
  BY <1>1, SessionAlways, PTL DEF Spec, ReservedUnderActive
=============================================================================
