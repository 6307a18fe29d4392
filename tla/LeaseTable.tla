----------------------------- MODULE LeaseTable -----------------------------
(***************************************************************************)
(* The `lease` table of the control plane and the four routes that touch   *)
(* it: a lease is a runner's temporary right over a job.  Every handler    *)
(* runs to its end without an `await`, in the one process that owns the    *)
(* database, so each handler is one action.  The sweep that expires        *)
(* overdue rows is the first step of every handler that reaches the table. *)
(*                                                                         *)
(* A refusal that happens before the sweep (bad body, foreign credential,  *)
(* unknown runner, foreign project, held job) writes nothing and is a      *)
(* stuttering step.                                                        *)
(***************************************************************************)
EXTENDS Integers, FiniteSets

CONSTANTS
  Runner,          \* paired runners
  Job,             \* job ids a claim may name
  Project,         \* partitions
  NoProject,       \* what ProjectOf says of an id that names no job row
  ProjectOf,       \* Job -> Project \cup {NoProject}
  LeaseId,         \* rows the table may ever hold (bounds the model)
  DeclaredCap,     \* runner_cap and project_cap values a claim may declare
  RunnerCeiling,   \* this process's ceiling per runner
  ProjectCeiling,  \* this process's ceiling per project
  Ttl,             \* ttl_seconds values a claim or a heartbeat may declare
  MaxClock         \* bound of the model's clock

ASSUME LeaseTableAssumption ==
  /\ IsFiniteSet(LeaseId)
  /\ NoProject \notin Project
  /\ ProjectOf \in [Job -> Project \cup {NoProject}]
  /\ DeclaredCap \subseteq Int
  /\ RunnerCeiling \in Nat /\ ProjectCeiling \in Nat
  /\ Ttl \subseteq Nat \ {0}
  /\ MaxClock \in Nat

VARIABLES
  clock,         \* the control plane's clock
  lease,         \* the table: LeaseId -> row
  grantedLog,    \* lease.granted events recorded, per lease
  expiredLog     \* lease.expired events recorded, per lease

vars == <<clock, lease, grantedLog, expiredLog>>

-----------------------------------------------------------------------------

Never == -1

Reason == {"none", "ttl_elapsed", "heartbeat_lost"}

(* An id no INSERT has used yet. *)
NoLease == [status |-> "unused"]

Lease == [status : {"active", "released", "expired"},
          runner : Runner, job : Job, project : Project, ttl : Ttl,
          granted : Nat, heartbeat : Nat, expires : Nat,
          released : Nat \cup {Never}, reason : Reason]

Written(tab)     == {l \in LeaseId : tab[l].status # "unused"}
Active(tab)      == {l \in LeaseId : tab[l].status = "active"}
OfJob(tab, j)    == {l \in Active(tab) : tab[l].job = j}
OfRunner(tab, r) == {l \in Active(tab) : tab[l].runner = r}
OfProject(tab, p) == {l \in Active(tab) : tab[l].project = p}

(* Fault: the declared cap is taken as it comes, without the ceiling. *)
FaultyLeast(a, b) == a

Least(a, b) == IF a <= b THEN a ELSE b

(* Fault: the instant of expires_at is already dead. *)
FaultyOverdue(row, moment) == row.status = "active" /\ row.expires <= moment

(* The deadline is compared strictly: the instant of expires_at is alive. *)
Overdue(row, moment) == row.status = "active" /\ row.expires < moment

(* A lease whose heartbeat never moved ran out; one that was renewed lost
   its heartbeat. *)
Expired(row) ==
  [row EXCEPT !.status = "expired",
              !.reason = IF row.heartbeat = row.granted
                         THEN "ttl_elapsed" ELSE "heartbeat_lost"]

(* expireOverdue: one UPDATE for the batch ... *)
Swept(tab, moment) ==
  [l \in LeaseId |-> IF Overdue(tab[l], moment) THEN Expired(tab[l]) ELSE tab[l]]

(* Fault: one event for the batch. *)
FaultySweptLog(logged, tab, moment) ==
  LET dead == {l \in LeaseId : Overdue(tab[l], moment)} IN
  [l \in LeaseId |-> IF dead # {} /\ l = CHOOSE d \in dead : TRUE
                     THEN logged[l] + 1 ELSE logged[l]]

(* ... and one lease.expired event for each row that died in it. *)
SweptLog(logged, tab, moment) ==
  [l \in LeaseId |-> IF Overdue(tab[l], moment) THEN logged[l] + 1 ELSE logged[l]]

(* claimExpired, or the first step of a handler that has nothing else to do. *)
Sweep ==
  /\ lease' = Swept(lease, clock)
  /\ expiredLog' = SweptLog(expiredLog, lease, clock)

-----------------------------------------------------------------------------

(* Fault: the owner is only looked for among the runner's own leases. *)
FaultyGrantable(tab, r, j, p, runnerCap, projectCap) ==
  /\ OfJob(tab, j) \cap OfRunner(tab, r) = {}
  /\ Cardinality(OfRunner(tab, r)) < Least(runnerCap, RunnerCeiling)
  /\ Cardinality(OfProject(tab, p)) < Least(projectCap, ProjectCeiling)

(* What grantLease checks after the sweep: the job has no owner, and neither
   the runner nor the project is at the cap declared, clamped to the ceiling. *)
Grantable(tab, r, j, p, runnerCap, projectCap) ==
  /\ OfJob(tab, j) = {}
  /\ Cardinality(OfRunner(tab, r)) < Least(runnerCap, RunnerCeiling)
  /\ Cardinality(OfProject(tab, p)) < Least(projectCap, ProjectCeiling)

(* Fault: no heartbeat is written before the first beat. *)
FaultyNewLease(r, j, p, ttl) ==
  [status |-> "active", runner |-> r, job |-> j, project |-> p, ttl |-> ttl,
   granted |-> clock, heartbeat |-> Never, expires |-> clock + ttl,
   released |-> Never, reason |-> "none"]

NewLease(r, j, p, ttl) ==
  [status |-> "active", runner |-> r, job |-> j, project |-> p, ttl |-> ttl,
   granted |-> clock, heartbeat |-> clock, expires |-> clock + ttl,
   released |-> Never, reason |-> "none"]

(* POST /leases up to grantLease: the job's own project refuses a claim that
   declares another one; an id that names no row is leased over as it comes. *)
Claimable(j, p) == ProjectOf[j] \in {p, NoProject}

(* POST /leases, granted: sweep and insert in one transaction. *)
Grant(r, j, p, runnerCap, projectCap, ttl, l) ==
  /\ Claimable(j, p)
  /\ Grantable(Swept(lease, clock), r, j, p, runnerCap, projectCap)
  /\ lease[l] = NoLease
  /\ lease' = [Swept(lease, clock) EXCEPT ![l] = NewLease(r, j, p, ttl)]
  /\ expiredLog' = SweptLog(expiredLog, lease, clock)
  /\ grantedLog' = [grantedLog EXCEPT ![l] = @ + 1]
  /\ UNCHANGED clock

(* POST /leases, refused by the owner check or by a cap: the sweep stays. *)
Refuse(r, j, p, runnerCap, projectCap) ==
  /\ Claimable(j, p)
  /\ ~Grantable(Swept(lease, clock), r, j, p, runnerCap, projectCap)
  /\ Sweep
  /\ UNCHANGED <<clock, grantedLog>>

(* Fault: the row is read before the sweep, so a late beat finds it alive. *)
FaultyHeartbeat(l, ttl) ==
  /\ l \in Active(lease)
  /\ lease' = [lease EXCEPT ![l].ttl = ttl, ![l].heartbeat = clock,
                            ![l].expires = clock + ttl]
  /\ UNCHANGED <<clock, expiredLog, grantedLog>>

(* POST /leases/:id/heartbeats: the sweep runs before the read, so a late beat
   finds the lease expired and is answered 409 with nothing renewed.  The route
   reads the clock for its sweep and the write reads it again (renewLease); one
   instant stands for both, here and in Release: the handler does not yield
   between them, and no sweep can run there. *)
Heartbeat(l, ttl) ==
  LET swept == Swept(lease, clock) IN
  /\ l \in Active(swept)
  /\ lease' = [swept EXCEPT ![l].ttl = ttl, ![l].heartbeat = clock,
                            ![l].expires = clock + ttl]
  /\ expiredLog' = SweptLog(expiredLog, lease, clock)
  /\ UNCHANGED <<clock, grantedLog>>

(* POST /leases/:id/releases, with the same sweep before its read. *)
Release(l) ==
  LET swept == Swept(lease, clock) IN
  /\ l \in Active(swept)
  /\ lease' = [swept EXCEPT ![l].status = "released", ![l].released = clock]
  /\ expiredLog' = SweptLog(expiredLog, lease, clock)
  /\ UNCHANGED <<clock, grantedLog>>

(* GET /leases, and a heartbeat or a release answered 404, 403 or 409: what
   they write is the sweep. *)
Reconcile ==
  /\ Sweep
  /\ UNCHANGED <<clock, grantedLog>>

Tick ==
  /\ clock < MaxClock
  /\ clock' = clock + 1
  /\ UNCHANGED <<lease, grantedLog, expiredLog>>

Init ==
  /\ clock = 0
  /\ lease = [l \in LeaseId |-> NoLease]
  /\ grantedLog = [l \in LeaseId |-> 0]
  /\ expiredLog = [l \in LeaseId |-> 0]

Claim(r, j, p) ==
  \E runnerCap, projectCap \in DeclaredCap :
    \/ Refuse(r, j, p, runnerCap, projectCap)
    \/ \E ttl \in Ttl, l \in LeaseId :
         Grant(r, j, p, runnerCap, projectCap, ttl, l)

(* A heartbeat with no ttl_seconds keeps the lease's own, which is one of Ttl. *)
Next ==
  \/ \E r \in Runner, j \in Job, p \in Project : Claim(r, j, p)
  \/ \E l \in LeaseId, ttl \in Ttl : Heartbeat(l, ttl)
  \/ \E l \in LeaseId : Release(l)
  \/ Reconcile
  \/ Tick

Spec == Init /\ [][Next]_vars

-----------------------------------------------------------------------------
(* Correctness. *)

(* Every row, counter and instant has the type its column has. *)
TypeOK ==
  /\ clock \in Nat
  /\ lease \in [LeaseId -> Lease \cup {NoLease}]
  /\ grantedLog \in [LeaseId -> Nat]
  /\ expiredLog \in [LeaseId -> Nat]

(* A job never has two active leases, whoever raced for it and however late
   the sweep that found the previous owner dead (grantLease). *)
OneOwnerPerJob ==
  \A l, m \in Active(lease) : lease[l].job = lease[m].job => l = m

(* However the requests interleave and whatever caps they declare, no runner
   holds more active leases than this process's ceiling (the clamp of POST
   /leases and the count in grantLease's transaction). *)
RunnerCeilingHolds ==
  \A r \in Runner : Cardinality(OfRunner(lease, r)) <= RunnerCeiling

(* The same ceiling for a project, counted across every runner. *)
ProjectCeilingHolds ==
  \A p \in Project : Cardinality(OfProject(lease, p)) <= ProjectCeiling

(* Both ceilings, against runners that declare more and race for the last slot
   while the leases that fill it expire. *)
CeilingsHold == RunnerCeilingHolds /\ ProjectCeilingHolds

(* The last instant a lease gives its runner: its release, or its deadline. *)
End(row) == IF row.status = "released" THEN row.released ELSE row.expires

(* Two leases over one job never overlap in time, dead ones included: the
   later was granted no earlier than the release, or the deadline, of the
   other.  A runner that stops at its own deadline never works beside another
   (the sweep at the head of grantLease, heartbeat and release). *)
DisjointTenure ==
  \A l, m \in Written(lease) :
    (l # m /\ lease[l].job = lease[m].job)
       => \/ End(lease[l]) <= lease[m].granted
          \/ End(lease[m]) <= lease[l].granted

(* A job is one runner's at a time: in the table, and on the clock. *)
TenureIsExclusive == OneOwnerPerJob /\ DisjointTenure

(* An overdue lease has one possible future: a step that touches it expires
   it.  No late heartbeat renews it and no late release ends it as if it had
   been alive (claimExpired before the read in both routes).  And neither exit
   comes back: a released or expired row is never written again, by a call
   answered late or made twice (the `status = 'active'` of every UPDATE). *)
LateCallsChangeNothing ==
  [][\A l \in LeaseId :
       /\ Overdue(lease[l], clock) => \/ lease'[l] = lease[l]
                                     \/ lease'[l] = Expired(lease[l])
       /\ l \in Written(lease) \ Active(lease) => lease'[l] = lease[l]]_vars

(* One lease.expired event per lease that died and none for any other, even
   when one sweep kills several (expireOverdue's loop); one lease.granted per
   row. *)
OneEventPerFact ==
  \A l \in LeaseId :
    /\ grantedLog[l] = IF l \in Written(lease) THEN 1 ELSE 0
    /\ expiredLog[l] = IF lease[l].status = "expired" THEN 1 ELSE 0

(* heartbeat_lost is only said of a lease that was renewed after its grant,
   and a lease's deadline is always its last beat plus its TTL: what the fleet
   screen reads off a dead row is what happened to it. *)
DeathIsExplained ==
  \A l \in Written(lease) :
    LET row == lease[l] IN
      /\ row.expires = row.heartbeat + row.ttl
      /\ row.granted <= row.heartbeat /\ row.heartbeat <= clock
      /\ row.status = "expired" => /\ row.expires < clock
                                   /\ (row.reason = "heartbeat_lost")
                                        <=> (row.heartbeat > row.granted)

(* What the event log and the fleet screen say of a lease is what happened. *)
EventsAreTrue == OneEventPerFact /\ DeathIsExplained

-----------------------------------------------------------------------------
(* The promise the table implements.  A lease past its deadline is no tenure,
   swept or not, so the sweep is invisible from above. *)

CONSTANT NoOne

ASSUME NoOneAssumption == NoOne \notin Runner

(* The lease that makes a job somebody's at this instant. *)
Holding(j) == {l \in OfJob(lease, j) : lease[l].expires >= clock}

OwnerOf(j) == IF Holding(j) = {} THEN NoOne
              ELSE lease[CHOOSE l \in Holding(j) : TRUE].runner

DeadlineOf(j) == IF Holding(j) = {} THEN 0
                 ELSE lease[CHOOSE l \in Holding(j) : TRUE].expires

Tenure == INSTANCE JobTenure WITH owner <- [j \in Job |-> OwnerOf(j)],
                                  deadline <- [j \in Job |-> DeadlineOf(j)]

(* Every step of the routes is a step of JobTenure, or changes nothing there. *)
ImplementsTenure == Tenure!Spec

=============================================================================
