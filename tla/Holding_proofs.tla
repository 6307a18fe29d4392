---------------------------- MODULE Holding_proofs ----------------------------
(***************************************************************************)
(* Theorems about what a runner holds: its leases, in the control plane's  *)
(* table (LeaseTable), and the session of the engine it started on its own *)
(* machine (SessionProcess, as RunnerHost drives it).  The two share       *)
(* nothing but the runner, and are proved one after the other.             *)
(*                                                                         *)
(* Of the table: for any sets of runners, jobs, projects and leases, any   *)
(* caps and ceilings, and any clock bound.  Of the session: for any set of *)
(* sessions, any channels drained in any order, any number of chunks and   *)
(* any mix of engines.                                                     *)
(***************************************************************************)
EXTENDS LeaseTable, RunnerHost, FiniteSetTheorems, SequenceTheorems,
        WellFoundedInduction, TLAPS

-----------------------------------------------------------------------------
(* The lease table.                                                        *)

USE DEF Never, Reason

(* The sweep keeps the shape of the table. *)
LEMMA SweptType ==
  ASSUME TypeOK
  PROVE  /\ Swept(lease, clock) \in [LeaseId -> Lease \cup {NoLease}]
         /\ SweptLog(expiredLog, lease, clock) \in [LeaseId -> Nat]
  <1>1. ASSUME NEW l \in LeaseId, Overdue(lease[l], clock)
        PROVE  Expired(lease[l]) \in Lease
    <2>1. lease[l] \in Lease
      BY <1>1 DEF TypeOK, Overdue, NoLease
    <2> QED
      BY <2>1 DEF Expired, Lease
  <1> QED
    BY <1>1 DEF TypeOK, Swept, SweptLog

(* A row is what it was, or it was overdue and is now expired. *)
LEMMA SweptRow ==
  ASSUME TypeOK, NEW l \in LeaseId
  PROVE  /\ ~Overdue(lease[l], clock) => Swept(lease, clock)[l] = lease[l]
         /\ Overdue(lease[l], clock) =>
              /\ lease[l] \in Lease
              /\ Swept(lease, clock)[l] = Expired(lease[l])
  BY DEF TypeOK, Swept, Overdue, NoLease

(* What is active after the sweep was active before it, unchanged, and its
   deadline is not behind the clock. *)
LEMMA SweptActive ==
  ASSUME TypeOK, NEW l \in Active(Swept(lease, clock))
  PROVE  /\ l \in Active(lease)
         /\ lease[l] \in Lease
         /\ Swept(lease, clock)[l] = lease[l]
         /\ lease[l].expires >= clock
  <1>1. l \in LeaseId
    BY DEF Active
  <1>2. CASE Overdue(lease[l], clock)
    BY <1>1, <1>2, SweptRow DEF Active, Expired, Lease
  <1>3. CASE ~Overdue(lease[l], clock)
    <2>1. Swept(lease, clock)[l] = lease[l]
      BY <1>1, <1>3, SweptRow
    <2>2. lease[l].status = "active"
      BY <2>1 DEF Active
    <2>3. lease[l] \in Lease
      BY <1>1, <2>2 DEF TypeOK, NoLease
    <2> QED
      BY <1>1, <1>3, <2>1, <2>2, <2>3 DEF Overdue, Active, Lease, TypeOK
  <1> QED
    BY <1>2, <1>3

(* A granted row has the type of a row. *)
LEMMA NewLeaseType ==
  ASSUME TypeOK, NEW r \in Runner, NEW j \in Job, NEW p \in Project, NEW ttl \in Ttl
  PROVE  NewLease(r, j, p, ttl) \in Lease
  BY LeaseTableAssumption DEF NewLease, Lease, TypeOK

(* renewLease's UPDATE keeps the row's type ... *)
LEMMA RenewedType ==
  ASSUME NEW row \in Lease, NEW ttl \in Ttl, NEW moment \in Nat
  PROVE  [row EXCEPT !.ttl = ttl, !.heartbeat = moment,
                     !.expires = moment + ttl] \in Lease
  <1>1. moment + ttl \in Nat
    BY LeaseTableAssumption
  <1> QED
    BY <1>1 DEF Lease

(* ... and so does releaseLease's. *)
LEMMA ReleasedType ==
  ASSUME NEW row \in Lease, NEW moment \in Nat
  PROVE  [row EXCEPT !.status = "released", !.released = moment] \in Lease
  BY DEF Lease

-----------------------------------------------------------------------------

(* Every column keeps its type under every route. *)
THEOREM TypeCorrect == Spec => []TypeOK
  <1>1. Init => TypeOK
    BY DEF Init, TypeOK
  <1>2. TypeOK /\ [Next]_vars => TypeOK'
    <2> SUFFICES ASSUME TypeOK, [Next]_vars
                 PROVE  TypeOK'
      OBVIOUS
    <2>1. ASSUME NEW r \in Runner, NEW j \in Job, NEW p \in Project,
                 NEW rc \in DeclaredCap, NEW pc \in DeclaredCap,
                 NEW ttl \in Ttl, NEW l \in LeaseId,
                 Grant(r, j, p, rc, pc, ttl, l)
          PROVE  TypeOK'
      BY <2>1, SweptType, NewLeaseType DEF Grant, TypeOK
    <2>2. ASSUME NEW r \in Runner, NEW j \in Job, NEW p \in Project,
                 NEW rc \in DeclaredCap, NEW pc \in DeclaredCap,
                 Refuse(r, j, p, rc, pc)
          PROVE  TypeOK'
      BY <2>2, SweptType DEF Refuse, Sweep, TypeOK
    <2>3. ASSUME NEW l \in LeaseId, NEW ttl \in Ttl, Heartbeat(l, ttl)
          PROVE  TypeOK'
      <3> DEFINE swept == Swept(lease, clock)
      <3>1. swept[l] \in Lease
        BY <2>3, SweptActive DEF Heartbeat
      <3>2. [swept[l] EXCEPT !.ttl = ttl, !.heartbeat = clock,
                             !.expires = clock + ttl] \in Lease
        BY <3>1, RenewedType DEF TypeOK
      <3> QED
        BY <2>3, <3>2, SweptType DEF Heartbeat, TypeOK
    <2>4. ASSUME NEW l \in LeaseId, Release(l)
          PROVE  TypeOK'
      <3> DEFINE swept == Swept(lease, clock)
      <3>1. swept[l] \in Lease
        BY <2>4, SweptActive DEF Release
      <3>2. [swept[l] EXCEPT !.status = "released", !.released = clock] \in Lease
        BY <3>1, ReleasedType DEF TypeOK
      <3> QED
        BY <2>4, <3>2, SweptType DEF Release, TypeOK
    <2>5. CASE Reconcile
      BY <2>5, SweptType DEF Reconcile, Sweep, TypeOK
    <2>6. CASE Tick
      BY <2>6 DEF Tick, TypeOK
    <2>7. CASE UNCHANGED vars
      BY <2>7 DEF vars, TypeOK
    <2> QED
      BY <2>1, <2>2, <2>3, <2>4, <2>5, <2>6, <2>7 DEF Next, Claim
  <1> QED
    BY <1>1, <1>2, PTL DEF Spec

-----------------------------------------------------------------------------
(* Ownership.  OneOwnerPerJob is inductive given the types.  DisjointTenure is
   not: a heartbeat moves the end of an active lease forward, so the other
   leases of its job must already be known to have ended before it began. *)

(* Ended leases ended no later than now, and no lease began in the future. *)
Timely ==
  \A l \in Written(lease) :
    /\ lease[l].granted <= clock
    /\ l \notin Active(lease) => End(lease[l]) <= clock

ActiveIsLatest ==
  \A l \in Active(lease), m \in Written(lease) :
    (l # m /\ lease[l].job = lease[m].job) => End(lease[m]) <= lease[l].granted

TenureInv ==
  /\ TypeOK
  /\ OneOwnerPerJob
  /\ Timely
  /\ ActiveIsLatest
  /\ DisjointTenure

(* What the sweep leaves: every row keeps its job, its start and its end, and
   the active rows are those whose deadline is not behind the clock. *)
LEMMA SweptTenure ==
  ASSUME TenureInv, NEW l \in Written(Swept(lease, clock))
  PROVE  LET row == Swept(lease, clock)[l] IN
         /\ l \in LeaseId
         /\ l \in Written(lease)
         /\ row \in Lease /\ lease[l] \in Lease
         /\ row.job = lease[l].job
         /\ row.granted = lease[l].granted
         /\ row.granted <= clock
         /\ End(row) = End(lease[l])
         /\ row.status = "active" => l \in Active(lease)
         /\ row.status # "active" => End(row) <= clock
  <1>1. l \in LeaseId
    BY DEF Written
  <1>2. TypeOK
    BY DEF TenureInv
  <1>3. CASE Overdue(lease[l], clock)
    <2>1. lease[l] \in Lease /\ Swept(lease, clock)[l] = Expired(lease[l])
      BY <1>1, <1>2, <1>3, SweptRow
    <2>2. /\ Expired(lease[l]) \in Lease
          /\ Expired(lease[l]).status = "expired"
          /\ Expired(lease[l]).job = lease[l].job
          /\ Expired(lease[l]).granted = lease[l].granted
          /\ Expired(lease[l]).expires = lease[l].expires
      BY <2>1 DEF Expired, Lease
    <2>3. lease[l].status = "active" /\ lease[l].expires < clock
      BY <1>3 DEF Overdue
    <2>4. l \in Written(lease) /\ lease[l].granted <= clock
      BY <1>1, <2>3 DEF Written, TenureInv, Timely
    <2>5. lease[l].expires \in Nat /\ clock \in Nat
      BY <1>2, <2>1 DEF Lease, TypeOK
    <2> QED
      BY <1>1, <2>1, <2>2, <2>3, <2>4, <2>5 DEF End
  <1>4. CASE ~Overdue(lease[l], clock)
    <2>1. Swept(lease, clock)[l] = lease[l]
      BY <1>1, <1>2, <1>4, SweptRow
    <2>2. l \in Written(lease) /\ lease[l] \in Lease
      BY <1>1, <1>2, <2>1 DEF Written, TypeOK, NoLease
    <2> QED
      BY <1>1, <2>1, <2>2 DEF Active, TenureInv, Timely
  <1> QED
    BY <1>3, <1>4

(* The invariant, one row and one pair of rows at a time. *)
RowOK(row, moment) ==
  /\ row.granted <= moment
  /\ row.status # "active" => End(row) <= moment

PairOK(row, other) ==
  row.job = other.job =>
    /\ ~(row.status = "active" /\ other.status = "active")
    /\ row.status = "active" => End(other) <= row.granted
    /\ End(row) <= other.granted \/ End(other) <= row.granted

(* The sweep on its own keeps the invariant: shown for the table, so that each
   route can use it for the part of the table it does not write. *)
LEMMA SweptOwnership ==
  ASSUME TenureInv, NEW l \in Written(Swept(lease, clock))
  PROVE  /\ RowOK(Swept(lease, clock)[l], clock)
         /\ \A m \in Written(Swept(lease, clock)) :
              l # m => PairOK(Swept(lease, clock)[l], Swept(lease, clock)[m])
  <1>1. RowOK(Swept(lease, clock)[l], clock)
    BY SweptTenure DEF RowOK
  <1>2. ASSUME NEW m \in Written(Swept(lease, clock)), l # m
        PROVE  PairOK(Swept(lease, clock)[l], Swept(lease, clock)[m])
    BY <1>2, SweptTenure
       DEF PairOK, TenureInv, OneOwnerPerJob, ActiveIsLatest, DisjointTenure
  <1> QED
    BY <1>1, <1>2

(* The five conjuncts of the invariant, from the two facts about rows. *)
LEMMA TenureFromRows ==
  ASSUME TypeOK',
         \A l \in Written(lease') : RowOK(lease'[l], clock'),
         \A l, m \in Written(lease') : l # m => PairOK(lease'[l], lease'[m])
  PROVE  TenureInv'
  BY DEF TenureInv, OneOwnerPerJob, Timely, ActiveIsLatest, DisjointTenure,
         RowOK, PairOK, Active, Written

(* Every route keeps the tenure invariant. *)
LEMMA TenureInductive == TenureInv /\ TypeOK' /\ [Next]_vars => TenureInv'
  <1> SUFFICES ASSUME TenureInv, TypeOK', [Next]_vars
               PROVE  TenureInv'
    OBVIOUS
  <1> DEFINE s == Swept(lease, clock)
  <1>t. TypeOK
    BY DEF TenureInv
  <1>1. ASSUME NEW r \in Runner, NEW j \in Job, NEW p \in Project,
               NEW rc \in DeclaredCap, NEW pc \in DeclaredCap,
               NEW ttl \in Ttl, NEW l \in LeaseId,
               Grant(r, j, p, rc, pc, ttl, l)
        PROVE  TenureInv'
    <2> DEFINE new == NewLease(r, j, p, ttl)
    <2>1. lease' = [s EXCEPT ![l] = new] /\ clock' = clock
      BY <1>1 DEF Grant
    <2>2. lease'[l] = new /\ \A m \in LeaseId : m # l => lease'[m] = s[m]
      BY <2>1, <1>t, SweptType
    <2>3. /\ new.status = "active" /\ new.job = j
          /\ new.granted = clock /\ new.expires = clock + ttl
      BY DEF NewLease
    <2>4. \A m \in Written(lease') : m # l => m \in Written(s) /\ lease'[m] = s[m]
      BY <2>2 DEF Written
    <2>5. ASSUME NEW m \in Written(s), s[m].job = j
          PROVE  s[m].status # "active" /\ End(s[m]) <= clock
      <3>1. OfJob(s, j) = {}
        BY <1>1 DEF Grant, Grantable
      <3>2. s[m].status # "active"
        BY <2>5, <3>1 DEF OfJob, Active, Written
      <3> QED
        BY <3>2, SweptTenure
    <2>6. \A m \in Written(lease') : RowOK(lease'[m], clock')
      BY <2>1, <2>2, <2>3, <2>4, <1>t, SweptOwnership DEF RowOK, TypeOK
    <2>7. ASSUME NEW m \in Written(lease'), m # l
          PROVE  PairOK(lease'[m], lease'[l]) /\ PairOK(lease'[l], lease'[m])
      BY <2>2, <2>3, <2>4, <2>5, <2>7 DEF PairOK
    <2>8. ASSUME NEW k \in Written(lease'), NEW m \in Written(lease'), k # m
          PROVE  PairOK(lease'[k], lease'[m])
      BY <2>4, <2>7, <2>8, SweptOwnership
    <2> QED
      BY <2>6, <2>8, TenureFromRows
  <1>2. ASSUME lease' = s, clock' = clock
        PROVE  TenureInv'
    BY <1>2, SweptOwnership, TenureFromRows
  <1>3. ASSUME NEW l \in LeaseId, NEW ttl \in Ttl, Heartbeat(l, ttl)
        PROVE  TenureInv'
    <2> DEFINE new == [s[l] EXCEPT !.ttl = ttl, !.heartbeat = clock,
                                   !.expires = clock + ttl]
    <2>1. /\ l \in Active(s) /\ l \in Written(s) /\ s[l].status = "active"
          /\ clock' = clock
      BY <1>3 DEF Heartbeat, Active, Written
    <2>2. lease' = [s EXCEPT ![l] = new]
      BY <1>3, <1>t, SweptType DEF Heartbeat
    <2>3. lease'[l] = new /\ \A m \in LeaseId : m # l => lease'[m] = s[m]
      BY <2>2, <1>t, SweptType
    <2>4. s[l] \in Lease
      BY <2>1, SweptTenure
    <2>5. /\ new.status = "active" /\ new.job = s[l].job
          /\ new.granted = s[l].granted
      BY <2>1, <2>4 DEF Lease
    <2>6. \A m \in Written(lease') : m # l => m \in Written(s) /\ lease'[m] = s[m]
      BY <2>3 DEF Written
    <2>7. \A m \in Written(lease') : RowOK(lease'[m], clock')
      BY <2>1, <2>3, <2>5, <2>6, SweptOwnership DEF RowOK
    <2>8. ASSUME NEW m \in Written(lease'), m # l
          PROVE  PairOK(lease'[m], lease'[l]) /\ PairOK(lease'[l], lease'[m])
      <3>1. PairOK(s[l], s[m])
        BY <2>1, <2>6, <2>8, SweptOwnership
      <3> QED
        BY <2>1, <2>3, <2>5, <2>6, <2>8, <3>1 DEF PairOK
    <2>9. ASSUME NEW k \in Written(lease'), NEW m \in Written(lease'), k # m
          PROVE  PairOK(lease'[k], lease'[m])
      BY <2>6, <2>8, <2>9, SweptOwnership
    <2> QED
      BY <2>7, <2>9, TenureFromRows
  <1>4. ASSUME NEW l \in LeaseId, Release(l)
        PROVE  TenureInv'
    <2> DEFINE new == [s[l] EXCEPT !.status = "released", !.released = clock]
    <2>1. /\ l \in Active(s) /\ l \in Written(s) /\ s[l].status = "active"
          /\ clock' = clock
      BY <1>4 DEF Release, Active, Written
    <2>2. lease' = [s EXCEPT ![l] = new]
      BY <1>4, <1>t, SweptType DEF Release
    <2>3. lease'[l] = new /\ \A m \in LeaseId : m # l => lease'[m] = s[m]
      BY <2>2, <1>t, SweptType
    <2>4. s[l] \in Lease
      BY <2>1, SweptTenure
    <2>5. /\ new.status = "released" /\ new.job = s[l].job
          /\ new.granted = s[l].granted /\ End(new) = clock
      BY <2>1, <2>4 DEF Lease, End
    <2>6. \A m \in Written(lease') : m # l => m \in Written(s) /\ lease'[m] = s[m]
      BY <2>3 DEF Written
    <2>7. \A m \in Written(lease') : RowOK(lease'[m], clock')
      <3> HIDE DEF new
      <3>1. RowOK(new, clock)
        <4>1. s[l].granted <= clock /\ clock \in Nat
          BY <2>1, <1>t, SweptTenure DEF TypeOK
        <4> QED
          BY <2>5, <4>1 DEF RowOK
      <3>2. \A m \in Written(s) : RowOK(s[m], clock)
        BY SweptOwnership
      <3> QED
        BY <2>1, <2>3, <2>6, <3>1, <3>2
    <2>8. ASSUME NEW m \in Written(lease'), m # l
          PROVE  PairOK(lease'[m], lease'[l]) /\ PairOK(lease'[l], lease'[m])
      <3>1. PairOK(s[l], s[m]) /\ PairOK(s[m], s[l])
        BY <2>1, <2>6, <2>8, SweptOwnership
      <3> QED
        BY <2>1, <2>3, <2>5, <2>6, <2>8, <3>1 DEF PairOK
    <2>9. ASSUME NEW k \in Written(lease'), NEW m \in Written(lease'), k # m
          PROVE  PairOK(lease'[k], lease'[m])
      BY <2>6, <2>8, <2>9, SweptOwnership
    <2> QED
      BY <2>7, <2>9, TenureFromRows
  <1>5. CASE Tick
    <2>1. lease' = lease /\ clock' = clock + 1
      BY <1>5 DEF Tick
    <2>2. ASSUME NEW l \in Written(lease)
          PROVE  /\ lease[l].granted \in Nat
                 /\ End(lease[l]) \in Int
      BY <1>t DEF TypeOK, Written, Lease, NoLease, End
    <2>3. Timely'
      BY <2>1, <2>2, <1>t DEF TenureInv, Timely, Active, TypeOK
    <2> QED
      BY <2>1, <2>3
         DEF TenureInv, OneOwnerPerJob, ActiveIsLatest, DisjointTenure
  <1>6. CASE UNCHANGED vars
    BY <1>6 DEF vars, TenureInv, OneOwnerPerJob, Timely, ActiveIsLatest,
                DisjointTenure
  <1> QED
    BY <1>1, <1>2, <1>3, <1>4, <1>5, <1>6
       DEF Next, Claim, Refuse, Reconcile, Sweep

(* ... so it always holds. *)
LEMMA TenureInvariant == Spec => []TenureInv
  <1>1. Init => TenureInv
    BY DEF Init, TypeOK, TenureInv, OneOwnerPerJob, Timely, ActiveIsLatest,
           DisjointTenure, Active, Written, NoLease
  <1>2. TenureInv /\ TypeOK' /\ [Next]_vars => TenureInv'
    BY TenureInductive
  <1> QED
    BY <1>1, <1>2, TypeCorrect, PTL DEF Spec

(* No two active leases over one job, whatever the numbers. *)
THEOREM OneOwner == Spec => []OneOwnerPerJob
  <1>1. TenureInv => OneOwnerPerJob
    BY DEF TenureInv
  <1> QED
    BY <1>1, TenureInvariant, PTL

(* The leases of one job, dead ones included, never overlap in time. *)
THEOREM Disjoint == Spec => []DisjointTenure
  <1>1. TenureInv => DisjointTenure
    BY DEF TenureInv
  <1> QED
    BY <1>1, TenureInvariant, PTL

(* One runner at a time per job, in the table and on the clock. *)
THEOREM Exclusive == Spec => []TenureIsExclusive
  BY OneOwner, Disjoint, PTL DEF TenureIsExclusive

-----------------------------------------------------------------------------
(* The ceilings.  Both counts only ever grow in Grant, which compared them with
   a cap no larger than the ceiling after the sweep that only shrinks them. *)

CeilingInv == RunnerCeilingHolds /\ ProjectCeilingHolds

(* A subset of the leases is finite and counts no more than the whole. *)
LEMMA LeaseCount ==
  ASSUME NEW T, T \subseteq LeaseId, NEW S, S \subseteq T
  PROVE  /\ IsFiniteSet(S)
         /\ Cardinality(S) \in Nat /\ Cardinality(T) \in Nat
         /\ Cardinality(S) <= Cardinality(T)
  BY FS_Subset, FS_CardinalityType, LeaseTableAssumption

(* One row more is at most one more in the count. *)
LEMMA OneMore ==
  ASSUME NEW S, S \subseteq LeaseId, NEW l \in LeaseId, NEW cap \in Int,
         NEW ceiling \in Nat, Cardinality(S) < Least(cap, ceiling)
  PROVE  Cardinality(S \cup {l}) <= ceiling
  <1>1. IsFiniteSet(S) /\ Cardinality(S) \in Nat
    BY LeaseCount
  <1>2. Cardinality(S \cup {l}) = Cardinality(S)
        \/ Cardinality(S \cup {l}) = Cardinality(S) + 1
    BY <1>1, FS_AddElement
  <1> QED
    BY <1>1, <1>2 DEF Least

(* A table whose active rows were active before, unchanged, counts no more. *)
LEMMA FewerActive ==
  ASSUME CeilingInv, NEW tab,
         \A l \in Active(tab) : /\ l \in Active(lease)
                                /\ tab[l].runner = lease[l].runner
                                /\ tab[l].project = lease[l].project
  PROVE  /\ \A r \in Runner : Cardinality(OfRunner(tab, r)) <= RunnerCeiling
         /\ \A p \in Project : Cardinality(OfProject(tab, p)) <= ProjectCeiling
  <1>1. ASSUME NEW r \in Runner
        PROVE  Cardinality(OfRunner(tab, r)) <= RunnerCeiling
    <2>1. /\ OfRunner(tab, r) \subseteq OfRunner(lease, r)
          /\ OfRunner(lease, r) \subseteq LeaseId
      BY DEF OfRunner, Active
    <2> QED
      BY <2>1, LeaseCount, LeaseTableAssumption DEF CeilingInv, RunnerCeilingHolds
  <1>2. ASSUME NEW p \in Project
        PROVE  Cardinality(OfProject(tab, p)) <= ProjectCeiling
    <2>1. /\ OfProject(tab, p) \subseteq OfProject(lease, p)
          /\ OfProject(lease, p) \subseteq LeaseId
      BY DEF OfProject, Active
    <2> QED
      BY <2>1, LeaseCount, LeaseTableAssumption DEF CeilingInv, ProjectCeilingHolds
  <1> QED
    BY <1>1, <1>2

(* Every route keeps both ceilings. *)
LEMMA CeilingInductive == CeilingInv /\ TypeOK /\ [Next]_vars => CeilingInv'
  <1> SUFFICES ASSUME CeilingInv, TypeOK, [Next]_vars
               PROVE  CeilingInv'
    OBVIOUS
  <1> DEFINE s == Swept(lease, clock)
  <1>s. /\ \A r \in Runner : Cardinality(OfRunner(s, r)) <= RunnerCeiling
        /\ \A p \in Project : Cardinality(OfProject(s, p)) <= ProjectCeiling
    BY SweptActive, FewerActive
  <1>1. ASSUME NEW r \in Runner, NEW j \in Job, NEW p \in Project,
               NEW rc \in DeclaredCap, NEW pc \in DeclaredCap,
               NEW ttl \in Ttl, NEW l \in LeaseId,
               Grant(r, j, p, rc, pc, ttl, l)
        PROVE  CeilingInv'
    <2>1. lease' = [s EXCEPT ![l] = NewLease(r, j, p, ttl)]
      BY <1>1 DEF Grant
    <2>2. /\ lease'[l] = NewLease(r, j, p, ttl)
          /\ \A m \in LeaseId : m # l => lease'[m] = s[m]
      BY <2>1, SweptType
    <2>3. s[l].status # "active"
      BY <1>1, SweptRow DEF Grant, Overdue, NoLease
    <2>4. /\ Cardinality(OfRunner(s, r)) < Least(rc, RunnerCeiling)
          /\ Cardinality(OfProject(s, p)) < Least(pc, ProjectCeiling)
      BY <1>1 DEF Grant, Grantable
    <2>5. ASSUME NEW q \in Runner
          PROVE  Cardinality(OfRunner(lease', q)) <= RunnerCeiling
      <3>1. CASE q = r
        <4>1. OfRunner(lease', q) = OfRunner(s, r) \cup {l}
          BY <2>2, <2>3, <3>1 DEF OfRunner, Active, NewLease
        <4>2. OfRunner(s, r) \subseteq LeaseId
          BY DEF OfRunner, Active
        <4> QED
          BY <2>4, <4>1, <4>2, OneMore, LeaseTableAssumption
      <3>2. CASE q # r
        <4>1. OfRunner(lease', q) = OfRunner(s, q)
          BY <2>2, <2>3, <3>2 DEF OfRunner, Active, NewLease
        <4> QED
          BY <4>1, <1>s
      <3> QED
        BY <3>1, <3>2
    <2>6. ASSUME NEW q \in Project
          PROVE  Cardinality(OfProject(lease', q)) <= ProjectCeiling
      <3>1. CASE q = p
        <4>1. OfProject(lease', q) = OfProject(s, p) \cup {l}
          BY <2>2, <2>3, <3>1 DEF OfProject, Active, NewLease
        <4>2. OfProject(s, p) \subseteq LeaseId
          BY DEF OfProject, Active
        <4> QED
          BY <2>4, <4>1, <4>2, OneMore, LeaseTableAssumption
      <3>2. CASE q # p
        <4>1. OfProject(lease', q) = OfProject(s, q)
          BY <2>2, <2>3, <3>2 DEF OfProject, Active, NewLease
        <4> QED
          BY <4>1, <1>s
      <3> QED
        BY <3>1, <3>2
    <2> QED
      BY <2>5, <2>6 DEF CeilingInv, RunnerCeilingHolds, ProjectCeilingHolds
  <1>2. ASSUME lease' = s
        PROVE  CeilingInv'
    BY <1>2, <1>s DEF CeilingInv, RunnerCeilingHolds, ProjectCeilingHolds
  <1>3. ASSUME NEW l \in LeaseId,
               (\E ttl \in Ttl : Heartbeat(l, ttl)) \/ Release(l)
        PROVE  CeilingInv'
    <2>1. s[l] \in Lease /\ l \in Active(lease) /\ s[l] = lease[l]
      BY <1>3, SweptActive DEF Heartbeat, Release
    <2>2. /\ lease'[l].runner = lease[l].runner
          /\ lease'[l].project = lease[l].project
          /\ \A m \in LeaseId : m # l => lease'[m] = s[m]
      <3>1. CASE Release(l)
        BY <3>1, <2>1, SweptType DEF Release, Lease
      <3>2. ASSUME NEW ttl \in Ttl, Heartbeat(l, ttl)
            PROVE  /\ lease'[l].runner = lease[l].runner
                   /\ lease'[l].project = lease[l].project
                   /\ \A m \in LeaseId : m # l => lease'[m] = s[m]
        BY <3>2, <2>1, SweptType DEF Heartbeat, Lease
      <3> QED
        BY <1>3, <3>1, <3>2
    <2>3. \A m \in Active(lease') : /\ m \in Active(lease)
                                    /\ lease'[m].runner = lease[m].runner
                                    /\ lease'[m].project = lease[m].project
      <3> TAKE m \in Active(lease')
      <3>1. CASE m = l
        BY <3>1, <2>1, <2>2
      <3>2. CASE m # l
        <4>1. m \in Active(s) /\ lease'[m] = s[m]
          BY <3>2, <2>2 DEF Active
        <4> QED
          BY <4>1, SweptActive
      <3> QED
        BY <3>1, <3>2
    <2> QED
      BY <2>3, FewerActive DEF CeilingInv, RunnerCeilingHolds, ProjectCeilingHolds
  <1>4. CASE UNCHANGED lease
    BY <1>4 DEF CeilingInv, RunnerCeilingHolds, ProjectCeilingHolds, OfRunner,
                OfProject, Active
  <1> QED
    BY <1>1, <1>2, <1>3, <1>4
       DEF Next, Claim, Refuse, Reconcile, Sweep, Tick, vars

(* ... so both always hold. *)
LEMMA CeilingInvariant == Spec => []CeilingInv
  <1>1. Init => CeilingInv
    <2> SUFFICES ASSUME Init PROVE CeilingInv
      OBVIOUS
    <2>1. /\ \A r : OfRunner(lease, r) = {}
          /\ \A p : OfProject(lease, p) = {}
      BY DEF Init, OfRunner, OfProject, Active, NoLease
    <2> QED
      BY <2>1, FS_EmptySet, LeaseTableAssumption
         DEF CeilingInv, RunnerCeilingHolds, ProjectCeilingHolds
  <1>2. CeilingInv /\ TypeOK /\ [Next]_vars => CeilingInv'
    BY CeilingInductive
  <1> QED
    BY <1>1, <1>2, TypeCorrect, PTL DEF Spec

(* Neither ceiling is ever passed, by whatever requests in whatever order. *)
THEOREM Ceilings == Spec => []CeilingsHold
  BY CeilingInvariant, PTL DEF CeilingInv, CeilingsHold

(* No runner is ever above this process's ceiling, whatever it declares. *)
THEOREM RunnerCap == Spec => []RunnerCeilingHolds
  <1>1. CeilingInv => RunnerCeilingHolds
    BY DEF CeilingInv
  <1> QED
    BY <1>1, CeilingInvariant, PTL

(* No project is, whatever its runners declare. *)
THEOREM ProjectCap == Spec => []ProjectCeilingHolds
  <1>1. CeilingInv => ProjectCeilingHolds
    BY DEF CeilingInv
  <1> QED
    BY <1>1, CeilingInvariant, PTL

-----------------------------------------------------------------------------
(* Late calls. *)

(* What one row may do in one step: stay, die overdue, be written while its
   deadline is not behind the clock, or come to be. *)
LEMMA RowMove ==
  ASSUME TypeOK, [Next]_vars, NEW l \in LeaseId
  PROVE  \/ lease'[l] = lease[l]
         \/ Overdue(lease[l], clock) /\ lease'[l] = Expired(lease[l])
         \/ l \in Active(lease) /\ ~Overdue(lease[l], clock)
         \/ l \notin Written(lease)
  <1> DEFINE s == Swept(lease, clock)
  <1>1. s[l] = lease[l] \/ (Overdue(lease[l], clock) /\ s[l] = Expired(lease[l]))
    BY SweptRow
  <1>2. ASSUME NEW r \in Runner, NEW j \in Job, NEW p \in Project,
               NEW rc \in DeclaredCap, NEW pc \in DeclaredCap,
               NEW ttl \in Ttl, NEW m \in LeaseId,
               Grant(r, j, p, rc, pc, ttl, m)
        PROVE  lease'[l] = s[l] \/ l \notin Written(lease)
    BY <1>2, SweptType DEF Grant, Written, NoLease
  <1>3. ASSUME NEW m \in LeaseId, (\E ttl \in Ttl : Heartbeat(m, ttl)) \/ Release(m)
        PROVE  lease'[l] = s[l] \/ (l \in Active(lease) /\ ~Overdue(lease[l], clock))
    <2>1. m \in Active(s)
      BY <1>3 DEF Heartbeat, Release
    <2>2. l # m => lease'[l] = s[l]
      BY <1>3, SweptType DEF Heartbeat, Release
    <2>3. m \in Active(lease) /\ lease[m] \in Lease /\ lease[m].expires >= clock
      BY <2>1, SweptActive
    <2>4. ~Overdue(lease[m], clock)
      BY <2>3 DEF Overdue, Lease, TypeOK
    <2> QED
      BY <2>2, <2>3, <2>4
  <1>4. CASE lease' = s
    BY <1>1, <1>4
  <1>5. CASE UNCHANGED lease
    BY <1>5
  <1> QED
    BY <1>1, <1>2, <1>3, <1>4, <1>5
       DEF Next, Claim, Refuse, Reconcile, Sweep, Tick, vars

(* A call answered late, or made twice, revives no lease: an overdue row can
   only expire, and a row that ended is never written again. *)
THEOREM LateCalls == Spec => LateCallsChangeNothing
  <1>1. TypeOK /\ [Next]_vars =>
          [\A l \in LeaseId :
             /\ Overdue(lease[l], clock) => \/ lease'[l] = lease[l]
                                           \/ lease'[l] = Expired(lease[l])
             /\ l \in Written(lease) \ Active(lease) => lease'[l] = lease[l]]_vars
    <2> SUFFICES ASSUME TypeOK, [Next]_vars, NEW l \in LeaseId
                 PROVE  /\ Overdue(lease[l], clock) => \/ lease'[l] = lease[l]
                                                       \/ lease'[l] = Expired(lease[l])
                        /\ l \in Written(lease) \ Active(lease) =>
                             lease'[l] = lease[l]
      OBVIOUS
    <2> QED
      BY RowMove DEF Overdue, Active, Written
  <1> QED
    BY <1>1, TypeCorrect, PTL DEF Spec, LateCallsChangeNothing

-----------------------------------------------------------------------------
(* What the log and the fleet screen say.  EventsAreTrue is inductive given the
   types: it already says of the live rows what their death will need. *)

(* The invariant, one row and its two counters at a time. *)
ToldTruly(row, logged, mourned, moment) ==
  /\ logged = IF row.status # "unused" THEN 1 ELSE 0
  /\ mourned = IF row.status = "expired" THEN 1 ELSE 0
  /\ row.status # "unused" =>
       /\ row.expires = row.heartbeat + row.ttl
       /\ row.granted <= row.heartbeat /\ row.heartbeat <= moment
       /\ row.status = "expired" => /\ row.expires < moment
                                    /\ (row.reason = "heartbeat_lost")
                                         <=> (row.heartbeat > row.granted)

LEMMA EventsByRow ==
  EventsAreTrue <=>
    \A l \in LeaseId : ToldTruly(lease[l], grantedLog[l], expiredLog[l], clock)
  BY DEF EventsAreTrue, OneEventPerFact, DeathIsExplained, ToldTruly, Written

(* The same, of the next state. *)
LEMMA NextEventsByRow ==
  (\A l \in LeaseId : ToldTruly(lease'[l], grantedLog'[l], expiredLog'[l], clock'))
    => EventsAreTrue'
  BY DEF EventsAreTrue, OneEventPerFact, DeathIsExplained, ToldTruly, Written

(* The sweep explains every death it causes, once. *)
LEMMA SweptTruly ==
  ASSUME TypeOK, EventsAreTrue, NEW l \in LeaseId
  PROVE  ToldTruly(Swept(lease, clock)[l], grantedLog[l],
                   SweptLog(expiredLog, lease, clock)[l], clock)
  <1>1. ToldTruly(lease[l], grantedLog[l], expiredLog[l], clock)
    BY EventsByRow
  <1>2. CASE Overdue(lease[l], clock)
    <2>1. /\ lease[l] \in Lease
          /\ Swept(lease, clock)[l] = Expired(lease[l])
          /\ SweptLog(expiredLog, lease, clock)[l] = expiredLog[l] + 1
      BY <1>2, SweptRow DEF SweptLog
    <2>2. lease[l].status = "active" /\ lease[l].expires < clock
      BY <1>2 DEF Overdue
    <2>3. /\ lease[l].granted \in Nat /\ lease[l].heartbeat \in Nat
          /\ lease[l].expires \in Nat
      BY <2>1 DEF Lease
    <2>4. LET dead == Expired(lease[l]) IN
          /\ dead.status = "expired"
          /\ dead.expires = lease[l].expires /\ dead.ttl = lease[l].ttl
          /\ dead.heartbeat = lease[l].heartbeat /\ dead.granted = lease[l].granted
          /\ dead.reason = IF lease[l].heartbeat = lease[l].granted
                           THEN "ttl_elapsed" ELSE "heartbeat_lost"
      BY <2>1 DEF Expired, Lease
    <2> QED
      BY <1>1, <2>1, <2>2, <2>3, <2>4 DEF ToldTruly
  <1>3. CASE ~Overdue(lease[l], clock)
    BY <1>1, <1>3, SweptRow DEF SweptLog
  <1> QED
    BY <1>2, <1>3

(* Every route keeps the log and the rows true to each other. *)
LEMMA EventsInductive == TypeOK /\ EventsAreTrue /\ [Next]_vars => EventsAreTrue'
  <1> SUFFICES ASSUME TypeOK, EventsAreTrue, [Next]_vars
               PROVE  EventsAreTrue'
    OBVIOUS
  <1> DEFINE s == Swept(lease, clock)
             d == SweptLog(expiredLog, lease, clock)
  <1>s. \A l \in LeaseId : ToldTruly(s[l], grantedLog[l], d[l], clock)
    BY SweptTruly
  <1>1. ASSUME NEW r \in Runner, NEW j \in Job, NEW p \in Project,
               NEW rc \in DeclaredCap, NEW pc \in DeclaredCap,
               NEW ttl \in Ttl, NEW l \in LeaseId,
               Grant(r, j, p, rc, pc, ttl, l)
        PROVE  EventsAreTrue'
    <2> DEFINE new == NewLease(r, j, p, ttl)
    <2>1. /\ lease' = [s EXCEPT ![l] = new] /\ lease[l] = NoLease
          /\ expiredLog' = d /\ clock' = clock
          /\ grantedLog' = [grantedLog EXCEPT ![l] = @ + 1]
      BY <1>1 DEF Grant
    <2>2. /\ lease'[l] = new
          /\ \A m \in LeaseId : m # l => lease'[m] = s[m]
          /\ grantedLog'[l] = grantedLog[l] + 1
          /\ \A m \in LeaseId : m # l => grantedLog'[m] = grantedLog[m]
      BY <2>1, SweptType DEF TypeOK
    <2>3. s[l].status = "unused"
      BY <2>1, SweptRow DEF NoLease, Overdue
    <2>4. grantedLog'[l] = 1 /\ expiredLog'[l] = 0
      BY <1>s, <2>1, <2>2, <2>3 DEF ToldTruly
    <2>5. ToldTruly(new, 1, 0, clock)
      <3>1. ttl \in Nat /\ clock \in Nat
        BY LeaseTableAssumption DEF TypeOK
      <3> QED
        BY <3>1 DEF NewLease, ToldTruly
    <2> QED
      BY <1>s, <2>1, <2>2, <2>4, <2>5, NextEventsByRow
  <1>2. ASSUME lease' = s, expiredLog' = d, UNCHANGED <<clock, grantedLog>>
        PROVE  EventsAreTrue'
    BY <1>2, <1>s, NextEventsByRow
  <1>3. ASSUME NEW l \in LeaseId, NEW ttl \in Ttl, Heartbeat(l, ttl)
        PROVE  EventsAreTrue'
    <2> DEFINE new == [s[l] EXCEPT !.ttl = ttl, !.heartbeat = clock,
                                   !.expires = clock + ttl]
    <2>1. /\ s[l].status = "active" /\ s[l] \in Lease
          /\ lease' = [s EXCEPT ![l] = new] /\ expiredLog' = d
          /\ UNCHANGED <<clock, grantedLog>>
      BY <1>3, SweptActive, SweptType DEF Heartbeat, Active
    <2>2. lease'[l] = new /\ \A m \in LeaseId : m # l => lease'[m] = s[m]
      BY <2>1, SweptType
    <2>3. /\ new.status = "active" /\ new.granted = s[l].granted
          /\ new.heartbeat = clock /\ new.ttl = ttl /\ new.expires = clock + ttl
      BY <2>1 DEF Lease
    <2>4. ToldTruly(new, grantedLog[l], d[l], clock)
      <3> HIDE DEF new, s, d
      <3>1. /\ clock \in Nat /\ s[l].granted \in Nat /\ s[l].heartbeat \in Nat
            /\ ToldTruly(s[l], grantedLog[l], d[l], clock)
        BY <1>s, <2>1 DEF TypeOK, Lease
      <3> QED
        BY <2>1, <2>3, <3>1 DEF ToldTruly
    <2> QED
      BY <1>s, <2>1, <2>2, <2>4, NextEventsByRow
  <1>4. ASSUME NEW l \in LeaseId, Release(l)
        PROVE  EventsAreTrue'
    <2> DEFINE new == [s[l] EXCEPT !.status = "released", !.released = clock]
    <2>1. /\ s[l].status = "active" /\ s[l] \in Lease
          /\ lease' = [s EXCEPT ![l] = new] /\ expiredLog' = d
          /\ UNCHANGED <<clock, grantedLog>>
      BY <1>4, SweptActive, SweptType DEF Release, Active
    <2>2. lease'[l] = new /\ \A m \in LeaseId : m # l => lease'[m] = s[m]
      BY <2>1, SweptType
    <2>3. /\ new.status = "released" /\ new.granted = s[l].granted
          /\ new.heartbeat = s[l].heartbeat /\ new.ttl = s[l].ttl
          /\ new.expires = s[l].expires
      BY <2>1 DEF Lease
    <2>4. ToldTruly(new, grantedLog[l], d[l], clock)
      <3> HIDE DEF new, s, d
      <3> QED
        BY <1>s, <2>1, <2>3 DEF ToldTruly
    <2> QED
      BY <1>s, <2>1, <2>2, <2>4, NextEventsByRow
  <1>5. CASE Tick
    <2>1. UNCHANGED <<lease, grantedLog, expiredLog>> /\ clock' = clock + 1
      BY <1>5 DEF Tick
    <2>2. ASSUME NEW l \in LeaseId
          PROVE  ToldTruly(lease[l], grantedLog[l], expiredLog[l], clock + 1)
      <3>1. ToldTruly(lease[l], grantedLog[l], expiredLog[l], clock)
        BY EventsByRow
      <3>2. CASE lease[l] \in Lease
        BY <3>1, <3>2 DEF ToldTruly, Lease, TypeOK
      <3>3. CASE lease[l] = NoLease
        BY <3>1, <3>3 DEF ToldTruly, NoLease
      <3> QED
        BY <3>2, <3>3 DEF TypeOK
    <2> QED
      BY <2>1, <2>2, NextEventsByRow
  <1>6. CASE UNCHANGED vars
    BY <1>6, EventsByRow, NextEventsByRow DEF vars
  <1> QED
    BY <1>1, <1>2, <1>3, <1>4, <1>5, <1>6
       DEF Next, Claim, Refuse, Reconcile, Sweep

(* Whatever the interleaving, the log carries one grant per row and one death
   per dead row, and each death says what happened to the lease. *)
THEOREM Events == Spec => []EventsAreTrue
  <1>1. Init => EventsAreTrue
    BY DEF Init, EventsAreTrue, OneEventPerFact, DeathIsExplained, Written, NoLease
  <1>2. TypeOK /\ EventsAreTrue /\ [Next]_vars => EventsAreTrue'
    BY EventsInductive
  <1> QED
    BY <1>1, <1>2, TypeCorrect, PTL DEF Spec

-----------------------------------------------------------------------------
(* The table implements JobTenure.  The mapping reads the owner of a job off a
   CHOOSE; the tenure invariant makes the set it chooses from one lease at most,
   and the sweep leaves that set as it was.  The operators below are the
   mapping's, over any table and instant, so that one lemma serves both ends of
   a step. *)

Hold(tab, j, moment) == {l \in OfJob(tab, j) : tab[l].expires >= moment}

Owner(tab, j, moment) ==
  IF Hold(tab, j, moment) = {} THEN NoOne
  ELSE tab[CHOOSE l \in Hold(tab, j, moment) : TRUE].runner

Deadline(tab, j, moment) ==
  IF Hold(tab, j, moment) = {} THEN 0
  ELSE tab[CHOOSE l \in Hold(tab, j, moment) : TRUE].expires

LEMMA Mapping ==
  /\ \A j : OwnerOf(j) = Owner(lease, j, clock)
  /\ \A j : DeadlineOf(j) = Deadline(lease, j, clock)
  BY DEF OwnerOf, DeadlineOf, Owner, Deadline, Holding, Hold

LEMMA NextMapping ==
  /\ \A j : OwnerOf(j)' = Owner(lease', j, clock')
  /\ \A j : DeadlineOf(j)' = Deadline(lease', j, clock')
  BY DEF OwnerOf, DeadlineOf, Owner, Deadline, Holding, Hold, OfJob, Active

(* One lease holds the job: it names the owner and the deadline. *)
LEMMA HeldByOne ==
  ASSUME NEW tab, NEW j, NEW moment, NEW l, Hold(tab, j, moment) = {l}
  PROVE  /\ Owner(tab, j, moment) = tab[l].runner
         /\ Deadline(tab, j, moment) = tab[l].expires
  <1>1. (CHOOSE m \in Hold(tab, j, moment) : TRUE) = l
    OBVIOUS
  <1> QED
    BY <1>1 DEF Owner, Deadline

(* None does: the job is nobody's. *)
LEMMA HeldByNone ==
  ASSUME NEW tab, NEW j, NEW moment, Hold(tab, j, moment) = {}
  PROVE  Owner(tab, j, moment) = NoOne /\ Deadline(tab, j, moment) = 0
  BY DEF Owner, Deadline

(* At most one lease holds a job, and its row is a row. *)
LEMMA AtMostOneHolds ==
  ASSUME TenureInv, NEW j \in Job, NEW l \in Hold(lease, j, clock)
  PROVE  /\ Hold(lease, j, clock) = {l}
         /\ l \in LeaseId /\ lease[l] \in Lease
         /\ lease[l].status = "active" /\ lease[l].job = j
         /\ Owner(lease, j, clock) = lease[l].runner /\ lease[l].runner \in Runner
         /\ Deadline(lease, j, clock) = lease[l].expires
  <1>1. l \in LeaseId /\ lease[l].status = "active" /\ lease[l].job = j
    BY DEF Hold, OfJob, Active
  <1>2. lease[l] \in Lease
    BY <1>1 DEF TenureInv, TypeOK, NoLease
  <1>3. Hold(lease, j, clock) = {l}
    BY DEF TenureInv, OneOwnerPerJob, Hold, OfJob
  <1>4. lease[l].runner \in Runner
    BY <1>2 DEF Lease
  <1> QED
    BY <1>1, <1>2, <1>3, <1>4, HeldByOne

(* Two tables with the same holders and the same rows for them say the same. *)
LEMMA SameHolders ==
  ASSUME NEW tab, NEW tab2, NEW j, NEW moment, NEW moment2,
         Hold(tab, j, moment) = Hold(tab2, j, moment2),
         \A l \in Hold(tab, j, moment) : tab[l] = tab2[l]
  PROVE  /\ Owner(tab, j, moment) = Owner(tab2, j, moment2)
         /\ Deadline(tab, j, moment) = Deadline(tab2, j, moment2)
  <1>1. CASE Hold(tab, j, moment) = {}
    BY <1>1 DEF Owner, Deadline
  <1>2. CASE Hold(tab, j, moment) # {}
    <2>1. (CHOOSE l \in Hold(tab, j, moment) : TRUE) \in Hold(tab, j, moment)
      BY <1>2
    <2> QED
      BY <1>2, <2>1 DEF Owner, Deadline
  <1> QED
    BY <1>1, <1>2

(* The sweep is invisible from above. *)
LEMMA SweepUnseen ==
  ASSUME TypeOK, NEW j
  PROVE  /\ Hold(Swept(lease, clock), j, clock) = Hold(lease, j, clock)
         /\ \A l \in Hold(lease, j, clock) : Swept(lease, clock)[l] = lease[l]
         /\ OfJob(Swept(lease, clock), j) = Hold(lease, j, clock)
  <1> DEFINE s == Swept(lease, clock)
  <1>1. ASSUME NEW l \in LeaseId, lease[l].status = "active", lease[l].expires >= clock
        PROVE  s[l] = lease[l]
    <2>1. lease[l] \in Lease
      BY <1>1 DEF TypeOK, NoLease
    <2>2. ~Overdue(lease[l], clock)
      BY <1>1, <2>1 DEF Overdue, Lease, TypeOK
    <2> QED
      BY <2>2, SweptRow
  <1>2. \A l \in Hold(lease, j, clock) : s[l] = lease[l] /\ l \in OfJob(s, j)
    BY <1>1 DEF Hold, OfJob, Active
  <1>3. \A l \in OfJob(s, j) : l \in Hold(lease, j, clock)
    BY SweptActive DEF Hold, OfJob
  <1> QED
    BY <1>2, <1>3 DEF Hold

(* A job none of whose rows a step writes, the sweep's aside, keeps its owner
   and its deadline. *)
LEMMA OthersUnseen ==
  ASSUME TypeOK, NEW k, NEW l \in LeaseId,
         \A m \in LeaseId : m # l => lease'[m] = Swept(lease, clock)[m],
         l \notin Hold(lease, k, clock),
         ~(lease'[l].status = "active" /\ lease'[l].job = k)
  PROVE  /\ Owner(lease', k, clock) = Owner(lease, k, clock)
         /\ Deadline(lease', k, clock) = Deadline(lease, k, clock)
  <1> DEFINE s == Swept(lease, clock)
  <1>1. \A m \in Hold(lease, k, clock) : m \in LeaseId /\ m # l
    BY DEF Hold, OfJob, Active
  <1>2. \A m \in Hold(lease, k, clock) : lease'[m] = lease[m]
    BY <1>1, SweepUnseen
  <1>3. Hold(lease, k, clock) \subseteq Hold(lease', k, clock)
    BY <1>2 DEF Hold, OfJob, Active
  <1>4. ASSUME NEW m \in Hold(lease', k, clock)
        PROVE  m \in Hold(lease, k, clock)
    <2>1. m # l /\ m \in LeaseId
      BY <1>4 DEF Hold, OfJob, Active
    <2>2. m \in Hold(s, k, clock)
      BY <1>4, <2>1 DEF Hold, OfJob, Active
    <2> QED
      BY <2>2, SweepUnseen
  <1> QED
    BY <1>2, <1>3, <1>4, SameHolders

(* A grant is an Acquire ... *)
LEMMA GrantAcquires ==
  ASSUME TenureInv, NEW r \in Runner, NEW j \in Job, NEW p \in Project,
         NEW rc \in DeclaredCap, NEW pc \in DeclaredCap, NEW ttl \in Ttl,
         NEW l \in LeaseId, Grant(r, j, p, rc, pc, ttl, l)
  PROVE  Tenure!Acquire(j, r, ttl)
  <1> DEFINE s == Swept(lease, clock)
             new == NewLease(r, j, p, ttl)
  <1>1. TypeOK /\ clock \in Nat /\ ttl \in Nat
    BY LeaseTableAssumption DEF TenureInv, TypeOK
  <1>2. /\ lease' = [s EXCEPT ![l] = new] /\ lease[l] = NoLease
        /\ OfJob(s, j) = {} /\ clock' = clock
    BY DEF Grant, Grantable
  <1>3. lease'[l] = new /\ \A m \in LeaseId : m # l => lease'[m] = s[m]
    BY <1>1, <1>2, SweptType
  <1>4. /\ new.status = "active" /\ new.job = j /\ new.runner = r
        /\ new.expires = clock + ttl /\ new.expires >= clock
    BY <1>1 DEF NewLease
  <1>5. Hold(lease, j, clock) = {}
    BY <1>1, <1>2, SweepUnseen
  <1>6. Owner(lease, j, clock) = NoOne
    BY <1>5, HeldByNone
  <1>7. Hold(lease', j, clock) = {l}
    <2>1. \A m \in LeaseId : m # l => m \notin OfJob(lease', j)
      BY <1>2, <1>3 DEF OfJob, Active
    <2>2. l \in Hold(lease', j, clock)
      BY <1>3, <1>4 DEF Hold, OfJob, Active
    <2> QED
      BY <2>1, <2>2 DEF Hold, OfJob, Active
  <1>8. Owner(lease', j, clock) = r /\ Deadline(lease', j, clock) = clock + ttl
    BY <1>3, <1>4, <1>7, HeldByOne
  <1>9. ASSUME NEW k \in Job, k # j
        PROVE  /\ Owner(lease', k, clock) = Owner(lease, k, clock)
               /\ Deadline(lease', k, clock) = Deadline(lease, k, clock)
    <2>1. l \notin Hold(lease, k, clock)
      BY <1>2 DEF Hold, OfJob, Active, NoLease
    <2> QED
      BY <1>1, <1>3, <1>4, <1>9, <2>1, OthersUnseen
  <1> QED
    BY <1>2, <1>6, <1>8, <1>9, Mapping, NextMapping DEF Tenure!Acquire

(* ... a heartbeat answered 200 is a Keep ... *)
LEMMA HeartbeatKeeps ==
  ASSUME TenureInv, NEW l \in LeaseId, NEW ttl \in Ttl, Heartbeat(l, ttl)
  PROVE  \E j \in Job : Tenure!Keep(j, ttl)
  <1> DEFINE s == Swept(lease, clock)
             new == [s[l] EXCEPT !.ttl = ttl, !.heartbeat = clock,
                                 !.expires = clock + ttl]
             j == lease[l].job
  <1>1. TypeOK /\ clock \in Nat /\ ttl \in Nat
    BY LeaseTableAssumption DEF TenureInv, TypeOK
  <1>2. /\ l \in Active(s) /\ lease' = [s EXCEPT ![l] = new] /\ clock' = clock
    BY <1>1, SweptType DEF Heartbeat
  <1>3. /\ s[l] = lease[l] /\ lease[l] \in Lease /\ lease[l].expires >= clock
        /\ l \in Active(lease)
    BY <1>1, <1>2, SweptActive
  <1>4. lease'[l] = new /\ \A m \in LeaseId : m # l => lease'[m] = s[m]
    BY <1>1, <1>2, SweptType
  <1>5. /\ new.status = "active" /\ new.job = j /\ new.runner = lease[l].runner
        /\ new.expires = clock + ttl /\ new.expires >= clock /\ j \in Job
    BY <1>1, <1>3 DEF Lease, Active
  <1>6. l \in Hold(lease, j, clock)
    BY <1>3 DEF Hold, OfJob
  <1> HIDE DEF new
  <1>7. /\ Hold(lease, j, clock) = {l}
        /\ Owner(lease, j, clock) = lease[l].runner /\ lease[l].runner \in Runner
    BY <1>5, <1>6, AtMostOneHolds
  <1>8. Hold(lease', j, clock) = {l}
    <2>1. \A m \in LeaseId : m # l => m \notin OfJob(lease', j)
      <3>1. OfJob(s, j) = {l}
        BY <1>1, <1>7, SweepUnseen
      <3> QED
        BY <1>4, <3>1 DEF OfJob, Active
    <2>2. l \in Hold(lease', j, clock)
      BY <1>4, <1>5 DEF Hold, OfJob, Active
    <2> QED
      BY <2>1, <2>2 DEF Hold, OfJob, Active
  <1>9. /\ Owner(lease', j, clock) = Owner(lease, j, clock)
        /\ Deadline(lease', j, clock) = clock + ttl
    BY <1>4, <1>5, <1>7, <1>8, HeldByOne
  <1>10. ASSUME NEW k \in Job, k # j
         PROVE  /\ Owner(lease', k, clock) = Owner(lease, k, clock)
                /\ Deadline(lease', k, clock) = Deadline(lease, k, clock)
    <2>1. l \notin Hold(lease, k, clock)
      BY <1>10 DEF Hold, OfJob
    <2> QED
      BY <1>1, <1>4, <1>5, <1>10, <2>1, OthersUnseen
  <1>11. Tenure!Keep(j, ttl)
    <2> HIDE DEF j
    <2> QED
      BY <1>2, <1>5, <1>7, <1>9, <1>10, NoOneAssumption, Mapping, NextMapping
         DEF Tenure!Keep
  <1> QED
    BY <1>5, <1>11

(* ... a release answered 200 is a Yield ... *)
LEMMA ReleaseYields ==
  ASSUME TenureInv, NEW l \in LeaseId, Release(l)
  PROVE  \E j \in Job : Tenure!Yield(j)
  <1> DEFINE s == Swept(lease, clock)
             new == [s[l] EXCEPT !.status = "released", !.released = clock]
             j == lease[l].job
  <1>1. TypeOK /\ clock \in Nat
    BY DEF TenureInv, TypeOK
  <1>2. /\ l \in Active(s) /\ lease' = [s EXCEPT ![l] = new] /\ clock' = clock
    BY <1>1, SweptType DEF Release
  <1>3. /\ s[l] = lease[l] /\ lease[l] \in Lease /\ lease[l].expires >= clock
        /\ l \in Active(lease)
    BY <1>1, <1>2, SweptActive
  <1>4. lease'[l] = new /\ \A m \in LeaseId : m # l => lease'[m] = s[m]
    BY <1>1, <1>2, SweptType
  <1>5. new.status = "released" /\ j \in Job
    BY <1>3 DEF Lease
  <1>6. l \in Hold(lease, j, clock)
    BY <1>3 DEF Hold, OfJob
  <1> HIDE DEF new
  <1>7. /\ Hold(lease, j, clock) = {l}
        /\ Owner(lease, j, clock) = lease[l].runner /\ lease[l].runner \in Runner
    BY <1>5, <1>6, AtMostOneHolds
  <1>8. Hold(lease', j, clock) = {}
    <2>1. OfJob(s, j) = {l}
      BY <1>1, <1>7, SweepUnseen
    <2> QED
      BY <1>4, <1>5, <2>1 DEF Hold, OfJob, Active
  <1>9. Owner(lease', j, clock) = NoOne /\ Deadline(lease', j, clock) = 0
    BY <1>8, HeldByNone
  <1>10. ASSUME NEW k \in Job, k # j
         PROVE  /\ Owner(lease', k, clock) = Owner(lease, k, clock)
                /\ Deadline(lease', k, clock) = Deadline(lease, k, clock)
    <2>1. l \notin Hold(lease, k, clock)
      BY <1>10 DEF Hold, OfJob
    <2> QED
      BY <1>1, <1>4, <1>5, <1>10, <2>1, OthersUnseen
  <1>11. Tenure!Yield(j)
    <2> HIDE DEF j
    <2> QED
      BY <1>2, <1>5, <1>7, <1>9, <1>10, NoOneAssumption, Mapping, NextMapping
         DEF Tenure!Yield
  <1> QED
    BY <1>5, <1>11

(* ... and time passing is Pass: a deadline takes its job back at once, whether
   or not a sweep has been by. *)
LEMMA TickPasses ==
  ASSUME TenureInv, Tick
  PROVE  Tenure!Pass
  <1>1. lease' = lease /\ clock' = clock + 1 /\ clock \in Nat /\ TypeOK
    BY DEF Tick, TenureInv, TypeOK
  <1>2. ASSUME NEW j \in Job
        PROVE  /\ Owner(lease, j, clock + 1) =
                    IF Deadline(lease, j, clock) < clock + 1
                    THEN NoOne ELSE Owner(lease, j, clock)
               /\ Deadline(lease, j, clock + 1) =
                    IF Deadline(lease, j, clock) < clock + 1
                    THEN 0 ELSE Deadline(lease, j, clock)
    <2>1. Hold(lease, j, clock + 1) \subseteq Hold(lease, j, clock)
      <3>1. \A l \in Active(lease) : lease[l].expires \in Nat
        BY <1>1 DEF Active, TypeOK, Lease, NoLease
      <3> QED
        BY <1>1, <3>1 DEF Hold, OfJob
    <2>2. CASE Hold(lease, j, clock) = {}
      <3>1. Hold(lease, j, clock + 1) = {}
        BY <2>1, <2>2
      <3> QED
        BY <1>1, <2>2, <3>1, HeldByNone
    <2>3. ASSUME NEW l \in Hold(lease, j, clock)
          PROVE  /\ Owner(lease, j, clock + 1) =
                      IF Deadline(lease, j, clock) < clock + 1
                      THEN NoOne ELSE Owner(lease, j, clock)
                 /\ Deadline(lease, j, clock + 1) =
                      IF Deadline(lease, j, clock) < clock + 1
                      THEN 0 ELSE Deadline(lease, j, clock)
      <3>1. /\ Hold(lease, j, clock) = {l}
            /\ l \in LeaseId /\ lease[l] \in Lease
            /\ lease[l].status = "active" /\ lease[l].job = j
            /\ Owner(lease, j, clock) = lease[l].runner
            /\ Deadline(lease, j, clock) = lease[l].expires
        BY <2>3, AtMostOneHolds
      <3>2. lease[l].expires \in Nat
        BY <3>1 DEF Lease
      <3>3. CASE lease[l].expires < clock + 1
        <4>1. Hold(lease, j, clock + 1) = {}
          BY <1>1, <2>1, <3>1, <3>2, <3>3 DEF Hold
        <4> QED
          BY <3>1, <3>3, <4>1, HeldByNone
      <3>4. CASE ~(lease[l].expires < clock + 1)
        <4>1. Hold(lease, j, clock + 1) = {l}
          BY <1>1, <2>1, <3>1, <3>2, <3>4 DEF Hold, OfJob, Active
        <4> QED
          BY <3>1, <3>4, <4>1, HeldByOne
      <3> QED
        BY <3>3, <3>4
    <2> QED
      BY <2>2, <2>3
  <1> QED
    BY <1>1, <1>2, Mapping, NextMapping DEF Tenure!Pass, Tenure!Lapsed

(* A step of which the sweep is all that shows changes nothing above. *)
LEMMA SweepStutters ==
  ASSUME TypeOK, lease' = Swept(lease, clock) \/ lease' = lease, clock' = clock
  PROVE  UNCHANGED Tenure!vars
  <1>1. ASSUME NEW j \in Job
        PROVE  /\ Owner(lease', j, clock) = Owner(lease, j, clock)
               /\ Deadline(lease', j, clock) = Deadline(lease, j, clock)
    BY SweepUnseen, SameHolders
  <1> QED
    BY <1>1, Mapping, NextMapping DEF Tenure!vars

(* The lease table is an implementation of exclusive tenure: nobody acquires an
   owned job, an owner keeps it until it yields or its deadline passes, and the
   sweep, however late, is invisible (grantLease, claimExpired). *)
THEOREM Implements == Spec => ImplementsTenure
  <1>1. Init => Tenure!Init
    <2> SUFFICES ASSUME Init PROVE Tenure!Init
      OBVIOUS
    <2>1. \A j \in Job : Hold(lease, j, clock) = {}
      BY DEF Init, Hold, OfJob, Active, NoLease
    <2> QED
      BY <2>1, HeldByNone, Mapping DEF Init, Tenure!Init
  <1>2. TenureInv /\ [Next]_vars => [Tenure!Next]_(Tenure!vars)
    <2> SUFFICES ASSUME TenureInv, [Next]_vars
                 PROVE  Tenure!Next \/ UNCHANGED Tenure!vars
      OBVIOUS
    <2>1. TypeOK
      BY DEF TenureInv
    <2>2. CASE \E r \in Runner, j \in Job, p \in Project : Claim(r, j, p)
      <3>1. PICK r \in Runner, j \in Job, p \in Project : Claim(r, j, p)
        BY <2>2
      <3>2. PICK rc \in DeclaredCap, pc \in DeclaredCap :
              \/ Refuse(r, j, p, rc, pc)
              \/ \E ttl \in Ttl, l \in LeaseId : Grant(r, j, p, rc, pc, ttl, l)
        BY <3>1 DEF Claim
      <3>3. CASE Refuse(r, j, p, rc, pc)
        BY <2>1, <3>3, SweepStutters DEF Refuse, Sweep
      <3>4. CASE \E ttl \in Ttl, l \in LeaseId : Grant(r, j, p, rc, pc, ttl, l)
        BY <3>4, GrantAcquires DEF Tenure!Next
      <3> QED
        BY <3>2, <3>3, <3>4
    <2>3. CASE \E l \in LeaseId, ttl \in Ttl : Heartbeat(l, ttl)
      BY <2>3, HeartbeatKeeps DEF Tenure!Next
    <2>4. CASE \E l \in LeaseId : Release(l)
      BY <2>4, ReleaseYields DEF Tenure!Next
    <2>5. CASE Reconcile
      BY <2>1, <2>5, SweepStutters DEF Reconcile, Sweep
    <2>6. CASE Tick
      BY <2>6, TickPasses DEF Tenure!Next
    <2>7. CASE UNCHANGED vars
      BY <2>1, <2>7, SweepStutters DEF vars
    <2> QED
      BY <2>2, <2>3, <2>4, <2>5, <2>6, <2>7 DEF Next
  <1> QED
    BY <1>1, <1>2, TenureInvariant, PTL DEF Spec, ImplementsTenure, Tenure!Spec

-----------------------------------------------------------------------------
(* The sessions of a runner.                                               *)

(* What a session's row may hold. *)
Order  == {"none", "cancelled", "timed_out"}
Cause  == {"none", "wall_clock", "silence"}
Lines  == [event : {"line"}, channel : Channel, text : Seq(Nat)]
Ends   == [event : {"finished"}, status : Terminal, reason : Cause]
Entry  == Lines \cup Ends
Chunk  == [id : Nat, whole : BOOLEAN]
Row    == [status : {"none", "pending", "rejected", "running"} \cup Terminal,
           requested : Order, reason : Cause,
           limit : BOOLEAN, quiet : BOOLEAN,
           clock : BOOLEAN, silence : BOOLEAN,
           escalation : {"off", "armed", "fired"},
           net : BOOLEAN, backstop : BOOLEAN,
           temper : Tempers, engine : {"none", "alive", "ending", "dead"},
           code : {0, 1}, helper : BOOLEAN,
           wrote : [Channel -> Nat],
           pipe : [Channel -> Seq(Chunk)],
           tail : [Channel -> Seq(Nat)],
           log : Seq(Entry), order : Order]

\* The first n chunks of a channel, in order.
Upto(n) == [i \in 1..n |-> i]

Unstarted(r) == r.status \in {"none", "pending", "rejected"}

\* A session that never came up has done nothing and owes nothing.
Blank(r) ==
    Unstarted(r) =>
      /\ r.log = <<>> /\ r.engine = "none"
      /\ r.order = "none" /\ r.requested = "none" /\ r.reason = "none"
      /\ r.escalation = "off" /\ ~r.net
      /\ \A c \in Channel : r.wrote[c] = 0 /\ r.pipe[c] = <<>> /\ r.tail[c] = <<>>

\* Only lines were told of a session that has not ended.
OnlyLines(log) == \A i \in DOMAIN log : log[i].event = "line"

\* The end is the last thing told, and it agrees with the row.
ToldOnce(r) ==
    /\ ~Finished(r) => OnlyLines(r.log)
    /\ Finished(r) =>
         /\ r.log # <<>>
         /\ \A i \in DOMAIN r.log : r.log[i].event = "finished" <=> i = Len(r.log)
         /\ r.log[Len(r.log)].status = r.status
         /\ r.order # "none" => r.status = r.order
         /\ r.log[Len(r.log)].reason # "none" => r.order = "timed_out"

\* While it runs: an order is in flight exactly when the escalation is on, and
\* what will be told is the first order's.
Ordered(r) ==
    Live(r) =>
      /\ r.order = "none" <=> r.escalation = "off"
      /\ r.requested = r.order
      /\ r.reason # "none" => r.order = "timed_out"
      /\ r.net => r.order # "none"

\* What was told of a channel and what waits for its end of line.
Got(r, c) == Said(r.log, c) \o r.tail[c]

\* While it runs nothing of a channel is lost, repeated or out of order.
Bytes(r) ==
    ~Finished(r) =>
      \A c \in Channel :
        /\ Got(r, c) = Upto(Len(Got(r, c)))
        /\ \A i \in DOMAIN r.pipe[c] : r.pipe[c][i].id = Len(Got(r, c)) + i
        /\ Len(Got(r, c)) + Len(r.pipe[c]) = r.wrote[c]

\* A session that ended by itself was heard to the last byte.
HeardOut(r, up) ==
    Finished(r) /\ r.order = "none" /\ up =>
      /\ r.engine = "dead"
      /\ \A c \in Channel : Said(r.log, c) = Upto(r.wrote[c])

RowInv(r, up) ==
    /\ r \in Row
    /\ Blank(r) /\ ToldOnce(r) /\ Ordered(r) /\ Bytes(r) /\ HeardOut(r, up)

SessionInv ==
    /\ session \in [Session -> Row] /\ runner \in {"up", "exited", "killed"}
    /\ \A s \in Session : RowInv(session[s], runner = "up")

-----------------------------------------------------------------------------
(* Counting up, and what a recursive function over 0..N is. *)

(* Every nonempty set of numbers has a least one. *)
LEMMA LeastNatural ==
  ASSUME NEW T, T \subseteq Nat, T # {}
  PROVE  \E x \in T : \A y \in T : x <= y
<1> DEFINE R == OpToRel(<, Nat)
<1>1. IsWellFoundedOn(R, Nat)
  BY NatLessThanWellFounded
<1>2. R = {ss \in Nat \X Nat : ss[1] < ss[2]}
  BY DEF OpToRel
<1>4. \A x, y \in Nat : <<y, x>> \in R <=> y < x
  BY <1>2
<1> HIDE DEF R
<1>3. \E x \in T : \A y \in T : <<y, x>> \notin R
  BY <1>1, WFMin
<1>5. PICK x \in T : \A y \in T : <<y, x>> \notin R
  BY <1>3
<1>6. ASSUME NEW y \in T PROVE x <= y
  <2>1. x \in Nat /\ y \in Nat
    OBVIOUS
  <2>2. ~(y < x)
    BY <1>4, <1>5, <2>1
  <2> QED
    BY <2>1, <2>2
<1> QED
  BY <1>6

(* A set that holds 0 and, with a number, the next one holds them all. *)
LEMMA CountUp ==
  ASSUME NEW N \in Nat, NEW T, 0 \in T,
         \A k \in 0..N : k # N /\ k \in T => k + 1 \in T
  PROVE  \A k \in 0..N : k \in T
<1> DEFINE M == {k \in 0..N : k \notin T}
<1>1. CASE M = {}
  BY <1>1
<1>2. CASE M # {}
  <2>1. M \subseteq Nat
    OBVIOUS
  <2>2. PICK k \in M : \A y \in M : k <= y
    BY <1>2, <2>1, LeastNatural
  <2>3. k \in 0..N /\ k \notin T /\ k # 0
    OBVIOUS
  <2>4. k - 1 \in 0..N /\ k - 1 # N /\ (k - 1) + 1 = k
    BY <2>3
  <2>5. k - 1 \in T
    BY <2>2, <2>4
  <2> QED
    BY <2>3, <2>4, <2>5
<1> QED
  BY <1>1, <1>2

\* A function over 0..N that starts at base and goes on by G.
Unrolls(f, N, S, base, G) ==
    /\ f \in [0..N -> S]
    /\ \A k \in 0..N : f[k] = IF k = 0 THEN base ELSE G[k][f[k - 1]]

Steps(N, S) == [0..N -> [S -> S]]

(* A first value and a step that stays among the values define a function. *)
LEMMA Unrolled ==
  ASSUME NEW N \in Nat, NEW S, NEW base \in S, NEW G \in Steps(N, S)
  PROVE  \E f : Unrolls(f, N, S, base, G)
<1>0. G \in [0..N -> [S -> S]]
  BY DEF Steps
<1> DEFINE Runs(f, m) ==
             /\ f \in [0..m -> S]
             /\ \A k \in 0..m : f[k] = IF k = 0 THEN base ELSE G[k][f[k - 1]]
           T == {m \in 0..N : \E f : Runs(f, m)}
<1>1. 0 \in T
  <2> DEFINE g == [k \in {0} |-> base]
  <2>1. 0..0 = {0} /\ 0 \in 0..N
    OBVIOUS
  <2>2. g \in [{0} -> S] /\ g[0] = base
    OBVIOUS
  <2> HIDE DEF g
  <2>3. Runs(g, 0)
    BY <2>1, <2>2
  <2> QED
    BY <2>1, <2>3
<1>2. ASSUME NEW m \in 0..N, m # N, m \in T PROVE m + 1 \in T
  <2>1. PICK f : Runs(f, m)
    BY <1>2
  <2>2. m + 1 \in 0..N /\ m \in Nat
    BY <1>2
  <2>3. f[m] \in S
    BY <2>1, <2>2
  <2>4. G[m + 1][f[m]] \in S
    BY <1>0, <2>2, <2>3
  <2> DEFINE g == [k \in 0..(m + 1) |-> IF k = m + 1 THEN G[m + 1][f[m]] ELSE f[k]]
  <2>5. g \in [0..(m + 1) -> S]
    BY <2>1, <2>2, <2>4
  <2>6. ASSUME NEW k \in 0..(m + 1)
        PROVE  g[k] = IF k = 0 THEN base ELSE G[k][g[k - 1]]
    <3>1. CASE k = m + 1
      <4>1. k # 0 /\ k - 1 = m /\ m \in 0..(m + 1) /\ m # m + 1
        BY <2>2, <3>1
      <4> QED
        BY <3>1, <4>1
    <3>2. CASE k # m + 1
      <4>1. k \in 0..m /\ (k # 0 => k - 1 \in 0..(m + 1) /\ k - 1 # m + 1)
        BY <2>2, <3>2
      <4> QED
        BY <2>1, <3>2, <4>1
    <3> QED
      BY <3>1, <3>2
  <2> HIDE DEF g
  <2>7. Runs(g, m + 1)
    BY <2>5, <2>6
  <2> QED
    BY <2>2, <2>7
<1> HIDE DEF T
<1>3. N \in T
  <2>1. N \in 0..N
    OBVIOUS
  <2>2. \A k \in 0..N : k \in T
    BY <1>1, <1>2, CountUp
  <2> QED
    BY <2>1, <2>2
<1> QED
  BY <1>3 DEF T, Unrolls

-----------------------------------------------------------------------------
(* What a log says. *)

\* The function Said picks its result from.
IsSaying(f, log, c) ==
    /\ DOMAIN f = 0..Len(log)
    /\ f[0] = <<>>
    /\ \A k \in 1..Len(log) :
         f[k] = IF log[k].event = "line" /\ log[k].channel = c
                THEN f[k - 1] \o log[k].text ELSE f[k - 1]

LEMMA SayingExists ==
  ASSUME NEW log \in Seq(Entry), NEW c
  PROVE  \E f \in [0..Len(log) -> Seq(Nat)] :
            IsSaying(f, log, c) /\ Said(log, c) = f[Len(log)]
<1> DEFINE N == Len(log)
           S == Seq(Nat)
           Next1(k, v) == IF log[k].event = "line" /\ log[k].channel = c
                          THEN v \o log[k].text ELSE v
           G == [k \in 0..N |-> [v \in S |-> IF k = 0 THEN <<>> ELSE Next1(k, v)]]
           Eq(f) == f = [k \in 0..N |-> IF k = 0 THEN <<>> ELSE Next1(k, f[k - 1])]
           said == CHOOSE f : Eq(f)
<1>0. N \in Nat /\ <<>> \in S
  OBVIOUS
<1>1. ASSUME NEW k \in 0..N, k # 0, NEW v \in S PROVE Next1(k, v) \in S
  <2>1. log[k] \in Entry
    BY <1>0, <1>1
  <2>2. CASE log[k].event = "line"
    <3>1. log[k].text \in Seq(Nat)
      BY <2>1, <2>2 DEF Entry, Lines, Ends
    <3> QED
      BY <3>1
  <2>3. CASE log[k].event # "line"
    BY <2>3
  <2> QED
    BY <2>2, <2>3
<1>b. \A k \in 1..N : k \in 0..N /\ k # 0
  BY <1>0
<1>c. 0 \in 0..N
  BY <1>0
<1> HIDE DEF Next1, N, S
<1>2. G \in [0..N -> [S -> S]]
  BY <1>0, <1>1
<1>3. PICK f \in [0..N -> S] : \A k \in 0..N : f[k] = IF k = 0 THEN <<>> ELSE G[k][f[k - 1]]
  <2>1. G \in Steps(N, S)
    BY <1>2 DEF Steps
  <2> HIDE DEF G
  <2>2. \E f : Unrolls(f, N, S, <<>>, G)
    BY <1>0, <2>1, Unrolled
  <2> QED
    BY <2>2 DEF Unrolls
<1>4. ASSUME NEW k \in 0..N, k # 0 PROVE f[k] = Next1(k, f[k - 1])
  <2>1. k - 1 \in 0..N
    BY <1>0, <1>4
  <2>2. f[k - 1] \in S
    BY <1>3, <2>1
  <2>3. f[k] = G[k][f[k - 1]]
    BY <1>3, <1>4
  <2> QED
    BY <1>4, <2>2, <2>3
<1>5. Eq(f)
  <2>1. f[0] = <<>>
    BY <1>c, <1>3
  <2>2. f = [k \in 0..N |-> f[k]]
    BY <1>3
  <2> HIDE DEF G
  <2> QED
    BY <1>3, <1>4, <2>1, <2>2
<1>6. Eq(said)
  <2> HIDE DEF Eq
  <2> QED
    BY <1>5
<1>7. Said(log, c) = said[N]
  BY DEF Said, Next1, N
<1> HIDE DEF said
<1>8. \A k \in 0..N : said[k] = f[k]
  <2> DEFINE T == {k \in 0..N : said[k] = f[k]}
  <2>0. DOMAIN said = 0..N /\ said[0] = <<>>
    BY <1>c, <1>6
  <2>1. 0 \in T
    BY <1>c, <1>3, <2>0
  <2>2. ASSUME NEW k \in 0..N, k # N, k \in T PROVE k + 1 \in T
    <3>1. k + 1 \in 0..N /\ k + 1 # 0 /\ (k + 1) - 1 = k /\ said[k] = f[k]
      BY <1>0, <2>2
    <3>2. said[k + 1] = Next1(k + 1, said[(k + 1) - 1])
      BY <1>6, <3>1
    <3>3. f[k + 1] = Next1(k + 1, f[(k + 1) - 1])
      BY <1>4, <3>1
    <3>4. said[k + 1] = f[k + 1]
      BY <3>1, <3>2, <3>3
    <3> QED
      BY <3>1, <3>4
  <2> HIDE DEF T, N
  <2>3. \A k \in 0..N : k \in T
    BY <1>0, <2>1, <2>2, CountUp
  <2> QED
    BY <2>3 DEF T
<1>9. IsSaying(f, log, c)
  <2>1. f[0] = <<>> /\ DOMAIN f = 0..N
    BY <1>c, <1>3
  <2>2. ASSUME NEW k \in 1..N
        PROVE  f[k] = IF log[k].event = "line" /\ log[k].channel = c
                      THEN f[k - 1] \o log[k].text ELSE f[k - 1]
    BY <1>b, <1>4 DEF Next1
  <2> QED
    BY <2>1, <2>2 DEF IsSaying, N
<1>10. said[N] = f[N] /\ f \in [0..Len(log) -> Seq(Nat)]
  <2>1. N \in 0..N
    BY <1>0
  <2> QED
    BY <1>3, <1>8, <2>1 DEF N, S
<1> QED
  BY <1>7, <1>9, <1>10 DEF N

(* Nothing was said before anything was told. *)
LEMMA SaidNothing ==
  ASSUME NEW c
  PROVE  Said(<<>>, c) = <<>>
<1>1. <<>> \in Seq(Entry) /\ Len(<<>>) = 0
  OBVIOUS
<1>2. PICK f \in [0..0 -> Seq(Nat)] : IsSaying(f, <<>>, c) /\ Said(<<>>, c) = f[0]
  BY <1>1, SayingExists
<1> QED
  BY <1>2 DEF IsSaying

(* One more entry adds its text to its channel, and to no other. *)
LEMMA SaidOneMore ==
  ASSUME NEW log \in Seq(Entry), NEW e \in Entry, NEW c
  PROVE  /\ Said(log, c) \in Seq(Nat)
         /\ Append(log, e) \in Seq(Entry)
         /\ Said(Append(log, e), c) = IF e.event = "line" /\ e.channel = c
                                      THEN Said(log, c) \o e.text ELSE Said(log, c)
<1> DEFINE N == Len(log)  more == Append(log, e)
<1>0. N \in Nat /\ more \in Seq(Entry) /\ Len(more) = N + 1 /\ more[N + 1] = e
  OBVIOUS
<1>a. \A k \in 1..N : more[k] = log[k]
  OBVIOUS
<1>1. PICK f \in [0..N -> Seq(Nat)] : IsSaying(f, log, c) /\ Said(log, c) = f[N]
  BY SayingExists
<1> HIDE DEF more
<1>2. PICK g \in [0..(N + 1) -> Seq(Nat)] :
         IsSaying(g, more, c) /\ Said(more, c) = g[N + 1]
  <2>1. \E g \in [0..Len(more) -> Seq(Nat)] :
           IsSaying(g, more, c) /\ Said(more, c) = g[Len(more)]
    BY <1>0, SayingExists
  <2> QED
    BY <1>0, <2>1
<1>3. \A k \in 0..N : f[k] = g[k]
  <2> DEFINE T == {k \in 0..N : f[k] = g[k]}
  <2>1. 0 \in T
    BY <1>0, <1>1, <1>2 DEF IsSaying
  <2>2. ASSUME NEW k \in 0..N, k # N, k \in T PROVE k + 1 \in T
    <3>1. /\ k + 1 \in 1..N /\ k + 1 \in 1..(N + 1) /\ (k + 1) - 1 = k
          /\ f[k] = g[k] /\ more[k + 1] = log[k + 1]
      BY <1>0, <1>a, <2>2
    <3>2. f[k + 1] = g[k + 1]
      <4> DEFINE l == log[k + 1]
      <4>1. f[k + 1] = IF l.event = "line" /\ l.channel = c
                       THEN f[(k + 1) - 1] \o l.text ELSE f[(k + 1) - 1]
        BY <1>1, <3>1 DEF IsSaying
      <4>2. g[k + 1] = IF l.event = "line" /\ l.channel = c
                       THEN g[(k + 1) - 1] \o l.text ELSE g[(k + 1) - 1]
        BY <1>0, <1>2, <3>1 DEF IsSaying
      <4> HIDE DEF l
      <4> QED
        BY <3>1, <4>1, <4>2
    <3> QED
      BY <1>0, <2>2, <3>2
  <2> HIDE DEF T, N
  <2>3. \A k \in 0..N : k \in T
    BY <1>0, <2>1, <2>2, CountUp
  <2> QED
    BY <2>3 DEF T
<1>4. g[N + 1] = IF e.event = "line" /\ e.channel = c
                 THEN g[(N + 1) - 1] \o e.text ELSE g[(N + 1) - 1]
  <2>1. N + 1 \in 1..Len(more)
    BY <1>0
  <2> QED
    BY <1>0, <1>2, <2>1 DEF IsSaying
<1>5. g[(N + 1) - 1] = f[N] /\ f[N] \in Seq(Nat)
  BY <1>0, <1>1, <1>3
<1> QED
  BY <1>0, <1>1, <1>2, <1>4, <1>5 DEF more

-----------------------------------------------------------------------------
(* What each callback does to a row that keeps the invariant. *)

\* Two rows that tell the same story: what differs is timers and the process.
SameStory(r, q) ==
    /\ r \in Row /\ q \in Row
    /\ q.status = r.status /\ q.order = r.order
    /\ q.requested = r.requested /\ q.reason = r.reason
    /\ q.log = r.log /\ q.wrote = r.wrote /\ q.pipe = r.pipe /\ q.tail = r.tail

(* Timers and the process may change while the session has been started, as
   long as an order in flight keeps its escalation and the dead stay dead. *)
LEMMA StoryKept ==
  ASSUME NEW r, NEW q, NEW up, RowInv(r, up), SameStory(r, q),
         Unstarted(r) => q.engine = "none" /\ q.escalation = "off" /\ ~q.net,
         Live(r) => /\ q.escalation = "off" <=> r.escalation = "off"
                    /\ q.net => q.order # "none",
         r.engine = "dead" => q.engine = "dead"
  PROVE  RowInv(q, up)
<1>1. \A c : Got(q, c) = Got(r, c)
  BY DEF SameStory, Got
<1>2. Blank(q)
  BY DEF RowInv, SameStory, Blank, Unstarted
<1>3. ToldOnce(q)
  BY DEF RowInv, SameStory, ToldOnce, Finished
<1>4. Ordered(q)
  BY DEF RowInv, SameStory, Ordered, Live
<1>5. Bytes(q)
  <2> HIDE DEF Got
  <2> QED
    BY <1>1 DEF RowInv, SameStory, Bytes, Finished
<1>6. HeardOut(q, up)
  BY DEF RowInv, SameStory, HeardOut, Finished
<1> QED
  BY <1>2, <1>3, <1>4, <1>5, <1>6 DEF RowInv, SameStory

(* What #finish tells: one entry more, after lines only. *)
LEMMA FinishRow ==
  ASSUME NEW r \in Row, NEW up, NEW status \in Terminal, Live(r), OnlyLines(r.log),
         r.order # "none" => status = r.order,
         r.reason # "none" => r.order = "timed_out",
         r.order = "none" /\ up =>
           /\ r.engine = "dead"
           /\ \A c \in Channel : Said(r.log, c) = Upto(r.wrote[c])
  PROVE  /\ RowInv(Finish(r, status), up)
         /\ Finished(Finish(r, status))
         /\ Finish(r, status).engine = r.engine
<1> DEFINE e == [event |-> "finished", status |-> status, reason |-> r.reason]
           q == Finish(r, status)
<1>1. e \in Entry
  BY DEF Row, Entry, Ends
<1>2. r.log \in Seq(Entry)
  BY DEF Row
<1>3. q = [r EXCEPT !.clock = FALSE, !.silence = FALSE, !.escalation = "off",
                    !.net = FALSE, !.backstop = FALSE, !.status = status,
                    !.log = Append(r.log, e)]
  BY DEF Finish
<1>4. Append(r.log, e) \in Seq(Entry)
  BY <1>1, <1>2
<1>5. /\ q \in Row /\ q.status = status /\ q.log = Append(r.log, e)
      /\ q.order = r.order /\ q.wrote = r.wrote /\ q.engine = r.engine
  BY <1>3, <1>4, ZenonT(60) DEF Row
<1> HIDE DEF q
<1>6. Finished(q)
  BY <1>5 DEF Finished
<1>7. ~Live(q) /\ ~Unstarted(q)
  BY <1>5 DEF Live, Unstarted, Terminal
<1>8. ToldOnce(q)
  <2>1. /\ Len(q.log) = Len(r.log) + 1 /\ Len(r.log) \in Nat
        /\ q.log[Len(q.log)] = e
        /\ DOMAIN q.log = 1..(Len(r.log) + 1)
        /\ \A i \in 1..Len(r.log) : q.log[i] = r.log[i] /\ i \in DOMAIN r.log
    BY <1>2, <1>5
  <2>2. q.log # <<>>
    BY <1>2, <1>5
  <2>3. ASSUME NEW i \in DOMAIN q.log
        PROVE  q.log[i].event = "finished" <=> i = Len(q.log)
    <3>1. CASE i = Len(q.log)
      BY <2>1, <3>1
    <3>2. CASE i # Len(q.log)
      <4>1. i \in 1..Len(r.log)
        BY <2>1, <3>2
      <4>2. q.log[i].event = "line"
        BY <2>1, <4>1 DEF OnlyLines
      <4> QED
        BY <3>2, <4>2
    <3> QED
      BY <3>1, <3>2
  <2>4. q.log[Len(q.log)].status = status /\ q.log[Len(q.log)].reason = r.reason
    BY <2>1
  <2> QED
    BY <1>5, <1>6, <2>2, <2>3, <2>4 DEF ToldOnce
<1>9. HeardOut(q, up)
  <2>1. ASSUME NEW c \in Channel PROVE Said(q.log, c) = Said(r.log, c)
    <3>1. ~(e.event = "line" /\ e.channel = c)
      OBVIOUS
    <3> HIDE DEF e
    <3> QED
      BY <1>1, <1>2, <1>5, <3>1, SaidOneMore
  <2> QED
    BY <1>5, <2>1 DEF HeardOut
<1> QED
  BY <1>5, <1>6, <1>7, <1>8, <1>9 DEF RowInv, Blank, Ordered, Bytes, q

(* A signal that is not refused changes the process only. *)
LEMMA SignalRow ==
  ASSUME NEW r \in Row, NEW signal \in {"SIGTERM", "SIGKILL"},
         r.engine \in {"alive", "ending"} => r.temper # "foreign"
  PROVE  /\ SameStory(r, Signal(r, signal))
         /\ Signal(r, signal).escalation = r.escalation
         /\ Signal(r, signal).net = r.net
         /\ r.engine \in {"none", "dead"} => Signal(r, signal).engine = r.engine
<1>1. CASE r.engine \notin {"alive", "ending"}
  BY <1>1 DEF Signal, SameStory, Row
<1>2. CASE r.engine \in {"alive", "ending"} /\ signal = "SIGTERM"
  <2>1. Signal(r, signal) = IF r.temper = "deaf" THEN r ELSE [r EXCEPT !.engine = "ending"]
    BY <1>2 DEF Signal
  <2>2. CASE r.temper = "deaf"
    BY <1>2, <2>1, <2>2 DEF SameStory
  <2>3. CASE r.temper # "deaf"
    <3> DEFINE q == [r EXCEPT !.engine = "ending"]
    <3>1. q \in Row
      BY DEF Row
    <3> QED
      BY <1>2, <2>1, <2>3, <3>1, ZenonT(60) DEF SameStory, Row
  <2> QED
    BY <2>2, <2>3
<1>3. CASE r.engine \in {"alive", "ending"} /\ signal = "SIGKILL"
  <2>1. Signal(r, signal) = [r EXCEPT !.engine = "dead", !.code = 1,
                                      !.helper = @ /\ r.temper = "leaky"]
    BY <1>3 DEF Signal
  <2> QED
    BY <1>3, <2>1, ZenonT(60) DEF SameStory, Row
<1> QED
  BY <1>1, <1>2, <1>3

(* A refused one ends the session. *)
LEMMA SignalRefused ==
  ASSUME NEW r \in Row, NEW signal,
         r.engine \in {"alive", "ending"}, r.temper = "foreign"
  PROVE  Signal(r, signal) = Finish(r, IF r.requested = "none" THEN "failed" ELSE r.requested)
  BY DEF Signal

(* The first order to stop: its status, then the signal, then the escalation.
   A later one changes nothing. *)
LEMMA StopRow ==
  ASSUME NEW r, NEW up, RowInv(r, up),
         NEW status \in {"cancelled", "timed_out"}, NEW reason \in Cause,
         reason # "none" => status = "timed_out"
  PROVE  RowInv(Stop(r, status, reason), up)
<1> DEFINE o == [[r EXCEPT !.order = IF @ = "none" THEN status ELSE @]
                    EXCEPT !.requested = status, !.reason = reason]
           g == Signal(o, "SIGTERM")
<1>0. r \in Row
  BY DEF RowInv
<1>1. CASE ~Live(r)
  BY <1>1 DEF Stop
<1>2. CASE Live(r) /\ r.escalation # "off"
  <2>1. r.order # "none"
    BY <1>2 DEF RowInv, Ordered
  <2>2. Stop(r, status, reason) = r
    BY <1>0, <1>2, <2>1 DEF Stop, Row
  <2> QED
    BY <2>2
<1>3. CASE Live(r) /\ r.escalation = "off"
  <2>1. r.order = "none" /\ ~r.net /\ ~Finished(r) /\ ~Unstarted(r) /\ OnlyLines(r.log)
    BY <1>0, <1>3 DEF RowInv, Ordered, ToldOnce, Live, Finished, Unstarted, Terminal, Row
  <2>2. Stop(r, status, reason) = [g EXCEPT !.escalation = "armed"]
    BY <1>3 DEF Stop
  <2>3. /\ o \in Row /\ o.status = r.status /\ o.order = status
        /\ o.requested = status /\ o.reason = reason
        /\ o.log = r.log /\ o.wrote = r.wrote /\ o.pipe = r.pipe /\ o.tail = r.tail
        /\ o.net = r.net /\ o.engine = r.engine
    BY <1>0, <2>1 DEF Row, Order
  <2> HIDE DEF o
  <2>4. Live(o)
    BY <1>3, <2>3 DEF Live
  <2>5. CASE o.engine \in {"alive", "ending"} /\ o.temper = "foreign"
    <3>1. g = Finish(o, status)
      BY <2>3, <2>5, SignalRefused
    <3>2. RowInv(g, up) /\ Finished(g)
      <4> HIDE DEF g
      <4> QED
        BY <2>1, <2>3, <2>4, <3>1, FinishRow DEF Terminal
    <3> HIDE DEF g
    <3>3. g \in Row
      BY <3>2 DEF RowInv
    <3>4. SameStory(g, [g EXCEPT !.escalation = "armed"])
      BY <3>3 DEF SameStory, Row
    <3>5. [g EXCEPT !.escalation = "armed"].engine = g.engine
      BY <3>3 DEF Row
    <3>6. ~Unstarted(g) /\ ~Live(g)
      BY <3>2 DEF Finished, Terminal, Unstarted, Live
    <3> QED
      BY <2>2, <3>2, <3>4, <3>5, <3>6, StoryKept
  <2>6. CASE ~(o.engine \in {"alive", "ending"} /\ o.temper = "foreign")
    <3>1. SameStory(o, g) /\ g.net = o.net
      BY <2>3, <2>6, SignalRow
    <3> HIDE DEF g
    <3> DEFINE q == [g EXCEPT !.escalation = "armed"]
    <3>2. /\ q \in Row /\ q.status = "running" /\ q.order = status /\ q.requested = status
          /\ q.reason = reason /\ q.escalation = "armed" /\ q.net = FALSE
          /\ q.log = r.log /\ q.wrote = r.wrote /\ q.pipe = r.pipe /\ q.tail = r.tail
      BY <1>0, <1>3, <2>1, <2>3, <3>1, ZenonT(60) DEF SameStory, Row, Live
    <3> HIDE DEF q
    <3>3. Live(q) /\ ~Finished(q) /\ ~Unstarted(q)
      BY <3>2 DEF Live, Finished, Unstarted, Terminal
    <3>4. \A c : Got(q, c) = Got(r, c)
      BY <3>2 DEF Got
    <3>5. Bytes(q)
      BY <2>1, <3>2, <3>4 DEF RowInv, Bytes
    <3>6. ToldOnce(q)
      BY <2>1, <3>2, <3>3 DEF ToldOnce
    <3>7. Ordered(q)
      BY <3>2 DEF Ordered
    <3> QED
      BY <2>2, <3>2, <3>3, <3>5, <3>6, <3>7 DEF RowInv, Blank, HeardOut, q
  <2> QED
    BY <2>5, <2>6
<1> QED
  BY <1>1, <1>2, <1>3

(* A line told of one channel: its text joins what was said there. *)
LEMMA EmitRow ==
  ASSUME NEW r \in Row, NEW c \in Channel, NEW text \in Seq(Nat), ~Finished(r),
         NEW q, q = Emit(r, c, text)
  PROVE  /\ q \in Row
         /\ q = [r EXCEPT !.log = q.log]
         /\ \A d : Said(q.log, d) = IF d = c THEN Said(r.log, c) \o text ELSE Said(r.log, d)
         /\ OnlyLines(r.log) => OnlyLines(q.log)
<1> DEFINE e == [event |-> "line", channel |-> c, text |-> text]
<1>1. e \in Entry /\ e.event = "line" /\ e.channel = c /\ e.text = text
  BY DEF Entry, Lines
<1>2. r.log \in Seq(Entry)
  BY DEF Row
<1>3. q = [r EXCEPT !.log = Append(r.log, e)]
  BY DEF Emit
<1>4. Append(r.log, e) \in Seq(Entry)
  BY <1>1, <1>2
<1>5. q.log = Append(r.log, e) /\ q \in Row
  BY <1>3, <1>4 DEF Row
<1>6. ASSUME NEW d
      PROVE  Said(q.log, d) = IF d = c THEN Said(r.log, c) \o text ELSE Said(r.log, d)
  <2> HIDE DEF e
  <2>1. Said(Append(r.log, e), d) = IF e.event = "line" /\ e.channel = d
                         THEN Said(r.log, d) \o e.text ELSE Said(r.log, d)
    BY <1>1, <1>2, SaidOneMore
  <2> QED
    BY <1>1, <1>5, <2>1
<1>7. OnlyLines(r.log) => OnlyLines(q.log)
  <2> HIDE DEF e
  <2>1. \A i \in DOMAIN q.log : (i \in DOMAIN r.log /\ q.log[i] = r.log[i]) \/ q.log[i] = e
    BY <1>2, <1>5
  <2> QED
    BY <1>1, <2>1 DEF OnlyLines
<1> QED
  BY <1>3, <1>5, <1>6, <1>7

(* Joining text to what came before and the next piece to it. *)
LEMMA JoinTail ==
  ASSUME NEW a \in Seq(Nat), NEW b \in Seq(Nat), NEW x \in Nat
  PROVE  /\ a \o b \in Seq(Nat)
         /\ Append(b, x) \in Seq(Nat)
         /\ a \o Append(b, x) = Append(a \o b, x)
         /\ (a \o Append(b, x)) \o <<>> = Append(a \o b, x)
         /\ (a \o b) \o <<>> = a \o b
         /\ a \o <<>> = a
  OBVIOUS

(* The next number after the first n. *)
LEMMA UptoMore ==
  ASSUME NEW n \in Nat
  PROVE  Append(Upto(n), n + 1) = Upto(n + 1)
<1>1. Upto(n) \in Seq(Nat) /\ Len(Upto(n)) = n
  BY DEF Upto
<1> DEFINE a == Append(Upto(n), n + 1)  b == Upto(n + 1)
<1>2. a \in Seq(Nat) /\ Len(a) = n + 1 /\ b \in Seq(Nat) /\ Len(b) = n + 1
  BY <1>1 DEF Upto
<1>3. ASSUME NEW i \in 1..(n + 1) PROVE a[i] = b[i]
  <2>1. CASE i = n + 1
    BY <1>1, <2>1 DEF Upto
  <2>2. CASE i # n + 1
    <3>1. i \in 1..n
      BY <2>2
    <3> QED
      BY <1>1, <3>1 DEF Upto
  <2> QED
    BY <2>1, <2>2
<1> HIDE DEF a, b
<1>4. a = b
  BY <1>2, <1>3, SeqEqual
<1> QED
  BY <1>4 DEF a, b

(* A chunk read: it is the next one, and it goes to a line or to the tail. *)
LEMMA DataRow ==
  ASSUME NEW r, NEW up, RowInv(r, up), NEW c \in Channel, r.pipe[c] # <<>>
  PROVE  RowInv(Pump([r EXCEPT !.pipe[c] = Tail(@)], c, Head(r.pipe[c])), up)
<1> DEFINE chunk == Head(r.pipe[c])
           p == [r EXCEPT !.pipe[c] = Tail(@)]
           text == Append(r.tail[c], chunk.id)
           kept == [p EXCEPT !.tail[c] = IF chunk.whole THEN <<>> ELSE text]
           tails == [r.tail EXCEPT ![c] = IF chunk.whole THEN <<>> ELSE text]
           k == ArmSilence(kept)
           q == Pump(p, c, chunk)
<1>0. r \in Row
  BY DEF RowInv
<1>1. /\ r.pipe[c] \in Seq(Chunk) /\ r.tail[c] \in Seq(Nat) /\ chunk \in Chunk
      /\ Tail(r.pipe[c]) \in Seq(Chunk) /\ r.log \in Seq(Entry)
      /\ r.pipe \in [Channel -> Seq(Chunk)] /\ r.tail \in [Channel -> Seq(Nat)]
  BY <1>0 DEF Row
<1>2. chunk.id \in Nat /\ chunk.whole \in BOOLEAN /\ text \in Seq(Nat)
  BY <1>1 DEF Chunk
<1>3. ~Unstarted(r)
  BY DEF RowInv, Blank
<1>4. /\ p \in Row /\ p.tail = r.tail /\ p.log = r.log /\ p.wrote = r.wrote
      /\ p.pipe = [r.pipe EXCEPT ![c] = Tail(r.pipe[c])]
      /\ p = [r EXCEPT !.pipe = p.pipe]
  BY <1>0, <1>1 DEF Row
<1> HIDE DEF chunk, text
<1>a. tails \in [Channel -> Seq(Nat)] /\ kept = [p EXCEPT !.tail = tails]
  <2>1. tails \in [Channel -> Seq(Nat)]
    BY <1>1, <1>2
  <2>2. kept = [p EXCEPT !.tail = tails]
    BY <1>4 DEF Row
  <2> QED
    BY <2>1, <2>2
<1> HIDE DEF p, kept, tails
<1>b. /\ p.status = r.status /\ p.order = r.order /\ p.requested = r.requested
      /\ p.reason = r.reason /\ p.engine = r.engine /\ p.net = r.net
      /\ p.escalation = r.escalation
  BY <1>0, <1>4 DEF Row
<1>5. /\ kept \in Row /\ kept.log = r.log /\ kept.tail = tails
      /\ kept.pipe = p.pipe
      /\ kept.status = r.status /\ kept.order = r.order /\ kept.requested = r.requested
      /\ kept.reason = r.reason /\ kept.engine = r.engine /\ kept.net = r.net
      /\ kept.escalation = r.escalation /\ kept.wrote = r.wrote
  BY <1>4, <1>a, <1>b DEF Row
<1>6. /\ k \in Row /\ k.log = r.log /\ k.tail = kept.tail /\ k.pipe = kept.pipe
      /\ k.status = r.status /\ k.order = r.order /\ k.requested = r.requested
      /\ k.reason = r.reason /\ k.engine = r.engine /\ k.net = r.net
      /\ k.escalation = r.escalation /\ k.wrote = r.wrote
  <2>1. CASE kept.quiet /\ ~Finished(kept)
    <3>1. k = [kept EXCEPT !.silence = TRUE]
      BY <2>1 DEF ArmSilence
    <3> QED
      BY <1>5, <3>1, ZenonT(60) DEF Row
  <2>2. CASE ~(kept.quiet /\ ~Finished(kept))
    <3>1. k = kept
      BY <2>2 DEF ArmSilence
    <3> QED
      BY <1>5, <3>1
  <2> QED
    BY <2>1, <2>2
<1> HIDE DEF k
<1>7. q = IF chunk.whole THEN Emit(k, c, text) ELSE k
  BY <1>4 DEF Pump, k, kept, text
<1>8. /\ q \in Row /\ q.tail = k.tail /\ q.pipe = k.pipe
      /\ q.status = r.status /\ q.order = r.order /\ q.requested = r.requested
      /\ q.reason = r.reason /\ q.engine = r.engine /\ q.net = r.net
      /\ q.escalation = r.escalation /\ q.wrote = r.wrote
  <2>1. CASE ~chunk.whole \/ Finished(k)
    BY <1>6, <1>7, <2>1 DEF Emit
  <2>2. CASE chunk.whole /\ ~Finished(k)
    <3>0. q = Emit(k, c, text)
      BY <1>7, <2>2
    <3> HIDE DEF q
    <3>1. q \in Row /\ q = [k EXCEPT !.log = q.log]
      BY <1>2, <1>6, <2>2, <3>0, EmitRow
    <3> QED
      BY <1>6, <3>1 DEF Row
  <2> QED
    BY <2>1, <2>2
<1>9. CASE Finished(r)
  <2>1. Finished(k) /\ q = k
    BY <1>6, <1>7, <1>9 DEF Emit, Finished
  <2>2. ToldOnce(q)
    BY <1>6, <1>9, <2>1 DEF RowInv, ToldOnce, Finished
  <2>3. HeardOut(q, up)
    BY <1>6, <1>9, <2>1 DEF RowInv, HeardOut, Finished
  <2> HIDE DEF q
  <2>4. Finished(q) /\ ~Live(q) /\ ~Unstarted(q)
    BY <1>8, <1>9 DEF Finished, Live, Unstarted, Terminal
  <2> QED
    <3>1. RowInv(q, up)
      BY <1>8, <2>2, <2>3, <2>4 DEF RowInv, Blank, Ordered, Bytes
    <3> QED
      BY <3>1 DEF q, p, chunk
<1>10. CASE ~Finished(r)
  <2>0. OnlyLines(r.log)
    BY <1>10 DEF RowInv, ToldOnce
  <2>1. ~Finished(k) /\ ~Finished(q) /\ ~Unstarted(q) /\ ~Finished(r)
    BY <1>3, <1>6, <1>8, <1>10 DEF Finished, Unstarted
  <2>2. /\ OnlyLines(q.log)
        /\ \A d : Said(q.log, d) = IF chunk.whole /\ d = c THEN Said(r.log, c) \o text
                                   ELSE Said(r.log, d)
    <3>1. CASE chunk.whole
      <4>1. q = Emit(k, c, text)
        BY <1>7, <3>1
      <4> HIDE DEF q
      <4> QED
        BY <1>2, <1>6, <2>0, <2>1, <3>1, <4>1, EmitRow, SMTT(30)
    <3>2. CASE ~chunk.whole
      BY <1>6, <1>7, <2>0, <3>2
    <3> QED
      BY <3>1, <3>2
  <2> DEFINE n == Len(Got(r, c))
  <2>3. Said(r.log, c) \in Seq(Nat) /\ Got(r, c) \in Seq(Nat) /\ n \in Nat
    <3>1. [event |-> "finished", status |-> "failed", reason |-> "none"] \in Entry
      BY DEF Entry, Ends, Terminal, Cause
    <3>2. Said(r.log, c) \in Seq(Nat)
      BY <1>1, <3>1, SaidOneMore
    <3>3. Got(r, c) \in Seq(Nat)
      BY <1>1, <3>2, JoinTail DEF Got
    <3> QED
      BY <3>2, <3>3
  <2>4. /\ Got(r, c) = Upto(n)
        /\ \A i \in DOMAIN r.pipe[c] : r.pipe[c][i].id = n + i
        /\ n + Len(r.pipe[c]) = r.wrote[c]
    BY <1>10 DEF RowInv, Bytes
  <2>5. chunk.id = n + 1
    <3>1. 1 \in DOMAIN r.pipe[c] /\ chunk = r.pipe[c][1]
      BY <1>1 DEF chunk
    <3> QED
      BY <2>4, <3>1
  <2>6. Got(q, c) = Append(Got(r, c), chunk.id)
    <3>1. q.tail[c] = IF chunk.whole THEN <<>> ELSE text
      BY <1>1, <1>5, <1>6, <1>8 DEF tails
    <3> DEFINE a == Said(r.log, c)  b == r.tail[c]  x == chunk.id
    <3>4. /\ a \in Seq(Nat) /\ b \in Seq(Nat) /\ x \in Nat
          /\ text = Append(b, x) /\ Got(r, c) = a \o b
      BY <1>1, <1>2, <2>3 DEF text, Got
    <3> HIDE DEF a, b, x
    <3>5. /\ a \o Append(b, x) = Append(a \o b, x)
          /\ (a \o Append(b, x)) \o <<>> = Append(a \o b, x)
      BY <3>4, JoinTail
    <3>2. CASE chunk.whole
      <4>1. Got(q, c) = (a \o text) \o <<>>
        BY <2>2, <3>1, <3>2 DEF Got, a
      <4> QED
        BY <3>4, <3>5, <4>1 DEF x
    <3>3. CASE ~chunk.whole
      <4>1. Got(q, c) = a \o text
        BY <2>2, <3>1, <3>3 DEF Got, a
      <4> QED
        BY <3>4, <3>5, <4>1 DEF x
    <3> QED
      BY <3>2, <3>3
  <2>7. Got(q, c) = Upto(n + 1) /\ Len(Got(q, c)) = n + 1
    <3>1. Got(q, c) = Upto(n + 1)
      BY <2>3, <2>4, <2>5, <2>6, UptoMore
    <3>2. Len(Append(Got(r, c), chunk.id)) = n + 1
      BY <1>2, <2>3
    <3> QED
      BY <2>6, <3>1, <3>2
  <2> HIDE DEF n, q
  <2>8. ASSUME NEW d \in Channel
        PROVE  /\ Got(q, d) = Upto(Len(Got(q, d)))
               /\ \A i \in DOMAIN q.pipe[d] : q.pipe[d][i].id = Len(Got(q, d)) + i
               /\ Len(Got(q, d)) + Len(q.pipe[d]) = q.wrote[d]
    <3>1. CASE d = c
      <4>1. q.pipe[c] = Tail(r.pipe[c])
        BY <1>1, <1>4, <1>5, <1>6, <1>8
      <4>2. Len(Tail(r.pipe[c])) = Len(r.pipe[c]) - 1 /\ Len(r.pipe[c]) \in Nat
        BY <1>1
      <4>3. ASSUME NEW i \in DOMAIN Tail(r.pipe[c])
            PROVE  Tail(r.pipe[c])[i].id = (n + 1) + i
        <5>1. i \in 1..Len(Tail(r.pipe[c])) /\ i \in Nat
          BY <1>1
        <5>2. i + 1 \in 1..Len(r.pipe[c]) /\ i + 1 \in DOMAIN r.pipe[c]
          BY <1>1, <4>2, <5>1
        <5>3. Tail(r.pipe[c])[i] = r.pipe[c][i + 1]
          BY <1>1, <5>1, HeadTailProperties
        <5>4. r.pipe[c][i + 1].id = n + (i + 1)
          BY <2>4, <5>2
        <5> QED
          BY <2>3, <5>1, <5>3, <5>4
      <4>4. Len(Got(q, c)) + Len(q.pipe[c]) = q.wrote[c]
        <5>1. Len(q.pipe[c]) = Len(r.pipe[c]) - 1 /\ Len(r.pipe[c]) \in Nat
          BY <4>1, <4>2
        <5>2. q.wrote[c] = n + Len(r.pipe[c]) /\ Len(Got(q, c)) = n + 1
          BY <1>8, <2>4, <2>7
        <5> DEFINE x == Len(Got(q, c))  y == Len(q.pipe[c])  z == Len(r.pipe[c])  w == q.wrote[c]
        <5>3. y = z - 1 /\ z \in Nat /\ w = n + z /\ x = n + 1 /\ n \in Nat
          BY <2>3, <5>1, <5>2
        <5> HIDE DEF x, y, z, w
        <5>4. x + y = w
          BY <5>3
        <5> QED
          BY <5>4 DEF x, y, w
      <4>5. \A i \in DOMAIN q.pipe[c] : q.pipe[c][i].id = Len(Got(q, c)) + i
        BY <2>7, <4>1, <4>3
      <4> QED
        BY <2>7, <3>1, <4>4, <4>5
    <3>2. CASE d # c
      <4>1. q.pipe[d] = r.pipe[d] /\ q.tail[d] = r.tail[d]
        BY <1>1, <1>4, <1>5, <1>6, <1>8, <3>2 DEF tails
      <4>2. Got(q, d) = Got(r, d)
        BY <2>2, <3>2, <4>1 DEF Got
      <4> QED
        BY <1>8, <1>10, <4>1, <4>2 DEF RowInv, Bytes
    <3> QED
      BY <3>1, <3>2
  <2>9. Bytes(q)
    BY <2>8 DEF Bytes
  <2>10. ToldOnce(q)
    BY <2>1, <2>2 DEF ToldOnce
  <2>11. Ordered(q)
    BY <1>8 DEF RowInv, Ordered, Live
  <2> QED
    <3>1. RowInv(q, up)
      BY <1>8, <2>1, <2>9, <2>10, <2>11 DEF RowInv, Blank, HeardOut
    <3> QED
      BY <3>1 DEF q, p, chunk
<1> QED
  BY <1>9, <1>10

-----------------------------------------------------------------------------
(* The leftovers, told channel by channel. *)

\* The first n channels have been flushed, and nothing was lost.
Flushed(r, q, n) ==
    /\ q \in Row
    /\ q.status = r.status /\ q.order = r.order /\ q.requested = r.requested
    /\ q.reason = r.reason /\ q.engine = r.engine /\ q.wrote = r.wrote
    /\ OnlyLines(q.log)
    /\ \A c \in Channel : Got(q, c) = Got(r, c)
    /\ \A i \in 1..n : q.tail[Channels[i]] = <<>>

LEMMA FlushOne ==
  ASSUME NEW r, NEW q, NEW n \in Nat, Flushed(r, q, n), ~Finished(r), n + 1 \in DOMAIN Channels
  PROVE  Flushed(r, Flush(q, Channels[n + 1]), n + 1)
<1> DEFINE c == Channels[n + 1]
           p == [q EXCEPT !.tail[c] = <<>>]
           f == Flush(q, c)
<1>0. q \in Row /\ c \in Channel /\ ~Finished(q) /\ OnlyLines(q.log)
  BY DEF Flushed, Channel, Finished
<1>1. q.tail \in [Channel -> Seq(Nat)] /\ q.log \in Seq(Entry)
  BY <1>0 DEF Row
<1> HIDE DEF c
<1>2. CASE q.tail[c] = <<>>
  <2>1. f = q
    BY <1>2 DEF Flush
  <2>2. ASSUME NEW i \in 1..(n + 1) PROVE q.tail[Channels[i]] = <<>>
    <3>1. CASE i = n + 1
      BY <1>2, <3>1 DEF c
    <3>2. CASE i # n + 1
      <4>1. i \in 1..n
        BY <3>2
      <4> QED
        BY <4>1 DEF Flushed
    <3> QED
      BY <3>1, <3>2
  <2> QED
    BY <2>1, <2>2 DEF Flushed, c
<1>3. CASE q.tail[c] # <<>>
  <2> DEFINE tails == [q.tail EXCEPT ![c] = <<>>]
  <2>1. tails \in [Channel -> Seq(Nat)] /\ q.tail[c] \in Seq(Nat)
    BY <1>0, <1>1
  <2>2. p = [q EXCEPT !.tail = tails]
    BY <1>0 DEF Row
  <2>a. /\ tails[c] = <<>>
        /\ \A d \in Channel : d # c => tails[d] = q.tail[d]
    BY <1>0, <1>1
  <2> HIDE DEF tails, p
  <2>3. /\ p \in Row /\ p.tail = tails /\ p.log = q.log /\ p.status = q.status
        /\ p.order = q.order /\ p.requested = q.requested /\ p.reason = q.reason
        /\ p.engine = q.engine /\ p.wrote = q.wrote
    BY <1>0, <2>1, <2>2 DEF Row
  <2>4. f = Emit(p, c, q.tail[c])
    BY <1>3 DEF Flush, p
  <2> HIDE DEF f
  <2>5. ~Finished(p)
    BY <1>0, <2>3 DEF Finished
  <2>6. /\ f \in Row /\ f = [p EXCEPT !.log = f.log]
        /\ \A d : Said(f.log, d) = IF d = c THEN Said(p.log, c) \o q.tail[c] ELSE Said(p.log, d)
        /\ OnlyLines(p.log) => OnlyLines(f.log)
    <3> DEFINE text == q.tail[c]
    <3>1. text \in Seq(Nat) /\ f = Emit(p, c, text) /\ p \in Row
      BY <2>1, <2>3, <2>4
    <3> HIDE DEF text
    <3>2. /\ f \in Row /\ f = [p EXCEPT !.log = f.log]
          /\ \A d : Said(f.log, d) = IF d = c THEN Said(p.log, c) \o text ELSE Said(p.log, d)
          /\ OnlyLines(p.log) => OnlyLines(f.log)
      BY <1>0, <2>5, <3>1, EmitRow
    <3> QED
      BY <3>2 DEF text
  <2>7. /\ f.tail = tails /\ f.status = q.status
        /\ f.order = q.order /\ f.requested = q.requested /\ f.reason = q.reason
        /\ f.engine = q.engine /\ f.wrote = q.wrote
    BY <2>3, <2>6 DEF Row
  <2>8. ASSUME NEW d \in Channel PROVE Got(f, d) = Got(q, d)
    <3>1. CASE d = c
      <4> DEFINE a == Said(q.log, c)  b == q.tail[c]
      <4>1. a \in Seq(Nat)
        <5>1. [event |-> "finished", status |-> "failed", reason |-> "none"] \in Entry
          BY DEF Entry, Ends, Terminal, Cause
        <5> QED
          BY <1>1, <5>1, SaidOneMore
      <4>2. b \in Seq(Nat)
        BY <2>1
      <4>3. Got(f, c) = (a \o b) \o <<>> /\ Got(q, c) = a \o b
        BY <2>3, <2>6, <2>7, <2>a DEF Got
      <4> HIDE DEF a, b
      <4>4. (a \o b) \o <<>> = a \o b
        BY <4>1, <4>2, JoinTail
      <4> QED
        BY <3>1, <4>3, <4>4
    <3>2. CASE d # c
      BY <2>3, <2>6, <2>7, <2>a, <3>2 DEF Got
    <3> QED
      BY <3>1, <3>2
  <2>9. ASSUME NEW i \in 1..(n + 1) PROVE f.tail[Channels[i]] = <<>>
    <3>1. CASE Channels[i] = c
      BY <2>7, <2>a, <3>1
    <3>2. CASE Channels[i] # c
      <4>1. i \in 1..n /\ i \in DOMAIN Channels
        <5>1. i # n + 1
          BY <3>2 DEF c
        <5>2. Channels \in Seq(Channel)
          BY SessionProcessAssumption
        <5> QED
          BY <5>1, <5>2
      <4>2. Channels[i] \in Channel /\ q.tail[Channels[i]] = <<>>
        BY <4>1 DEF Flushed, Channel
      <4> QED
        BY <2>7, <2>a, <3>2, <4>2
    <3> QED
      BY <3>1, <3>2
  <2>10. Flushed(r, f, n + 1)
    BY <1>0, <2>3, <2>6, <2>7, <2>8, <2>9 DEF Flushed
  <2> QED
    BY <2>10 DEF f, c
<1> QED
  BY <1>2, <1>3

(* Once drained, every byte that was read has been told. *)
LEMMA DrainRow ==
  ASSUME NEW r \in Row, ~Finished(r), OnlyLines(r.log)
  PROVE  Flushed(r, Drain(r), Len(Channels))
<1> DEFINE N == Len(Channels)
           S == Row
           G == [k \in 0..N |-> [q \in S |->
                   IF k \in 1..N /\ Flush(q, Channels[k]) \in S
                   THEN Flush(q, Channels[k]) ELSE r]]
           Eq(f) == f = [k \in 0..N |-> IF k = 0 THEN r ELSE Flush(f[k - 1], Channels[k])]
           drained == CHOOSE f : Eq(f)
<1>0. N \in Nat /\ Channels \in Seq(Channel) /\ DOMAIN Channels = 1..N
  BY SessionProcessAssumption
<1>1. Drain(r) = drained[N]
  BY DEF Drain
<1> HIDE DEF N
<1>2. PICK f : Unrolls(f, N, S, r, G)
  <2>1. G \in Steps(N, S)
    BY DEF Steps
  <2> HIDE DEF G, S
  <2>2. r \in S
    BY DEF S
  <2> QED
    BY <1>0, <2>1, <2>2, Unrolled
<1>3. f \in [0..N -> Row] /\ f[0] = r
  <2>1. 0 \in 0..N
    BY <1>0
  <2> QED
    BY <1>2, <2>1 DEF Unrolls
<1>4. ASSUME NEW n \in 0..N, n # N, Flushed(r, f[n], n)
      PROVE  Flushed(r, f[n + 1], n + 1) /\ f[n + 1] = Flush(f[n], Channels[n + 1])
  <2>1. /\ n \in Nat /\ n + 1 \in 0..N /\ n + 1 # 0 /\ (n + 1) - 1 = n /\ n + 1 \in 1..N
        /\ n + 1 \in DOMAIN Channels
    BY <1>0, <1>4
  <2>2. Flushed(r, Flush(f[n], Channels[n + 1]), n + 1)
    BY <1>4, <2>1, FlushOne
  <2>3. f[n + 1] = G[n + 1][f[n]] /\ f[n] \in Row
    BY <1>2, <1>3, <2>1 DEF Unrolls
  <2>4. Flush(f[n], Channels[n + 1]) \in Row
    BY <2>2 DEF Flushed
  <2>5. f[n + 1] = Flush(f[n], Channels[n + 1])
    <3> HIDE DEF Row
    <3> QED
      BY <2>1, <2>3, <2>4
  <2> QED
    BY <2>2, <2>5
<1>5. \A n \in 0..N : Flushed(r, f[n], n)
  <2> DEFINE T == {n \in 0..N : Flushed(r, f[n], n)}
  <2>1. 0 \in T
    BY <1>0, <1>3 DEF Flushed
  <2>2. ASSUME NEW n \in 0..N, n # N, n \in T PROVE n + 1 \in T
    <3>1. n + 1 \in 0..N /\ Flushed(r, f[n], n)
      BY <1>0, <2>2
    <3> QED
      BY <1>4, <2>2, <3>1
  <2> HIDE DEF T
  <2>3. \A n \in 0..N : n \in T
    BY <1>0, <2>1, <2>2, CountUp
  <2> QED
    BY <2>3 DEF T
<1>6. Eq(f)
  <2>1. ASSUME NEW k \in 0..N PROVE f[k] = IF k = 0 THEN r ELSE Flush(f[k - 1], Channels[k])
    <3>1. CASE k = 0
      BY <1>3, <3>1
    <3>2. CASE k # 0
      <4>1. k - 1 \in 0..N /\ k - 1 # N /\ (k - 1) + 1 = k
        BY <1>0, <3>2
      <4> QED
        BY <1>4, <1>5, <3>2, <4>1
    <3> QED
      BY <3>1, <3>2
  <2>2. f = [k \in 0..N |-> f[k]]
    BY <1>3
  <2> QED
    BY <2>1, <2>2
<1>7. Eq(drained)
  <2> HIDE DEF Eq
  <2> QED
    BY <1>6
<1> HIDE DEF drained, G, S
<1>8. \A k \in 0..N : drained[k] = f[k]
  <2> DEFINE T == {k \in 0..N : drained[k] = f[k]}
  <2>1. 0 \in T
    BY <1>0, <1>3, <1>7
  <2>2. ASSUME NEW k \in 0..N, k # N, k \in T PROVE k + 1 \in T
    <3>1. k + 1 \in 0..N /\ k + 1 # 0 /\ (k + 1) - 1 = k /\ drained[k] = f[k]
      BY <1>0, <2>2
    <3>2. drained[k + 1] = Flush(drained[k], Channels[k + 1])
      BY <1>7, <3>1
    <3>3. f[k + 1] = Flush(f[k], Channels[k + 1])
      BY <1>4, <1>5, <2>2
    <3>4. drained[k + 1] = f[k + 1]
      BY <3>1, <3>2, <3>3
    <3> QED
      BY <3>1, <3>4
  <2> HIDE DEF T
  <2>3. \A k \in 0..N : k \in T
    BY <1>0, <2>1, <2>2, CountUp
  <2> QED
    BY <2>3 DEF T
<1>9. N \in 0..N
  BY <1>0
<1> QED
  BY <1>1, <1>5, <1>8, <1>9 DEF N

(* 'close': the leftovers told, the end is told. *)
LEMMA CompleteRow ==
  ASSUME NEW r, NEW up, RowInv(r, up), Live(r), r.engine = "dead",
         \A c \in Channel : r.pipe[c] = <<>>
  PROVE  RowInv(Complete(r), up)
<1> DEFINE q == Drain(r)
           natural == IF r.code = 0 THEN "completed" ELSE "failed"
           status == IF r.requested = "none" THEN natural ELSE r.requested
<1>1. r \in Row /\ ~Finished(r) /\ OnlyLines(r.log)
  BY DEF RowInv, ToldOnce, Live, Finished, Terminal
<1>2. Flushed(r, q, Len(Channels))
  BY <1>1, DrainRow
<1>3. Complete(r) = Finish(q, status)
  BY DEF Complete
<1> HIDE DEF q
<1>4. /\ q \in Row /\ Live(q) /\ OnlyLines(q.log)
      /\ q.order = r.order /\ q.reason = r.reason /\ q.engine = "dead" /\ q.wrote = r.wrote
  BY <1>2 DEF Flushed, Live
<1>5. status \in Terminal
  BY <1>1 DEF Row, Order, Terminal
<1>6. r.requested = r.order /\ (r.reason # "none" => r.order = "timed_out")
  BY DEF RowInv, Ordered
<1>7. ASSUME NEW c \in Channel PROVE Said(q.log, c) = Upto(q.wrote[c])
  <2>1. q.tail[c] = <<>>
    <3>1. PICK i \in DOMAIN Channels : c = Channels[i]
      BY DEF Channel
    <3>2. i \in 1..Len(Channels)
      BY SessionProcessAssumption, <3>1
    <3> QED
      BY <1>2, <3>1, <3>2 DEF Flushed
  <2>2. Said(q.log, c) \in Seq(Nat)
    <3>1. [event |-> "finished", status |-> "failed", reason |-> "none"] \in Entry
      BY DEF Entry, Ends, Terminal, Cause
    <3>2. q.log \in Seq(Entry)
      BY <1>4 DEF Row
    <3> QED
      BY <3>1, <3>2, SaidOneMore
  <2>3. Got(q, c) = Said(q.log, c)
    BY <2>1, <2>2, JoinTail DEF Got
  <2>4. Got(r, c) = Said(q.log, c)
    BY <1>2, <2>3 DEF Flushed
  <2>5. Got(r, c) = Upto(Len(Got(r, c))) /\ Len(Got(r, c)) + Len(r.pipe[c]) = r.wrote[c]
    BY <1>1 DEF RowInv, Bytes
  <2>6. Len(r.pipe[c]) = 0
    OBVIOUS
  <2>7. Len(Got(r, c)) = r.wrote[c]
    BY <2>2, <2>4, <2>5, <2>6
  <2> QED
    BY <1>4, <2>4, <2>5, <2>7
<1> HIDE DEF status
<1>8. q.order # "none" => status = q.order
  BY <1>4, <1>6 DEF status
<1>9. RowInv(Finish(q, status), up)
  BY <1>4, <1>5, <1>6, <1>7, <1>8, FinishRow
<1> QED
  BY <1>3, <1>9

(* The end of a session somebody ordered, by the safety net or a refused kill. *)
LEMMA OrderedEnd ==
  ASSUME NEW r, NEW up, RowInv(r, up), NEW status \in Terminal,
         Live(r) => IF r.order = "none" THEN ~up ELSE status = r.order
  PROVE  RowInv(Finish(r, status), up)
<1>1. CASE ~Live(r)
  BY <1>1 DEF Finish
<1>2. CASE Live(r)
  <2>1. r \in Row /\ OnlyLines(r.log) /\ (r.reason # "none" => r.order = "timed_out")
    BY <1>2 DEF RowInv, ToldOnce, Ordered, Live, Finished, Terminal
  <2> QED
    BY <1>2, <2>1, FinishRow
<1> QED
  BY <1>1, <1>2

(* start() and 'spawn': from a blank row to one that waits, is refused or runs. *)
LEMMA StartedRow ==
  ASSUME NEW r, NEW up, RowInv(r, up), Unstarted(r), NEW q \in Row,
         q.status \in {"pending", "rejected", "running"},
         q.log = r.log, q.order = r.order, q.requested = r.requested, q.reason = r.reason,
         q.wrote = r.wrote, q.pipe = r.pipe, q.tail = r.tail,
         q.escalation = r.escalation, q.net = r.net,
         q.status # "running" => q.engine = r.engine
  PROVE  RowInv(q, up)
<1>1. ~Finished(r) /\ ~Finished(q)
  BY DEF Unstarted, Finished, Terminal
<1>2. \A c : Got(q, c) = Got(r, c)
  BY DEF Got
<1>3. Bytes(q)
  BY <1>1, <1>2 DEF RowInv, Bytes
<1>4. ToldOnce(q)
  BY <1>1 DEF RowInv, ToldOnce
<1>5. Blank(q)
  BY DEF RowInv, Blank, Unstarted
<1>6. Ordered(q)
  BY DEF RowInv, Blank, Ordered
<1> QED
  BY <1>1, <1>3, <1>4, <1>5, <1>6 DEF RowInv, HeardOut

(* 'spawn'. *)
LEMMA UpRow ==
  ASSUME NEW r, NEW up, RowInv(r, up), r.status = "pending"
  PROVE  RowInv(Up(r), up)
<1> DEFINE p == [r EXCEPT !.status = "running", !.engine = "alive", !.backstop = TRUE,
                          !.clock = r.limit, !.helper = r.temper = "leaky"]
<1>0. r \in Row /\ Unstarted(r)
  BY DEF RowInv, Unstarted
<1>1. (r.temper = "leaky") \in BOOLEAN
  OBVIOUS
<1>2. /\ p \in Row /\ p.status = "running"
      /\ p.log = r.log /\ p.order = r.order /\ p.requested = r.requested
      /\ p.reason = r.reason /\ p.wrote = r.wrote /\ p.pipe = r.pipe /\ p.tail = r.tail
      /\ p.escalation = r.escalation /\ p.net = r.net
  BY <1>0, ZenonT(60) DEF Row
<1>3. Up(r) = ArmSilence(p)
  BY DEF Up
<1> HIDE DEF p
<1>4. RowInv(p, up)
  BY <1>0, <1>2, StartedRow
<1>5. CASE p.quiet /\ ~Finished(p)
  <2> DEFINE q == [p EXCEPT !.silence = TRUE]
  <2>1. /\ SameStory(p, q) /\ q.engine = p.engine /\ q.escalation = p.escalation
        /\ q.net = p.net
    BY <1>2 DEF SameStory, Row
  <2>2. ~Unstarted(p) /\ (p.net => p.order # "none")
    BY <1>2, <1>4 DEF Unstarted, RowInv, Ordered, Live
  <2> HIDE DEF q
  <2>3. RowInv(q, up)
    BY <1>2, <1>4, <2>1, <2>2, StoryKept DEF SameStory
  <2> QED
    BY <1>3, <1>5, <2>3 DEF ArmSilence, q
<1>6. CASE ~(p.quiet /\ ~Finished(p))
  BY <1>3, <1>4, <1>6 DEF ArmSilence
<1> QED
  BY <1>5, <1>6

(* The grace is over. *)
LEMMA EscalateRow ==
  ASSUME NEW r, NEW up, RowInv(r, up), r.escalation = "armed"
  PROVE  RowInv([Signal(r, "SIGKILL") EXCEPT !.escalation = "fired", !.net = TRUE], up)
<1> DEFINE g == Signal(r, "SIGKILL")
           q == [g EXCEPT !.escalation = "fired", !.net = TRUE]
<1>0. r \in Row /\ ~Unstarted(r)
  BY DEF RowInv, Blank
<1>1. Live(r) => r.order # "none" /\ r.requested = r.order
  BY DEF RowInv, Ordered
<1>2. RowInv(g, up) /\ (Live(g) => g.escalation = "armed" /\ g.order # "none") /\ ~Unstarted(g)
  <2>1. CASE r.engine \in {"alive", "ending"} /\ r.temper = "foreign"
    <3> DEFINE status == IF r.requested = "none" THEN "failed" ELSE r.requested
    <3>1. g = Finish(r, status)
      BY <1>0, <2>1, SignalRefused
    <3>2. status \in Terminal
      BY <1>0 DEF Row, Order, Terminal
    <3>3. Live(r) => status = r.order /\ r.order # "none"
      BY <1>1
    <3> HIDE DEF status, g
    <3>4. RowInv(g, up)
      BY <3>1, <3>2, <3>3, OrderedEnd
    <3>5. ~Live(g) /\ ~Unstarted(g)
      BY <1>0, <3>1, <3>2 DEF Finish, Live, Unstarted, Row, Terminal
    <3> QED
      BY <3>4, <3>5
  <2>2. CASE ~(r.engine \in {"alive", "ending"} /\ r.temper = "foreign")
    <3>1. /\ SameStory(r, g) /\ g.escalation = r.escalation /\ g.net = r.net
          /\ r.engine \in {"none", "dead"} => g.engine = r.engine
      BY <1>0, <2>2, SignalRow
    <3> HIDE DEF g
    <3>2. RowInv(g, up)
      <4>1. Live(r) /\ r.net => g.order # "none"
        BY <1>1, <3>1 DEF SameStory
      <4> QED
        BY <1>0, <3>1, <4>1, StoryKept
    <3> QED
      BY <1>0, <1>1, <3>1, <3>2 DEF SameStory, Live, Unstarted
  <2> QED
    BY <2>1, <2>2
<1> HIDE DEF g
<1>3. g \in Row
  BY <1>2 DEF RowInv
<1>4. /\ SameStory(g, q) /\ q.engine = g.engine /\ q.escalation = "fired"
      /\ q.order = g.order
  BY <1>3 DEF SameStory, Row
<1> HIDE DEF q
<1>5. RowInv(q, up)
  BY <1>2, <1>4, StoryKept
<1> QED
  BY <1>5 DEF q, g

(* A chunk written. *)
LEMMA WriteRow ==
  ASSUME NEW r, NEW up, up, RowInv(r, up), NEW c \in Channel,
         r.engine \in {"alive", "ending"}, NEW whole \in BOOLEAN
  PROVE  RowInv([r EXCEPT !.wrote[c] = @ + 1,
                          !.pipe[c] = Append(@, [id |-> r.wrote[c] + 1, whole |-> whole])], up)
<1> DEFINE chunk == [id |-> r.wrote[c] + 1, whole |-> whole]
           wrote == [r.wrote EXCEPT ![c] = r.wrote[c] + 1]
           pipe == [r.pipe EXCEPT ![c] = Append(r.pipe[c], chunk)]
           q == [r EXCEPT !.wrote[c] = @ + 1, !.pipe[c] = Append(@, chunk)]
<1>0. r \in Row /\ ~Unstarted(r) /\ ~(Finished(r) /\ r.order = "none")
  BY DEF RowInv, Blank, HeardOut
<1>1. /\ r.wrote \in [Channel -> Nat] /\ r.pipe \in [Channel -> Seq(Chunk)]
      /\ r.wrote[c] \in Nat /\ r.pipe[c] \in Seq(Chunk)
  BY <1>0 DEF Row
<1>2. chunk \in Chunk /\ chunk.id = r.wrote[c] + 1
  BY <1>1 DEF Chunk
<1>3. wrote \in [Channel -> Nat] /\ wrote[c] = r.wrote[c] + 1
      /\ \A d \in Channel : d # c => wrote[d] = r.wrote[d]
  BY <1>1
<1> HIDE DEF chunk
<1>4. pipe \in [Channel -> Seq(Chunk)] /\ pipe[c] = Append(r.pipe[c], chunk)
      /\ \A d \in Channel : d # c => pipe[d] = r.pipe[d]
  BY <1>1, <1>2
<1>5. q = [r EXCEPT !.wrote = wrote, !.pipe = pipe]
  BY <1>0 DEF Row
<1> HIDE DEF wrote, pipe, q
<1>6. /\ q \in Row /\ q.wrote = wrote /\ q.pipe = pipe /\ q.status = r.status
      /\ q.log = r.log /\ q.tail = r.tail /\ q.order = r.order /\ q.requested = r.requested
      /\ q.reason = r.reason /\ q.escalation = r.escalation /\ q.net = r.net
  BY <1>0, <1>3, <1>4, <1>5 DEF Row
<1>7. \A d : Got(q, d) = Got(r, d)
  BY <1>6 DEF Got
<1>8. ASSUME NEW d \in Channel, ~Finished(r)
      PROVE  /\ Got(r, d) = Upto(Len(Got(r, d)))
             /\ \A i \in DOMAIN q.pipe[d] : q.pipe[d][i].id = Len(Got(r, d)) + i
             /\ Len(Got(r, d)) + Len(q.pipe[d]) = q.wrote[d]
  <2>1. /\ Got(r, d) = Upto(Len(Got(r, d)))
        /\ \A i \in DOMAIN r.pipe[d] : r.pipe[d][i].id = Len(Got(r, d)) + i
        /\ Len(Got(r, d)) + Len(r.pipe[d]) = r.wrote[d]
    BY <1>8 DEF RowInv, Bytes
  <2>2. CASE d # c
    BY <1>3, <1>4, <1>6, <2>1, <2>2
  <2>3. CASE d = c
    <3> DEFINE n == Len(Got(r, c))  old == r.pipe[c]  new == Append(old, chunk)  w == r.wrote[c]
    <3>1. n \in Nat
      <4>1. Said(r.log, c) \in Seq(Nat)
        <5>1. [event |-> "finished", status |-> "failed", reason |-> "none"] \in Entry
          BY DEF Entry, Ends, Terminal, Cause
        <5>2. r.log \in Seq(Entry)
          BY <1>0 DEF Row
        <5> QED
          BY <5>1, <5>2, SaidOneMore
      <4>2. r.tail[c] \in Seq(Nat)
        BY <1>0 DEF Row
      <4>3. Got(r, c) \in Seq(Nat)
        BY <4>1, <4>2, JoinTail DEF Got
      <4> QED
        BY <4>3
    <3>2. /\ old \in Seq(Chunk) /\ w \in Nat /\ n + Len(old) = w
          /\ \A i \in DOMAIN old : old[i].id = n + i
      BY <1>1, <2>1, <2>3
    <3>3. q.pipe[d] = new /\ q.wrote[d] = w + 1 /\ chunk.id = w + 1
      BY <1>2, <1>3, <1>4, <1>6, <2>3
    <3> HIDE DEF n, old, w
    <3>4. /\ Len(new) = Len(old) + 1 /\ Len(old) \in Nat /\ DOMAIN new = 1..(Len(old) + 1)
          /\ new[Len(old) + 1] = chunk
          /\ \A i \in 1..Len(old) : new[i] = old[i] /\ i \in DOMAIN old
      BY <1>2, <3>2
    <3>5. ASSUME NEW i \in DOMAIN new PROVE new[i].id = n + i
      <4>1. CASE i = Len(old) + 1
        <5> DEFINE m == Len(old)
        <5>1. new[i] = chunk /\ i = m + 1 /\ m \in Nat /\ n + m = w /\ chunk.id = w + 1
          BY <3>2, <3>3, <3>4, <4>1
        <5> HIDE DEF m, new
        <5>2. n + i = w + 1
          BY <3>1, <5>1
        <5> QED
          BY <5>1, <5>2
      <4>2. CASE i # Len(old) + 1
        <5>1. i \in 1..Len(old)
          BY <3>4, <4>2
        <5> QED
          BY <3>2, <3>4, <5>1
      <4> QED
        BY <4>1, <4>2
    <3>6. n + Len(new) = w + 1
      BY <3>1, <3>2, <3>4
    <3> HIDE DEF new
    <3> QED
      BY <2>1, <2>3, <3>3, <3>5, <3>6 DEF n
  <2> QED
    BY <2>2, <2>3
<1>9. Bytes(q)
  BY <1>6, <1>7, <1>8 DEF Bytes, Finished
<1>10. Blank(q) /\ ToldOnce(q) /\ Ordered(q) /\ HeardOut(q, up)
  BY <1>0, <1>6 DEF RowInv, Blank, Unstarted, ToldOnce, Ordered, HeardOut, Finished, Live
<1>11. RowInv(q, up)
  BY <1>6, <1>9, <1>10 DEF RowInv
<1> QED
  BY <1>11 DEF q, chunk

(* With the runner gone nobody asks what was heard. *)
LEMMA RunnerGone ==
  ASSUME NEW r, NEW up, RowInv(r, up)
  PROVE  RowInv(r, FALSE)
BY DEF RowInv, HeardOut

(* The exit handlers' SIGTERM. *)
LEMMA BackstopRow ==
  ASSUME NEW r, NEW up, RowInv(r, up)
  PROVE  RowInv(Signal(r, "SIGTERM"), FALSE)
<1> DEFINE g == Signal(r, "SIGTERM")
<1>0. r \in Row /\ RowInv(r, FALSE)
  BY RunnerGone DEF RowInv
<1>1. CASE r.engine \in {"alive", "ending"} /\ r.temper = "foreign"
  <2> DEFINE status == IF r.requested = "none" THEN "failed" ELSE r.requested
  <2>1. g = Finish(r, status)
    BY <1>0, <1>1, SignalRefused
  <2>2. status \in Terminal
    BY <1>0 DEF Row, Order, Terminal
  <2>3. Live(r) /\ r.order # "none" => status = r.order
    BY DEF RowInv, Ordered
  <2> HIDE DEF status
  <2> QED
    BY <1>0, <2>1, <2>2, <2>3, OrderedEnd
<1>2. CASE ~(r.engine \in {"alive", "ending"} /\ r.temper = "foreign")
  <2>1. /\ SameStory(r, g) /\ g.escalation = r.escalation /\ g.net = r.net
        /\ r.engine \in {"none", "dead"} => g.engine = r.engine
    BY <1>0, <1>2, SignalRow
  <2> HIDE DEF g
  <2>2. /\ Unstarted(r) => g.engine = "none" /\ g.escalation = "off" /\ ~g.net
        /\ Live(r) /\ g.net => g.order # "none"
    BY <2>1 DEF RowInv, Blank, Ordered, SameStory
  <2>3. RowInv(g, FALSE)
    BY <1>0, <2>1, <2>2, StoryKept
  <2> QED
    BY <2>3 DEF g
<1> QED
  BY <1>1, <1>2

-----------------------------------------------------------------------------
(* The invariant of the sessions, and what it says of their listeners. *)

(* A row that becomes a good one; a handle nobody has is no row. *)
LEMMA BecomesGood ==
  ASSUME SessionInv, NEW s, NEW q, Becomes(s, q),
         s \in Session => RowInv(q, runner = "up")
  PROVE  SessionInv'
<1>1. session' = [session EXCEPT ![s] = q] /\ runner' = runner
  BY DEF Becomes
<1>2. s \in Session => q \in Row
  BY DEF RowInv
<1>3. session' \in [Session -> Row]
  BY <1>1, <1>2 DEF SessionInv
<1>4. ASSUME NEW t \in Session PROVE RowInv(session'[t], runner = "up")
  <2>1. CASE t = s
    <3>1. session'[t] = q
      BY <1>1, <2>1 DEF SessionInv
    <3> QED
      BY <2>1, <3>1
  <2>2. CASE t # s
    <3>1. session'[t] = session[t]
      BY <1>1, <2>2 DEF SessionInv
    <3> QED
      BY <3>1 DEF SessionInv
  <2> QED
    BY <2>1, <2>2
<1> QED
  BY <1>1, <1>3, <1>4 DEF SessionInv

(* Nothing is told to a session by a step of the loop alone. *)
LEMMA NothingMoves ==
  ASSUME SessionInv, UNCHANGED <<session, runner>>
  PROVE  SessionInv'
BY DEF SessionInv

LEMMA CancelledRow ==
  ASSUME NEW r, NEW up, RowInv(r, up)
  PROVE  RowInv(Cancelled(r), up)
BY StopRow DEF Cancelled, Cause

LEMMA StartKeeps ==
  ASSUME SessionInv, NEW s \in Session, Start(s)
  PROVE  SessionInv'
<1>1. RowInv(session[s], runner = "up") /\ session[s] \in Row /\ session[s].status = "none"
  BY DEF SessionInv, Start
<1> DEFINE r == session[s]
<1>2. CASE Becomes(s, [r EXCEPT !.status = "rejected"])
  <2> DEFINE q == [r EXCEPT !.status = "rejected"]
  <2>1. RowInv(q, runner = "up")
    BY <1>1, StartedRow DEF Row, Unstarted
  <2> QED
    BY <1>2, <2>1, BecomesGood
<1>3. ASSUME NEW limit \in BOOLEAN, NEW quiet \in BOOLEAN, NEW temper \in Temper,
             Becomes(s, [r EXCEPT !.status = "pending", !.temper = temper,
                                  !.limit = limit, !.quiet = quiet])
      PROVE  SessionInv'
  <2> DEFINE q == [r EXCEPT !.status = "pending", !.temper = temper,
                            !.limit = limit, !.quiet = quiet]
  <2>0. temper \in Tempers
    BY SessionProcessAssumption
  <2>1. /\ q \in Row /\ q.status = "pending" /\ q.log = r.log /\ q.order = r.order
        /\ q.requested = r.requested /\ q.reason = r.reason /\ q.wrote = r.wrote
        /\ q.pipe = r.pipe /\ q.tail = r.tail /\ q.escalation = r.escalation
        /\ q.net = r.net /\ q.engine = r.engine
    BY <1>1, <2>0 DEF Row
  <2>2. Unstarted(r)
    BY <1>1 DEF Unstarted
  <2> HIDE DEF q
  <2>3. RowInv(q, runner = "up")
    BY <1>1, <2>1, <2>2, StartedRow
  <2> QED
    BY <1>3, <2>3, BecomesGood DEF q
<1> QED
  BY <1>2, <1>3 DEF Start

LEMMA ComeUpKeeps ==
  ASSUME SessionInv, NEW s \in Session, ComeUp(s)
  PROVE  SessionInv'
<1>1. RowInv(session[s], runner = "up") /\ session[s].status = "pending"
  BY DEF SessionInv, ComeUp
<1>2. RowInv(Up(session[s]), runner = "up")
  BY <1>1, UpRow
<1>3. RowInv(Cancelled(Up(session[s])), runner = "up")
  BY <1>2, CancelledRow
<1> QED
  BY <1>2, <1>3, BecomesGood DEF ComeUp

LEMMA CallbackKeeps ==
  ASSUME SessionInv, NEW s \in Session, Callback(s)
  PROVE  SessionInv'
<1> DEFINE r == session[s]  up == runner = "up"
<1>0. RowInv(r, up) /\ r \in Row
  BY DEF SessionInv
<1>1. CASE Close(s)
  <2>1. RowInv(Complete(r), up)
    BY <1>0, <1>1, CompleteRow DEF Close
  <2> QED
    BY <1>1, <2>1, BecomesGood DEF Close
<1>2. CASE WallClock(s)
  <2> DEFINE q == [r EXCEPT !.clock = FALSE]
  <2>1. /\ SameStory(r, q) /\ q.engine = r.engine /\ q.escalation = r.escalation
        /\ q.net = r.net /\ q.order = r.order
    BY <1>0 DEF SameStory, Row
  <2>2. /\ Unstarted(r) => r.engine = "none" /\ r.escalation = "off" /\ ~r.net
        /\ Live(r) /\ r.net => r.order # "none"
    BY <1>0 DEF RowInv, Blank, Ordered
  <2> HIDE DEF q
  <2>3. RowInv(q, up)
    BY <1>0, <2>1, <2>2, StoryKept
  <2>4. RowInv(Stop(q, "timed_out", "wall_clock"), up)
    BY <2>3, StopRow DEF Cause
  <2> QED
    BY <1>2, <2>4, BecomesGood DEF WallClock, q
<1>3. CASE Silence(s)
  <2> DEFINE q == [r EXCEPT !.silence = FALSE]
  <2>1. /\ SameStory(r, q) /\ q.engine = r.engine /\ q.escalation = r.escalation
        /\ q.net = r.net /\ q.order = r.order
    BY <1>0 DEF SameStory, Row
  <2>2. /\ Unstarted(r) => r.engine = "none" /\ r.escalation = "off" /\ ~r.net
        /\ Live(r) /\ r.net => r.order # "none"
    BY <1>0 DEF RowInv, Blank, Ordered
  <2> HIDE DEF q
  <2>3. RowInv(q, up)
    BY <1>0, <2>1, <2>2, StoryKept
  <2>4. RowInv(Stop(q, "timed_out", "silence"), up)
    BY <2>3, StopRow DEF Cause
  <2> QED
    BY <1>3, <2>4, BecomesGood DEF Silence, q
<1>4. CASE Escalate(s)
  <2>1. RowInv([Signal(r, "SIGKILL") EXCEPT !.escalation = "fired", !.net = TRUE], up)
    BY <1>0, <1>4, EscalateRow DEF Escalate
  <2> QED
    BY <1>4, <2>1, BecomesGood DEF Escalate
<1>5. CASE SafetyNet(s)
  <2> DEFINE q == [r EXCEPT !.net = FALSE]
  <2>0. ~Unstarted(r) /\ (Live(r) => r.order # "none" /\ r.requested = r.order)
    BY <1>0, <1>5 DEF SafetyNet, RowInv, Blank, Ordered
  <2>1. /\ SameStory(r, q) /\ q.engine = r.engine /\ q.escalation = r.escalation
        /\ ~q.net /\ q.order = r.order /\ q.requested = r.requested /\ q.status = r.status
    BY <1>0 DEF SameStory, Row
  <2> HIDE DEF q
  <2>3. RowInv(q, up)
    BY <1>0, <2>0, <2>1, StoryKept
  <2>4. RowInv(Finish(q, r.requested), up)
    <3>1. CASE Live(q)
      <4>1. r.requested \in Terminal /\ r.requested = q.order
        BY <1>0, <2>0, <2>1, <3>1 DEF Row, Order, Terminal, Live
      <4> QED
        BY <2>0, <2>1, <2>3, <3>1, <4>1, OrderedEnd DEF Live
    <3>2. CASE ~Live(q)
      BY <2>3, <3>2 DEF Finish
    <3> QED
      BY <3>1, <3>2
  <2> QED
    BY <1>5, <2>4, BecomesGood DEF SafetyNet, q
<1>6. ASSUME NEW c \in Channel, Data(s, c) PROVE SessionInv'
  <2>1. RowInv(Pump([r EXCEPT !.pipe[c] = Tail(@)], c, Head(r.pipe[c])), up)
    BY <1>0, <1>6, DataRow DEF Data
  <2> QED
    BY <1>6, <2>1, BecomesGood DEF Data
<1> QED
  BY <1>1, <1>2, <1>3, <1>4, <1>5, <1>6 DEF Callback

LEMMA EngineKeeps ==
  ASSUME SessionInv, NEW s \in Session, Engine(s)
  PROVE  SessionInv'
<1> DEFINE r == session[s]  up == runner = "up"
<1>0. RowInv(r, up) /\ r \in Row
  BY DEF SessionInv
<1>b. /\ Unstarted(r) => r.engine = "none" /\ r.escalation = "off" /\ ~r.net
      /\ Live(r) /\ r.net => r.order # "none"
  BY <1>0 DEF RowInv, Blank, Ordered
<1>1. CASE Exit(s)
  <2>1. PICK code \in {0, 1}, helper \in BOOLEAN :
           Becomes(s, [r EXCEPT !.engine = "dead", !.code = code, !.helper = @ \/ helper])
    BY <1>1 DEF Exit
  <2> DEFINE q == [r EXCEPT !.engine = "dead", !.code = code, !.helper = @ \/ helper]
  <2>0. (r.helper \/ helper) \in BOOLEAN
    OBVIOUS
  <2>2. /\ SameStory(r, q) /\ q.engine = "dead" /\ q.escalation = r.escalation
        /\ q.net = r.net /\ q.order = r.order
    BY <1>0, <2>0, ZenonT(60) DEF SameStory, Row
  <2>3. ~Unstarted(r)
    BY <1>1, <1>b DEF Exit
  <2> HIDE DEF q
  <2>4. RowInv(q, up)
    BY <1>0, <1>b, <2>2, <2>3, StoryKept
  <2> QED
    BY <2>1, <2>4, BecomesGood DEF q
<1>2. CASE HelperEnds(s)
  <2> DEFINE q == [r EXCEPT !.helper = FALSE]
  <2>2. /\ SameStory(r, q) /\ q.engine = r.engine /\ q.escalation = r.escalation
        /\ q.net = r.net /\ q.order = r.order
    BY <1>0 DEF SameStory, Row
  <2> HIDE DEF q
  <2>4. RowInv(q, up)
    BY <1>0, <1>b, <2>2, StoryKept
  <2> QED
    BY <1>2, <2>4, BecomesGood DEF HelperEnds, q
<1>3. ASSUME NEW c \in Channel, Write(s, c) PROVE SessionInv'
  <2>1. PICK whole \in BOOLEAN :
           Becomes(s, [r EXCEPT !.wrote[c] = @ + 1,
                                !.pipe[c] = Append(@, [id |-> r.wrote[c] + 1, whole |-> whole])])
    BY <1>3 DEF Write
  <2>2. RowInv([r EXCEPT !.wrote[c] = @ + 1,
                         !.pipe[c] = Append(@, [id |-> r.wrote[c] + 1, whole |-> whole])], up)
    BY <1>0, <1>3, WriteRow DEF Write
  <2> QED
    BY <2>1, <2>2, BecomesGood
<1> QED
  BY <1>1, <1>2, <1>3 DEF Engine

LEMMA RunnerEndKeeps ==
  ASSUME SessionInv, RunnerExits \/ RunnerIsKilled \/ Depart
  PROVE  SessionInv'
<1>1. CASE RunnerExits
  <2>1. /\ runner' = "exited"
        /\ session' = [s \in Session |->
                         IF session[s].backstop THEN Signal(session[s], "SIGTERM")
                         ELSE session[s]]
    BY <1>1 DEF RunnerExits
  <2>2. ASSUME NEW s \in Session PROVE RowInv(session'[s], FALSE)
    <3>1. RowInv(session[s], FALSE) /\ RowInv(Signal(session[s], "SIGTERM"), FALSE)
      BY BackstopRow, RunnerGone DEF SessionInv
    <3> QED
      BY <2>1, <3>1
  <2>3. \A s \in Session : session'[s] \in Row
    BY <2>2 DEF RowInv
  <2>4. session' \in [Session -> Row]
    <3>1. session' = [s \in Session |-> session'[s]]
      BY <2>1
    <3> QED
      BY <2>3, <3>1
  <2>5. (runner' = "up") = FALSE
    BY <2>1
  <2> QED
    BY <2>1, <2>2, <2>4, <2>5 DEF SessionInv
<1>2. CASE RunnerIsKilled \/ Depart
  <2>1. runner' \in {"exited", "killed"} /\ session' = session
    BY <1>2 DEF RunnerIsKilled, Depart
  <2>2. \A s \in Session : RowInv(session[s], FALSE)
    BY RunnerGone DEF SessionInv
  <2>3. (runner' = "up") = FALSE
    BY <2>1
  <2> QED
    BY <2>1, <2>2, <2>3 DEF SessionInv
<1> QED
  BY <1>1, <1>2

LEMMA LoopKeeps ==
  ASSUME SessionInv, Loop
  PROVE  SessionInv'
<1>1. CASE Boot \/ Look \/ FindNothing \/ NotStarted \/ Hear \/ Report \/ Rest \/ Leave
  <2>1. UNCHANGED <<session, runner>>
    BY <1>1 DEF Boot, Look, FindNothing, NotStarted, Hear, Report, Rest, Leave, Goto, GoOn
  <2> QED
    BY <2>1, NothingMoves
<1>2. CASE Record
  <2>1. CASE Goto("waiting")
    BY <2>1, NothingMoves DEF Goto
  <2>2. CASE Becomes(host.dispatch, Cancelled(session[host.dispatch]))
    <3>1. host.dispatch \in Session => RowInv(Cancelled(session[host.dispatch]), runner = "up")
      BY CancelledRow DEF SessionInv
    <3> QED
      BY <2>2, <3>1, BecomesGood
  <2> QED
    BY <1>2, <2>1, <2>2 DEF Record
<1>3. CASE Depart
  BY <1>3, RunnerEndKeeps
<1> QED
  BY <1>1, <1>2, <1>3 DEF Loop

LEMMA ForceDownKeeps ==
  ASSUME SessionInv, ForceDown
  PROVE  SessionInv'
<1>1. CASE host.live = NoSession
  BY <1>1, NothingMoves DEF ForceDown
<1>2. CASE host.live # NoSession
  <2>1. Becomes(host.live, Cancelled(session[host.live]))
    BY <1>2 DEF ForceDown
  <2>2. host.live \in Session => RowInv(Cancelled(session[host.live]), runner = "up")
    BY CancelledRow DEF SessionInv
  <2> QED
    BY <2>1, <2>2, BecomesGood
<1> QED
  BY <1>1, <1>2

LEMMA SessionInvInit == HostInit => SessionInv
<1> SUFFICES ASSUME HostInit PROVE SessionInv
  OBVIOUS
<1>1. Unborn \in Row
  BY DEF Unborn, Row, Order, Cause, Tempers, Terminal
<1>2. Unborn.status = "none" /\ Unborn.log = <<>> /\ Unborn.order = "none"
      /\ Unborn.requested = "none" /\ Unborn.reason = "none" /\ Unborn.engine = "none"
      /\ Unborn.escalation = "off" /\ ~Unborn.net
      /\ \A c \in Channel : Unborn.wrote[c] = 0 /\ Unborn.pipe[c] = <<>> /\ Unborn.tail[c] = <<>>
  BY DEF Unborn
<1>3. ~Finished(Unborn) /\ ~Live(Unborn)
  BY <1>2 DEF Finished, Live, Terminal
<1>4. ASSUME NEW c \in Channel PROVE Got(Unborn, c) = <<>>
  <2>1. Said(<<>>, c) = <<>>
    BY SaidNothing
  <2>2. <<>> \o <<>> = <<>>
    OBVIOUS
  <2> QED
    BY <1>2, <2>1, <2>2 DEF Got
<1>5. Upto(0) = <<>>
  BY DEF Upto
<1>6. Bytes(Unborn)
  BY <1>2, <1>4, <1>5 DEF Bytes
<1>7. RowInv(Unborn, TRUE)
  BY <1>1, <1>2, <1>3, <1>6 DEF RowInv, Blank, ToldOnce, OnlyLines, Ordered, HeardOut
<1>8. (runner = "up") = TRUE
  BY DEF HostInit
<1> HIDE DEF Unborn
<1> QED
  BY <1>1, <1>7, <1>8 DEF HostInit, SessionInv

LEMMA SessionInvStep == SessionInv /\ [HostNext]_hostVars => SessionInv'
<1> SUFFICES ASSUME SessionInv, [HostNext]_hostVars PROVE SessionInv'
  OBVIOUS
<1>1. CASE Loop
  BY <1>1, LoopKeeps
<1>2. CASE SignalArrives
  BY <1>2, NothingMoves, ForceDownKeeps DEF SignalArrives
<1>3. CASE GraceEnds
  BY <1>3, ForceDownKeeps DEF GraceEnds
<1>4. ASSUME NEW s \in Session, Begin(s) \/ ComeUp(s) PROVE SessionInv'
  BY <1>4, StartKeeps, ComeUpKeeps DEF Begin
<1>5. ASSUME NEW s \in Session, FailToComeUp(s) PROVE SessionInv'
  <2> DEFINE r == session[s]  q == [r EXCEPT !.status = "rejected"]
  <2>1. RowInv(r, runner = "up") /\ r \in Row /\ r.status = "pending"
    BY <1>5 DEF SessionInv, FailToComeUp
  <2>2. RowInv(q, runner = "up")
    BY <2>1, StartedRow DEF Row, Unstarted
  <2> QED
    BY <1>5, <2>2, BecomesGood DEF FailToComeUp
<1>6. ASSUME NEW s \in Session, Callback(s) \/ Engine(s) PROVE SessionInv'
  BY <1>6, CallbackKeeps, EngineKeeps
<1>7. CASE RunnerExits \/ RunnerIsKilled
  BY <1>7, RunnerEndKeeps
<1>8. CASE UNCHANGED hostVars
  BY <1>8, NothingMoves DEF hostVars
<1> QED
  BY <1>1, <1>2, <1>3, <1>4, <1>5, <1>6, <1>7, <1>8 DEF HostNext

(* Every session's row keeps the bookkeeping of its end: an order in flight and
   its escalation go together, the timers and the pipes of a session that never
   came up are untouched, only lines are told before the end, and of a session
   that runs no byte read is lost, repeated or out of order. *)
THEOREM SessionsKept == HostSpec => []SessionInv
  BY SessionInvInit, SessionInvStep, PTL DEF HostSpec

LEMMA GoodRowEndsOnce ==
  ASSUME NEW s \in Session, RowInv(session[s], runner = "up")
  PROVE  LET r == session[s]
         IN  /\ Ended(s) \subseteq {Len(r.log)}
             /\ (Ended(s) # {}) <=> Finished(r)
             /\ Finished(r) => /\ r.log[Len(r.log)].status = r.status
                               /\ r.order # "none" => r.status = r.order
                               /\ r.log[Len(r.log)].reason # "none" => r.order = "timed_out"
             /\ r.status \in {"none", "pending", "rejected"} => r.log = <<>>
             /\ Finished(r) /\ r.order = "none" /\ runner = "up" =>
                   \A c \in Channel : Said(r.log, c) = [i \in 1..r.wrote[c] |-> i]
<1> DEFINE r == session[s]
<1>1. Ended(s) = {i \in DOMAIN r.log : r.log[i].event = "finished"}
  BY DEF Ended
<1>2. r \in Row /\ r.log \in Seq(Entry)
  BY DEF RowInv, Row
<1> HIDE DEF r
<1>3. CASE Finished(r)
  <2>1. /\ r.log # <<>>
        /\ \A i \in DOMAIN r.log : r.log[i].event = "finished" <=> i = Len(r.log)
        /\ r.log[Len(r.log)].status = r.status
        /\ r.order # "none" => r.status = r.order
        /\ r.log[Len(r.log)].reason # "none" => r.order = "timed_out"
    BY <1>3 DEF RowInv, ToldOnce, r
  <2>2. Len(r.log) \in DOMAIN r.log
    BY <1>2, <2>1
  <2>3. Ended(s) = {Len(r.log)}
    BY <1>1, <2>1, <2>2
  <2>4. ~Unstarted(r)
    BY <1>3 DEF Unstarted, Finished, Terminal
  <2>5. r.order = "none" /\ runner = "up" =>
           \A c \in Channel : Said(r.log, c) = [i \in 1..r.wrote[c] |-> i]
    BY <1>3 DEF RowInv, HeardOut, Upto, r
  <2> QED
    BY <1>3, <2>1, <2>3, <2>4, <2>5 DEF r, Unstarted
<1>4. CASE ~Finished(r)
  <2>1. OnlyLines(r.log)
    BY <1>4 DEF RowInv, ToldOnce, r
  <2>2. Ended(s) = {}
    BY <1>1, <2>1 DEF OnlyLines
  <2>3. r.status \in {"none", "pending", "rejected"} => r.log = <<>>
    BY DEF RowInv, Blank, Unstarted, r
  <2> QED
    BY <1>4, <2>2, <2>3 DEF r
<1> QED
  BY <1>3, <1>4

(* The listener's contract, for any number of sessions, channels and chunks and
   any mix of engines: process-lifecycle.ts tells the end at most once, last and
   exactly when the status turns terminal, the status is the first order's, a
   session that never came up is never heard of, and one that ended by itself
   was heard to its last byte, in order, on every channel. *)
THEOREM EndsOnce == HostSpec => []OneEnd
<1>1. SessionInv => OneEnd
  BY GoodRowEndsOnce DEF SessionInv, OneEnd
<1> QED
  BY <1>1, SessionsKept, PTL
=============================================================================
