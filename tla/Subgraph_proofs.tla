--------------------------- MODULE Subgraph_proofs ---------------------------
(***************************************************************************)
(* Proofs about one job on a subgraph node (Subgraph): that its children    *)
(* match the elements of the call and that its report is whole, whatever    *)
(* dies or fails between two calls of a dispatch.                           *)
(*                                                                         *)
(* The argument: what a dispatch has read of the control plane stays so for *)
(* as long as its lease holds, because every write to the children and to   *)
(* the reports is made by the holder (Exact, Alone); and some of it stays so *)
(* even after the lease is gone (Fits, Known).                              *)
(***************************************************************************)
EXTENDS Subgraph, FiniteSetTheorems, SequenceTheorems, TLAPS

-----------------------------------------------------------------------------
(* Where a dispatch has read nothing yet. *)
Early == {"idle", "warning", "looking", "asking", "leased", "context"}

(* Where it knows how its children stand. *)
Deep == {"reading", "opening", "collecting", "recording", "finishing", "routing"}

(* Where it goes on with every child arrived. *)
Late == {"collecting", "recording", "finishing", "routing"}

(* A report with an entry per element, in element order. *)
Whole == [k \in 1 .. shape.items |-> k]

(* Every element has its child, and every child arrived. *)
Home ==
  /\ Len(child) = shape.items
  /\ \A c \in 1 .. Len(child) : child[c].arrived

(* What a dispatch has read is there, and where it stands was reached in order:
   nothing is routed unrecorded, and a session is finished once. *)
Fits(d) ==
  /\ d.read <= d.named /\ d.named <= Len(child)
  /\ d.last <= Len(child) /\ d.sid <= Len(report)
  /\ d.pc \in Early => d.read = 0
  /\ d.pc = "routing" => Recorded
  /\ d.pc = "finishing" => d.sid > 0 /\ report[d.sid].status = "open"

(* While its lease holds, what a dispatch has read is still so. *)
Exact(d) ==
  /\ d.pc \in {"context", "reading"} => d.named = Len(child)
  /\ d.pc = "reading" /\ d.all => \A c \in 1 .. d.read : child[c].arrived
  /\ d.pc = "opening" =>
       d.opened = Len(child) /\ d.last = Len(child) /\ Len(child) < shape.items
  /\ d.pc \in Deep => parent.left = 0
  /\ d.pc \in Late => Home
  /\ d.pc = "collecting" => d.read = Len(child)
  /\ d.pc \in Late \ {"routing"} => ~Recorded
  /\ d.pc \in {"recording", "finishing"} => d.output = Whole

(* No two dispatches finish one session. *)
OwnSessions ==
  \A q, r \in Runner :
    At(q, "finishing") /\ At(r, "finishing") /\ run[q].sid = run[r].sid => q = r

(* Child k is the one of element k, and a chain starts in order. *)
Family ==
  /\ Len(child) <= shape.items
  /\ \A c \in 1 .. Len(child) :
       /\ child[c].item = c
       /\ shape.ordered => child[c].after = c - 1
       /\ shape.ordered /\ child[c].started => \A e \in 1 .. c - 1 : child[e].arrived

(* What is stored for the node is one whole report, and the walk left it once. *)
Told ==
  /\ parent.left <= 1
  /\ \A s \in 1 .. Len(report) :
       report[s].status = "completed" =>
         /\ report[s].output = Whole /\ Home
         /\ \A z \in 1 .. Len(report) : report[z].status = "completed" => z = s

Known ==
  /\ TypeOK
  /\ \A c \in 1 .. Len(child) : child[c].arrived => child[c].started
  /\ parent.left > 0 => Recorded
  /\ \A r \in Runner : Fits(run[r])
  /\ OwnSessions

Alone ==
  ~lapsed =>
    /\ Family /\ Told
    /\ \A r \in Runner : (Beating(r) => lease = r) /\ Exact(run[r])

-----------------------------------------------------------------------------
(* Rows. *)

Phase == {"idle", "warning", "looking", "asking", "leased", "context", "reading",
          "opening", "collecting", "recording", "finishing", "routing",
          "refusing", "releasing"}

LEMMA SequencesAre ==
  ASSUME TypeOK
  PROVE  /\ Len(child) \in Nat /\ DOMAIN child = 1 .. Len(child)
         /\ \A c \in 1 .. Len(child) : child[c] \in ChildRow
         /\ Len(report) \in Nat /\ DOMAIN report = 1 .. Len(report)
         /\ \A s \in 1 .. Len(report) : report[s] \in ReportRow
BY DEF TypeOK

(* Another phase, the rest as it was. *)
LEMMA GotoIs ==
  ASSUME TypeOK, NEW r \in Runner, NEW pc \in Phase
  PROVE  /\ Goto(r, pc) \in RunRow /\ Goto(r, pc).pc = pc
         /\ Goto(r, pc).named = run[r].named /\ Goto(r, pc).read = run[r].read
         /\ Goto(r, pc).all = run[r].all /\ Goto(r, pc).opened = run[r].opened
         /\ Goto(r, pc).last = run[r].last /\ Goto(r, pc).output = run[r].output
         /\ Goto(r, pc).sid = run[r].sid
<1>1. PICK d \in RunRow : d = run[r]
  BY DEF TypeOK
<1> DEFINE new == [d EXCEPT !.pc = pc]
<1>2. /\ new \in RunRow /\ new.pc = pc
      /\ new.named = d.named /\ new.read = d.read /\ new.all = d.all
      /\ new.opened = d.opened /\ new.last = d.last /\ new.output = d.output
      /\ new.sid = d.sid
  BY DEF RunRow, Phase
<1>3. Goto(r, pc) = new
  BY <1>1 DEF Goto
<1> HIDE DEF new
<1> QED
  BY <1>1, <1>2, <1>3

LEMMA IdleIs ==
  /\ Idle \in RunRow /\ Idle.pc = "idle" /\ Idle.named = 0 /\ Idle.read = 0
  /\ Idle.last = 0 /\ Idle.sid = 0
BY DEF Idle, RunRow

(* One dispatch changes, the others stay. *)
LEMMA RunSet ==
  ASSUME TypeOK, NEW r \in Runner, NEW d \in RunRow, run' = [run EXCEPT ![r] = d]
  PROVE  /\ run' \in [Runner -> RunRow] /\ run'[r] = d
         /\ \A q \in Runner : q # r => run'[q] = run[q]
BY DEF TypeOK

(* What a dispatch that is not under way knows is nothing. *)
LEMMA RestingIsExact ==
  ASSUME NEW d, d.pc \in {"idle", "warning", "looking", "asking", "leased", "refusing",
                          "releasing"}
  PROVE  Exact(d)
BY DEF Exact, Deep, Late

LEMMA IdleFits == ASSUME TypeOK PROVE Fits(Idle) /\ Exact(Idle)
<1>1. Exact(Idle)
  BY IdleIs, RestingIsExact
<1>2. Len(child) \in Nat /\ Len(report) \in Nat
  BY SequencesAre
<1> QED
  BY <1>1, <1>2, IdleIs DEF Fits

(* Where it is going asks nothing of it that it does not have. *)
LEMMA GotoFits ==
  ASSUME Known, NEW r \in Runner, NEW pc \in Phase,
         pc \in Early => run[r].read = 0,
         pc = "routing" => Recorded,
         pc # "finishing"
  PROVE  Fits(Goto(r, pc))
<1>1. TypeOK /\ Fits(run[r])
  BY DEF Known
<1> QED
  BY <1>1, GotoIs DEF Fits

(* A dispatch that takes the node's children and reports as they are: what it
   knows may change, and who holds the lease. *)
LEMMA Kept ==
  ASSUME Known, Alone, NEW r \in Runner, NEW d \in RunRow, run' = [run EXCEPT ![r] = d],
         UNCHANGED <<shape, child, report, lapsed>>,
         parent' \in ParentRow, parent'.left = parent.left,
         \/ lease' = lease
         \/ lease = NoRunner /\ lease' = r
         \/ lease = r /\ lease' = NoRunner,
         Fits(d),
         d.pc = "finishing" => At(r, "finishing") /\ d.sid = run[r].sid,
         ~lapsed => Exact(d) /\ (d.pc \notin {"idle", "warning", "looking", "asking"} => lease' = r)
  PROVE  Known' /\ Alone'
<1>1. TypeOK
  BY DEF Known
<1>2. /\ run' \in [Runner -> RunRow] /\ run'[r] = d
      /\ \A q \in Runner : q # r => run'[q] = run[q]
  BY <1>1, RunSet
<1>3. Recorded' <=> Recorded
  BY DEF Recorded
<1>4. \A q \in Runner : Fits(run'[q])
  BY <1>2 DEF Known
<1>5. \A q \in Runner : Fits(run[q])'
  <2>1. \A q \in Runner : Fits(run[q])' <=> Fits(run'[q])
    BY <1>3 DEF Fits
  <2> QED
    BY <1>4, <2>1
<1>6. TypeOK'
  <2>1. lease' \in Runner \cup {NoRunner}
    BY <1>1 DEF TypeOK
  <2>2. \A q \in Runner : /\ run'[q].read <= run'[q].named /\ run'[q].named <= Len(child)
                          /\ run'[q].last <= Len(child) /\ run'[q].sid <= Len(report)
    BY <1>4 DEF Fits
  <2> QED
    BY <1>1, <1>2, <2>1, <2>2 DEF TypeOK
<1>7. OwnSessions'
  BY <1>2 DEF Known, OwnSessions, At
<1>8. Known'
  BY <1>3, <1>5, <1>6, <1>7 DEF Known
<1>9. ASSUME ~lapsed
      PROVE  Family' /\ Told' /\ \A q \in Runner : (Beating(q)' => lease' = q) /\ Exact(run[q])'
  <2>1. Family /\ Told /\ \A q \in Runner : (Beating(q) => lease = q) /\ Exact(run[q])
    BY <1>9 DEF Alone
  <2>2. Family' /\ Told'
    BY <2>1 DEF Family, Told, Whole, Home
  <2>3. ASSUME NEW q \in Runner PROVE Beating(q)' => lease' = q
    <3>1. CASE q = r
      BY <1>2, <1>9, <3>1 DEF Beating
    <3>2. CASE q # r
      <4>1. Beating(q)' <=> Beating(q)
        BY <1>2, <3>2 DEF Beating
      <4> QED
        BY <2>1, <3>2, <4>1, SubgraphAssumption
    <3> QED
      BY <3>1, <3>2
  <2>4. ASSUME NEW q \in Runner PROVE Exact(run[q])'
    <3>1. Exact(run'[q])
      BY <1>2, <1>9, <2>1
    <3>2. Exact(run[q])' <=> Exact(run'[q])
      BY <1>3 DEF Exact, Home, Whole
    <3> QED
      BY <3>1, <3>2
  <2> QED
    BY <2>2, <2>3, <2>4
<1>10. Alone'
  BY <1>9 DEF Alone
<1> QED
  BY <1>8, <1>10

(* A dispatch under way, its lease its own. *)
LEMMA HolderIs ==
  ASSUME Known, Alone, NEW r \in Runner,
         run[r].pc \notin {"idle", "warning", "looking", "asking"}, ~lapsed
  PROVE  lease = r /\ Exact(run[r]) /\ Family /\ Told
BY DEF Alone, Beating

(* It goes on. *)
LEMMA Onward ==
  ASSUME Known, Alone, NEW r \in Runner, NEW d \in RunRow, Step(r, d),
         run[r].pc \notin {"idle", "warning", "looking", "asking"},
         UNCHANGED <<shape, parent, child, report, lease, lapsed>>,
         Fits(d), d.pc # "finishing", ~lapsed => Exact(d)
  PROVE  Known' /\ Alone'
<1>1. /\ parent' \in ParentRow /\ parent'.left = parent.left
      /\ run' = [run EXCEPT ![r] = d]
  BY DEF Known, TypeOK, Step
<1>2. ~lapsed => lease' = r
  BY HolderIs
<1> QED
  BY <1>1, <1>2, Kept

(* It stops: something failed, or there is nothing left to do. *)
LEMMA Stopping ==
  ASSUME Known, Alone, NEW r \in Runner, NEW pc \in {"refusing", "releasing"},
         Step(r, Goto(r, pc)),
         run[r].pc \notin {"idle", "warning", "looking", "asking"},
         UNCHANGED <<shape, parent, child, report, lease, lapsed>>
  PROVE  Known' /\ Alone'
<1> DEFINE d == Goto(r, pc)
<1>1. TypeOK /\ pc \in Phase
  BY DEF Known, Phase
<1>2. d \in RunRow /\ d.pc = pc
  BY <1>1, GotoIs
<1>3. Fits(d)
  BY <1>1, GotoFits DEF Early
<1> HIDE DEF d
<1>4. Exact(d) /\ d.pc # "finishing"
  BY <1>2, RestingIsExact
<1>5. Step(r, d)
  BY DEF d
<1> QED
  BY <1>2, <1>3, <1>4, <1>5, Onward

(* A read that fails. *)
LEMMA ReadFails ==
  ASSUME Known, Alone, NEW r \in Runner, Lost(r),
         run[r].pc \notin {"idle", "warning", "looking", "asking"},
         UNCHANGED <<shape, parent, child, report, lease, lapsed>>
  PROVE  Known' /\ Alone'
BY Stopping DEF Lost

LEMMA TickStep ==
  ASSUME Known, Alone, NEW r \in Runner, Tick(r) PROVE Known' /\ Alone'
<1>1. TypeOK /\ parent \in ParentRow /\ Fits(run[r])
  BY DEF Known, TypeOK
<1>2. ASSUME NEW pc \in {"looking", "warning", "asking"}, Step(r, Goto(r, pc)),
             run[r].pc \in Early,
             UNCHANGED <<shape, child, report, lease, lapsed>>,
             parent' \in ParentRow, parent'.left = parent.left
      PROVE  Known' /\ Alone'
  <2> DEFINE d == Goto(r, pc)
  <2>1. d \in RunRow /\ d.pc = pc
    BY <1>1, GotoIs DEF Phase
  <2>2. Fits(d)
    BY <1>1, <1>2, GotoFits DEF Phase, Fits
  <2>3. run' = [run EXCEPT ![r] = d]
    BY <1>2 DEF Step
  <2> HIDE DEF d
  <2>4. Exact(d)
    BY <2>1, RestingIsExact
  <2> QED
    BY <1>2, <2>1, <2>2, <2>3, <2>4, Kept
<1>3. ASSUME Step(r, Idle), UNCHANGED <<shape, child, report, lapsed, parent>>,
             lease' = lease \/ (lease = r /\ lease' = NoRunner)
      PROVE  Known' /\ Alone'
  <2>1. run' = [run EXCEPT ![r] = Idle]
    BY <1>3 DEF Step
  <2> QED
    BY <1>1, <1>3, <2>1, IdleIs, IdleFits, Kept
<1>4. CASE WatchBoard(r)
  <2>1. \E pc \in {"looking", "warning"} : Step(r, Goto(r, pc))
    BY <1>4 DEF WatchBoard
  <2> QED
    BY <1>1, <1>2, <1>4, <2>1 DEF WatchBoard, At, Early
<1>5. CASE WarnParent(r)
  <2>1. parent' \in ParentRow /\ parent'.left = parent.left
    BY <1>1, <1>5 DEF WarnParent, ParentRow
  <2> QED
    BY <1>2, <1>5, <2>1 DEF WarnParent, At, Early
<1>6. CASE Poll(r)
  <2>1. Step(r, Goto(r, "asking")) \/ Step(r, Idle)
    BY <1>6 DEF Poll
  <2> QED
    BY <1>1, <1>2, <1>3, <1>6, <2>1 DEF Poll, At, Early
<1>7. CASE Take(r)
  <2>1. CASE Step(r, Idle) /\ UNCHANGED lease
    BY <1>3, <1>7, <2>1 DEF Take
  <2>2. CASE lease = NoRunner /\ lease' = r /\ Step(r, Goto(r, "leased"))
    <3> DEFINE d == Goto(r, "leased")
    <3>1. d \in RunRow /\ d.pc = "leased"
      BY <1>1, GotoIs DEF Phase
    <3>2. Fits(d)
      BY <1>1, <1>7, GotoFits DEF Phase, Fits, Take, At, Early
    <3>3. /\ run' = [run EXCEPT ![r] = d]
          /\ UNCHANGED <<shape, child, report, lapsed, parent>>
      BY <1>7, <2>2 DEF Step, Take
    <3> HIDE DEF d
    <3>4. Exact(d)
      BY <3>1, RestingIsExact
    <3> QED
      BY <1>1, <2>2, <3>1, <3>2, <3>3, <3>4, Kept
  <2> QED
    BY <1>7, <2>1, <2>2 DEF Take
<1>8. CASE Release(r)
  BY <1>3, <1>8 DEF Release
<1> QED
  BY <1>4, <1>5, <1>6, <1>7, <1>8 DEF Tick

(* A read that answers, or fails. *)
LEMMA Reading ==
  ASSUME Known, Alone, NEW r \in Runner, NEW d \in RunRow, Read(r, d),
         run[r].pc \notin {"idle", "warning", "looking", "asking"},
         Fits(d), d.pc # "finishing", ~lapsed => Exact(d)
  PROVE  Known' /\ Alone'
<1>1. CASE Step(r, d) /\ UNCHANGED <<shape, parent, child, report, lease, lapsed>>
  BY <1>1, Onward
<1>2. CASE Lost(r) /\ UNCHANGED <<shape, parent, child, report, lease, lapsed>>
  BY <1>2, ReadFails
<1> QED
  BY <1>1, <1>2 DEF Read

(* A read that ends the dispatch whatever it answers. *)
LEMMA ReadingStops ==
  ASSUME Known, Alone, NEW r \in Runner, NEW pc \in {"refusing", "releasing"},
         Read(r, Goto(r, pc)),
         run[r].pc \notin {"idle", "warning", "looking", "asking"}
  PROVE  Known' /\ Alone'
<1>1. CASE Step(r, Goto(r, pc)) /\ UNCHANGED <<shape, parent, child, report, lease, lapsed>>
  BY <1>1, Stopping
<1>2. CASE Lost(r) /\ UNCHANGED <<shape, parent, child, report, lease, lapsed>>
  BY <1>2, ReadFails
<1> QED
  BY <1>1, <1>2 DEF Read

LEMMA ReadJobStep ==
  ASSUME Known, Alone, NEW r \in Runner, ReadJob(r) PROVE Known' /\ Alone'
<1>1. TypeOK /\ Fits(run[r]) /\ Len(child) \in Nat
  BY SequencesAre DEF Known
<1>2. CASE Read(r, Goto(r, "releasing"))
  BY <1>2, ReadingStops DEF ReadJob, At
<1>3. CASE Read(r, [Goto(r, "context") EXCEPT !.named = Len(child)])
  <2> DEFINE c == Goto(r, "context")
             d == [c EXCEPT !.named = Len(child)]
  <2>1. /\ c \in RunRow /\ c.pc = "context" /\ c.read = run[r].read
        /\ c.last = run[r].last /\ c.sid = run[r].sid
    BY <1>1, GotoIs DEF Phase
  <2> HIDE DEF c
  <2>2. /\ d \in RunRow /\ d.pc = "context" /\ d.named = Len(child) /\ d.read = run[r].read
        /\ d.last = run[r].last /\ d.sid = run[r].sid
    BY <1>1, <2>1 DEF RunRow
  <2>3. Read(r, d)
    BY <1>3 DEF c
  <2> HIDE DEF d
  <2>4. run[r].pc = "leased" /\ run[r].read = 0
    BY <1>1 DEF ReadJob, At, Fits, Early
  <2>5. Fits(d)
    BY <1>1, <2>2, <2>4 DEF Fits
  <2>6. Exact(d)
    BY <2>2 DEF Exact, Deep, Late
  <2> QED
    BY <2>2, <2>3, <2>4, <2>5, <2>6, Reading
<1> QED
  BY <1>2, <1>3 DEF ReadJob

LEMMA ReadContextStep ==
  ASSUME Known, Alone, NEW r \in Runner, ReadContext(r) PROVE Known' /\ Alone'
<1>1. TypeOK /\ Fits(run[r]) /\ Len(child) \in Nat /\ parent \in ParentRow
  BY SequencesAre DEF Known, TypeOK
<1>2. CASE Read(r, Goto(r, "refusing"))
  BY <1>2, ReadingStops DEF ReadContext, At
<1>3. CASE ~Revisited /\ Read(r, Goto(r, "reading"))
  <2> DEFINE d == Goto(r, "reading")
  <2>1. d \in RunRow /\ d.pc = "reading" /\ d.named = run[r].named /\ d.read = run[r].read
    BY <1>1, GotoIs DEF Phase
  <2>2. Fits(d)
    BY <1>1, GotoFits DEF Phase, Early
  <2> HIDE DEF d
  <2>3. run[r].pc = "context" /\ run[r].read = 0
    BY <1>1 DEF ReadContext, At, Fits, Early
  <2>4. parent.left = 0
    BY <1>1, <1>3 DEF Revisited, ParentRow
  <2>5. ASSUME ~lapsed PROVE Exact(d)
    <3>1. Exact(run[r])
      BY <2>3, <2>5, HolderIs
    <3> QED
      BY <2>1, <2>3, <2>4, <3>1 DEF Exact, Deep, Late
  <2>6. Read(r, d)
    BY <1>3 DEF d
  <2> QED
    BY <2>1, <2>2, <2>3, <2>5, <2>6, Reading
<1> QED
  BY <1>2, <1>3 DEF ReadContext

LEMMA ReadChildStep ==
  ASSUME Known, Alone, NEW r \in Runner, ReadChild(r) PROVE Known' /\ Alone'
<1> DEFINE c == run[r].read + 1
<1>1. TypeOK /\ Fits(run[r]) /\ Len(child) \in Nat
  BY SequencesAre DEF Known
<1>2. PICK e \in RunRow : e = run[r]
  BY <1>1 DEF TypeOK
<1> DEFINE so == e.all /\ Completed(c)
           d  == [e EXCEPT !.read = c, !.all = so]
<1>a. so \in BOOLEAN /\ (so <=> e.all /\ Completed(c))
  BY <1>2 DEF RunRow, Completed
<1> HIDE DEF so
<1> DEFINE m == [e EXCEPT !.read = c]
<1>f. c = e.read + 1 /\ c \in Nat
  BY <1>2 DEF RunRow
<1> HIDE DEF c
<1>b. /\ m \in RunRow /\ m.pc = e.pc /\ m.named = e.named /\ m.read = e.read + 1
      /\ m.last = e.last /\ m.sid = e.sid
  BY <1>f DEF RunRow
<1>c. d = [m EXCEPT !.all = so]
  OBVIOUS
<1> HIDE DEF d, m
<1>d. /\ d \in RunRow /\ d.pc = m.pc /\ d.named = m.named /\ d.read = m.read
      /\ d.last = m.last /\ d.sid = m.sid
  BY <1>a, <1>b, <1>c DEF RunRow
<1>e. d.all = so
  BY <1>b, <1>c DEF RunRow
<1>3. /\ d \in RunRow /\ d.pc = e.pc /\ d.named = e.named /\ d.read = e.read + 1
      /\ d.last = e.last /\ d.sid = e.sid /\ d.all = so
  BY <1>b, <1>d, <1>e
<1> USE DEF d, c
<1>4. d.all <=> e.all /\ Completed(c)
  BY <1>a, <1>3
<1>5. Read(r, d)
  BY <1>2 DEF ReadChild, so
<1> HIDE DEF d
<1>6. e.pc = "reading" /\ e.read < e.named /\ e.read \in Nat /\ e.named \in Nat
  BY <1>2 DEF ReadChild, At, RunRow
<1>7. Fits(d)
  BY <1>1, <1>2, <1>3, <1>6 DEF Fits, Early
<1>8. ASSUME ~lapsed PROVE Exact(d)
  <2>1. Exact(e)
    BY <1>2, <1>6, <1>8, HolderIs
  <2>2. d.all => \A k \in 1 .. d.read : child[k].arrived
    BY <1>2, <1>3, <1>4, <1>6, <2>1 DEF Exact, Completed
  <2> QED
    BY <1>3, <1>6, <2>1, <2>2 DEF Exact, Deep, Late
<1> QED
  BY <1>2, <1>3, <1>5, <1>6, <1>7, <1>8, Reading

LEMMA ReconciledIs ==
  ASSUME Known, Alone, NEW r \in Runner, Reconciled(r)
  PROVE  /\ run[r].pc = "reading" /\ run[r].read \in Nat /\ run[r].read <= Len(child)
         /\ run[r].pc \notin {"idle", "warning", "looking", "asking"}
         /\ ~lapsed => /\ run[r].read = Len(child) /\ parent.left = 0
                       /\ run[r].all => \A c \in 1 .. Len(child) : child[c].arrived
<1>1. run[r].pc = "reading" /\ run[r].read = run[r].named /\ run[r].read \in Nat /\ Fits(run[r])
  BY DEF Known, TypeOK, RunRow, Reconciled, At
<1>2. ASSUME ~lapsed
      PROVE  /\ run[r].read = Len(child) /\ parent.left = 0
             /\ run[r].all => \A c \in 1 .. Len(child) : child[c].arrived
  BY <1>1, <1>2, HolderIs DEF Exact, Deep
<1> QED
  BY <1>1, <1>2 DEF Fits

LEMMA PlanStep ==
  ASSUME Known, Alone, NEW r \in Runner, PlanOpening(r) PROVE Known' /\ Alone'
<1>1. TypeOK /\ Fits(run[r]) /\ Len(child) \in Nat /\ Reconciled(r) /\ run[r].read < shape.items
  BY SequencesAre DEF Known, PlanOpening
<1>2. CASE Read(r, Goto(r, "refusing"))
  BY <1>1, <1>2, ReadingStops, ReconciledIs
<1>3. CASE Read(r, [Goto(r, "opening") EXCEPT !.opened = OpenFrom(r), !.last = LastSibling(r)])
  <2> DEFINE c == Goto(r, "opening")
             d == [c EXCEPT !.opened = OpenFrom(r), !.last = LastSibling(r)]
  <2>1. /\ c \in RunRow /\ c.pc = "opening" /\ c.read = run[r].read /\ c.named = run[r].named
        /\ c.sid = run[r].sid
    BY <1>1, GotoIs DEF Phase
  <2> HIDE DEF c
  <2>2. /\ d \in RunRow /\ d.pc = "opening" /\ d.read = run[r].read /\ d.named = run[r].named
        /\ d.sid = run[r].sid /\ d.opened = run[r].read /\ d.last = run[r].read
    BY <1>1, <2>1, ReconciledIs DEF RunRow, OpenFrom, LastSibling
  <2>3. Read(r, d)
    BY <1>3 DEF c
  <2> HIDE DEF d
  <2>4. Fits(d)
    BY <1>1, <2>2, ReconciledIs DEF Fits, Early
  <2>5. ASSUME ~lapsed PROVE Exact(d)
    BY <1>1, <2>2, <2>5, ReconciledIs DEF Exact, Deep, Late
  <2> QED
    BY <1>1, <2>2, <2>3, <2>4, <2>5, Reading, ReconciledIs
<1> QED
  BY <1>2, <1>3 DEF PlanOpening

LEMMA ResumeStep ==
  ASSUME Known, Alone, NEW r \in Runner, Resume(r) PROVE Known' /\ Alone'
<1>1. /\ TypeOK /\ Fits(run[r]) /\ Len(child) \in Nat /\ Reconciled(r)
      /\ run[r].read = shape.items /\ run[r].all
  BY SequencesAre DEF Known, Resume, Complete
<1> DEFINE pc == IF Recorded THEN "routing" ELSE "collecting"
           d  == Goto(r, pc)
<1>2. pc \in Phase /\ pc \notin Early /\ pc # "finishing" /\ pc \in Late
  BY DEF Phase, Early, Late
<1>3. /\ pc = "routing" => Recorded
      /\ pc # "routing" => ~Recorded /\ pc = "collecting"
  OBVIOUS
<1>4. Read(r, d)
  BY DEF Resume
<1> HIDE DEF pc
<1>5. d \in RunRow /\ d.pc = pc /\ d.read = run[r].read
  BY <1>1, <1>2, GotoIs
<1>6. Fits(d)
  BY <1>1, <1>2, <1>3, GotoFits
<1> HIDE DEF d
<1>7. ASSUME ~lapsed PROVE Exact(d)
  <2>1. Home /\ parent.left = 0 /\ d.read = Len(child)
    BY <1>1, <1>5, <1>7, ReconciledIs DEF Home
  <2> QED
    BY <1>2, <1>3, <1>5, <2>1 DEF Exact, Late, Deep
<1> QED
  BY <1>1, <1>2, <1>4, <1>5, <1>6, <1>7, Reading, ReconciledIs

LEMMA CollectStep ==
  ASSUME Known, Alone, NEW r \in Runner, Collect(r) PROVE Known' /\ Alone'
<1>a. /\ TypeOK /\ Fits(run[r]) /\ run[r].pc = "collecting" /\ run[r] \in RunRow
  BY DEF Known, Collect, At, TypeOK
<1>1. /\ TypeOK /\ Fits(run[r]) /\ Len(child) \in Nat /\ run[r].pc = "collecting"
      /\ run[r].read \in Nat /\ run[r].read <= Len(child)
  BY <1>a, SequencesAre DEF Fits, RunRow
<1>2. CASE Read(r, Goto(r, "refusing"))
  BY <1>1, <1>2, ReadingStops
<1>3. CASE Read(r, [Goto(r, "recording") EXCEPT
                      !.output = [c \in 1 .. run[r].read |-> child[c].item]])
  <2> DEFINE out == [c \in 1 .. run[r].read |-> child[c].item]
             e == Goto(r, "recording")
             d == [e EXCEPT !.output = out]
  <2>1. out \in Seq(Nat)
    <3>1. \A c \in 1 .. run[r].read : child[c].item \in Nat
      BY <1>1, SequencesAre DEF ChildRow
    <3> QED
      BY <1>1, <3>1
  <2>2. /\ e \in RunRow /\ e.pc = "recording" /\ e.read = run[r].read /\ e.named = run[r].named
        /\ e.sid = run[r].sid /\ e.last = run[r].last
    BY <1>1, GotoIs DEF Phase
  <2>3. out = [c \in 1 .. run[r].read |-> child[c].item]
    OBVIOUS
  <2> HIDE DEF e, out
  <2>4. /\ d \in RunRow /\ d.pc = "recording" /\ d.read = run[r].read /\ d.named = run[r].named
        /\ d.sid = run[r].sid /\ d.last = run[r].last /\ d.output = out
    BY <2>1, <2>2 DEF RunRow
  <2>5. Read(r, d)
    BY <1>3 DEF e, out
  <2> HIDE DEF d
  <2>6. Fits(d)
    BY <1>1, <2>4 DEF Fits, Early
  <2>7. ASSUME ~lapsed PROVE Exact(d)
    <3>1. Exact(run[r]) /\ Family
      BY <1>1, <2>7, HolderIs
    <3>2. Home /\ run[r].read = shape.items /\ ~Recorded /\ parent.left = 0
      BY <1>1, <3>1 DEF Exact, Late, Deep, Home
    <3>3. out = Whole
      BY <2>3, <3>1, <3>2 DEF Whole, Family, Home
    <3> QED
      BY <2>4, <3>2, <3>3 DEF Exact, Late, Deep
  <2> QED
    BY <1>1, <2>4, <2>5, <2>6, <2>7, Reading
<1> QED
  BY <1>2, <1>3 DEF Collect

(* A write is the holder's: the others are not under way. *)
LEMMA HolderWrites ==
  ASSUME Known, Alone, NEW r \in Runner, NEW d \in RunRow, run' = [run EXCEPT ![r] = d],
         run[r].pc \notin {"idle", "warning", "looking", "asking"},
         lease' = lease, ~lapsed, Exact(d)'
  PROVE  \A q \in Runner : (Beating(q)' => lease' = q) /\ Exact(run[q])'
<1>1. lease = r /\ \A q \in Runner : Beating(q) => lease = q
  BY HolderIs DEF Alone
<1>2. run'[r] = d /\ \A q \in Runner : q # r => run'[q] = run[q]
  BY RunSet DEF Known
<1>3. ASSUME NEW q \in Runner, q # r PROVE ~Beating(q)' /\ Exact(run[q])'
  <2>1. ~Beating(q) /\ run'[q] = run[q]
    BY <1>1, <1>2, <1>3
  <2>2. run[q].pc \in {"idle", "warning", "looking", "asking"}
    BY <2>1 DEF Beating
  <2> QED
    BY <2>1, <2>2 DEF Beating, Exact, Deep, Late
<1>4. Exact(run[r])'
  BY <1>2
<1> QED
  BY <1>1, <1>3, <1>4

(* What holds of a dispatch and of the rows holds of the next ones. *)
LEMMA HolderSteps ==
  ASSUME Known, Alone, NEW r \in Runner, NEW d \in RunRow, run' = [run EXCEPT ![r] = d],
         run[r].pc \notin {"idle", "warning", "looking", "asking"},
         UNCHANGED <<shape, lease, lapsed>>,
         parent' \in ParentRow, child' \in Seq(ChildRow), report' \in Seq(ReportRow),
         \A c \in 1 .. Len(child') : child'[c].arrived => child'[c].started,
         parent'.left > 0 => Recorded',
         Fits(d)', \A q \in Runner : q # r => Fits(run[q])',
         d.pc = "finishing" =>
           \A q \in Runner : q # r /\ At(q, "finishing") => run[q].sid # d.sid,
         ~lapsed => Family' /\ Told' /\ Exact(d)'
  PROVE  Known' /\ Alone'
<1>1. /\ run' \in [Runner -> RunRow] /\ run'[r] = d
      /\ \A q \in Runner : q # r => run'[q] = run[q]
  BY RunSet DEF Known
<1>2. \A q \in Runner : Fits(run[q])'
  BY <1>1
<1>3. TypeOK'
  <2>1. shape' \in Shape /\ lease' \in Runner \cup {NoRunner}
    BY DEF Known, TypeOK
  <2>2. \A q \in Runner : /\ run'[q].read <= run'[q].named /\ run'[q].named <= Len(child')
                          /\ run'[q].last <= Len(child') /\ run'[q].sid <= Len(report')
    BY <1>2 DEF Fits
  <2> QED
    BY <1>1, <2>1, <2>2 DEF TypeOK
<1>4. OwnSessions'
  BY <1>1 DEF Known, OwnSessions, At
<1>5. Known'
  BY <1>2, <1>3, <1>4 DEF Known
<1>6. ASSUME ~lapsed
      PROVE  Family' /\ Told' /\ \A q \in Runner : (Beating(q)' => lease' = q) /\ Exact(run[q])'
  <2>1. Family' /\ Told' /\ Exact(d)' /\ lease' = lease
    BY <1>6
  <2> QED
    BY <1>6, <2>1, HolderWrites
<1>7. Alone'
  BY <1>6 DEF Alone
<1> QED
  BY <1>5, <1>7

(* A child more. *)
LEMMA Opened ==
  ASSUME Known, Alone, NEW r \in Runner, At(r, "opening"),
         NEW new \in ChildRow, child' = Append(child, new),
         new.item = run[r].opened + 1, shape.ordered => new.after = run[r].last,
         ~new.started, ~new.arrived,
         NEW d \in RunRow, Step(r, d), UNCHANGED <<shape, parent, report, lease, lapsed>>,
         d.pc \in {"opening", "releasing"},
         d.read = run[r].read, d.named = run[r].named, d.sid = run[r].sid,
         d.last <= Len(child) + 1,
         d.pc = "opening" => /\ d.opened = run[r].opened + 1 /\ d.last = Len(child) + 1
                             /\ d.opened # shape.items
  PROVE  Known' /\ Alone'
<1>1. /\ TypeOK /\ Fits(run[r]) /\ Len(child) \in Nat /\ run[r].pc = "opening"
      /\ run' = [run EXCEPT ![r] = d] /\ parent' \in ParentRow /\ report' \in Seq(ReportRow)
      /\ run[r] \in RunRow /\ run \in [Runner -> RunRow] /\ child \in Seq(ChildRow)
  BY SequencesAre DEF Known, At, Step, TypeOK
<1>2. /\ child' \in Seq(ChildRow) /\ Len(child') = Len(child) + 1
      /\ \A c \in 1 .. Len(child) : child'[c] = child[c]
      /\ child'[Len(child) + 1] = new
  BY <1>1
<1>3. \A c \in 1 .. Len(child') : child'[c].arrived => child'[c].started
  BY <1>1, <1>2 DEF Known
<1>4. Recorded' <=> Recorded
  BY DEF Recorded
<1>5. ASSUME NEW q \in Runner, q # r PROVE Fits(run[q])'
  <2>1. PICK e \in RunRow : Fits(e) /\ e = run[q] /\ run'[q] = e
    BY <1>1, <1>5 DEF Known
  <2>2. Fits(e)'
    <3>1. e.named \in Nat /\ e.last \in Nat /\ report' = report
      BY DEF RunRow
    <3> QED
      BY <1>1, <1>2, <1>4, <2>1, <3>1 DEF Fits
  <2> QED
    BY <2>1, <2>2
<1>6. Fits(d)'
  <2>1. /\ run[r].read \in Nat /\ run[r].named \in Nat /\ run[r].sid \in Nat
        /\ run[r].read <= run[r].named /\ run[r].named <= Len(child)
        /\ run[r].sid <= Len(report)
    BY <1>1 DEF Fits, RunRow
  <2>2. /\ d.read <= d.named /\ d.named <= Len(child') /\ d.last <= Len(child')
        /\ d.sid <= Len(report')
    BY <1>1, <1>2, <2>1
  <2> QED
    BY <2>2 DEF Fits, Early
<1>7. ASSUME ~lapsed PROVE Family' /\ Told' /\ Exact(d)'
  <2>1. Exact(run[r]) /\ Family /\ Told /\ shape \in ShapeRow
    BY <1>1, <1>7, HolderIs, SubgraphAssumption DEF TypeOK
  <2>2. /\ run[r].opened = Len(child) /\ run[r].last = Len(child) /\ Len(child) < shape.items
        /\ parent.left = 0 /\ shape.items \in Nat
    BY <1>1, <2>1 DEF Exact, Deep, ShapeRow
  <2>3. Family'
    <3>1. ASSUME NEW c \in 1 .. Len(child) + 1
          PROVE  /\ child'[c].item = c
                 /\ shape.ordered => child'[c].after = c - 1
                 /\ shape.ordered /\ child'[c].started => \A e \in 1 .. c - 1 : child'[e].arrived
      <4>1. CASE c = Len(child) + 1
        BY <1>1, <1>2, <2>2, <4>1
      <4>2. CASE c # Len(child) + 1
        <5>1. c \in 1 .. Len(child) /\ \A e \in 1 .. c - 1 : child'[e] = child[e]
          BY <1>1, <1>2, <4>2
        <5> QED
          BY <1>2, <2>1, <5>1 DEF Family
      <4> QED
        BY <4>1, <4>2
    <3> QED
      BY <1>1, <1>2, <2>2, <3>1 DEF Family
  <2>4. ~Recorded
    BY <1>1, <2>1, <2>2, SequencesAre DEF Told, Home, Recorded
  <2>5. Told'
    BY <1>1, <2>1, <2>4, SequencesAre DEF Told, Recorded
  <2>6. Exact(d)'
    BY <1>1, <1>2, <2>2 DEF Exact, Deep, Late
  <2> QED
    BY <2>3, <2>5, <2>6
<1>8. parent'.left > 0 => Recorded'
  BY <1>4 DEF Known
<1> QED
  BY <1>1, <1>2, <1>3, <1>5, <1>6, <1>7, <1>8, HolderSteps

LEMMA OpenStep ==
  ASSUME Known, Alone, NEW r \in Runner, OpenChild(r) PROVE Known' /\ Alone'
<1>1. /\ TypeOK /\ Fits(run[r]) /\ Len(child) \in Nat /\ run[r].pc = "opening" /\ At(r, "opening")
      /\ run[r] \in RunRow /\ UNCHANGED <<shape, parent, report, lease, lapsed>>
  BY SequencesAre DEF Known, At, TypeOK, OpenChild
<1>2. PICK d \in RunRow : d = run[r]
  BY <1>1
<1> DEFINE new == [item |-> d.opened + 1, after |-> IF shape.ordered THEN d.last ELSE 0,
                   started |-> FALSE, arrived |-> FALSE, blocked |-> FALSE, cancelled |-> FALSE]
           pc  == IF d.opened + 1 = shape.items THEN "releasing" ELSE "opening"
           on  == [d EXCEPT !.opened = @ + 1, !.last = Len(child) + 1, !.pc = pc]
<1>3. /\ new \in ChildRow /\ new.item = run[r].opened + 1
      /\ shape.ordered => new.after = run[r].last
      /\ ~new.started /\ ~new.arrived
  BY <1>2 DEF ChildRow, RunRow
<1>4. /\ pc \in {"opening", "releasing"}
      /\ pc = "opening" => run[r].opened + 1 # shape.items
  BY <1>2
<1>5. \/ child' = Append(child, new) /\ Step(r, on)
      \/ child' = child /\ Lost(r)
      \/ child' = Append(child, new) /\ Lost(r)
  BY <1>2 DEF OpenChild
<1> HIDE DEF new, pc
<1>6. CASE child' = Append(child, new) /\ Step(r, on)
  <2> DEFINE k == d.opened + 1
             n == Len(child) + 1
             m == [d EXCEPT !.opened = k, !.last = n]
  <2>2. k \in Nat /\ n \in Nat /\ pc \in Phase
    BY <1>1, <1>2, <1>4 DEF RunRow, Phase
  <2>3. on = [m EXCEPT !.pc = pc] /\ n = Len(child) + 1 /\ k = d.opened + 1
    OBVIOUS
  <2> HIDE DEF k, n, on
  <2>4. /\ m \in RunRow /\ m.read = d.read /\ m.named = d.named
        /\ m.sid = d.sid /\ m.opened = k /\ m.last = n
    BY <2>2 DEF RunRow
  <2> HIDE DEF m
  <2>5. /\ on \in RunRow /\ on.pc = pc /\ on.read = m.read /\ on.named = m.named
        /\ on.sid = m.sid /\ on.opened = m.opened /\ on.last = m.last
    BY <2>2, <2>3, <2>4 DEF RunRow, Phase
  <2>1. /\ on \in RunRow /\ on.pc = pc /\ on.read = d.read /\ on.named = d.named
        /\ on.sid = d.sid /\ on.opened = d.opened + 1 /\ on.last = Len(child) + 1
    BY <2>3, <2>4, <2>5
  <2> QED
    BY <1>1, <1>2, <1>3, <1>4, <1>6, <2>1, Opened
<1>7. CASE child' = child /\ Lost(r)
  BY <1>1, <1>7, ReadFails
<1>8. CASE child' = Append(child, new) /\ Lost(r)
  <2> DEFINE off == Goto(r, "releasing")
  <2>1. /\ off \in RunRow /\ off.pc = "releasing" /\ off.read = d.read /\ off.named = d.named
        /\ off.sid = d.sid /\ off.last = d.last
    BY <1>1, <1>2, GotoIs DEF Phase
  <2>2. Step(r, off)
    BY <1>8 DEF Lost
  <2> HIDE DEF off
  <2>3. off.last <= Len(child) + 1
    BY <1>1, <1>2, <2>1 DEF Fits, RunRow
  <2> QED
    BY <1>1, <1>2, <1>3, <1>8, <2>1, <2>2, <2>3, Opened
<1> QED
  BY <1>5, <1>6, <1>7, <1>8

(* A session more, still open. *)
LEMMA Reported ==
  ASSUME Known, Alone, NEW r \in Runner, At(r, "recording"),
         report' = Append(report, [status |-> "open", output |-> <<>>]),
         NEW d \in RunRow, Step(r, d), UNCHANGED <<shape, parent, child, lease, lapsed>>,
         d.pc \in {"finishing", "releasing"},
         d.read = run[r].read, d.named = run[r].named, d.last = run[r].last,
         d.output = run[r].output, d.sid <= Len(report) + 1,
         d.pc = "finishing" => d.sid = Len(report) + 1
  PROVE  Known' /\ Alone'
<1> DEFINE new == [status |-> "open", output |-> <<>>]
<1>1. /\ TypeOK /\ Fits(run[r]) /\ run[r].pc = "recording" /\ Len(report) \in Nat
      /\ run' = [run EXCEPT ![r] = d] /\ parent' \in ParentRow /\ child' \in Seq(ChildRow)
      /\ run \in [Runner -> RunRow] /\ report \in Seq(ReportRow)
      /\ new \in ReportRow /\ new.status = "open"
  BY SequencesAre DEF Known, At, Step, TypeOK, ReportRow
<1> HIDE DEF new
<1>2. /\ report' \in Seq(ReportRow) /\ Len(report') = Len(report) + 1
      /\ \A s \in 1 .. Len(report) : report'[s] = report[s]
      /\ report'[Len(report) + 1] = new
  BY <1>1 DEF new
<1>3. Recorded' <=> Recorded
  <2>1. DOMAIN report = 1 .. Len(report) /\ DOMAIN report' = 1 .. Len(report) + 1
    BY <1>1, <1>2
  <2>2. \A s \in 1 .. Len(report) + 1 : s = Len(report) + 1 \/ s \in 1 .. Len(report)
    BY <1>1
  <2>3. \A s \in 1 .. Len(report) : s \in 1 .. Len(report) + 1
    BY <1>1
  <2> QED
    BY <1>1, <1>2, <2>1, <2>2, <2>3 DEF Recorded
<1>4. ASSUME NEW q \in Runner, q # r
      PROVE  Fits(run[q])' /\ (At(q, "finishing") /\ d.pc = "finishing" => run[q].sid # d.sid)
  <2>1. PICK e \in RunRow : Fits(e) /\ e = run[q] /\ run'[q] = e
    BY <1>1, <1>4 DEF Known
  <2>2. e.sid \in Nat
    BY DEF RunRow
  <2>3. Fits(e)'
    BY <1>1, <1>2, <1>3, <2>1, <2>2 DEF Fits
  <2>4. e.sid <= Len(report)
    BY <2>1 DEF Fits
  <2> QED
    BY <1>1, <2>1, <2>2, <2>3, <2>4 DEF At
<1>5. Fits(d)'
  BY <1>1, <1>2 DEF Fits, Early
<1>6. ASSUME ~lapsed PROVE Family' /\ Told' /\ Exact(d)'
  <2>1. Exact(run[r]) /\ Family /\ Told
    BY <1>1, <1>6, HolderIs
  <2>2. Home /\ parent.left = 0 /\ ~Recorded /\ run[r].output = Whole
    BY <1>1, <2>1 DEF Exact, Deep, Late
  <2>3. Family' /\ Home' /\ Whole' = Whole
    BY <2>1, <2>2 DEF Family, Home, Whole
  <2>4. Told'
    BY <1>2, <1>3, <2>1, <2>2 DEF Told, Recorded
  <2>5. Exact(d)'
    BY <1>1, <1>3, <2>2, <2>3 DEF Exact, Deep, Late
  <2> QED
    BY <2>3, <2>4, <2>5
<1>7. \A c \in 1 .. Len(child') : child'[c].arrived => child'[c].started
  BY DEF Known
<1>8. parent'.left > 0 => Recorded'
  BY <1>3 DEF Known
<1> QED
  BY <1>1, <1>2, <1>4, <1>5, <1>6, <1>7, <1>8, HolderSteps

LEMMA RecordStep ==
  ASSUME Known, Alone, NEW r \in Runner, RecordSession(r) PROVE Known' /\ Alone'
<1> DEFINE new == Append(report, [status |-> "open", output |-> <<>>])
<1>1. /\ TypeOK /\ Fits(run[r]) /\ Len(report) \in Nat /\ run[r].pc = "recording"
      /\ At(r, "recording") /\ run[r] \in RunRow
      /\ UNCHANGED <<shape, parent, child, lease, lapsed>>
  BY SequencesAre DEF Known, At, TypeOK, RecordSession
<1>2. PICK d \in RunRow : d = run[r]
  BY <1>1
<1>3. new = Append(report, [status |-> "open", output |-> <<>>]) /\ Len(new) = Len(report) + 1
  BY <1>1 DEF TypeOK
<1>4. \/ report' = new /\ Step(r, [d EXCEPT !.pc = "finishing", !.sid = Len(new)])
      \/ report' = report /\ Lost(r)
      \/ report' = new /\ Lost(r)
  BY <1>2 DEF RecordSession
<1> HIDE DEF new
<1>5. CASE report' = new /\ Step(r, [d EXCEPT !.pc = "finishing", !.sid = Len(new)])
  <2> DEFINE k == Len(report) + 1
             on == [d EXCEPT !.pc = "finishing", !.sid = k]
  <2>1. k \in Nat /\ k = Len(report) + 1 /\ Step(r, on)
    BY <1>1, <1>3, <1>5
  <2> HIDE DEF k
  <2>2. /\ on \in RunRow /\ on.pc = "finishing" /\ on.read = d.read /\ on.named = d.named
        /\ on.last = d.last /\ on.output = d.output /\ on.sid = k
    BY <2>1 DEF RunRow
  <2> HIDE DEF on
  <2> QED
    BY <1>1, <1>2, <1>3, <1>5, <2>1, <2>2, Reported
<1>6. CASE report' = report /\ Lost(r)
  BY <1>1, <1>6, ReadFails
<1>7. CASE report' = new /\ Lost(r)
  <2> DEFINE off == Goto(r, "releasing")
  <2>1. /\ off \in RunRow /\ off.pc = "releasing" /\ off.read = d.read /\ off.named = d.named
        /\ off.last = d.last /\ off.output = d.output /\ off.sid = d.sid
    BY <1>1, <1>2, GotoIs DEF Phase
  <2>2. Step(r, off)
    BY <1>7 DEF Lost
  <2> HIDE DEF off
  <2>3. off.sid <= Len(report) + 1
    BY <1>1, <1>2, <2>1 DEF Fits, RunRow
  <2> QED
    BY <1>1, <1>2, <1>3, <1>7, <2>1, <2>2, <2>3, Reported
<1> QED
  BY <1>4, <1>5, <1>6, <1>7

(* A session closed: as a report of the whole node, or without an output. *)
LEMMA Closed ==
  ASSUME Known, Alone, NEW r \in Runner, At(r, "finishing"),
         NEW row \in ReportRow, report' = [report EXCEPT ![run[r].sid] = row],
         row.status = "completed" => row.output = run[r].output,
         row.status # "open",
         NEW d \in RunRow, Step(r, d), UNCHANGED <<shape, parent, child, lease, lapsed>>,
         d.pc \in {"routing", "refusing", "releasing"},
         d.pc = "routing" => row.status = "completed",
         d.read = run[r].read, d.named = run[r].named, d.last = run[r].last,
         d.sid = run[r].sid
  PROVE  Known' /\ Alone'
<1> DEFINE k == run[r].sid
<1>1. /\ TypeOK /\ Fits(run[r]) /\ run[r].pc = "finishing" /\ Len(report) \in Nat
      /\ run' = [run EXCEPT ![r] = d] /\ parent' \in ParentRow /\ child' \in Seq(ChildRow)
      /\ run \in [Runner -> RunRow] /\ report \in Seq(ReportRow) /\ run[r] \in RunRow
  BY SequencesAre DEF Known, At, Step, TypeOK
<1>2. k \in 1 .. Len(report) /\ report[k].status = "open"
  BY <1>1 DEF Fits, RunRow
<1>3. /\ report' \in Seq(ReportRow) /\ Len(report') = Len(report)
      /\ report'[k] = row
      /\ \A s \in 1 .. Len(report) : s # k => report'[s] = report[s]
  BY <1>1, <1>2
<1>4. DOMAIN report = 1 .. Len(report) /\ DOMAIN report' = 1 .. Len(report)
  BY <1>1, <1>3
<1>5. Recorded' <=> Recorded \/ row.status = "completed"
  BY <1>2, <1>3, <1>4 DEF Recorded
<1>6. ASSUME NEW q \in Runner, q # r PROVE Fits(run[q])'
  <2>1. PICK e \in RunRow : Fits(e) /\ e = run[q] /\ run'[q] = e
    BY <1>1, <1>6 DEF Known
  <2>2. e.pc = "finishing" => e.sid # k
    BY <1>1, <1>6, <2>1 DEF Known, OwnSessions, At
  <2>3. e.pc = "finishing" => e.sid \in 1 .. Len(report)
    BY <1>1, <2>1 DEF Fits, RunRow
  <2> QED
    BY <1>3, <1>5, <2>1, <2>2, <2>3 DEF Fits
<1>7. Fits(d)'
  BY <1>1, <1>3, <1>5 DEF Fits, Early
<1>8. ASSUME ~lapsed PROVE Family' /\ Told' /\ Exact(d)'
  <2>1. Exact(run[r]) /\ Family /\ Told
    BY <1>1, <1>8, HolderIs
  <2>2. Home /\ parent.left = 0 /\ ~Recorded /\ run[r].output = Whole
    BY <1>1, <2>1 DEF Exact, Deep, Late
  <2>3. Family' /\ Home' /\ Whole' = Whole
    BY <2>1, <2>2 DEF Family, Home, Whole
  <2>4. \A s \in 1 .. Len(report) : report'[s].status = "completed" => s = k
    BY <1>3, <1>4, <2>2 DEF Recorded
  <2>5. Told'
    BY <1>3, <2>1, <2>2, <2>3, <2>4 DEF Told
  <2>6. Exact(d)'
    BY <2>2, <2>3 DEF Exact, Deep, Late
  <2> QED
    BY <2>3, <2>5, <2>6
<1>9. \A c \in 1 .. Len(child') : child'[c].arrived => child'[c].started
  BY DEF Known
<1>10. parent'.left > 0 => Recorded'
  BY <1>5 DEF Known
<1>11. d.pc # "finishing"
  OBVIOUS
<1> QED
  BY <1>1, <1>3, <1>6, <1>7, <1>8, <1>9, <1>10, <1>11, HolderSteps

LEMMA FinishStep ==
  ASSUME Known, Alone, NEW r \in Runner, FinishSession(r) PROVE Known' /\ Alone'
<1>1. /\ TypeOK /\ Fits(run[r]) /\ run[r].pc = "finishing"
      /\ At(r, "finishing") /\ run[r] \in RunRow
      /\ UNCHANGED <<shape, parent, child, lease, lapsed>>
  BY DEF Known, At, TypeOK, FinishSession
<1> DEFINE full == [status |-> "completed", output |-> run[r].output]
           none == [status |-> "no_output", output |-> <<>>]
<1>2. /\ full \in ReportRow /\ full.status = "completed" /\ full.output = run[r].output
      /\ none \in ReportRow /\ none.status = "no_output"
  BY <1>1 DEF ReportRow, RunRow
<1>3. \/ \E row \in {full, none}, pc \in {"routing", "refusing", "releasing"} :
           /\ report' = [report EXCEPT ![run[r].sid] = row] /\ Step(r, Goto(r, pc))
           /\ pc = "routing" => row = full
      \/ report' = report /\ Lost(r)
  BY DEF FinishSession, Lost
<1> HIDE DEF full, none
<1>4. CASE report' = report /\ Lost(r)
  BY <1>1, <1>4, ReadFails
<1>5. ASSUME NEW row \in {full, none}, NEW pc \in {"routing", "refusing", "releasing"},
             report' = [report EXCEPT ![run[r].sid] = row], Step(r, Goto(r, pc)),
             pc = "routing" => row = full
      PROVE  Known' /\ Alone'
  <2> DEFINE d == Goto(r, pc)
  <2>1. /\ d \in RunRow /\ d.pc = pc /\ d.read = run[r].read /\ d.named = run[r].named
        /\ d.last = run[r].last /\ d.sid = run[r].sid
    BY <1>1, GotoIs DEF Phase
  <2>2. Step(r, d)
    BY <1>5
  <2> HIDE DEF d
  <2>3. /\ row \in ReportRow /\ row.status # "open"
        /\ row.status = "completed" => row.output = run[r].output
        /\ d.pc = "routing" => row.status = "completed"
    BY <1>2, <1>5, <2>1
  <2> QED
    BY <1>1, <1>5, <2>1, <2>2, <2>3, Closed
<1> QED
  BY <1>3, <1>4, <1>5

LEMMA RouteStep ==
  ASSUME Known, Alone, NEW r \in Runner, Route(r) PROVE Known' /\ Alone'
<1>1. /\ TypeOK /\ Fits(run[r]) /\ run[r].pc = "routing" /\ run[r] \in RunRow
      /\ UNCHANGED <<shape, child, report, lease, lapsed>>
      /\ Recorded /\ parent \in ParentRow /\ child \in Seq(ChildRow) /\ report \in Seq(ReportRow)
  BY DEF Known, At, TypeOK, Route, Fits
<1>a. PICK d \in RunRow : d = Goto(r, "releasing")
  BY <1>1, GotoIs DEF Phase
<1>2. /\ d \in RunRow /\ d.pc = "releasing"
  BY <1>1, <1>a, GotoIs DEF Phase
<1>3. Fits(d) /\ Exact(d)'
  <2>1. Fits(d)
    BY <1>1, <1>a, GotoFits DEF Phase, Early
  <2>2. Exact(d)'
    BY <1>2 DEF Exact, Deep, Late
  <2> QED
    BY <2>1, <2>2
<1>4. Step(r, d)
  BY <1>a DEF Route, Lost
<1>5. CASE parent' = parent
  <2>1. Exact(d)
    BY <1>2, RestingIsExact
  <2> QED
    BY <1>1, <1>2, <1>3, <1>4, <1>5, <2>1, Onward
<1>6. CASE parent' = [parent EXCEPT !.node = "next", !.left = @ + 1]
  <2>1. parent' \in ParentRow /\ parent'.left = parent.left + 1
    <3>1. PICK p \in ParentRow : p = parent
      BY <1>1
    <3>2. parent' = [p EXCEPT !.node = "next", !.left = p.left + 1] /\ p.left + 1 \in Nat
      BY <1>6, <3>1 DEF ParentRow
    <3>3. parent' \in ParentRow /\ parent'.left = p.left + 1
      BY <3>2 DEF ParentRow
    <3> QED
      BY <3>1, <3>3
  <2>2. Recorded' <=> Recorded
    BY <1>1 DEF Recorded
  <2>3. run' = [run EXCEPT ![r] = d]
    BY <1>4 DEF Step
  <2>4. Fits(d)'
    BY <1>1, <1>3, <2>2 DEF Fits
  <2>5. ASSUME NEW q \in Runner, q # r PROVE Fits(run[q])'
    <3>1. Fits(run[q]) /\ run'[q] = run[q]
      BY <1>1, <1>2, <2>3, <2>5, RunSet DEF Known
    <3> QED
      BY <1>1, <2>2, <3>1 DEF Fits
  <2>6. ASSUME ~lapsed PROVE Family' /\ Told' /\ Exact(d)'
    <3>1. Family /\ Told /\ Exact(run[r])
      BY <1>1, <2>6, HolderIs
    <3>2. parent.left = 0
      BY <1>1, <3>1 DEF Exact, Deep
    <3>3. Family'
      BY <1>1, <3>1 DEF Family
    <3>4. Told'
      <4>1. (Home' <=> Home) /\ Whole' = Whole
        BY <1>1 DEF Whole, Home
      <4>2. parent'.left <= 1
        BY <2>1, <3>2
      <4> QED
        BY <1>1, <3>1, <4>1, <4>2 DEF Told
    <3> QED
      BY <1>3, <3>3, <3>4
  <2>7. \A c \in 1 .. Len(child') : child'[c].arrived => child'[c].started
    BY <1>1 DEF Known
  <2>8. d.pc # "finishing"
    BY <1>2
  <2> QED
    BY <1>1, <1>2, <2>1, <2>2, <2>3, <2>4, <2>5, <2>6, <2>7, <2>8, HolderSteps
<1> QED
  BY <1>5, <1>6 DEF Route

LEMMA RefuseStep ==
  ASSUME Known, Alone, NEW r \in Runner, Refuse(r) PROVE Known' /\ Alone'
<1>1. /\ TypeOK /\ run[r].pc = "refusing" /\ parent \in ParentRow
      /\ UNCHANGED <<shape, child, report, lease, lapsed>>
  BY DEF Known, At, TypeOK, Refuse
<1> DEFINE d == Goto(r, "releasing")
<1>2. /\ d \in RunRow /\ d.pc = "releasing"
  BY <1>1, GotoIs DEF Phase
<1>3. Fits(d)
  BY <1>1, GotoFits DEF Phase, Early
<1>4. run' = [run EXCEPT ![r] = d]
  BY DEF Refuse, Lost, Step
<1> HIDE DEF d
<1>5. Exact(d)
  BY <1>2, RestingIsExact
<1>6. parent' \in ParentRow /\ parent'.left = parent.left
  BY <1>1 DEF Refuse, ParentRow
<1>7. ~lapsed => lease' = r
  BY <1>1, HolderIs
<1> QED
  BY <1>1, <1>2, <1>3, <1>4, <1>5, <1>6, <1>7, Kept

LEMMA DispatchStep ==
  ASSUME Known, Alone, NEW r \in Runner, Dispatch(r) PROVE Known' /\ Alone'
<1>1. CASE RefuseSurplus(r)
  BY <1>1, ReconciledIs, Stopping DEF RefuseSurplus
<1>2. CASE OpenRefused(r)
  BY <1>2, ReadingStops DEF OpenRefused, At
<1>3. CASE KeepWaiting(r)
  BY <1>3, ReconciledIs, Stopping DEF KeepWaiting
<1> QED
  BY <1>1, <1>2, <1>3, ReadJobStep, ReadContextStep, ReadChildStep, PlanStep, OpenStep,
     ResumeStep, CollectStep, RecordStep, FinishStep, RouteStep, RefuseStep DEF Dispatch

(* A runner killed. *)
LEMMA CrashStep ==
  ASSUME Known, Alone, NEW r \in Runner, Crash(r) PROVE Known' /\ Alone'
<1>1. /\ TypeOK /\ parent' \in ParentRow /\ parent'.left = parent.left
      /\ run' = [run EXCEPT ![r] = Idle] /\ lease' = lease
      /\ UNCHANGED <<shape, child, report, lapsed>>
  BY DEF Known, TypeOK, Crash, Step
<1> QED
  BY <1>1, IdleIs, IdleFits, Kept

(* A lease that runs out: of a dispatch that is gone, or of one under way. *)
LEMMA ExpiryStep ==
  ASSUME Known, Alone, Expire \/ Lapse PROVE Known' /\ Alone'
<1>1. /\ UNCHANGED <<shape, parent, child, report, run>> /\ lease' = NoRunner
      /\ lapsed' \/ (lapsed' = lapsed /\ lease # NoRunner /\ ~Beating(lease))
  BY DEF Expire, Lapse
<1>2. Known'
  <2>1. Recorded' <=> Recorded
    BY <1>1 DEF Recorded
  <2>2. \A r \in Runner : Fits(run[r])' <=> Fits(run[r])
    BY <1>1, <2>1 DEF Fits
  <2>3. OwnSessions'
    BY <1>1 DEF Known, OwnSessions, At
  <2>4. TypeOK'
    BY <1>1 DEF Known, TypeOK
  <2> QED
    BY <1>1, <2>1, <2>2, <2>3, <2>4 DEF Known
<1>3. ASSUME ~lapsed'
      PROVE  Family' /\ Told' /\ \A r \in Runner : (Beating(r)' => lease' = r) /\ Exact(run[r])'
  <2>1. /\ ~lapsed /\ ~Beating(lease) /\ Family /\ Told
        /\ \A r \in Runner : (Beating(r) => lease = r) /\ Exact(run[r])
    BY <1>1, <1>3 DEF Alone
  <2>2. Family' /\ Told'
    BY <1>1, <2>1 DEF Family, Told, Whole, Home
  <2>3. \A r \in Runner : ~Beating(r)'
    BY <1>1, <2>1 DEF Beating
  <2>4. Recorded' <=> Recorded
    BY <1>1 DEF Recorded
  <2>5. \A r \in Runner : Exact(run[r])'
    BY <1>1, <2>1, <2>4 DEF Exact, Whole, Home
  <2> QED
    BY <2>2, <2>3, <2>5
<1> QED
  BY <1>2, <1>3 DEF Alone

-----------------------------------------------------------------------------
(* The family: children arrive and never come back, and a chain in its order. *)

LEMMA FamilyGoesOn ==
  ASSUME Known, Alone, UNCHANGED <<shape, report, lease, run, lapsed>>,
         parent' \in ParentRow, parent'.left = parent.left,
         child' \in Seq(ChildRow), Len(child') = Len(child),
         \A c \in 1 .. Len(child) :
           /\ child'[c].item = child[c].item /\ child'[c].after = child[c].after
           /\ child[c].arrived => child'[c].arrived
           /\ child'[c].arrived => child'[c].started
           /\ child'[c].started /\ ~child[c].started =>
                (child[c].after # 0 => child[child[c].after].arrived)
  PROVE  Known' /\ Alone'
<1>1. TypeOK /\ Len(child) \in Nat
  BY SequencesAre DEF Known
<1>2. Recorded' <=> Recorded
  BY DEF Recorded
<1>3. Known'
  <2>1. \A r \in Runner : Fits(run[r])' <=> Fits(run[r])
    BY <1>2 DEF Fits
  <2>2. OwnSessions'
    BY DEF Known, OwnSessions, At
  <2>3. TypeOK'
    BY <1>1 DEF TypeOK
  <2> QED
    BY <1>1, <1>2, <2>1, <2>2, <2>3 DEF Known
<1>4. ASSUME ~lapsed
      PROVE  Family' /\ Told' /\ \A r \in Runner : (Beating(r)' => lease' = r) /\ Exact(run[r])'
  <2>1. /\ Family /\ Told
        /\ \A r \in Runner : (Beating(r) => lease = r) /\ Exact(run[r])
    BY <1>4 DEF Alone
  <2>2. Home => Home'
    BY DEF Home
  <2>3. Family'
    <3>1. ASSUME NEW c \in 1 .. Len(child), shape.ordered, child'[c].started,
                 NEW e \in 1 .. c - 1
          PROVE  child'[e].arrived
      <4>1. e \in 1 .. Len(child) /\ (child[e].arrived => child'[e].arrived)
        BY <1>1, <3>1
      <4>2. CASE child[c].started
        BY <2>1, <3>1, <4>1, <4>2 DEF Family
      <4>3. CASE ~child[c].started
        <5>1. child[c].after = c - 1 /\ c - 1 \in 1 .. Len(child)
          BY <1>1, <2>1, <3>1 DEF Family
        <5>2. child[c - 1].arrived /\ child[c - 1].started
          BY <1>1, <3>1, <4>3, <5>1 DEF Known
        <5>3. e = c - 1 \/ e \in 1 .. (c - 1) - 1
          BY <3>1
        <5>4. child[e].arrived
          BY <2>1, <3>1, <5>1, <5>2, <5>3 DEF Family
        <5> QED
          BY <4>1, <5>4
      <4> QED
        BY <4>2, <4>3
    <3> QED
      BY <2>1, <3>1 DEF Family
  <2>4. Told'
    BY <2>1, <2>2 DEF Told, Whole
  <2>5. ASSUME NEW r \in Runner PROVE Exact(run[r])'
    <3>1. Exact(run[r]) /\ run[r].read \in Nat /\ run[r].read <= Len(child)
      BY <1>1, <2>1 DEF Known, Fits, TypeOK, RunRow
    <3>2. \A c \in 1 .. run[r].read : c \in 1 .. Len(child)
      BY <1>1, <3>1
    <3> QED
      BY <1>2, <2>2, <3>1, <3>2 DEF Exact, Whole
  <2> QED
    BY <2>1, <2>3, <2>4, <2>5 DEF Beating
<1> QED
  BY <1>3, <1>4 DEF Alone

(* One child's row changes. *)
LEMMA ChildSet ==
  ASSUME Known, Alone, UNCHANGED <<shape, parent, report, lease, run, lapsed>>,
         NEW c \in 1 .. Len(child), NEW row \in ChildRow, child' = [child EXCEPT ![c] = row],
         row.item = child[c].item, row.after = child[c].after,
         child[c].arrived => row.arrived, row.arrived => row.started,
         row.started /\ ~child[c].started =>
           (child[c].after # 0 => child[child[c].after].arrived)
  PROVE  Known' /\ Alone'
<1>1. child \in Seq(ChildRow) /\ parent' \in ParentRow /\ parent'.left = parent.left
  BY DEF Known, TypeOK
<1>2. /\ child' \in Seq(ChildRow) /\ Len(child') = Len(child) /\ child'[c] = row
      /\ \A k \in 1 .. Len(child) : k # c => child'[k] = child[k]
  BY <1>1
<1>3. ASSUME NEW k \in 1 .. Len(child)
      PROVE  /\ child'[k].item = child[k].item /\ child'[k].after = child[k].after
             /\ child[k].arrived => child'[k].arrived
             /\ child'[k].arrived => child'[k].started
             /\ child'[k].started /\ ~child[k].started =>
                  (child[k].after # 0 => child[child[k].after].arrived)
  BY <1>2 DEF Known
<1> QED
  BY <1>1, <1>2, <1>3, FamilyGoesOn

LEMMA ChildStep ==
  ASSUME Known, Alone, NEW c \in DOMAIN child, Start(c) \/ Arrive(c) \/ StopChild(c)
  PROVE  Known' /\ Alone'
<1>1. /\ TypeOK /\ c \in 1 .. Len(child)
      /\ child[c].arrived => child[c].started
      /\ UNCHANGED <<shape, parent, report, lease, run, lapsed>>
  BY SequencesAre DEF Known, Start, Arrive, StopChild
<1>2. PICK k \in ChildRow : k = child[c]
  BY <1>1, SequencesAre
<1>3. CASE Start(c)
  <2> DEFINE row == [k EXCEPT !.started = TRUE]
  <2>1. row \in ChildRow /\ row.item = k.item /\ row.after = k.after /\ row.arrived = k.arrived
        /\ row.started
    BY DEF ChildRow
  <2>2. child' = [child EXCEPT ![c] = row]
    BY <1>2, <1>3 DEF Start
  <2>3. child[c].after # 0 => child[child[c].after].arrived
    BY <1>3 DEF Start, Completed
  <2> HIDE DEF row
  <2> QED
    BY <1>1, <1>2, <2>1, <2>2, <2>3, ChildSet
<1>4. CASE Arrive(c)
  <2> DEFINE row == [k EXCEPT !.arrived = TRUE]
  <2>1. row \in ChildRow /\ row.item = k.item /\ row.after = k.after /\ row.arrived
        /\ row.started = k.started
    BY DEF ChildRow
  <2>2. child' = [child EXCEPT ![c] = row] /\ child[c].started
    BY <1>2, <1>4 DEF Arrive
  <2> HIDE DEF row
  <2> QED
    BY <1>1, <1>2, <2>1, <2>2, ChildSet
<1>5. CASE StopChild(c)
  <2>1. PICK row \in ChildRow : /\ child' = [child EXCEPT ![c] = row]
                                /\ row.item = k.item /\ row.after = k.after
                                /\ row.arrived = k.arrived /\ row.started = k.started
    <3> DEFINE one == [k EXCEPT !.blocked = ~@]
               two == [k EXCEPT !.cancelled = TRUE]
    <3>1. one \in ChildRow /\ one.item = k.item /\ one.after = k.after
          /\ one.arrived = k.arrived /\ one.started = k.started
      BY DEF ChildRow
    <3>2. two \in ChildRow /\ two.item = k.item /\ two.after = k.after
          /\ two.arrived = k.arrived /\ two.started = k.started
      BY DEF ChildRow
    <3>3. child' = [child EXCEPT ![c] = one] \/ child' = [child EXCEPT ![c] = two]
      BY <1>2, <1>5 DEF StopChild
    <3> HIDE DEF one, two
    <3> QED
      BY <3>1, <3>2, <3>3
  <2> QED
    BY <1>1, <1>2, <2>1, ChildSet
<1> QED
  BY <1>3, <1>4, <1>5

LEMMA StopParentStep ==
  ASSUME Known, Alone, StopParent PROVE Known' /\ Alone'
<1>1. /\ TypeOK /\ parent \in ParentRow /\ child \in Seq(ChildRow) /\ DOMAIN child = 1 .. Len(child)
      /\ Len(child) \in Nat
      /\ UNCHANGED <<shape, report, lease, run, lapsed>>
  BY SequencesAre DEF Known, TypeOK, StopParent
<1>2. parent' \in ParentRow /\ parent'.left = parent.left
  BY <1>1 DEF StopParent, ParentRow
<1>3. /\ child' \in Seq(ChildRow) /\ Len(child') = Len(child)
      /\ \A c \in 1 .. Len(child) :
           /\ child'[c].item = child[c].item /\ child'[c].after = child[c].after
           /\ child'[c].arrived = child[c].arrived /\ child'[c].started = child[c].started
  <2>1. CASE child' = child
    BY <1>1, <2>1
  <2>2. CASE child' = [c \in DOMAIN child |->
                         IF Completed(c) THEN child[c] ELSE [child[c] EXCEPT !.cancelled = TRUE]]
    <3> DEFINE row(c) == IF Completed(c) THEN child[c] ELSE [child[c] EXCEPT !.cancelled = TRUE]
    <3>1. ASSUME NEW c \in 1 .. Len(child)
          PROVE  /\ row(c) \in ChildRow
                 /\ row(c).item = child[c].item /\ row(c).after = child[c].after
                 /\ row(c).arrived = child[c].arrived /\ row(c).started = child[c].started
      <4>1. PICK k \in ChildRow : k = child[c]
        BY <1>1, SequencesAre
      <4> DEFINE off == [k EXCEPT !.cancelled = TRUE]
      <4>2. off \in ChildRow /\ off.item = k.item /\ off.after = k.after
            /\ off.arrived = k.arrived /\ off.started = k.started
        BY DEF ChildRow
      <4>3. row(c) = k \/ row(c) = off
        BY <4>1
      <4> HIDE DEF row, off
      <4> QED
        BY <4>1, <4>2, <4>3
    <3>2. child' = [c \in 1 .. Len(child) |-> row(c)]
      BY <1>1, <2>2
    <3> HIDE DEF row
    <3> QED
      BY <1>1, <3>1, <3>2
  <2> QED
    BY <2>1, <2>2 DEF StopParent
<1>4. \A c \in 1 .. Len(child) : child[c].arrived => child[c].started
  BY DEF Known
<1> QED
  BY <1>1, <1>2, <1>3, <1>4, FamilyGoesOn

LEMMA ReworkStep ==
  ASSUME Known, Alone, Rework PROVE Known' /\ Alone'
<1>1. /\ child \in Seq(ChildRow) /\ child' = child
      /\ UNCHANGED <<shape, report, lease, run, lapsed>>
      /\ parent' \in ParentRow /\ parent'.left = parent.left
  BY DEF Known, TypeOK, Rework, ParentRow
<1>2. \A c \in 1 .. Len(child) : child[c].arrived => child[c].started
  BY DEF Known
<1> QED
  BY <1>1, <1>2, FamilyGoesOn

-----------------------------------------------------------------------------
LEMMA InitStep == ASSUME Init PROVE Known /\ Alone
<1>1. /\ run \in [Runner -> RunRow] /\ \A r \in Runner : run[r] = Idle
      /\ child = <<>> /\ report = <<>> /\ Len(child) = 0 /\ Len(report) = 0
      /\ parent \in ParentRow /\ parent.left = 0
      /\ lease = NoRunner /\ shape \in Shape
  BY IdleIs DEF Init, ParentRow
<1>2. TypeOK
  <2>1. child \in Seq(ChildRow) /\ report \in Seq(ReportRow)
    BY <1>1
  <2> QED
    BY <1>1, <2>1, IdleIs DEF TypeOK
<1>3. \A r \in Runner : Fits(run[r]) /\ Exact(run[r])
  BY <1>1, <1>2, IdleFits
<1>4. OwnSessions
  BY <1>1, IdleIs DEF OwnSessions, At
<1>5. \A r \in Runner : ~Beating(r)
  BY <1>1, IdleIs DEF Beating
<1>6. Family /\ Told
  <2>1. shape.items \in Nat
    BY <1>1, SubgraphAssumption DEF ShapeRow
  <2> QED
    BY <1>1, <2>1 DEF Family, Told
<1> QED
  BY <1>1, <1>2, <1>3, <1>4, <1>5, <1>6 DEF Known, Alone

LEMMA StutterStep ==
  ASSUME Known, Alone, UNCHANGED vars PROVE Known' /\ Alone'
<1>1. UNCHANGED <<shape, parent, child, report, lease, run, lapsed>>
  BY DEF vars
<1>2. Recorded' <=> Recorded
  BY <1>1 DEF Recorded
<1>3. Known'
  BY <1>1, <1>2 DEF Known, TypeOK, Fits, OwnSessions, At
<1>4. \A r \in Runner : (Exact(run[r])' <=> Exact(run[r])) /\ (Beating(r)' <=> Beating(r))
  BY <1>1, <1>2 DEF Exact, Home, Whole, Beating
<1>5. (Family' <=> Family) /\ (Told' <=> Told)
  BY <1>1 DEF Family, Told, Home, Whole
<1> QED
  BY <1>1, <1>3, <1>4, <1>5 DEF Alone

(* The inductive invariant: what a dispatch has read is there, and as long as no
   lease lapsed under one, it is all there is. *)
LEMMA Always == Spec => [](Known /\ Alone)
<1>1. Init => Known /\ Alone
  BY InitStep
<1>2. Known /\ Alone /\ [Next]_vars => (Known /\ Alone)'
  <2> SUFFICES ASSUME Known, Alone, [Next]_vars PROVE Known' /\ Alone'
    OBVIOUS
  <2>1. ASSUME NEW r \in Runner, Tick(r) \/ Dispatch(r) \/ Crash(r) PROVE Known' /\ Alone'
    BY <2>1, TickStep, DispatchStep, CrashStep
  <2>2. CASE Expire \/ Lapse
    BY <2>2, ExpiryStep
  <2>3. ASSUME NEW c \in DOMAIN child, Start(c) \/ Arrive(c) \/ StopChild(c)
        PROVE  Known' /\ Alone'
    BY <2>3, ChildStep
  <2>4. CASE StopParent
    BY <2>4, StopParentStep
  <2>5. CASE Rework
    BY <2>5, ReworkStep
  <2>6. CASE UNCHANGED vars
    BY <2>6, StutterStep
  <2> QED
    BY <2>1, <2>2, <2>3, <2>4, <2>5, <2>6 DEF Next
<1> QED
  BY <1>1, <1>2, PTL DEF Spec

-----------------------------------------------------------------------------
(* Rows keep their shape and a dispatch knows no child the job does not have. *)
THEOREM TypeCorrect == Spec => []TypeOK
<1>1. Known /\ Alone => TypeOK
  BY DEF Known
<1> QED
  BY <1>1, Always, PTL

(* Whatever dies or fails between two POSTs /jobs of a reconciliation
   (subgraph-node.ts), child k is the one of element k and there is at most one
   for each, and no link of a chain starts before the ones in front of it
   arrived, for as long as no lease lapsed under a dispatch. *)
THEOREM ChildrenMatch == Spec => []ChildrenMatchElements
<1>1. Known /\ Alone => ChildrenMatchElements
  <2> SUFFICES ASSUME Known, Alone, ~lapsed
               PROVE  /\ Len(child) <= shape.items
                      /\ \A c \in DOMAIN child :
                           /\ child[c].item = c
                           /\ shape.ordered /\ child[c].started =>
                                \A b \in 1 .. c - 1 : child[b].arrived
    BY DEF ChildrenMatchElements
  <2>1. Family /\ DOMAIN child = 1 .. Len(child)
    BY SequencesAre DEF Known, Alone
  <2> QED
    BY <2>1 DEF Family
<1> QED
  BY <1>1, Always, PTL

LEMMA NoMoreThanOne ==
  ASSUME NEW S, \A s \in S : \A z \in S : s = z
  PROVE  Cardinality(S) \in 0 .. 1 /\ (S # {} => Cardinality(S) = 1)
<1>1. CASE S = {}
  BY <1>1, FS_EmptySet
<1>2. CASE S # {}
  <2>1. PICK s : S = {s}
    BY <1>2
  <2>2. Cardinality({s}) = 1
    BY FS_Singleton
  <2> QED
    BY <1>2, <2>1, <2>2
<1> QED
  BY <1>1, <1>2

(* The job leaves the node once, and behind one stored report with an entry for
   each element, in order, every child of it arrived: also across a crash between
   the finish of the session and the transition, and when the walk comes back to
   the node (the second visit is refused).  That something is stored before the
   node is left holds even of a dispatch whose lease lapsed. *)
THEOREM ReportWhole == Spec => []ReportIsWhole
<1>1. Known /\ Alone => ReportIsWhole
  <2> SUFFICES ASSUME Known, Alone PROVE ReportIsWhole
    OBVIOUS
  <2> DEFINE stored == {s \in DOMAIN report : report[s].status = "completed"}
  <2>1. /\ DOMAIN report = 1 .. Len(report) /\ DOMAIN child = 1 .. Len(child)
        /\ parent \in ParentRow
    BY SequencesAre DEF Known, TypeOK
  <2>2. parent.left > 0 => stored # {}
    BY DEF Known, Recorded
  <2>3. ASSUME ~lapsed
        PROVE  /\ parent.left <= Cardinality(stored) /\ Cardinality(stored) <= 1
               /\ \A s \in stored : /\ report[s].output = [k \in 1 .. shape.items |-> k]
                                    /\ \A c \in DOMAIN child : child[c].arrived
    <3>1. Told
      BY <2>3 DEF Alone
    <3>2. \A s \in stored : \A z \in stored : s = z
      BY <2>1, <3>1 DEF Told
    <3>3. \A s \in stored : /\ report[s].output = [k \in 1 .. shape.items |-> k]
                            /\ \A c \in DOMAIN child : child[c].arrived
      BY <2>1, <3>1 DEF Told, Whole, Home
    <3> HIDE DEF stored
    <3>4. Cardinality(stored) \in 0 .. 1 /\ (stored # {} => Cardinality(stored) = 1)
      BY <3>2, NoMoreThanOne
    <3>5. parent.left \in Nat /\ parent.left <= 1
      BY <2>1, <3>1 DEF ParentRow, Told
    <3> QED
      BY <2>2, <3>3, <3>4, <3>5
  <2> QED
    BY <2>2, <2>3 DEF ReportIsWhole
<1> QED
  BY <1>1, Always, PTL

=============================================================================
