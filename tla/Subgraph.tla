------------------------------ MODULE Subgraph ------------------------------
(***************************************************************************)
(* One job standing on a subgraph node: the children the node calls, opened *)
(* one by one, the wait, and the resume that collects their outputs.        *)
(*                                                                         *)
(* Nothing is kept between dispatches: each reads the control plane and     *)
(* does what is missing, so runners may be killed, and requests may fail,   *)
(* landed or not, between any two of its calls.  Beside the dispatches, the *)
(* watcher of every runner blocks a parent whose children stopped.          *)
(*                                                                         *)
(* The children's own dispatches are Dispatch's, reduced here to a start    *)
(* and an arrival; the leases are LeaseTable's.                             *)
(***************************************************************************)
EXTENDS Naturals, FiniteSets, Sequences

CONSTANTS
  Runner, NoRunner,
  Shape,         \* the calls to try: how many elements, chained or not
  MaxChild,      \* bound: children of the parent
  MaxTrouble     \* bound: requests that fail (below the count Dispatch stops a job
                 \* at), leases that lapse under a beating heart, runners killed,
                 \* jobs blocked, unblocked or cancelled from outside

ShapeRow == [items : Nat, ordered : BOOLEAN]

ASSUME SubgraphAssumption ==
  /\ NoRunner \notin Runner
  /\ Shape \subseteq ShapeRow
  /\ MaxChild \in Nat /\ MaxTrouble \in Nat

VARIABLES
  shape,     \* the node's fan-out, resolved over the parent's input
  parent,    \* the parent's row and the walk that brought it where it is
  child,     \* the parent's children of this node, in sibling_position order
  report,    \* the sessions of engine `subgraph` recorded for the node
  lease,     \* who holds the parent
  run,       \* each runner's tick and the dispatch it is in
  trouble,   \* how much went wrong so far
  lapsed     \* whether a lease lapsed under a dispatch

vars == <<shape, parent, child, report, lease, run, trouble, lapsed>>

GoesWrong == trouble < MaxTrouble /\ trouble' = trouble + 1

-----------------------------------------------------------------------------
(* Rows. *)

(* node is this one or the next; left counts the times the walk left this one. *)
ParentRow == [node : {"call", "next"}, left : Nat,
              blocked : BOOLEAN, cancelled : BOOLEAN]

(* item is the element a child was opened for; after, the sibling it depends
   on, or 0. *)
ChildRow == [item : Nat, after : Nat, started : BOOLEAN, arrived : BOOLEAN,
             blocked : BOOLEAN, cancelled : BOOLEAN]

(* The elements a session's output has an entry for, in its order. *)
ReportRow == [status : {"open", "completed", "no_output"}, output : Seq(Nat)]

(* A cancellation is not asked: a session that runs on may still arrive. *)
Completed(c) == child[c].arrived /\ ~child[c].blocked

(* deriveDispatchHold, of a parent with no dependencies of its own. *)
Held == \E c \in DOMAIN child : ~Completed(c)

(* Fault: a cancelled child is not counted as one that stopped. *)
BlindIsStuck(c) == child[c].blocked

IsStuck(c) == child[c].blocked \/ child[c].cancelled

-----------------------------------------------------------------------------
(* A runner. *)

(* What a dispatch knows: how many children the job named, how many of them it
   read and whether all of those had arrived; the sibling before the next one
   to open; the outputs it collected, and the session they go to. *)
Idle == [pc |-> "idle", named |-> 0, read |-> 0, all |-> TRUE, opened |-> 0,
         last |-> 0, output |-> <<>>, sid |-> 0]

RunRow == [pc : {"idle", "warning", "looking", "asking", "leased", "context", "reading",
                 "opening", "collecting", "recording", "finishing", "routing",
                 "refusing", "releasing"},
           named : Nat, read : Nat, all : BOOLEAN, opened : Nat, last : Nat,
           output : Seq(Nat), sid : Nat]

At(r, pc) == run[r].pc = pc
Goto(r, pc) == [run[r] EXCEPT !.pc = pc]
Step(r, next) == run' = [run EXCEPT ![r] = next]

(* A request with no answer: the dispatch throws, and its lease goes back. *)
Lost(r) ==
  /\ GoesWrong
  /\ Step(r, Goto(r, "releasing"))

(* A read answers, or fails. *)
Read(r, next) ==
  /\ \/ Step(r, next) /\ UNCHANGED trouble
     \/ Lost(r)
  /\ UNCHANGED <<shape, parent, child, report, lease, lapsed>>

-----------------------------------------------------------------------------
(* The tick: the watcher's pass, then the poll. *)

(* One reading of the board: a parent held by its children, one of which
   stopped, is going to be blocked once its graph version has been read.  A
   reading that fails ends the pass, not the tick. *)
WatchBoard(r) ==
  /\ At(r, "idle")
  /\ \/ /\ Step(r, Goto(r, IF /\ ~parent.blocked /\ ~parent.cancelled
                              /\ parent.node = "call" /\ Held
                              /\ \E c \in DOMAIN child : IsStuck(c)
                           THEN "warning" ELSE "looking"))
        /\ UNCHANGED trouble
     \/ /\ GoesWrong
        /\ Step(r, Goto(r, "looking"))
  /\ UNCHANGED <<shape, parent, child, report, lease, lapsed>>

(* The block, from that reading, whatever happened since. *)
WarnParent(r) ==
  /\ At(r, "warning")
  /\ Step(r, Goto(r, "looking"))
  /\ \/ parent' = [parent EXCEPT !.blocked = TRUE] /\ UNCHANGED trouble
     \/ /\ GoesWrong
        /\ parent' \in {parent, [parent EXCEPT !.blocked = TRUE]}
  /\ UNCHANGED <<shape, child, report, lease, lapsed>>

(* The board again, for work: a blocked job is no candidate, and a job on
   another node is not this module's. *)
Poll(r) ==
  /\ At(r, "looking")
  /\ Step(r, IF parent.node = "call" /\ ~parent.blocked THEN Goto(r, "asking") ELSE Idle)
  /\ UNCHANGED <<shape, parent, child, report, lease, trouble, lapsed>>

(* POST /leases: refused to a job that is cancelled, held or leased. *)
Take(r) ==
  /\ At(r, "asking")
  /\ IF lease = NoRunner /\ ~parent.cancelled /\ ~Held
     THEN lease' = r /\ Step(r, Goto(r, "leased"))
     ELSE UNCHANGED lease /\ Step(r, Idle)
  /\ UNCHANGED <<shape, parent, child, report, trouble, lapsed>>

(* The `finally` of the dispatch; a release that fails leaves the lease. *)
Release(r) ==
  /\ At(r, "releasing")
  /\ \/ lease' = (IF lease = r THEN NoRunner ELSE lease) /\ UNCHANGED trouble
     \/ UNCHANGED lease /\ GoesWrong
  /\ Step(r, Idle)
  /\ UNCHANGED <<shape, parent, child, report, lapsed>>

Beating(r) == run[r].pc \notin {"idle", "warning", "looking", "asking"}

Expire ==
  /\ lease # NoRunner /\ ~Beating(lease)
  /\ lease' = NoRunner
  /\ UNCHANGED <<shape, parent, child, report, run, trouble, lapsed>>

Lapse ==
  /\ lease # NoRunner /\ Beating(lease)
  /\ GoesWrong /\ lapsed' = TRUE
  /\ lease' = NoRunner
  /\ UNCHANGED <<shape, parent, child, report, run>>

-----------------------------------------------------------------------------
(* The dispatch (runSubgraphNode). *)

(* GET /jobs/:id names the children, once for the whole dispatch. *)
ReadJob(r) ==
  /\ At(r, "leased")
  /\ Read(r, IF parent.node = "call"
             THEN [Goto(r, "context") EXCEPT !.named = Len(child)]
             ELSE Goto(r, "releasing"))

(* Fault: the walk is not asked. *)
FaultyRevisited == FALSE

(* Children belong to the node, not to a visit: a second one is refused. *)
Revisited == parent.left > 0

(* GET .../context gives the walk and the list, which may not resolve. *)
ReadContext(r) ==
  /\ At(r, "context")
  /\ \/ ~Revisited /\ Read(r, Goto(r, "reading"))
     \/ Read(r, Goto(r, "refusing"))

(* One GET per child named. *)
ReadChild(r) ==
  LET c == run[r].read + 1 IN
  /\ At(r, "reading") /\ run[r].read < run[r].named
  /\ Read(r, [run[r] EXCEPT !.read = c, !.all = @ /\ Completed(c)])

Reconciled(r) == At(r, "reading") /\ run[r].read = run[r].named

(* More children than elements: which are this call's is nobody's to guess. *)
RefuseSurplus(r) ==
  /\ Reconciled(r) /\ run[r].read > shape.items
  /\ Step(r, Goto(r, "refusing"))
  /\ UNCHANGED <<shape, parent, child, report, lease, trouble, lapsed>>

(* Fault: the opening starts over, whatever exists. *)
RestartedFrom(r) == 0

OpenFrom(r) == run[r].read

(* The chain is taken up where the children that exist leave it. *)
LastSibling(r) == run[r].read

(* Fault: children that exist are taken for all of them. *)
FaultyPlanOpening(r) ==
  /\ Reconciled(r) /\ run[r].read < shape.items
  /\ Read(r, IF run[r].read = 0 THEN Goto(r, "opening") ELSE Goto(r, "releasing"))

(* The called class and its version are read and every payload resolved before
   the first POST, so what is refused here opens nothing. *)
PlanOpening(r) ==
  /\ Reconciled(r) /\ run[r].read < shape.items
  /\ \/ Read(r, [Goto(r, "opening") EXCEPT !.opened = OpenFrom(r), !.last = LastSibling(r)])
     \/ Read(r, Goto(r, "refusing"))

(* One POST /jobs, in element order; the core gives the position, in order of
   arrival, and refuses a child of a cancelled parent. *)
OpenChild(r) ==
  LET d   == run[r]
      new == [item |-> d.opened + 1, after |-> IF shape.ordered THEN d.last ELSE 0,
              started |-> FALSE, arrived |-> FALSE, blocked |-> FALSE, cancelled |-> FALSE]
  IN
  /\ At(r, "opening") /\ ~parent.cancelled
  /\ Len(child) < MaxChild
  /\ \/ /\ child' = Append(child, new)
        /\ Step(r, [d EXCEPT !.opened = @ + 1, !.last = Len(child) + 1,
                      !.pc = IF d.opened + 1 = shape.items THEN "releasing" ELSE "opening"])
        /\ UNCHANGED trouble
     \/ child' \in {child, Append(child, new)} /\ Lost(r)
  /\ UNCHANGED <<shape, parent, report, lease, lapsed>>

OpenRefused(r) ==
  /\ At(r, "opening") /\ parent.cancelled
  /\ Read(r, Goto(r, "refusing"))

Complete(r) == run[r].read = shape.items

(* All exist, some still on their way: nothing to do. *)
KeepWaiting(r) ==
  /\ Reconciled(r) /\ Complete(r) /\ ~run[r].all
  /\ Step(r, Goto(r, "releasing"))
  /\ UNCHANGED <<shape, parent, child, report, lease, trouble, lapsed>>

Recorded == \E s \in DOMAIN report : report[s].status = "completed"

(* GET /sessions: a report stored for this node is not written twice. *)
Resume(r) ==
  /\ Reconciled(r) /\ Complete(r) /\ run[r].all
  /\ Read(r, Goto(r, IF Recorded THEN "routing" ELSE "collecting"))

(* One entry per child, in sibling_position order; output_map may not resolve. *)
Collect(r) ==
  /\ At(r, "collecting")
  /\ \/ Read(r, [Goto(r, "recording") EXCEPT
                   !.output = [c \in 1 .. run[r].read |-> child[c].item]])
     \/ Read(r, Goto(r, "refusing"))

(* POST /sessions *)
RecordSession(r) ==
  LET new == Append(report, [status |-> "open", output |-> <<>>]) IN
  /\ At(r, "recording")
  /\ \/ /\ report' = new /\ UNCHANGED trouble
        /\ Step(r, [run[r] EXCEPT !.pc = "finishing", !.sid = Len(new)])
     \/ report' \in {report, new} /\ Lost(r)
  /\ UNCHANGED <<shape, parent, child, lease, lapsed>>

(* PATCH /sessions/:id/finish: the node's schema may refuse the output, and then
   the session is closed without one and the work stops. *)
FinishSession(r) ==
  LET closed(status, output) ==
        [report EXCEPT ![run[r].sid] = [status |-> status, output |-> output]]
      accepted == closed("completed", run[r].output)
      refused  == closed("no_output", <<>>)
  IN
  /\ At(r, "finishing")
  /\ \/ report' = accepted /\ Step(r, Goto(r, "routing")) /\ UNCHANGED trouble
     \/ report' = refused /\ Step(r, Goto(r, "refusing")) /\ UNCHANGED trouble
     \/ report' \in {report, accepted, refused} /\ Lost(r)
  /\ UNCHANGED <<shape, parent, child, lease, lapsed>>

(* POST /jobs/:id/transitions along the node's one edge. *)
Route(r) ==
  LET moved == [parent EXCEPT !.node = "next", !.left = @ + 1] IN
  /\ At(r, "routing")
  /\ \/ parent' = moved /\ Step(r, Goto(r, "releasing")) /\ UNCHANGED trouble
     \/ parent' \in {parent, moved} /\ Lost(r)
  /\ UNCHANGED <<shape, child, report, lease, lapsed>>

(* What would be refused again on every retry stops the work instead. *)
Refuse(r) ==
  LET stopped == [parent EXCEPT !.blocked = TRUE] IN
  /\ At(r, "refusing")
  /\ \/ parent' = stopped /\ Step(r, Goto(r, "releasing")) /\ UNCHANGED trouble
     \/ parent' \in {parent, stopped} /\ Lost(r)
  /\ UNCHANGED <<shape, child, report, lease, lapsed>>

(* A runner is killed; its lease stays until it expires. *)
Crash(r) ==
  /\ run[r] # Idle
  /\ GoesWrong
  /\ Step(r, Idle)
  /\ UNCHANGED <<shape, parent, child, report, lease, lapsed>>

-----------------------------------------------------------------------------
(* The family: the children's own dispatches, and people. *)

(* A child is taken when nothing holds it. *)
Start(c) ==
  /\ ~child[c].started /\ ~child[c].blocked /\ ~child[c].cancelled
  /\ child[c].after # 0 => Completed(child[c].after)
  /\ child' = [child EXCEPT ![c].started = TRUE]
  /\ UNCHANGED <<shape, parent, report, lease, run, trouble, lapsed>>

(* It reaches its final node; a dispatch under way asks neither flag. *)
Arrive(c) ==
  /\ child[c].started /\ ~child[c].arrived
  /\ child' = [child EXCEPT ![c].arrived = TRUE]
  /\ UNCHANGED <<shape, parent, report, lease, run, trouble, lapsed>>

(* A child's dispatch or a person blocks it, unblocks it, or cancels it. *)
StopChild(c) ==
  /\ GoesWrong
  /\ \/ child' = [child EXCEPT ![c].blocked = ~@]
     \/ ~Completed(c) /\ child' = [child EXCEPT ![c].cancelled = TRUE]
  /\ UNCHANGED <<shape, parent, report, lease, run, lapsed>>

(* A person lowers the parent's flag, or cancels it and its open children. *)
StopParent ==
  /\ GoesWrong
  /\ \/ /\ parent.blocked /\ parent' = [parent EXCEPT !.blocked = FALSE]
        /\ UNCHANGED child
     \/ /\ parent' = [parent EXCEPT !.cancelled = TRUE]
        /\ child' = [c \in DOMAIN child |->
                       IF Completed(c) THEN child[c] ELSE [child[c] EXCEPT !.cancelled = TRUE]]
  /\ UNCHANGED <<shape, report, lease, run, lapsed>>

(* The node after it sends the work back. *)
Rework ==
  /\ parent.node = "next"
  /\ parent' = [parent EXCEPT !.node = "call"]
  /\ UNCHANGED <<shape, child, report, lease, run, trouble, lapsed>>

-----------------------------------------------------------------------------

Init ==
  /\ shape \in Shape
  /\ parent = [node |-> "call", left |-> 0, blocked |-> FALSE, cancelled |-> FALSE]
  /\ child = <<>> /\ report = <<>> /\ lease = NoRunner
  /\ run = [r \in Runner |-> Idle]
  /\ trouble = 0 /\ lapsed = FALSE

Tick(r) == WatchBoard(r) \/ WarnParent(r) \/ Poll(r) \/ Take(r) \/ Release(r)

Dispatch(r) ==
  \/ ReadJob(r) \/ ReadContext(r) \/ ReadChild(r) \/ RefuseSurplus(r)
  \/ PlanOpening(r) \/ OpenChild(r) \/ OpenRefused(r) \/ KeepWaiting(r)
  \/ Resume(r) \/ Collect(r) \/ RecordSession(r) \/ FinishSession(r)
  \/ Route(r) \/ Refuse(r)

Next ==
  \/ \E r \in Runner : Tick(r) \/ Dispatch(r) \/ Crash(r)
  \/ Expire \/ Lapse
  \/ \E c \in DOMAIN child : Start(c) \/ Arrive(c) \/ StopChild(c)
  \/ StopParent \/ Rework

Spec == Init /\ [][Next]_vars

(* A runner's loop never pauses for good, and a lease nobody renews expires. *)
FairSpec ==
  /\ Spec
  /\ \A r \in Runner : WF_vars(Tick(r) \/ Dispatch(r))
  /\ WF_vars(Expire)

-----------------------------------------------------------------------------
(* Correctness. *)

(* Rows keep their shape, and a dispatch knows no child the job does not have. *)
TypeOK ==
  /\ shape \in Shape /\ parent \in ParentRow
  /\ child \in Seq(ChildRow) /\ report \in Seq(ReportRow)
  /\ lease \in Runner \cup {NoRunner} /\ run \in [Runner -> RunRow]
  /\ \A r \in Runner : /\ run[r].read <= run[r].named /\ run[r].named <= Len(child)
                       /\ run[r].last <= Len(child) /\ run[r].sid <= Len(report)

(* "The next dispatch opens only the rest": whatever dies or fails between two
   POSTs, child k is the one of element k, there is one for each, and in a chain
   none starts before its predecessor arrived.  A dispatch whose lease lapsed
   may open children of its own beside the next one's. *)
ChildrenMatchElements ==
  ~lapsed =>
    /\ Len(child) <= shape.items
    /\ \A c \in DOMAIN child :
         /\ child[c].item = c
         /\ shape.ordered /\ child[c].started => \A b \in 1 .. c - 1 : child[b].arrived

(* The job leaves the node once, behind one stored report with one entry per
   element in element order, every child of it arrived: across a crash between
   the finish and the transition, and when the walk comes back to the node. *)
ReportIsWhole ==
  LET stored == {s \in DOMAIN report : report[s].status = "completed"} IN
  /\ parent.left > 0 => stored # {}
  /\ ~lapsed =>
       /\ parent.left <= Cardinality(stored) /\ Cardinality(stored) <= 1
       /\ \A s \in stored : /\ report[s].output = [k \in 1 .. shape.items |-> k]
                            /\ \A c \in DOMAIN child : child[c].arrived

(* "A held parent is never silently stuck": when a child of the call stops, the
   parent is blocked for a person to see, unless the child goes on. *)
StuckBehindChild ==
  /\ parent.node = "call" /\ ~parent.blocked /\ ~parent.cancelled
  /\ Held /\ \E c \in DOMAIN child : child[c].blocked \/ child[c].cancelled

NeverSilentlyStuck == StuckBehindChild ~> ~StuckBehindChild

(* A parent that nothing holds gets its missing children, goes on, or stops with
   a reason: no state of the reconciliation is one that no dispatch acts on. *)
CallPending == parent.node = "call" /\ ~parent.blocked /\ ~parent.cancelled /\ ~Held

CallSettles == CallPending ~> ~CallPending
=============================================================================
