-------------------------- MODULE Dispatch_proofs --------------------------
(***************************************************************************)
(* Proofs about Dispatch, for any number of runners, jobs, nodes, faults    *)
(* and crashes.                                                            *)
(*                                                                         *)
(* A step changes the row of one runner, and what a row may hold depends on *)
(* where its dispatch stands: Row is preserved action by action (RowSteps), *)
(* and the type invariant and OneWayOut follow.  OneEnginePerJob needs the  *)
(* lease beside the row, DeliveredOnce the journal beside both.             *)
(***************************************************************************)
EXTENDS Dispatch, FiniteSetTheorems, SequenceTheorems, TLAPS

-----------------------------------------------------------------------------
(* The inductive invariant. *)

(* The steps of a dispatch in which it has not decided yet what becomes of its
   job. *)
Undecided ==
  {"idle", "asking", "leased", "planned", "started", "running", "ended",
   "reported", "advancing", "delivering", "calling", "answered", "unsure",
   "routing"}

Ways(d) == d.stops + (IF d.moved THEN 1 ELSE 0)

(* Where a dispatch stands tells what its row holds. *)
RowMakesSense(d) ==
  /\ d.pc \in {"idle", "asking"} <=> d.job = NoJob
  /\ d.pc \in {"idle", "asking", "leased", "planned", "started", "running"} =>
       d.ending.status = "none"
  /\ d.pc \in {"ended", "reported"} => d.ending.status # "none"
  /\ d.pc \in {"advancing", "delivering", "calling", "answered", "unsure"} =>
       d.ending.status = "completed"
  /\ d.pc = "routing" => d.ending.status \in {"none", "completed"}
  /\ d.pc \in {"delivering", "calling", "answered", "unsure"} => d.node \in Delivers
  /\ d.ending.status = "completed" => d.ending.kind = "none"

(* Nothing is decided before the session is judged, and then one thing is; only
   an engine's refusal comes on top of a question. *)
OneWay(d) ==
  /\ d.pc \in Undecided => Ways(d) = 0
  /\ d.pc = "settled" =>
       /\ Ways(d) <= 1
       /\ d.ending.status = "completed" => Ways(d) = 1 \/ Exits[d.node] = {}
       /\ d.ending.status # "none" /\ d.ending.kind = "engine_refusal" /\ Ways(d) = 1 =>
            d.ending.asks
  /\ Ways(d) > 1 =>
       d.ending.status # "none" /\ d.ending.asks /\ d.ending.kind = "engine_refusal"
  /\ d.pc = "releasing" /\ d.result \in {"done", "next"} /\ d.ending.status = "completed"
       => Ways(d) = 1 \/ Exits[d.node] = {}

Row(d) == d \in RunRow /\ RowMakesSense(d) /\ OneWay(d)

(* The POST that opens a session finds room for it. *)
Room == Len(session) + Cardinality({r \in Runner : At(r, "started")}) <= MaxSession

SessionKnown(r) == At(r, "running") \/ At(r, "ended") => run[r].sid # 0

CallKnown(r) ==
  At(r, "calling") \/ At(r, "answered") =>
    /\ run[r].call # 0
    /\ journal[run[r].call].job = run[r].job /\ journal[run[r].call].node = run[r].node

Known ==
  /\ TypeOK /\ Room
  /\ \A r \in Runner : Row(run[r]) /\ SessionKnown(r) /\ CallKnown(r)

(* A runner's engine works on the job of its dispatch, and that job is leased to
   it unless the lease lapsed. *)
LeaseCovers(r) ==
  /\ engine[r] # NoJob => engine[r] = run[r].job /\ run[r].pc \in {"started", "running"}
  /\ run[r].job # NoJob => lease[run[r].job] = r \/ run[r].lapsed

(* The lease of a killed runner is still in its name, and the runner that came
   back under it is in no dispatch of that job. *)
OrphanCovered(o) ==
  o.held => lease[o.job] = o.runner /\ run[o.runner].job # o.job

Covered ==
  /\ \A r \in Runner : LeaseCovers(r)
  /\ \A o \in orphan : OrphanCovered(o)
  /\ lapses \in Nat
  /\ lapses = 0 => \A r \in Runner : ~run[r].lapsed

Failed(j, n) == Cardinality(Calls(j, n, "error"))

(* The journal accounts for every call the tool carried out: as an error, and one
   more that is open or settled. *)
Remembered(j, n) ==
  landed[j][n] <= Failed(j, n) + (IF Dangling(j, n) # {} \/ SettledCall(j, n) THEN 1 ELSE 0)

(* A call about to be made is written down, and every one before it failed. *)
CallTrue(r) ==
  At(r, "calling") =>
    /\ landed[run[r].job][run[r].node] <= Failed(run[r].job, run[r].node)
    /\ journal[run[r].call].outcome = "open"

Once ==
  lapses = 0 =>
    \A j \in Job, n \in Delivers :
      /\ Remembered(j, n)
      /\ \A r \in Runner : run[r].job = j /\ run[r].node = n => CallTrue(r)

-----------------------------------------------------------------------------
(* One row. *)

LEMMA EndingShape ==
  ASSUME NEW e \in EndingRow \cup {NoEnding}
  PROVE  /\ e.status = "none" <=> e = NoEnding
         /\ e.status # "none" => e \in EndingRow
BY DEF EndingRow, NoEnding

LEMMA IdleRow == Row(Idle)
BY DispatchAssumption DEF Row, RunRow, Idle, RowMakesSense, OneWay, Ways, Undecided, NoEnding

(* What a change of phase leaves alone. *)
LEMMA OverIs ==
  ASSUME NEW d \in RunRow, NEW how \in {"done", "next", "error"}
  PROVE  /\ Over(d, how) \in RunRow
         /\ Over(d, how).pc = "releasing" /\ Over(d, how).result = how
         /\ Over(d, how).job = d.job /\ Over(d, how).node = d.node
         /\ Over(d, how).ending = d.ending
         /\ Over(d, how).stops = d.stops /\ Over(d, how).moved = d.moved
<1>1. PICK x : x = Over(d, how)
  OBVIOUS
<1>2. x = [d EXCEPT !.pc = "releasing", !.result = how]
  BY <1>1 DEF Over
<1>3. x \in RunRow
  BY <1>2 DEF RunRow
<1>4. /\ x.pc = "releasing" /\ x.result = how /\ x.job = d.job /\ x.node = d.node
      /\ x.ending = d.ending /\ x.stops = d.stops /\ x.moved = d.moved
  BY <1>2 DEF RunRow
<1> QED
  BY <1>1, <1>3, <1>4

LEMMA GotoIs ==
  ASSUME NEW d \in RunRow, NEW pc \in Undecided \cup {"settled", "releasing"}
  PROVE  /\ Goto(d, pc) \in RunRow /\ Goto(d, pc).pc = pc
         /\ Goto(d, pc).job = d.job /\ Goto(d, pc).node = d.node
         /\ Goto(d, pc).ending = d.ending
         /\ Goto(d, pc).stops = d.stops /\ Goto(d, pc).moved = d.moved
<1>1. PICK x : x = Goto(d, pc)
  OBVIOUS
<1>2. x = [d EXCEPT !.pc = pc]
  BY <1>1 DEF Goto
<1>3. x \in RunRow
  BY <1>2 DEF RunRow, Undecided
<1>4. /\ x.pc = pc /\ x.job = d.job /\ x.node = d.node
      /\ x.ending = d.ending /\ x.stops = d.stops /\ x.moved = d.moved
  BY <1>2 DEF RunRow
<1> QED
  BY <1>1, <1>3, <1>4

(* A dispatch that fails keeps what it did. *)
LEMMA OverRow ==
  ASSUME NEW d, Row(d), d.pc \notin {"idle", "asking"}
  PROVE  Row(Over(d, "error"))
<1> DEFINE x == Over(d, "error")
<1>1. x \in RunRow
  BY DEF Row, RunRow, Over
<1>2. /\ x.pc = "releasing" /\ x.result = "error" /\ x.job = d.job /\ x.node = d.node
      /\ x.ending = d.ending /\ x.stops = d.stops /\ x.moved = d.moved
  BY DEF Row, RunRow, Over
<1> HIDE DEF x
<1>3. RowMakesSense(x)
  BY <1>2 DEF Row, RowMakesSense
<1>4. OneWay(x)
  BY <1>2 DEF Row, OneWay, Ways, Undecided
<1> QED
  BY <1>1, <1>3, <1>4 DEF x, Row

RowMoves(r) == run' = [run EXCEPT ![r] = run'[r]] /\ Row(run'[r])

LEMMA Stepped ==
  ASSUME run \in [Runner -> RunRow], NEW r \in Runner, NEW x, Row(x), Step(r, x)
  PROVE  RowMoves(r) /\ run'[r] = x
BY DEF RowMoves, Step

LEMMA LostMoves ==
  ASSUME run \in [Runner -> RunRow], NEW r \in Runner, Row(run[r]),
         run[r].pc \notin {"idle", "asking"}, Lost(r)
  PROVE  RowMoves(r)
<1>1. Row(Over(run[r], "error"))
  BY OverRow
<1> QED
  BY <1>1, Stepped DEF Lost

LEMMA WriteMoves ==
  ASSUME run \in [Runner -> RunRow], NEW r \in Runner, Row(run[r]),
         run[r].pc \notin {"idle", "asking"},
         NEW tab, NEW x, Row(x), Write(r, tab, x)
  PROVE  RowMoves(r)
<1>1. CASE Step(r, x)
  BY <1>1, Stepped
<1>2. CASE Lost(r)
  BY <1>2, LostMoves
<1> QED
  BY <1>1, <1>2 DEF Write

(* A row on its way to a decision. *)
LEMMA UndecidedRow ==
  ASSUME NEW x \in RunRow, RowMakesSense(x), x.pc \in Undecided, x.stops = 0, x.moved = FALSE
  PROVE  Row(x)
BY DEF Row, OneWay, Ways, Undecided

LEMMA UndecidedIsFree ==
  ASSUME NEW d, Row(d), d.pc \in Undecided
  PROVE  d.stops = 0 /\ d.moved = FALSE
BY DEF Row, RunRow, OneWay, Ways

(* A stop is counted. *)
LEMMA StoppedRow ==
  ASSUME NEW y \in RunRow, y.stops \in {0, 1}
  PROVE  /\ Stopped(y) \in RunRow /\ Stopped(y).stops = y.stops + 1
         /\ Stopped(y).pc = y.pc /\ Stopped(y).job = y.job /\ Stopped(y).node = y.node
         /\ Stopped(y).ending = y.ending /\ Stopped(y).moved = y.moved
         /\ Stopped(y).result = y.result
<1>1. y.stops + 1 \in 0 .. 2
  OBVIOUS
<1> QED
  BY <1>1 DEF RunRow, Stopped

(* The loop's own steps start from a fresh row. *)
LEMMA AskingRow ==
  ASSUME NEW todo \in SUBSET Job
  PROVE  Row([Idle EXCEPT !.pc = "asking", !.todo = todo])
<1> DEFINE x == [Idle EXCEPT !.pc = "asking", !.todo = todo]
<1>1. x \in RunRow
  BY IdleRow DEF Row, RunRow
<1>2. RowMakesSense(x)
  BY DEF RowMakesSense, Idle, NoEnding
<1>3. x.pc \in Undecided /\ x.stops = 0 /\ x.moved = FALSE
  BY DEF Undecided, Idle
<1> QED
  BY <1>1, <1>2, <1>3, UndecidedRow

LEMMA LeasedRow ==
  ASSUME NEW j \in Job, NEW todo \in SUBSET Job
  PROVE  Row([Idle EXCEPT !.pc = "leased", !.job = j, !.todo = todo])
<1> DEFINE x == [Idle EXCEPT !.pc = "leased", !.job = j, !.todo = todo]
<1>1. x \in RunRow
  BY IdleRow DEF Row, RunRow
<1>2. RowMakesSense(x)
  BY DispatchAssumption DEF RowMakesSense, Idle, NoEnding
<1>3. x.pc \in Undecided /\ x.stops = 0 /\ x.moved = FALSE
  BY DEF Undecided, Idle
<1> QED
  BY <1>1, <1>2, <1>3, UndecidedRow

(* A dispatch goes on to its next step with some of its fields set: `sid`,
   `call` and `answer` say nothing about where it stands. *)
LEMMA GoneOn ==
  ASSUME NEW d, Row(d), d.pc \in Undecided,
         NEW x \in RunRow, x.pc \in Undecided, RowMakesSense(x),
         x.stops = d.stops, x.moved = d.moved
  PROVE  Row(x)
BY UndecidedIsFree, UndecidedRow

(* One of the two ways out is taken. *)
LEMMA Decided ==
  ASSUME NEW d, Row(d), d.pc \in Undecided \ {"idle", "asking"},
         NEW x \in RunRow, x.pc = "settled",
         x.job = d.job, x.node = d.node, x.ending = d.ending,
         \/ x.stops = d.stops + 1 /\ x.moved = d.moved
         \/ x.stops = d.stops /\ x.moved = TRUE
         \/ /\ x.stops = d.stops /\ x.moved = d.moved
            /\ d.ending.status = "completed" => Exits[d.node] = {},
         \/ d.ending.status \in {"none", "completed"} \/ d.ending.asks
         \/ x.stops = d.stops /\ x.moved = d.moved
  PROVE  Row(x)
<1>1. d.stops = 0 /\ d.moved = FALSE
  BY UndecidedIsFree
<1>2. RowMakesSense(x)
  BY DEF Row, RowMakesSense
<1>3. /\ Ways(x) \in {0, 1}
      /\ d.ending.status = "completed" => Ways(x) = 1 \/ Exits[d.node] = {}
      /\ x.stops = d.stops /\ x.moved = d.moved => Ways(x) = 0
  BY <1>1 DEF Ways
<1>4. Ways(x) = 1 /\ x.ending.kind = "engine_refusal" /\ x.ending.status # "none" =>
        x.ending.asks
  BY <1>3 DEF Row, RowMakesSense
<1>5. OneWay(x)
  BY <1>3, <1>4 DEF OneWay, Undecided
<1> QED
  BY <1>2, <1>5 DEF Row

-----------------------------------------------------------------------------
(* Every action moves one row, and moves it well. *)

LEMMA LoopMoves ==
  ASSUME TypeOK, NEW r \in Runner, Row(run[r]), Loop(r)
  PROVE  RowMoves(r)
<1> USE DEF TypeOK
<1>1. CASE Poll(r)
  <2>1. Released \in SUBSET Job
    BY DEF Released
  <2> QED
    BY <1>1, <2>1, AskingRow, Stepped DEF Poll
<1>2. CASE EndPass(r) \/ \E j \in Job : LoseRequest(r, j)
  BY <1>2, IdleRow, Stepped DEF EndPass, LoseRequest
<1>3. CASE Release(r)
  <2>1. run[r].todo \in SUBSET Job
    BY DEF Row, RunRow
  <2>2. Row(IF run[r].result = "next"
            THEN [Idle EXCEPT !.pc = "asking", !.todo = run[r].todo] ELSE Idle)
    BY <2>1, AskingRow, IdleRow
  <2> QED
    BY <1>3, <2>2, Stepped DEF Release
<1>4. ASSUME NEW j \in Job, Take(r, j) PROVE RowMoves(r)
  <2>1. run[r].todo \ {j} \in SUBSET Job
    BY DEF Row, RunRow
  <2> QED
    BY <1>4, <2>1, LeasedRow, Stepped DEF Take
<1>5. ASSUME NEW j \in Job, PassOver(r, j) PROVE RowMoves(r)
  <2> DEFINE x == [run[r] EXCEPT !.todo = @ \ {j}]
  <2>1. x \in RunRow
    BY DEF Row, RunRow
  <2>2. /\ run[r].pc = "asking" /\ x.pc = "asking" /\ x.job = run[r].job
        /\ x.ending = run[r].ending /\ x.stops = run[r].stops /\ x.moved = run[r].moved
    BY <1>5 DEF PassOver, NextCandidate, At, Row, RunRow
  <2>3. RowMakesSense(x)
    BY <2>2 DEF Row, RowMakesSense
  <2>4. Row(x)
    BY <2>1, <2>2, <2>3, GoneOn DEF Undecided
  <2> QED
    BY <1>5, <2>4, Stepped DEF PassOver
<1> QED
  BY <1>1, <1>2, <1>3, <1>4, <1>5 DEF Loop

(* A work that cannot start is stopped, or its dispatch just fails. *)
LEMMA StopUnstartedMoves ==
  ASSUME TypeOK, NEW r \in Runner, Row(run[r]), At(r, "planned"),
         NEW failures, StopUnstarted(r, failures)
  PROVE  RowMoves(r)
<1> DEFINE y == Over(run[r], "next")
           x == Stopped(y)
<1>1. run[r].pc = "planned" /\ run[r].stops = 0 /\ run[r].moved = FALSE
  BY UndecidedIsFree DEF At, Undecided
<1>2. /\ y \in RunRow /\ y.pc = "releasing" /\ y.job = run[r].job
      /\ y.ending = run[r].ending /\ y.stops = 0 /\ y.moved = FALSE
  BY <1>1, OverIs DEF Row
<1>3. /\ x \in RunRow /\ x.pc = "releasing" /\ x.job = run[r].job
      /\ x.ending = run[r].ending /\ x.stops = 1 /\ x.moved = FALSE
  <2> HIDE DEF y
  <2> QED
    BY <1>2, StoppedRow
<1> HIDE DEF x
<1>4. RowMakesSense(x)
  BY <1>1, <1>3 DEF Row, RowMakesSense
<1>5. OneWay(x)
  BY <1>1, <1>3 DEF OneWay, Ways, Undecided
<1>6. Row(x)
  BY <1>3, <1>4, <1>5 DEF Row
<1>7. CASE Step(r, x)
  BY <1>6, <1>7, Stepped DEF TypeOK
<1>8. CASE Lost(r)
  BY <1>1, <1>8, LostMoves DEF TypeOK
<1> QED
  BY <1>7, <1>8 DEF StopUnstarted, x, y

LEMMA FailToStartMoves ==
  ASSUME TypeOK, NEW r \in Runner, Row(run[r]), FailToStart(r)
  PROVE  RowMoves(r)
<1>1. At(r, "planned")
  BY DEF FailToStart
<1>2. Row(Over(run[r], "error"))
  BY <1>1, OverRow DEF At
<1>3. CASE Step(r, Over(run[r], "error"))
  BY <1>2, <1>3, Stepped DEF TypeOK
<1>4. ASSUME NEW failures, StopUnstarted(r, failures) PROVE RowMoves(r)
  BY <1>1, <1>4, StopUnstartedMoves
<1> QED
  BY <1>3, <1>4 DEF FailToStart

(* The job of a dispatch. *)
LEMMA WorksOnAJob ==
  ASSUME NEW d, Row(d), d.pc \notin {"idle", "asking"}
  PROVE  d.job \in Job
BY DEF Row, RunRow, RowMakesSense

LEMMA StartedCounts ==
  /\ IsFiniteSet({s \in Runner : At(s, "started")})
  /\ Cardinality({s \in Runner : At(s, "started")}) \in Nat
  /\ \A r \in Runner :
       At(r, "started") => Cardinality({s \in Runner : At(s, "started")}) > 0
<1> DEFINE S == {s \in Runner : At(s, "started")}
<1>1. IsFiniteSet(S)
  BY DispatchAssumption, FS_Subset
<1>2. Cardinality(S) \in Nat
  BY <1>1, FS_CardinalityType
<1>3. Cardinality(S) = 0 <=> S = {}
  BY <1>1, FS_EmptySet
<1>4. \A r \in Runner : At(r, "started") => r \in S
  OBVIOUS
<1> QED
  BY <1>1, <1>2, <1>3, <1>4

LEMMA BeforeMoves ==
  ASSUME TypeOK, Room, NEW r \in Runner, Row(run[r]), BeforeSession(r)
  PROVE  RowMoves(r)
<1> DEFINE d == run[r]
<1>1. run \in [Runner -> RunRow]
  BY DEF TypeOK
<1>2. CASE CoolDown(r)
  <2> DEFINE x == Over(d, "next")
  <2>1. /\ x \in RunRow /\ x.pc = "releasing" /\ x.job = d.job
        /\ x.ending = d.ending /\ x.stops = d.stops /\ x.moved = d.moved
    BY OverIs DEF Row
  <2>2. d.pc = "leased" /\ d.stops = 0 /\ d.moved = FALSE
    BY <1>2, UndecidedIsFree DEF CoolDown, At, Undecided
  <2> HIDE DEF x
  <2>3. RowMakesSense(x) /\ x.ending.status = "none"
    BY <2>1, <2>2 DEF Row, RowMakesSense
  <2>4. OneWay(x)
    BY <2>1, <2>2, <2>3 DEF OneWay, Ways, Undecided
  <2>5. Row(x)
    BY <2>1, <2>3, <2>4 DEF Row
  <2> QED
    BY <1>1, <1>2, <2>5, Stepped DEF CoolDown, x
<1>3. CASE ReadJob(r)
  <2> DEFINE x == [d EXCEPT !.pc = "planned", !.node = job[d.job].node]
  <2>1. d.pc = "leased"
    BY <1>3 DEF ReadJob, At
  <2>2. job[d.job].node \in Node
    BY <2>1, WorksOnAJob DEF TypeOK, JobRow
  <2>3. /\ x \in RunRow /\ x.pc = "planned" /\ x.job = d.job
        /\ x.ending = d.ending /\ x.stops = d.stops /\ x.moved = d.moved
    BY <2>2 DEF Row, RunRow
  <2> HIDE DEF x
  <2>4. Row(x)
    BY <2>1, <2>3, GoneOn DEF Row, RowMakesSense, Undecided
  <2> QED
    BY <1>1, <1>3, <2>1, <2>4, Stepped, LostMoves DEF ReadJob, x
<1>4. ASSUME d.pc = "planned", NEW pc \in {"routing", "started"}
      PROVE  Row(Goto(d, pc))
  <2> DEFINE x == Goto(d, pc)
  <2>1. /\ x \in RunRow /\ x.pc = pc /\ x.job = d.job
        /\ x.ending = d.ending /\ x.stops = d.stops /\ x.moved = d.moved
    BY <1>4 DEF Row, RunRow, Goto
  <2> HIDE DEF x
  <2>2. Row(x)
    BY <1>4, <2>1, GoneOn DEF Row, RowMakesSense, Undecided
  <2> QED
    BY <2>2 DEF x
<1>5. CASE SettleSkip(r)
  <2>1. d.pc = "planned"
    BY <1>5 DEF SettleSkip, At
  <2>2. Row(Goto(d, "routing"))
    BY <1>4, <2>1
  <2> QED
    BY <1>1, <1>5, <2>1, <2>2, Stepped, LostMoves DEF SettleSkip
<1>6. CASE SettleRetry(r)
  <2>1. d.pc = "planned" /\ (run' = run \/ Lost(r))
    BY <1>6 DEF SettleRetry, At
  <2> QED
    BY <1>1, <2>1, LostMoves DEF RowMoves
<1>7. CASE FailToStart(r)
  BY <1>7, FailToStartMoves
<1>8. CASE StartSession(r)
  <2>1. Row(Goto(d, "started"))
    BY <1>4, <1>8 DEF StartSession, At
  <2> QED
    BY <1>1, <1>8, <2>1, Stepped DEF StartSession
<1>9. CASE OpenSession(r)
  <2> DEFINE x == [d EXCEPT !.pc = "running", !.sid = Len(session) + 1]
  <2>1. d.pc = "started"
    BY <1>9 DEF OpenSession, At
  <2>2. Len(session) + 1 \in 0 .. MaxSession
    <3>1. Len(session) \in Nat
      BY DEF TypeOK
    <3>2. MaxSession \in Nat
      BY DispatchAssumption
    <3>3. /\ Cardinality({s \in Runner : At(s, "started")}) \in Nat
          /\ Cardinality({s \in Runner : At(s, "started")}) > 0
      BY <2>1, StartedCounts DEF At
    <3> QED
      BY <3>1, <3>2, <3>3 DEF Room
  <2>3. /\ x \in RunRow /\ x.pc = "running" /\ x.job = d.job
        /\ x.ending = d.ending /\ x.stops = d.stops /\ x.moved = d.moved
    BY <2>2 DEF Row, RunRow
  <2> HIDE DEF x
  <2>4. Row(x)
    BY <2>1, <2>3, GoneOn DEF Row, RowMakesSense, Undecided
  <2> QED
    BY <1>1, <1>9, <2>1, <2>4, Stepped, LostMoves DEF OpenSession, x
<1> QED
  BY <1>2, <1>3, <1>5, <1>6, <1>7, <1>8, <1>9 DEF BeforeSession

LEMMA DecideMoves ==
  ASSUME TypeOK, NEW r \in Runner, Row(run[r]), Decide(r)
  PROVE  RowMoves(r)
<1> DEFINE d == run[r]
           y == Goto(d, "settled")
           x == Stopped(y)
           z == Goto(d, "advancing")
<1>1. run \in [Runner -> RunRow]
  BY DEF TypeOK
<1>2. d.pc = "reported" /\ d.stops = 0 /\ d.moved = FALSE
  BY UndecidedIsFree DEF Decide, At, Undecided
<1>3. /\ y \in RunRow /\ y.pc = "settled" /\ y.job = d.job /\ y.node = d.node
      /\ y.ending = d.ending /\ y.stops = d.stops /\ y.moved = d.moved
      /\ z \in RunRow /\ z.pc = "advancing" /\ z.job = d.job
      /\ z.ending = d.ending /\ z.stops = d.stops /\ z.moved = d.moved
  BY <1>2 DEF Row, RunRow, Goto
<1> HIDE DEF y, z
<1>4. /\ x \in RunRow /\ x.pc = "settled" /\ x.job = d.job /\ x.node = d.node
      /\ x.ending = d.ending /\ x.stops = d.stops + 1 /\ x.moved = d.moved
  BY <1>2, <1>3, StoppedRow
<1> HIDE DEF x
<1>5. CASE (d.ending.asks \/ Unfit(d)) /\ Stop(r, y)
  <2>1. d.ending.status \in {"none", "completed"} \/ d.ending.asks
    BY <1>5 DEF Unfit
  <2>2. Row(x)
    BY <1>2, <1>4, <2>1, Decided DEF Undecided
  <2> QED
    BY <1>1, <1>2, <1>5, <2>2, WriteMoves DEF Stop, x
<1>6. CASE d.ending.status = "completed" /\ Step(r, z)
  <2>1. RowMakesSense(z)
    BY <1>2, <1>3, <1>6 DEF Row, RowMakesSense
  <2>2. Row(z)
    BY <1>2, <1>3, <2>1, GoneOn DEF Undecided
  <2> QED
    BY <1>1, <1>6, <2>2, Stepped
<1>7. CASE d.ending.status # "completed" /\ Step(r, y)
  <2>1. Row(y)
    BY <1>2, <1>3, <1>7, Decided DEF Undecided
  <2> QED
    BY <1>1, <1>7, <2>1, Stepped
<1> QED
  BY <1>5, <1>6, <1>7 DEF Decide, y, z

LEMMA EndMoves ==
  ASSUME TypeOK, NEW r \in Runner, Row(run[r]),
         FinishSession(r) \/ \E e \in Ending : EngineEnds(r, e)
  PROVE  RowMoves(r)
<1> DEFINE d == run[r]
<1>1. run \in [Runner -> RunRow]
  BY DEF TypeOK
<1>2. CASE FinishSession(r)
  <2>1. d.pc = "ended" /\ d.stops = 0 /\ d.moved = FALSE
    BY <1>2, UndecidedIsFree DEF FinishSession, At, Undecided
  <2>2. ASSUME NEW x \in {Goto(d, "reported"),
                          [d EXCEPT !.pc = "reported", !.fault = TRUE, !.known = FALSE]}
        PROVE  Row(x)
    <3>1. /\ x \in RunRow /\ x.pc = "reported" /\ x.job = d.job
          /\ x.ending = d.ending /\ x.stops = d.stops /\ x.moved = d.moved
      <4>1. PICK z \in RunRow : z = d
        BY DEF Row
      <4>2. CASE x = Goto(z, "reported")
        BY <4>1, <4>2, GotoIs DEF Undecided
      <4>3. CASE x = [z EXCEPT !.pc = "reported", !.fault = TRUE, !.known = FALSE]
        <5>1. /\ x \in RunRow /\ x.pc = "reported" /\ x.job = z.job
              /\ x.ending = z.ending /\ x.stops = z.stops /\ x.moved = z.moved
          BY ONLY z \in RunRow, <4>3 DEF RunRow
        <5> QED
          BY <4>1, <5>1
      <4> QED
        BY <2>2, <4>1, <4>2, <4>3
    <3>2. RowMakesSense(x)
      BY <2>1, <3>1 DEF Row, RowMakesSense
    <3> QED
      BY <2>1, <3>1, <3>2, UndecidedRow DEF Undecided
  <2> QED
    BY <1>1, <1>2, <2>2, Stepped DEF FinishSession
<1>3. ASSUME NEW e \in Ending, EngineEnds(r, e) PROVE RowMoves(r)
  <2>1. d.pc = "running" /\ d.stops = 0 /\ d.moved = FALSE
    BY <1>3, UndecidedIsFree DEF EngineEnds, At, Undecided
  <2>2. /\ e \in EndingRow
        /\ e.status = "completed" => e.kind = "none"
    BY DispatchAssumption
  <2> DEFINE f == IF e.report = "dirty" THEN [e EXCEPT !.report = "clean"] ELSE e
             x == [d EXCEPT !.pc = "ended", !.ending = e]
             y == [d EXCEPT !.pc = "ended", !.fault = TRUE, !.ending = f]
  <2>3. f \in EndingRow /\ f.status = e.status /\ f.kind = e.kind
    BY <2>2 DEF EndingRow
  <2> HIDE DEF f
  <2>4. e.status # "none" /\ f.status # "none"
    BY <2>2, <2>3 DEF EndingRow
  <2>5. /\ x \in RunRow /\ x.pc = "ended" /\ x.job = d.job
        /\ x.ending = e /\ x.stops = d.stops /\ x.moved = d.moved
    BY <2>2 DEF Row, RunRow
  <2>6. /\ y \in RunRow /\ y.pc = "ended" /\ y.job = d.job
        /\ y.ending = f /\ y.stops = d.stops /\ y.moved = d.moved
    BY <2>3 DEF Row, RunRow
  <2> HIDE DEF x, y
  <2>7. RowMakesSense(x) /\ RowMakesSense(y)
    BY <2>1, <2>2, <2>3, <2>4, <2>5, <2>6 DEF Row, RowMakesSense
  <2>8. Row(x) /\ Row(y)
    BY <2>1, <2>5, <2>6, <2>7, UndecidedRow DEF Undecided
  <2>9. Row(Over(d, "error"))
    BY <2>1, OverRow
  <2> QED
    BY <1>1, <1>3, <2>8, <2>9, Stepped DEF EngineEnds, x, y, f
<1> QED
  BY <1>2, <1>3

(* From the bench to the edge: one step on, a stop, or the move. *)
LEMMA AdvanceMoves ==
  ASSUME TypeOK, NEW r \in Runner, Row(run[r]),
         \/ AdvanceBench(r) \/ LookBack(r) \/ Intend(r) \/ CloseCall(r)
         \/ \E answer \in {"ok", "error", "timeout"} : Call(r, answer)
         \/ AskAboutDelivery(r) \/ Route(r)
  PROVE  RowMoves(r)
<1> DEFINE d == run[r]
           y == Goto(d, "settled")
           x == Stopped(y)
           b == [d EXCEPT !.pc = "settled", !.stale = TRUE]
           c == Stopped(b)
           m == [d EXCEPT !.pc = "settled", !.moved = TRUE]
           Advancing == {"advancing", "delivering", "calling", "answered", "unsure", "routing"}
<1>1. run \in [Runner -> RunRow]
  BY DEF TypeOK
<1>2. d.pc \in Advancing
  BY DEF AdvanceBench, LookBack, Intend, CloseCall, Call, AskAboutDelivery, Route, At
<1>3. /\ d.pc \in Undecided \ {"idle", "asking"} /\ d.stops = 0 /\ d.moved = FALSE
      /\ d.ending.status \in {"none", "completed"}
      /\ d.pc # "routing" => d.ending.status = "completed"
  BY <1>2, UndecidedIsFree DEF Row, RowMakesSense, Undecided
<1>4. ASSUME NEW z \in RunRow, z.pc \in Advancing, z.job = d.job, z.node = d.node,
             z.ending = d.ending, z.stops = d.stops, z.moved = d.moved,
             z.pc # "routing" => d.ending.status = "completed",
             z.pc \in {"delivering", "calling", "answered", "unsure"} => d.node \in Delivers
      PROVE  Row(z)
  <2>1. RowMakesSense(z)
    BY <1>3, <1>4 DEF Row, RowMakesSense, Undecided
  <2> QED
    BY <1>3, <1>4, <2>1, GoneOn DEF Undecided
<1>5. /\ y \in RunRow /\ y.pc = "settled" /\ y.job = d.job /\ y.node = d.node
      /\ y.ending = d.ending /\ y.stops = d.stops /\ y.moved = d.moved
      /\ b \in RunRow /\ b.pc = "settled" /\ b.job = d.job /\ b.node = d.node
      /\ b.ending = d.ending /\ b.stops = d.stops /\ b.moved = d.moved
      /\ m \in RunRow /\ m.pc = "settled" /\ m.job = d.job /\ m.node = d.node
      /\ m.ending = d.ending /\ m.stops = d.stops /\ m.moved = TRUE
  <2>1. PICK z \in RunRow : z = d
    BY DEF Row
  <2>2. /\ y \in RunRow /\ y.pc = "settled" /\ y.job = d.job /\ y.node = d.node
        /\ y.ending = d.ending /\ y.stops = d.stops /\ y.moved = d.moved
    BY <2>1, GotoIs
  <2>3. PICK v : v = [z EXCEPT !.pc = "settled", !.stale = TRUE]
    OBVIOUS
  <2>4. /\ v \in RunRow /\ v.pc = "settled" /\ v.job = z.job /\ v.node = z.node
        /\ v.ending = z.ending /\ v.stops = z.stops /\ v.moved = z.moved
    BY ONLY z \in RunRow, <2>3 DEF RunRow
  <2>5. PICK w : w = [z EXCEPT !.pc = "settled", !.moved = TRUE]
    OBVIOUS
  <2>6. /\ w \in RunRow /\ w.pc = "settled" /\ w.job = z.job /\ w.node = z.node
        /\ w.ending = z.ending /\ w.stops = z.stops /\ w.moved = TRUE
    BY ONLY z \in RunRow, <2>5 DEF RunRow
  <2> QED
    BY <2>1, <2>2, <2>3, <2>4, <2>5, <2>6
<1> HIDE DEF y, b, m
<1>6. /\ x \in RunRow /\ x.pc = "settled" /\ x.job = d.job /\ x.node = d.node
      /\ x.ending = d.ending /\ x.stops = d.stops + 1 /\ x.moved = d.moved
      /\ c \in RunRow /\ c.pc = "settled" /\ c.job = d.job /\ c.node = d.node
      /\ c.ending = d.ending /\ c.stops = d.stops + 1 /\ c.moved = d.moved
  BY <1>3, <1>5, StoppedRow
<1> HIDE DEF x, c
<1>7. Row(x) /\ Row(c)
  BY <1>3, <1>6, Decided
<1>8. Row(m)
  BY <1>3, <1>5, Decided
<1>9. Exits[d.node] = {} => Row(y)
  BY <1>3, <1>5, Decided
<1>10. CASE AdvanceBench(r)
  <2> DEFINE z == Goto(d, IF d.node \in Delivers THEN "delivering" ELSE "routing")
  <2>1. d.pc = "advancing"
    BY <1>10 DEF AdvanceBench, At
  <2>2. /\ z \in RunRow /\ z.pc = (IF d.node \in Delivers THEN "delivering" ELSE "routing")
        /\ z.job = d.job /\ z.node = d.node
        /\ z.ending = d.ending /\ z.stops = d.stops /\ z.moved = d.moved
    BY DEF Row, RunRow, Goto
  <2> HIDE DEF z
  <2>3. Row(z)
    BY <1>3, <1>4, <2>1, <2>2
  <2> QED
    BY <1>1, <1>3, <1>7, <1>10, <2>3, Stepped, WriteMoves DEF AdvanceBench, Stop, z, c, b
<1>11. CASE LookBack(r) \/ CloseCall(r)
  <2>1. d.pc \in {"delivering", "answered"}
    BY <1>11 DEF LookBack, CloseCall, At
  <2>2. ASSUME NEW pc \in {"routing", "unsure"} PROVE Row(Goto(d, pc))
    <3> DEFINE z == Goto(d, pc)
    <3>1. /\ z \in RunRow /\ z.pc = pc /\ z.job = d.job /\ z.node = d.node
          /\ z.ending = d.ending /\ z.stops = d.stops /\ z.moved = d.moved
      BY <2>2 DEF Row, RunRow, Goto
    <3>2. d.node \in Delivers
      BY <2>1 DEF Row, RowMakesSense
    <3> HIDE DEF z
    <3>3. Row(z)
      BY <1>3, <1>4, <2>1, <3>1, <3>2
    <3> QED
      BY <3>3 DEF z
  <2>3. Row(Over(d, "error"))
    BY <1>3, OverRow
  <2> QED
    BY <1>1, <1>3, <1>11, <2>2, <2>3, Stepped, LostMoves DEF LookBack, CloseCall
<1>12. CASE Intend(r)
  <2> DEFINE intent == Append(journal, [job |-> d.job, node |-> d.node, outcome |-> "open"])
             z == [d EXCEPT !.pc = "calling", !.call = Len(intent)]
  <2>1. d.pc = "delivering"
    BY <1>12 DEF Intend, At
  <2>2. Len(intent) \in Nat
    BY DEF TypeOK
  <2>3. /\ z \in RunRow /\ z.pc = "calling" /\ z.job = d.job /\ z.node = d.node
        /\ z.ending = d.ending /\ z.stops = d.stops /\ z.moved = d.moved
    <3> HIDE DEF intent
    <3> QED
      BY <2>2 DEF Row, RunRow
  <2>4. d.node \in Delivers
    BY <2>1 DEF Row, RowMakesSense
  <2> HIDE DEF z
  <2>5. Row(z)
    BY <1>3, <1>4, <2>1, <2>3, <2>4
  <2> QED
    BY <1>1, <1>3, <1>12, <2>5, Stepped, LostMoves DEF Intend, z
<1>13. ASSUME NEW answer \in {"ok", "error", "timeout"}, Call(r, answer)
       PROVE  RowMoves(r)
  <2> DEFINE z == [d EXCEPT !.pc = "answered", !.answer = answer]
  <2>1. d.pc = "calling"
    BY <1>13 DEF Call, At
  <2>2. /\ z \in RunRow /\ z.pc = "answered" /\ z.job = d.job /\ z.node = d.node
        /\ z.ending = d.ending /\ z.stops = d.stops /\ z.moved = d.moved
    <3>1. PICK v \in RunRow : v = d
      BY DEF Row
    <3>2. PICK w : w = [v EXCEPT !.pc = "answered", !.answer = answer]
      OBVIOUS
    <3>3. /\ w \in RunRow /\ w.pc = "answered" /\ w.job = v.job /\ w.node = v.node
          /\ w.ending = v.ending /\ w.stops = v.stops /\ w.moved = v.moved
      BY ONLY v \in RunRow, answer \in {"ok", "error", "timeout"}, <3>2 DEF RunRow
    <3> QED
      BY <3>1, <3>2, <3>3
  <2>3. d.node \in Delivers
    BY <2>1 DEF Row, RowMakesSense
  <2> HIDE DEF z
  <2>4. Row(z)
    BY <1>3, <1>4, <2>1, <2>2, <2>3
  <2> QED
    BY <1>1, <1>13, <2>4, Stepped DEF Call, z
<1>14. CASE AskAboutDelivery(r)
  BY <1>1, <1>3, <1>7, <1>14, WriteMoves DEF AskAboutDelivery, x, y
<1>15. CASE Route(r)
  <2>1. CASE Exits[d.node] = {} /\ Step(r, y)
    BY <1>1, <1>9, <2>1, Stepped
  <2>2. ASSUME NEW n, Write(r, [job EXCEPT ![d.job].node = n], m) PROVE RowMoves(r)
    BY <1>1, <1>3, <1>8, <2>2, WriteMoves
  <2>3. CASE Stop(r, y)
    BY <1>1, <1>3, <1>7, <2>3, WriteMoves DEF Stop, x
  <2> QED
    BY <1>15, <2>1, <2>2, <2>3 DEF Route, m, y
<1> QED
  BY <1>10, <1>11, <1>12, <1>13, <1>14, <1>15

LEMMA SettleMoves ==
  ASSUME TypeOK, NEW r \in Runner, Row(run[r]), Settle(r)
  PROVE  RowMoves(r)
<1> DEFINE d == run[r]  e == d.ending
<1>1. run \in [Runner -> RunRow]
  BY DEF TypeOK
<1>2. d.pc = "settled" /\ d.pc \notin {"idle", "asking"}
  BY DEF Settle, At
<1>3. ASSUME NEW how \in {"done", "next", "error"} PROVE Row(Over(d, how))
  <2> DEFINE z == Over(d, how)
  <2>1. /\ z \in RunRow /\ z.pc = "releasing" /\ z.job = d.job /\ z.node = d.node
        /\ z.ending = d.ending /\ z.stops = d.stops /\ z.moved = d.moved
    BY <1>3, OverIs DEF Row
  <2> HIDE DEF z
  <2>2. RowMakesSense(z)
    BY <1>2, <2>1 DEF Row, RowMakesSense
  <2>3. OneWay(z)
    BY <1>2, <2>1 DEF Row, OneWay, Ways, Undecided
  <2>4. Row(z)
    BY <2>1, <2>2, <2>3 DEF Row
  <2> QED
    BY <2>4 DEF z
<1>4. CASE e.status # "none" /\ e.kind = "engine_refusal" /\ Stop(r, Over(d, "next"))
  <2> DEFINE y == Over(d, "next")
             x == Stopped(y)
  <2>1. e.status # "completed"
    BY <1>4 DEF Row, RowMakesSense
  <2>2. d.stops \in {0, 1} /\ (Ways(d) = 1 => e.asks) /\ Ways(d) <= 1
    BY <1>2, <1>4 DEF Row, RunRow, OneWay, Ways
  <2>3. /\ y \in RunRow /\ y.pc = "releasing" /\ y.job = d.job /\ y.node = d.node
        /\ y.ending = d.ending /\ y.stops = d.stops /\ y.moved = d.moved
    BY DEF Row, RunRow, Over
  <2> HIDE DEF y
  <2>4. /\ x \in RunRow /\ x.pc = "releasing" /\ x.job = d.job /\ x.node = d.node
        /\ x.ending = d.ending /\ x.stops = d.stops + 1 /\ x.moved = d.moved
    BY <2>2, <2>3, StoppedRow
  <2> HIDE DEF x
  <2>5. RowMakesSense(x)
    BY <1>2, <2>4 DEF Row, RowMakesSense
  <2>6. Ways(x) = Ways(d) + 1 /\ Ways(d) \in {0, 1}
    BY <2>2, <2>4 DEF Ways
  <2>7. OneWay(x)
    BY <1>4, <2>1, <2>2, <2>4, <2>6 DEF OneWay, Undecided
  <2>8. Row(x)
    BY <2>4, <2>5, <2>7 DEF Row
  <2> QED
    BY <1>1, <1>2, <1>4, <2>8, WriteMoves DEF Stop, x, y
<1>5. ASSUME NEW how \in {"done", "next", "error"}, Step(r, Over(d, how))
      PROVE  RowMoves(r)
  BY <1>1, <1>3, <1>5, Stepped
<1> QED
  BY <1>4, <1>5 DEF Settle

LEMMA StepMoves ==
  ASSUME TypeOK, Room, NEW r \in Runner, Row(run[r]), RunnerStep(r)
  PROVE  RowMoves(r)
BY LoopMoves, BeforeMoves, EndMoves, DecideMoves, AdvanceMoves, SettleMoves
   DEF RunnerStep, AfterSession

LEMMA RowsStay ==
  ASSUME TypeOK, Room, \A r \in Runner : Row(run[r]), [Next]_vars
  PROVE  /\ run' \in [Runner -> RunRow]
         /\ \A r \in Runner : Row(run'[r])
<1>1. run \in [Runner -> RunRow]
  BY DEF TypeOK
<1>2. ASSUME NEW r \in Runner, RowMoves(r)
      PROVE  run' \in [Runner -> RunRow] /\ \A s \in Runner : Row(run'[s])
  <2>1. Row(run'[r]) /\ run'[r] \in RunRow /\ run' = [run EXCEPT ![r] = run'[r]]
    BY <1>2 DEF RowMoves, Row
  <2>2. run' \in [Runner -> RunRow] /\ \A s \in Runner \ {r} : run'[s] = run[s]
    BY <1>1, <2>1
  <2> QED
    BY <2>1, <2>2
<1>3. CASE UNCHANGED run
  BY <1>1, <1>3
<1>4. ASSUME NEW r \in Runner, Crash(r) PROVE RowMoves(r)
  BY <1>1, <1>4, IdleRow, Stepped DEF Crash, Step
<1>5. ASSUME NEW j \in Job, Lapse(j) PROVE \E r \in Runner : RowMoves(r)
  <2> DEFINE r == lease[j]
             x == [run[r] EXCEPT !.lapsed = TRUE]
  <2>1. r \in Runner
    BY <1>5 DEF Lapse, TypeOK
  <2>2. /\ x \in RunRow /\ x.pc = run[r].pc /\ x.job = run[r].job /\ x.node = run[r].node
        /\ x.ending = run[r].ending /\ x.stops = run[r].stops /\ x.moved = run[r].moved
        /\ x.result = run[r].result
    <3>1. PICK v \in RunRow : v = run[r]
      BY <2>1 DEF Row
    <3>2. PICK w : w = [v EXCEPT !.lapsed = TRUE]
      OBVIOUS
    <3>3. /\ w \in RunRow /\ w.pc = v.pc /\ w.job = v.job /\ w.node = v.node
          /\ w.ending = v.ending /\ w.stops = v.stops /\ w.moved = v.moved
          /\ w.result = v.result
      BY ONLY v \in RunRow, <3>2 DEF RunRow
    <3> QED
      BY <3>1, <3>2, <3>3
  <2>3. run' = [run EXCEPT ![r] = x]
    BY <1>5 DEF Lapse
  <2> HIDE DEF x
  <2>4. RowMakesSense(x) /\ OneWay(x)
    BY <2>1, <2>2 DEF Row, RowMakesSense, OneWay, Ways
  <2>5. Row(x)
    BY <2>2, <2>4 DEF Row
  <2> QED
    BY <1>1, <2>1, <2>3, <2>5, Stepped DEF Step
<1>6. CASE \E r \in Runner : RunnerStep(r)
  BY <1>2, <1>6, StepMoves
<1>7. ASSUME NEW j \in Job, \/ Expire(j) \/ Unblock(j) \/ AnswerDelivery(j, "retry")
                            \/ AnswerDelivery(j, "skip") \/ \E r \in Runner : WarmUp(r, j)
      PROVE  UNCHANGED run
  BY <1>7 DEF Expire, Unblock, AnswerDelivery, WarmUp
<1>8. ASSUME NEW o \in orphan, OrphanEnds(o) PROVE UNCHANGED run
  BY <1>8 DEF OrphanEnds
<1> QED
  BY <1>2, <1>3, <1>4, <1>5, <1>6, <1>7, <1>8 DEF Next, vars

-----------------------------------------------------------------------------
(* Who writes which table. *)

LEMMA JournalWriters ==
  ASSUME NEW r \in Runner, RunnerStep(r),
         ~SettleSkip(r), ~SettleRetry(r), ~Intend(r), ~CloseCall(r)
  PROVE  UNCHANGED journal
<1>1. CASE Loop(r)
  BY <1>1 DEF Loop, Poll, EndPass, Release, Take, PassOver, LoseRequest, outside
<1>2. CASE BeforeSession(r)
  BY <1>2 DEF BeforeSession, CoolDown, ReadJob, FailToStart, StartSession, OpenSession, outside
<1>3. CASE AfterSession(r)
  BY <1>3 DEF AfterSession, EngineEnds, FinishSession, Decide, AdvanceBench, LookBack, Call,
              AskAboutDelivery, Route, Settle, outside
<1> QED
  BY <1>1, <1>2, <1>3 DEF RunnerStep

LEMMA SessionWriters ==
  ASSUME NEW r \in Runner, RunnerStep(r), ~OpenSession(r), ~FinishSession(r)
  PROVE  UNCHANGED session
<1>1. CASE Loop(r)
  BY <1>1 DEF Loop, Poll, EndPass, Release, Take, PassOver, LoseRequest
<1>2. CASE BeforeSession(r)
  BY <1>2 DEF BeforeSession, CoolDown, ReadJob, SettleSkip, SettleRetry, FailToStart, StartSession
<1>3. CASE AfterSession(r)
  BY <1>3 DEF AfterSession, EngineEnds, Decide, AdvanceBench, LookBack, Intend, Call, CloseCall,
              AskAboutDelivery, Route, Settle
<1> QED
  BY <1>1, <1>2, <1>3 DEF RunnerStep

LEMMA JobWriters ==
  ASSUME NEW r \in Runner, RunnerStep(r),
         ~FailToStart(r), ~FinishSession(r), ~Decide(r), ~AdvanceBench(r),
         ~AskAboutDelivery(r), ~Route(r), ~Settle(r)
  PROVE  UNCHANGED job
<1>1. CASE Loop(r)
  BY <1>1 DEF Loop, Poll, EndPass, Release, Take, PassOver, LoseRequest
<1>2. CASE BeforeSession(r)
  BY <1>2 DEF BeforeSession, CoolDown, ReadJob, SettleSkip, SettleRetry, StartSession, OpenSession
<1>3. CASE AfterSession(r)
  BY <1>3 DEF AfterSession, EngineEnds, LookBack, Intend, Call, CloseCall
<1> QED
  BY <1>1, <1>2, <1>3 DEF RunnerStep

LEMMA LeaseWriters ==
  ASSUME NEW r \in Runner, RunnerStep(r), ~Release(r),
         \A j \in Job : ~Take(r, j) /\ ~LoseRequest(r, j)
  PROVE  UNCHANGED lease
<1>1. CASE Loop(r)
  BY <1>1 DEF Loop, Poll, EndPass, PassOver
<1>2. CASE BeforeSession(r)
  BY <1>2 DEF BeforeSession, CoolDown, ReadJob, SettleSkip, SettleRetry, FailToStart,
              StartSession, OpenSession
<1>3. CASE AfterSession(r)
  BY <1>3 DEF AfterSession, EngineEnds, FinishSession, Decide, AdvanceBench, LookBack, Intend,
              Call, CloseCall, AskAboutDelivery, Route, Settle
<1> QED
  BY <1>1, <1>2, <1>3 DEF RunnerStep

LEMMA EngineWriters ==
  ASSUME NEW r \in Runner, RunnerStep(r), ~StartSession(r), ~OpenSession(r),
         \A e \in Ending : ~EngineEnds(r, e)
  PROVE  UNCHANGED engine
<1>1. CASE Loop(r)
  BY <1>1 DEF Loop, Poll, EndPass, Release, Take, PassOver, LoseRequest
<1>2. CASE BeforeSession(r)
  BY <1>2 DEF BeforeSession, CoolDown, ReadJob, SettleSkip, SettleRetry, FailToStart
<1>3. CASE AfterSession(r)
  BY <1>3 DEF AfterSession, FinishSession, Decide, AdvanceBench, LookBack, Intend,
              Call, CloseCall, AskAboutDelivery, Route, Settle
<1> QED
  BY <1>1, <1>2, <1>3 DEF RunnerStep

LEMMA OrphansStay ==
  ASSUME NEW r \in Runner, RunnerStep(r)
  PROVE  UNCHANGED orphan
<1>1. CASE Loop(r)
  BY <1>1 DEF Loop, Poll, EndPass, Release, Take, PassOver, LoseRequest
<1>2. CASE BeforeSession(r)
  BY <1>2 DEF BeforeSession, CoolDown, ReadJob, SettleSkip, SettleRetry, FailToStart,
              StartSession, OpenSession
<1>3. CASE AfterSession(r)
  BY <1>3 DEF AfterSession, EngineEnds, FinishSession, Decide, AdvanceBench, LookBack, Intend,
              Call, CloseCall, AskAboutDelivery, Route, Settle
<1> QED
  BY <1>1, <1>2, <1>3 DEF RunnerStep

LEMMA MemoryWriters ==
  ASSUME NEW r \in Runner, RunnerStep(r), ~FailToStart(r), ~OpenSession(r), ~Settle(r)
  PROVE  UNCHANGED memory
<1>1. CASE Loop(r)
  BY <1>1 DEF Loop, Poll, EndPass, Release, Take, PassOver, LoseRequest
<1>2. CASE BeforeSession(r)
  BY <1>2 DEF BeforeSession, CoolDown, ReadJob, SettleSkip, SettleRetry, StartSession
<1>3. CASE AfterSession(r)
  BY <1>3 DEF AfterSession, EngineEnds, FinishSession, Decide, AdvanceBench, LookBack, Intend,
              Call, CloseCall, AskAboutDelivery, Route
<1> QED
  BY <1>1, <1>2, <1>3 DEF RunnerStep

LEMMA LandedWriters ==
  ASSUME NEW r \in Runner, RunnerStep(r),
         \A answer \in {"ok", "error", "timeout"} : ~Call(r, answer)
  PROVE  UNCHANGED landed
<1>1. CASE Loop(r)
  BY <1>1 DEF Loop, Poll, EndPass, Release, Take, PassOver, LoseRequest, outside
<1>2. CASE BeforeSession(r)
  BY <1>2 DEF BeforeSession, CoolDown, ReadJob, SettleSkip, SettleRetry, FailToStart,
              StartSession, OpenSession, outside
<1>3. CASE AfterSession(r)
  BY <1>3 DEF AfterSession, EngineEnds, FinishSession, Decide, AdvanceBench, LookBack, Intend,
              CloseCall, AskAboutDelivery, Route, Settle, outside
<1> QED
  BY <1>1, <1>2, <1>3 DEF RunnerStep

-----------------------------------------------------------------------------
(* The tables keep their shape. *)

Grows(s, t) ==
  /\ t \in Seq(CallRow) /\ Len(s) <= Len(t)
  /\ \A c \in DOMAIN s : t[c].job = s[c].job /\ t[c].node = s[c].node

LEMMA SameJournal ==
  ASSUME TypeOK
  PROVE  Grows(journal, journal)
BY DEF TypeOK, Grows

LEMMA RowWritten ==
  ASSUME TypeOK, NEW j \in Job, NEW n \in Delivers, NEW o \in {"open", "error", "settled"}
  PROVE  LET t == Append(journal, [job |-> j, node |-> n, outcome |-> o])
         IN  Grows(journal, t) /\ Len(t) = Len(journal) + 1
             /\ t[Len(t)] = [job |-> j, node |-> n, outcome |-> o]
             /\ \A c \in DOMAIN journal : t[c] = journal[c]
<1> DEFINE e == [job |-> j, node |-> n, outcome |-> o]
           t == Append(journal, e)
<1>1. e \in CallRow
  BY DEF CallRow
<1>2. journal \in Seq(CallRow) /\ DOMAIN journal = 1 .. Len(journal) /\ Len(journal) \in Nat
  BY LenProperties DEF TypeOK
<1> HIDE DEF e
<1>3. /\ t \in Seq(CallRow) /\ Len(t) = Len(journal) + 1 /\ t[Len(journal) + 1] = e
      /\ \A c \in 1 .. Len(journal) : t[c] = journal[c]
  BY <1>1, <1>2, AppendProperties
<1> QED
  BY <1>2, <1>3 DEF Grows, e

LEMMA RowClosed ==
  ASSUME TypeOK, NEW c \in DOMAIN journal, NEW o \in {"open", "error", "settled"}
  PROVE  LET t == [journal EXCEPT ![c].outcome = o]
         IN  Grows(journal, t) /\ Len(t) = Len(journal)
             /\ t[c] = [journal[c] EXCEPT !.outcome = o]
             /\ \A b \in DOMAIN journal : b # c => t[b] = journal[b]
<1> DEFINE e == [journal[c] EXCEPT !.outcome = o]
           t == [journal EXCEPT ![c] = e]
<1>1. journal \in Seq(CallRow) /\ DOMAIN journal = 1 .. Len(journal) /\ Len(journal) \in Nat
  BY LenProperties DEF TypeOK
<1>2. journal[c] \in CallRow
  BY <1>1, ElementOfSeq
<1>3. e \in CallRow /\ e.job = journal[c].job /\ e.node = journal[c].node
  BY <1>2 DEF CallRow
<1> HIDE DEF e
<1>4. /\ t \in Seq(CallRow) /\ Len(t) = Len(journal)
      /\ \A b \in 1 .. Len(journal) : t[b] = IF b = c THEN e ELSE journal[b]
  BY <1>1, <1>3, ExceptSeq
<1>5. Grows(journal, t) /\ t[c] = e /\ \A b \in DOMAIN journal : b # c => t[b] = journal[b]
  BY <1>1, <1>3, <1>4 DEF Grows
<1>6. t = [journal EXCEPT ![c].outcome = o]
  BY DEF e
<1> QED
  BY <1>4, <1>5, <1>6 DEF e

LEMMA OpenClosed ==
  ASSUME TypeOK, NEW open \in SUBSET DOMAIN journal
  PROVE  LET t == [c \in DOMAIN journal |->
                     IF c \in open THEN [journal[c] EXCEPT !.outcome = "error"] ELSE journal[c]]
         IN  Grows(journal, t) /\ Len(t) = Len(journal)
<1> DEFINE t == [c \in DOMAIN journal |->
                   IF c \in open THEN [journal[c] EXCEPT !.outcome = "error"] ELSE journal[c]]
<1>1. journal \in Seq(CallRow) /\ DOMAIN journal = 1 .. Len(journal) /\ Len(journal) \in Nat
  BY LenProperties DEF TypeOK
<1>2. ASSUME NEW c \in DOMAIN journal
      PROVE  t[c] \in CallRow /\ t[c].job = journal[c].job /\ t[c].node = journal[c].node
  <2>1. journal[c] \in CallRow
    BY <1>1, ElementOfSeq
  <2> QED
    BY <2>1 DEF CallRow
<1>3. t \in [1 .. Len(journal) -> CallRow]
  BY <1>1, <1>2
<1>4. t \in Seq(CallRow) /\ Len(t) = Len(journal)
  BY <1>1, <1>3, SeqDef
<1> QED
  BY <1>2, <1>4 DEF Grows

(* A decision is about an output of the node the dispatch is on. *)
LEMMA DecisionIsAbout ==
  ASSUME TypeOK, NEW r \in Runner, Decision(r) # "none"
  PROVE  run[r].node \in Delivers /\ ~SettledCall(run[r].job, run[r].node)
         /\ job[run[r].job].decided[run[r].node] = Decision(r)
BY DEF Decision

LEMMA DanglingIs ==
  ASSUME NEW j, NEW n
  PROVE  /\ Dangling(j, n) \subseteq DOMAIN journal
         /\ \A c \in Dangling(j, n) :
              journal[c].job = j /\ journal[c].node = n /\ journal[c].outcome = "open"
BY DEF Dangling, Calls

LEMMA JournalStep ==
  ASSUME TypeOK, NEW r \in Runner, Row(run[r]), CallKnown(r), RunnerStep(r)
  PROVE  Grows(journal, journal')
<1> DEFINE d == run[r]
<1>1. CASE SettleSkip(r)
  <2>1. d.pc = "planned" /\ d.job \in Job /\ d.node \in Delivers
    BY <1>1, DecisionIsAbout, WorksOnAJob DEF SettleSkip, At
  <2> DEFINE c == CHOOSE c \in Dangling(d.job, d.node) : TRUE
  <2>2. Dangling(d.job, d.node) # {} => c \in DOMAIN journal
    BY DanglingIs
  <2>3. CASE Dangling(d.job, d.node) # {}
    <3>1. journal' \in {journal, [journal EXCEPT ![c].outcome = "settled"]}
      BY <1>1, <2>3 DEF SettleSkip
    <3> HIDE DEF c
    <3> QED
      BY <2>2, <2>3, <3>1, RowClosed, SameJournal
  <2>4. CASE Dangling(d.job, d.node) = {}
    <3>1. \/ journal' = journal
          \/ \E o \in {"open", "settled"} :
               journal' = Append(journal, [job |-> d.job, node |-> d.node, outcome |-> o])
      BY <1>1, <2>4 DEF SettleSkip
    <3> QED
      BY <2>1, <3>1, RowWritten, SameJournal
  <2> QED
    BY <2>3, <2>4
<1>2. CASE SettleRetry(r)
  <2>1. Dangling(d.job, d.node) \subseteq DOMAIN journal
    BY DanglingIs
  <2> QED
    BY <1>2, <2>1, OpenClosed, SameJournal DEF SettleRetry
<1>3. CASE Intend(r)
  <2>1. d.job \in Job /\ d.node \in Delivers
    BY <1>3, WorksOnAJob DEF Intend, At, Row, RowMakesSense
  <2>2. journal' \in {journal, Append(journal,
                        [job |-> d.job, node |-> d.node, outcome |-> "open"])}
    BY <1>3 DEF Intend
  <2> QED
    BY <2>1, <2>2, RowWritten, SameJournal
<1>4. CASE CloseCall(r)
  <2>1. d.call \in DOMAIN journal
    <3>1. d.call \in 0 .. Len(journal) /\ d.call # 0
      BY <1>4 DEF CloseCall, CallKnown, TypeOK
    <3> QED
      BY <3>1, LenProperties DEF TypeOK
  <2>2. journal' \in {journal, [journal EXCEPT ![d.call].outcome =
                        IF d.answer = "ok" THEN "settled" ELSE "error"]}
    BY <1>4 DEF CloseCall
  <2> QED
    BY <2>1, <2>2, RowClosed, SameJournal
<1> QED
  BY <1>1, <1>2, <1>3, <1>4, JournalWriters, SameJournal

LEMMA SessionsStep ==
  ASSUME TypeOK, NEW r \in Runner, Row(run[r]), SessionKnown(r), RunnerStep(r)
  PROVE  /\ session' \in Seq(SessionRow)
         /\ Len(session') \in {Len(session), Len(session) + 1}
         /\ ~At(r, "started") => Len(session') = Len(session)
<1> DEFINE d == run[r]
<1>1. session \in Seq(SessionRow) /\ DOMAIN session = 1 .. Len(session) /\ Len(session) \in Nat
  BY LenProperties DEF TypeOK
<1>2. CASE OpenSession(r)
  <2>1. d.pc = "started" /\ d.job \in Job /\ d.node \in Node
    BY <1>2, WorksOnAJob DEF OpenSession, At, Row, RunRow
  <2>2. SessionOf(r) \in SessionRow
    BY <2>1 DEF SessionOf, SessionRow
  <2>3. /\ Append(session, SessionOf(r)) \in Seq(SessionRow)
        /\ Len(Append(session, SessionOf(r))) = Len(session) + 1
    BY <1>1, <2>2, AppendProperties
  <2>4. session' \in {session, Append(session, SessionOf(r))}
    BY <1>2 DEF OpenSession
  <2> QED
    BY <1>1, <2>1, <2>3, <2>4 DEF At
<1>3. CASE FinishSession(r)
  <2>1. d.pc = "ended" /\ d.ending \in EndingRow
    BY <1>3, EndingShape DEF FinishSession, At, Row, RunRow, RowMakesSense
  <2>2. VerdictOf(d.ending) \in Board!Verdict
    BY <2>1 DEF VerdictOf, EndingRow, Board!Verdict
  <2>3. d.sid \in 1 .. Len(session)
    BY <1>1, <2>1 DEF TypeOK, SessionKnown, At
  <2> DEFINE e == [session[d.sid] EXCEPT !.status = IF @ = "open" THEN VerdictOf(d.ending) ELSE @]
  <2>4. session[d.sid] \in SessionRow
    BY <1>1, <2>3, ElementOfSeq
  <2>5. e \in SessionRow
    BY <2>2, <2>4 DEF SessionRow
  <2>6. Closed(r) = [session EXCEPT ![d.sid] = e]
    BY DEF Closed
  <2> HIDE DEF e
  <2>7. Closed(r) \in Seq(SessionRow) /\ Len(Closed(r)) = Len(session)
    BY <1>1, <2>3, <2>5, <2>6, ExceptSeq
  <2>8. session' \in {session, Closed(r)}
    BY <1>3 DEF FinishSession
  <2> QED
    BY <1>1, <2>7, <2>8
<1> QED
  BY <1>1, <1>2, <1>3, SessionWriters

(* What a runner may write to its job's row. *)
LEMMA JobStep ==
  ASSUME TypeOK, NEW r \in Runner, Row(run[r]), RunnerStep(r)
  PROVE  job' \in [Job -> JobRow]
<1> DEFINE d == run[r]
           Fits(tab) == tab \in [Job -> JobRow]
<1>1. job \in [Job -> JobRow] /\ Fits(job)
  BY DEF TypeOK
<1>2. ASSUME NEW j \in Job PROVE Fits(Flagged(j))
  <2>1. [job[j] EXCEPT !.blocked = TRUE] \in JobRow
    BY <1>1 DEF JobRow
  <2> QED
    BY <1>1, <2>1 DEF Flagged, JobRow
<1>3. ASSUME NEW j \in Job, NEW n \in Node PROVE Fits([job EXCEPT ![j].node = n])
  BY <1>1, <1>3 DEF JobRow
<1>4. ASSUME NEW j \in Job, NEW n \in Delivers
      PROVE  Fits([job EXCEPT ![j].blocked = TRUE, ![j].asked = n])
  BY <1>1, <1>4 DEF JobRow
<1> HIDE DEF Fits
<1>5. CASE FailToStart(r)
  <2>1. d.job \in Job
    BY <1>5, WorksOnAJob DEF FailToStart, At
  <2>2. job' \in {job, Flagged(d.job)}
    BY <1>5 DEF FailToStart, StopUnstarted
  <2> QED
    BY <1>1, <1>2, <2>1, <2>2 DEF Fits
<1>6. CASE FinishSession(r)
  <2>1. d.job \in Job
    BY <1>6, WorksOnAJob DEF FinishSession, At
  <2>2. job' \in {job, Flagged(d.job)}
    BY <1>6 DEF FinishSession, Judged
  <2> QED
    BY <1>1, <1>2, <2>1, <2>2 DEF Fits
<1>7. CASE Decide(r) \/ AdvanceBench(r) \/ Settle(r)
  <2>1. d.job \in Job
    BY <1>7, WorksOnAJob DEF Decide, AdvanceBench, Settle, At
  <2>2. job' \in {job, Flagged(d.job)}
    <3>1. CASE Decide(r)
      BY <3>1 DEF Decide, Stop, Write
    <3>2. CASE AdvanceBench(r)
      BY <3>2 DEF AdvanceBench, Stop, Write
    <3>3. CASE Settle(r)
      BY <3>3 DEF Settle, Stop, Write
    <3> QED
      BY <1>7, <3>1, <3>2, <3>3
  <2> QED
    BY <1>1, <1>2, <2>1, <2>2 DEF Fits
<1>8. CASE AskAboutDelivery(r)
  <2>1. d.job \in Job /\ d.node \in Delivers
    BY <1>8, WorksOnAJob DEF AskAboutDelivery, At, Row, RowMakesSense
  <2> DEFINE tab == [job EXCEPT ![d.job].blocked = TRUE, ![d.job].asked = d.node]
  <2>2. Fits(tab)
    BY <1>4, <2>1
  <2> HIDE DEF tab
  <2>4. job' \in {job, tab}
    BY <1>8 DEF AskAboutDelivery, Write, tab
  <2>3. Fits(job')
    BY <1>1, <2>2, <2>4
  <2> QED
    BY <2>3 DEF Fits
<1>9. CASE Route(r)
  <2>1. d.job \in Job /\ d.node \in Node
    BY <1>9, WorksOnAJob DEF Route, At, Row, RunRow
  <2>2. Exits[d.node] \subseteq Node
    BY <2>1, DispatchAssumption
  <2>3. \/ job' \in {job, Flagged(d.job)}
        \/ \E n \in Exits[d.node] : job' \in {job, [job EXCEPT ![d.job].node = n]}
    BY <1>9 DEF Route, Stop, Write
  <2>4. ASSUME NEW n \in Exits[d.node], job' \in {job, [job EXCEPT ![d.job].node = n]}
        PROVE  Fits(job')
    <3>1. n \in Node
      BY <2>2
    <3> QED
      BY <1>1, <1>3, <2>1, <2>4, <3>1
  <2>5. Fits(job')
    BY <1>1, <1>2, <2>1, <2>3, <2>4
  <2> QED
    BY <2>5 DEF Fits
<1> QED
  BY <1>1, <1>5, <1>6, <1>7, <1>8, <1>9, JobWriters DEF Fits

LEMMA MemoryStep ==
  ASSUME TypeOK, NEW r \in Runner, Row(run[r]), RunnerStep(r)
  PROVE  memory' \in [Runner -> MemoryRow]
<1> DEFINE d == run[r]
<1>1. memory \in [Runner -> MemoryRow]
  BY DEF TypeOK
<1>2. ASSUME NEW j \in Job, NEW n \in Nat
      PROVE  [memory EXCEPT ![r].streak[j] = n] \in [Runner -> MemoryRow]
  <2>1. [memory[r] EXCEPT !.streak[j] = n] \in MemoryRow
    BY <1>1 DEF MemoryRow
  <2> QED
    BY <1>1, <2>1
<1>3. ASSUME NEW C \in SUBSET Job
      PROVE  [memory EXCEPT ![r].cooling = C] \in [Runner -> MemoryRow]
  BY <1>1 DEF MemoryRow
<1>4. memory[r].streak \in [Job -> Nat] /\ memory[r].cooling \in SUBSET Job
  BY <1>1 DEF MemoryRow
<1>5. CASE FailToStart(r)
  <2>1. d.job \in Job
    BY <1>5, WorksOnAJob DEF FailToStart, At
  <2>2. memory[r].streak[d.job] \in Nat
    BY <1>4, <2>1
  <2> DEFINE n == memory[r].streak[d.job]
  <2>3. \/ memory' = [memory EXCEPT ![r].streak[d.job] = 0]
        \/ memory' = [memory EXCEPT ![r].streak[d.job] = n]
        \/ memory' = [memory EXCEPT ![r].streak[d.job] = n + 1]
    BY <1>5 DEF FailToStart, StopUnstarted, Forget
  <2> HIDE DEF n
  <2>4. n \in Nat /\ n + 1 \in Nat
    BY <2>2 DEF n
  <2>5. CASE memory' = [memory EXCEPT ![r].streak[d.job] = 0]
    BY <1>2, <2>1, <2>5
  <2>6. CASE memory' = [memory EXCEPT ![r].streak[d.job] = n]
    BY <1>2, <2>1, <2>4, <2>6
  <2>7. CASE memory' = [memory EXCEPT ![r].streak[d.job] = n + 1]
    BY <1>2, <2>1, <2>4, <2>7
  <2> QED
    BY <2>3, <2>5, <2>6, <2>7
<1>6. CASE OpenSession(r)
  <2>1. d.job \in Job
    BY <1>6, WorksOnAJob DEF OpenSession, At
  <2>2. memory' = memory \/ memory' = [memory EXCEPT ![r].streak[d.job] = 0]
    BY <1>6 DEF OpenSession, Forget
  <2> QED
    BY <1>1, <1>2, <2>1, <2>2
<1>7. CASE Settle(r)
  <2>1. d.job \in Job
    BY <1>7, WorksOnAJob DEF Settle, At
  <2>2. \/ memory' = memory
        \/ memory' = [memory EXCEPT ![r].cooling = memory[r].cooling \cup {d.job}]
        \/ memory' = [memory EXCEPT ![r].cooling = memory[r].cooling \ {d.job}]
        \/ memory' = [memory EXCEPT ![r].cooling = memory[r].cooling]
    BY <1>1, <1>7 DEF Settle
  <2> QED
    BY <1>1, <1>3, <1>4, <2>1, <2>2
<1> QED
  BY <1>1, <1>5, <1>6, <1>7, MemoryWriters

LEMMA LeaseAndEngineStep ==
  ASSUME TypeOK, NEW r \in Runner, Row(run[r]), RunnerStep(r)
  PROVE  /\ lease' \in [Job -> Runner \cup {NoRunner}]
         /\ engine' \in [Runner -> Job \cup {NoJob}]
         /\ \A s \in Runner \ {r} : engine'[s] = engine[s]
<1>1. lease \in [Job -> Runner \cup {NoRunner}] /\ engine \in [Runner -> Job \cup {NoJob}]
  BY DEF TypeOK
<1>2. ASSUME NEW j \in Job, Take(r, j) \/ LoseRequest(r, j)
      PROVE  lease' \in [Job -> Runner \cup {NoRunner}]
  BY <1>1, <1>2 DEF Take, LoseRequest
<1>3. CASE Release(r)
  BY <1>1, <1>3 DEF Release
<1>4. lease' \in [Job -> Runner \cup {NoRunner}]
  BY <1>1, <1>2, <1>3, LeaseWriters
<1>5. CASE StartSession(r)
  <2>1. run[r].job \in Job
    BY <1>5, WorksOnAJob DEF StartSession, At
  <2> QED
    BY <1>1, <1>4, <1>5, <2>1 DEF StartSession
<1>6. CASE OpenSession(r)
  BY <1>1, <1>4, <1>6 DEF OpenSession
<1>7. ASSUME NEW e \in Ending, EngineEnds(r, e)
      PROVE  /\ engine' \in [Runner -> Job \cup {NoJob}]
             /\ \A s \in Runner \ {r} : engine'[s] = engine[s]
  BY <1>1, <1>7 DEF EngineEnds
<1> QED
  BY <1>1, <1>4, <1>5, <1>6, <1>7, EngineWriters

LEMMA LandedStep ==
  ASSUME TypeOK, NEW r \in Runner, Row(run[r]), RunnerStep(r)
  PROVE  landed' \in [Job -> [Delivers -> Nat]]
<1>1. landed \in [Job -> [Delivers -> Nat]]
  BY DEF TypeOK
<1>2. ASSUME NEW answer \in {"ok", "error", "timeout"}, Call(r, answer)
      PROVE  landed' \in [Job -> [Delivers -> Nat]]
  <2> DEFINE j == run[r].job  n == run[r].node
  <2>1. j \in Job /\ n \in Delivers
    BY <1>2, WorksOnAJob DEF Call, At, Row, RowMakesSense
  <2>2. landed' = landed \/ landed' = [landed EXCEPT ![j][n] = @ + 1]
    BY <1>2 DEF Call
  <2>3. landed[j] \in [Delivers -> Nat] /\ landed[j][n] + 1 \in Nat
    BY <1>1, <2>1
  <2>4. [landed[j] EXCEPT ![n] = @ + 1] \in [Delivers -> Nat]
    BY <2>3
  <2> HIDE DEF j, n
  <2> QED
    BY <1>1, <2>1, <2>2, <2>4
<1> QED
  BY <1>1, <1>2, LandedWriters

-----------------------------------------------------------------------------
(* What a dispatch keeps from one step to the next. *)

Follows(d, x) ==
  /\ x.job = d.job /\ x.node = d.node /\ x.lapsed = d.lapsed
  /\ x.sid = d.sid /\ x.call = d.call

(* The steps that do not come up below with what they set. *)
Onward(d, x) ==
  /\ Follows(d, x)
  /\ x.pc \notin {"idle", "asking", "leased", "started", "running", "calling"}
  /\ x.pc = "ended" => d.pc = "running"
  /\ x.pc = "answered" => d.pc = "calling"

LEMMA OverFollows ==
  ASSUME NEW d \in RunRow, NEW how
  PROVE  Onward(d, Over(d, how)) /\ Onward(d, Stopped(Over(d, how)))
BY DEF RunRow, Onward, Follows, Over, Stopped

LEMMA GotoFollows ==
  ASSUME NEW d \in RunRow,
         NEW pc \in {"reported", "advancing", "delivering", "unsure", "routing", "settled"}
  PROVE  Onward(d, Goto(d, pc)) /\ Onward(d, Stopped(Goto(d, pc)))
BY DEF RunRow, Onward, Follows, Goto, Stopped

LEMMA StepIs ==
  ASSUME run \in [Runner -> RunRow], NEW r \in Runner, NEW x, Step(r, x)
  PROVE  run'[r] = x
BY DEF Step

LEMMA LostFollows ==
  ASSUME run \in [Runner -> RunRow], NEW r \in Runner, Lost(r)
  PROVE  Onward(run[r], run'[r])
<1>1. Onward(run[r], Over(run[r], "error"))
  BY OverFollows
<1> QED
  BY <1>1, StepIs DEF Lost

LEMMA WriteFollows ==
  ASSUME run \in [Runner -> RunRow], NEW r \in Runner, NEW tab, NEW x,
         Write(r, tab, x), Onward(run[r], x)
  PROVE  Onward(run[r], run'[r])
BY StepIs, LostFollows DEF Write

LEMMA BeforeFollows ==
  ASSUME run \in [Runner -> RunRow], NEW r \in Runner,
         CoolDown(r) \/ SettleSkip(r) \/ FailToStart(r) \/ (OpenSession(r) /\ Lost(r))
  PROVE  Onward(run[r], run'[r])
<1> DEFINE d == run[r]
<1>1. /\ Onward(d, Over(d, "next")) /\ Onward(d, Over(d, "error"))
      /\ Onward(d, Stopped(Over(d, "next"))) /\ Onward(d, Goto(d, "routing"))
  BY OverFollows, GotoFollows
<1>2. \/ Step(r, Over(d, "next")) \/ Step(r, Over(d, "error")) \/ Lost(r)
      \/ Step(r, Stopped(Over(d, "next"))) \/ Step(r, Goto(d, "routing"))
  BY DEF CoolDown, SettleSkip, FailToStart, StopUnstarted, OpenSession
<1> HIDE DEF d
<1> QED
  BY <1>1, <1>2, StepIs, LostFollows DEF d

LEMMA AfterFollows ==
  ASSUME run \in [Runner -> RunRow], NEW r \in Runner, AfterSession(r), ~Intend(r)
  PROVE  Onward(run[r], run'[r])
<1> DEFINE d == run[r]
<1>1. ASSUME NEW e \in Ending, EngineEnds(r, e) PROVE Onward(d, run'[r])
  <2> DEFINE f == IF e.report = "dirty" THEN [e EXCEPT !.report = "clean"] ELSE e
             x == [d EXCEPT !.pc = "ended", !.ending = e]
             y == [d EXCEPT !.pc = "ended", !.fault = TRUE, !.ending = f]
  <2>1. d.pc = "running"
    BY <1>1 DEF EngineEnds, At
  <2>2. Onward(d, x) /\ Onward(d, y)
    <3> HIDE DEF f
    <3> QED
      BY <2>1 DEF RunRow, Onward, Follows
  <2>3. Onward(d, Over(d, "error"))
    BY OverFollows
  <2>4. Step(r, x) \/ Step(r, y) \/ Step(r, Over(d, "error"))
    BY <1>1 DEF EngineEnds
  <2> HIDE DEF x, y, d
  <2> QED
    BY <2>2, <2>3, <2>4, StepIs
<1>2. CASE FinishSession(r)
  <2> DEFINE x == [d EXCEPT !.pc = "reported", !.fault = TRUE, !.known = FALSE]
  <2>1. Onward(d, x) /\ Onward(d, Goto(d, "reported"))
    BY GotoFollows DEF RunRow, Onward, Follows
  <2>2. Step(r, x) \/ Step(r, Goto(d, "reported"))
    BY <1>2 DEF FinishSession
  <2> HIDE DEF x
  <2> QED
    BY <2>1, <2>2, StepIs
<1>3. Onward(d, Goto(d, "settled")) /\ Onward(d, Stopped(Goto(d, "settled")))
  BY GotoFollows
<1>4. CASE Decide(r)
  <2>1. Onward(d, Goto(d, "advancing"))
    BY GotoFollows
  <2>2. \/ Stop(r, Goto(d, "settled")) \/ Step(r, Goto(d, "settled"))
        \/ Step(r, Goto(d, "advancing"))
    BY <1>4 DEF Decide
  <2> QED
    BY <1>3, <2>1, <2>2, StepIs, WriteFollows DEF Stop
<1>5. CASE AdvanceBench(r)
  <2> DEFINE b == [d EXCEPT !.pc = "settled", !.stale = TRUE]
  <2>1. Onward(d, Stopped(b))
    BY DEF RunRow, Onward, Follows, Stopped
  <2>2. Onward(d, Goto(d, "delivering")) /\ Onward(d, Goto(d, "routing"))
    BY GotoFollows
  <2>3. Write(r, Flagged(d.job), Stopped(b)) \/ Step(r, Goto(d, "delivering"))
        \/ Step(r, Goto(d, "routing"))
    BY <1>5 DEF AdvanceBench, Stop
  <2> HIDE DEF b
  <2> QED
    BY <2>1, <2>2, <2>3, StepIs, WriteFollows
<1>6. CASE LookBack(r) \/ CloseCall(r)
  <2>1. Onward(d, Goto(d, "routing")) /\ Onward(d, Goto(d, "unsure"))
        /\ Onward(d, Over(d, "error"))
    BY GotoFollows, OverFollows
  <2>2. \/ Step(r, Goto(d, "routing")) \/ Step(r, Goto(d, "unsure"))
        \/ Step(r, Over(d, "error")) \/ Lost(r)
    BY <1>6 DEF LookBack, CloseCall
  <2> QED
    BY <2>1, <2>2, StepIs, LostFollows
<1>7. ASSUME NEW answer \in {"ok", "error", "timeout"}, Call(r, answer)
      PROVE  Onward(d, run'[r])
  <2>1. d.pc = "calling"
    BY <1>7 DEF Call, At
  <2>2. Onward(d, [d EXCEPT !.pc = "answered", !.answer = answer])
    BY <2>1 DEF RunRow, Onward, Follows
  <2> QED
    BY <1>7, <2>2, StepIs DEF Call
<1>8. CASE AskAboutDelivery(r)
  BY <1>3, <1>8, WriteFollows DEF AskAboutDelivery
<1>9. CASE Route(r)
  <2> DEFINE m == [d EXCEPT !.pc = "settled", !.moved = TRUE]
  <2>1. Onward(d, m)
    BY DEF RunRow, Onward, Follows
  <2>2. \/ Step(r, Goto(d, "settled")) \/ Stop(r, Goto(d, "settled"))
        \/ \E n \in Exits[d.node] : Write(r, [job EXCEPT ![d.job].node = n], m)
    BY <1>9 DEF Route
  <2> HIDE DEF m
  <2> QED
    BY <1>3, <2>1, <2>2, StepIs, WriteFollows DEF Stop
<1>10. CASE Settle(r)
  <2>1. /\ Onward(d, Over(d, "done")) /\ Onward(d, Over(d, "next"))
        /\ Onward(d, Over(d, "error")) /\ Onward(d, Stopped(Over(d, "next")))
    BY OverFollows
  <2>2. \/ Step(r, Over(d, "done")) \/ Step(r, Over(d, "next"))
        \/ Step(r, Over(d, "error")) \/ Stop(r, Over(d, "next"))
    BY <1>10 DEF Settle
  <2> QED
    BY <2>1, <2>2, StepIs, WriteFollows DEF Stop
<1> QED
  BY <1>1, <1>2, <1>4, <1>5, <1>6, <1>7, <1>8, <1>9, <1>10 DEF AfterSession

LEMMA LoopFollows ==
  ASSUME run \in [Runner -> RunRow], NEW r \in Runner, Loop(r)
  PROVE  /\ run'[r].pc \in {"idle", "asking", "leased"}
         /\ run'[r].sid \in {0, run[r].sid} /\ run'[r].call \in {0, run[r].call}
<1> DEFINE d == run[r]
           Early(x) == /\ x.pc \in {"idle", "asking", "leased"}
                       /\ x.sid \in {0, d.sid} /\ x.call \in {0, d.call}
           asking(todo) == [Idle EXCEPT !.pc = "asking", !.todo = todo]
           leased(todo, j) ==
             [Idle EXCEPT !.pc = "leased", !.job = j, !.todo = todo]
<1>1. Early(Idle)
  BY DEF Idle
<1>2. ASSUME NEW todo PROVE Early(asking(todo))
  BY DEF Idle
<1>3. ASSUME NEW todo, NEW j PROVE Early(leased(todo, j))
  <2>1. /\ leased(todo, j).pc = "leased"
        /\ leased(todo, j).sid = 0 /\ leased(todo, j).call = 0
    BY DEF Idle
  <2> HIDE DEF leased
  <2> QED
    BY <2>1
<1>4. ASSUME NEW j, d.pc = "asking" PROVE Early([d EXCEPT !.todo = @ \ {j}])
  BY <1>4 DEF RunRow
<1> HIDE DEF Early
<1>5. ASSUME Poll(r) \/ EndPass(r) \/ Release(r) PROVE Early(run'[r])
  <2>1. Step(r, Idle) \/ \E todo : Step(r, asking(todo))
    BY <1>5 DEF Poll, EndPass, Release
  <2> HIDE DEF asking
  <2>2. ASSUME NEW todo, Step(r, asking(todo)) PROVE Early(run'[r])
    <3>1. run'[r] = asking(todo)
      BY <2>2, StepIs
    <3> QED
      BY <1>2, <3>1, Zenon
  <2>3. ASSUME Step(r, Idle) PROVE Early(run'[r])
    BY <1>1, <2>3, StepIs
  <2> QED
    BY <2>1, <2>2, <2>3, Zenon
<1>6. ASSUME NEW j \in Job, Take(r, j) \/ LoseRequest(r, j) PROVE Early(run'[r])
  <2>1. Step(r, Idle) \/ Step(r, leased(d.todo \ {j}, j))
    BY <1>6 DEF Take, LoseRequest
  <2> HIDE DEF leased
  <2>2. ASSUME Step(r, leased(d.todo \ {j}, j)) PROVE Early(run'[r])
    <3>1. run'[r] = leased(d.todo \ {j}, j)
      BY <2>2, StepIs
    <3> QED
      BY <1>3, <3>1, Zenon
  <2>3. ASSUME Step(r, Idle) PROVE Early(run'[r])
    BY <1>1, <2>3, StepIs
  <2> QED
    BY <2>1, <2>2, <2>3, Zenon
<1>7. ASSUME NEW j \in Job, PassOver(r, j) PROVE Early(run'[r])
  <2>1. Step(r, [d EXCEPT !.todo = @ \ {j}]) /\ d.pc = "asking"
    BY <1>7 DEF PassOver, NextCandidate, At
  <2> QED
    BY <1>4, <2>1, StepIs
<1> QED
  BY <1>5, <1>6, <1>7 DEF Loop, Early

(* Every step of a runner, by what it does to the runner's row. *)
LEMMA StepCases ==
  ASSUME TypeOK, NEW r \in Runner, RunnerStep(r)
  PROVE  LET d == run[r]  x == run'[r] IN
         \/ Onward(d, x) /\ ~Loop(r) /\ ~StartSession(r) /\ ~Intend(r)
         \/ Loop(r) /\ x.pc \in {"idle", "asking", "leased"}
                    /\ x.sid \in {0, d.sid} /\ x.call \in {0, d.call}
         \/ /\ ReadJob(r) \/ SettleRetry(r)
            /\ x.pc = "planned" /\ x.job = d.job /\ x.lapsed = d.lapsed
            /\ x.sid = d.sid /\ x.call = d.call
         \/ StartSession(r) /\ x.pc = "started" /\ Follows(d, x)
         \/ OpenSession(r) /\ session' = Append(session, SessionOf(r)) /\ x.pc = "running"
                           /\ x.job = d.job /\ x.node = d.node /\ x.lapsed = d.lapsed
                           /\ x.sid = Len(session) + 1 /\ x.call = d.call
                           /\ UNCHANGED engine
         \/ Intend(r) /\ x.pc = "calling"
                      /\ journal' = Append(journal, [job |-> d.job, node |-> d.node,
                                                     outcome |-> "open"])
                      /\ x.job = d.job /\ x.node = d.node /\ x.lapsed = d.lapsed
                      /\ x.sid = d.sid /\ x.call = Len(journal')
         \/ Intend(r) /\ Onward(d, x)
<1> DEFINE d == run[r]  x == run'[r]
<1>1. run \in [Runner -> RunRow] /\ d \in RunRow
  BY DEF TypeOK
<1>2. CASE Loop(r)
  BY <1>1, <1>2, LoopFollows

<1>4. CASE CoolDown(r) \/ SettleSkip(r) \/ FailToStart(r) \/ (OpenSession(r) /\ Lost(r))
  <2>1. Onward(d, x)
    BY <1>1, <1>4, BeforeFollows
  <2>2. d.pc \in {"leased", "planned", "started"}
    BY <1>4 DEF CoolDown, SettleSkip, FailToStart, OpenSession, At
  <2>3. ~Loop(r) /\ ~Intend(r)
    BY <2>2 DEF Intend, Loop, Poll, EndPass, Release, Take, PassOver, LoseRequest,
                NextCandidate, At
  <2>4. CASE StartSession(r)
    BY <1>1, <2>4, StepIs DEF StartSession, Goto, Follows, RunRow
  <2> QED
    BY <2>1, <2>3, <2>4
<1>5. CASE ReadJob(r) /\ ~Lost(r)
  <2>1. Step(r, [d EXCEPT !.pc = "planned", !.node = job[d.job].node])
    BY <1>5 DEF ReadJob
  <2>2. x = [d EXCEPT !.pc = "planned", !.node = job[d.job].node]
    BY <1>1, <2>1, StepIs
  <2> QED
    BY <1>1, <1>5, <2>2 DEF RunRow
<1>6. CASE ReadJob(r) /\ Lost(r)
  <2>1. Onward(d, x)
    BY <1>1, <1>6, LostFollows
  <2>2. ~Loop(r) /\ ~Intend(r) /\ ~StartSession(r)
    BY <1>6 DEF ReadJob, StartSession, Intend, Loop, Poll, EndPass, Release, Take, PassOver,
                LoseRequest, NextCandidate, At
  <2> QED
    BY <2>1, <2>2
<1>7. CASE SettleRetry(r)
  <2>1. d.pc = "planned" /\ (run' = run \/ Lost(r))
    BY <1>7 DEF SettleRetry, At
  <2>2. CASE run' = run
    BY <1>1, <1>7, <2>1, <2>2
  <2>3. CASE Lost(r)
    <3>1. Onward(d, x)
      BY <1>1, <2>3, LostFollows
    <3>2. ~Loop(r) /\ ~Intend(r)
      BY <2>1 DEF Intend, Loop, Poll, EndPass, Release, Take, PassOver, LoseRequest,
                  NextCandidate, At
    <3>3. ~StartSession(r)
      BY <1>7 DEF StartSession, Unsettled, SettleRetry
    <3> QED
      BY <3>1, <3>2, <3>3
  <2> QED
    BY <2>1, <2>2, <2>3
<1>8. CASE StartSession(r)
  <2>1. x = Goto(d, "started")
    BY <1>1, <1>8, StepIs DEF StartSession
  <2> QED
    BY <1>1, <1>8, <2>1 DEF Goto, Follows, RunRow
<1>9. CASE OpenSession(r) /\ ~Lost(r)
  <2>1. /\ Step(r, [d EXCEPT !.pc = "running", !.sid = Len(session) + 1])
        /\ session' = Append(session, SessionOf(r)) /\ UNCHANGED engine
    BY <1>9 DEF OpenSession
  <2>2. x = [d EXCEPT !.pc = "running", !.sid = Len(session) + 1]
    BY <1>1, <2>1, StepIs
  <2> QED
    BY <1>1, <1>9, <2>1, <2>2 DEF RunRow
<1>10. CASE Intend(r) /\ Lost(r)
  BY <1>1, <1>10, LostFollows
<1>11. CASE Intend(r) /\ ~Lost(r)
  <2> DEFINE intent == Append(journal, [job |-> d.job, node |-> d.node, outcome |-> "open"])
  <2>1. Step(r, [d EXCEPT !.pc = "calling", !.call = Len(intent)]) /\ journal' = intent
    BY <1>11 DEF Intend
  <2> HIDE DEF intent
  <2>2. x = [d EXCEPT !.pc = "calling", !.call = Len(intent)]
    BY <1>1, <2>1, StepIs
  <2>3. /\ x.pc = "calling" /\ x.call = Len(intent) /\ x.job = d.job /\ x.node = d.node
        /\ x.lapsed = d.lapsed /\ x.sid = d.sid
    BY <1>1, <2>2 DEF RunRow
  <2> QED
    BY <1>11, <2>1, <2>3 DEF intent
<1>12. CASE AfterSession(r) /\ ~Intend(r)
  <2>1. Onward(d, x)
    BY <1>1, <1>12, AfterFollows
  <2>2. CASE StartSession(r)
    BY <1>8, <2>2
  <2>3. CASE Loop(r)
    BY <1>2, <2>3
  <2> QED
    BY <1>12, <2>1, <2>2, <2>3
<1> QED
  BY <1>2, <1>4, <1>5, <1>6, <1>7, <1>8, <1>9, <1>10, <1>11, <1>12
     DEF RunnerStep, BeforeSession

-----------------------------------------------------------------------------
(* The type invariant. *)

LEMMA StartedNow ==
  ASSUME TypeOK, Room, NEW r \in Runner, RunnerStep(r), Row(run[r]), SessionKnown(r),
         \A s \in Runner \ {r} : run'[s] = run[s]
  PROVE  Room'
<1> DEFINE S == {s \in Runner : At(s, "started")}
           T == {s \in Runner : run'[s].pc = "started"}
<1>1. IsFiniteSet(S) /\ Cardinality(S) \in Nat
  BY StartedCounts
<1>2. T \subseteq S \cup {r} /\ (T # S => T = S \cup {r} \/ T = S \ {r})
  BY DEF At
<1>3. Len(session) \in Nat /\ Len(session') \in Nat /\ MaxSession \in Nat
  BY SessionsStep, DispatchAssumption DEF TypeOK
<1>4. /\ Cardinality(S \cup {r}) <= Cardinality(S) + 1
      /\ r \in S => Cardinality(S \ {r}) = Cardinality(S) - 1
      /\ r \notin S => Cardinality(S \ {r}) = Cardinality(S)
      /\ IsFiniteSet(S \cup {r})
  <2> HIDE DEF S
  <2>1. IsFiniteSet(S \cup {r})
        /\ Cardinality(S \cup {r}) = IF r \in S THEN Cardinality(S) ELSE Cardinality(S) + 1
    BY <1>1, FS_AddElement
  <2>2. Cardinality(S \ {r}) = IF r \in S THEN Cardinality(S) - 1 ELSE Cardinality(S)
    BY <1>1, FS_RemoveElement
  <2> QED
    BY <1>1, <2>1, <2>2
<1>5. CASE run'[r].pc = "started"
  <2>1. StartSession(r)
    BY <1>5, StepCases DEF Onward, Follows
  <2>2. Len(session') = Len(session) /\ Len(session) + Cardinality(S) < MaxSession
    BY <2>1 DEF StartSession
  <2>3. Cardinality(T) <= Cardinality(S) + 1 /\ Cardinality(T) \in Nat
    <3> HIDE DEF S, T
    <3>1. Cardinality(T) \in Nat /\ Cardinality(T) <= Cardinality(S \cup {r})
      BY <1>2, <1>4, FS_Subset, FS_CardinalityType
    <3>2. Cardinality(S \cup {r}) \in Nat
      BY <1>4, FS_CardinalityType
    <3> QED
      BY <1>1, <1>4, <3>1, <3>2
  <2> QED
    BY <1>1, <1>3, <2>2, <2>3 DEF Room, At
<1>6. CASE run'[r].pc # "started"
  <2>1. T = S \ {r}
    BY <1>6 DEF At
  <2>2. CASE r \in S
    <3>1. Cardinality(T) = Cardinality(S) - 1
      BY <1>4, <2>1, <2>2
    <3>2. Len(session') <= Len(session) + 1
      BY <1>3, SessionsStep
    <3> QED
      BY <1>1, <1>3, <3>1, <3>2 DEF Room, At
  <2>3. CASE r \notin S
    <3>1. Cardinality(T) = Cardinality(S)
      BY <1>4, <2>1, <2>3
    <3>2. Len(session') = Len(session)
      BY <2>3, SessionsStep
    <3> QED
      BY <1>1, <1>3, <3>1, <3>2 DEF Room, At
  <2> QED
    BY <2>2, <2>3
<1> QED
  BY <1>5, <1>6

LEMMA StepKeepsTypes ==
  ASSUME Known, NEW r \in Runner, RunnerStep(r)
  PROVE  Known'
<1> DEFINE d == run[r]  x == run'[r]
<1>1. /\ TypeOK /\ Room /\ Row(d) /\ SessionKnown(r) /\ CallKnown(r)
      /\ \A s \in Runner : Row(run[s]) /\ SessionKnown(s) /\ CallKnown(s)
  BY DEF Known
<1>2. /\ run' \in [Runner -> RunRow] /\ \A s \in Runner : Row(run'[s])
      /\ \A s \in Runner \ {r} : run'[s] = run[s]
  <2>1. RowMoves(r)
    BY <1>1, StepMoves
  <2> QED
    BY <1>1, <2>1 DEF RowMoves, TypeOK, Row
<1>3. Grows(journal, journal')
  BY <1>1, JournalStep
<1>4. /\ session' \in Seq(SessionRow) /\ Len(session') \in {Len(session), Len(session) + 1}
      /\ Len(session) \in Nat /\ Len(journal) \in Nat
      /\ OpenSession(r) /\ session' = Append(session, SessionOf(r)) =>
           Len(session') = Len(session) + 1
  BY <1>1, SessionsStep DEF TypeOK
<1>5. Len(journal') \in Nat /\ Len(journal) <= Len(journal')
  BY <1>3, LenProperties DEF Grows
<1>6. run[r].sid \in 0 .. Len(session) /\ run[r].call \in 0 .. Len(journal)
  BY <1>1 DEF TypeOK
<1>7. run'[r].sid \in 0 .. Len(session') /\ (SessionKnown(r))'
  <2>1. \/ Onward(d, x)
        \/ x.pc \in {"idle", "asking", "leased"} /\ x.sid \in {0, d.sid}
        \/ x.pc \in {"planned", "started", "calling"} /\ x.sid = d.sid
        \/ x.pc = "running" /\ x.sid = Len(session) + 1 /\ Len(session') = Len(session) + 1
    BY <1>1, <1>4, StepCases DEF Follows
  <2> QED
    BY <1>1, <1>4, <1>6, <2>1 DEF Onward, Follows, SessionKnown, At
<1>8. run'[r].call \in 0 .. Len(journal') /\ (CallKnown(r))'
  <2>1. CASE x.call \in {0, d.call} /\ x.pc \notin {"calling", "answered"}
    BY <1>5, <1>6, <2>1 DEF CallKnown, At
  <2>2. CASE Onward(d, x) /\ x.pc = "answered"
    <3>1. d.pc = "calling" /\ x.call = d.call /\ x.job = d.job /\ x.node = d.node
      BY <2>2 DEF Onward, Follows
    <3>2. d.call \in DOMAIN journal
      BY <1>1, <1>4, <1>6, <3>1, LenProperties DEF CallKnown, At, TypeOK
    <3> QED
      BY <1>1, <1>3, <1>5, <1>6, <3>1, <3>2 DEF Grows, CallKnown, At
  <2>3. CASE /\ Intend(r) /\ x.pc = "calling"
             /\ journal' = Append(journal, [job |-> d.job, node |-> d.node, outcome |-> "open"])
             /\ x.job = d.job /\ x.node = d.node /\ x.call = Len(journal')
    <3>1. d.job \in Job /\ d.node \in Delivers
      BY <1>1, <2>3, WorksOnAJob DEF Intend, At, Row, RowMakesSense
    <3>2. /\ Len(journal') = Len(journal) + 1
          /\ journal'[Len(journal')] = [job |-> d.job, node |-> d.node, outcome |-> "open"]
      BY <1>1, <2>3, <3>1, RowWritten
    <3> QED
      BY <1>4, <1>5, <2>3, <3>2 DEF CallKnown, At
  <2> QED
    BY <1>1, <2>1, <2>2, <2>3, StepCases DEF Onward, Follows
<1>9. ASSUME NEW s \in Runner \ {r}
      PROVE  /\ run'[s].sid \in 0 .. Len(session') /\ run'[s].call \in 0 .. Len(journal')
             /\ (SessionKnown(s))' /\ (CallKnown(s))'
  <2>1. run'[s] = run[s] /\ SessionKnown(s) /\ CallKnown(s)
        /\ run[s].sid \in 0 .. Len(session) /\ run[s].call \in 0 .. Len(journal)
    BY <1>1, <1>2 DEF TypeOK
  <2>2. At(s, "calling") \/ At(s, "answered") => run[s].call \in DOMAIN journal
    BY <1>1, <1>4, <2>1, LenProperties DEF CallKnown, TypeOK
  <2>3. (CallKnown(s))'
    BY <1>3, <2>1, <2>2 DEF Grows, CallKnown, At
  <2> QED
    BY <1>4, <1>5, <2>1, <2>3 DEF SessionKnown, At
<1>10. TypeOK'
  <2>1. /\ job' \in [Job -> JobRow] /\ memory' \in [Runner -> MemoryRow]
        /\ lease' \in [Job -> Runner \cup {NoRunner}]
        /\ engine' \in [Runner -> Job \cup {NoJob}] /\ orphan' \subseteq OrphanRow
        /\ landed' \in [Job -> [Delivers -> Nat]]
    BY <1>1, JobStep, MemoryStep, LeaseAndEngineStep, LandedStep, OrphansStay DEF TypeOK
  <2> QED
    BY <1>2, <1>3, <1>4, <1>7, <1>8, <1>9, <2>1 DEF TypeOK, Grows
<1>11. Room'
  BY <1>1, <1>2, StartedNow
<1> QED
  BY <1>2, <1>7, <1>8, <1>9, <1>10, <1>11 DEF Known

(* A kill, a lapse and a person's answer. *)
LEMMA OthersKeepTypes ==
  ASSUME Known, [Next]_vars, \A r \in Runner : ~RunnerStep(r)
  PROVE  Known'
<1>1. /\ TypeOK /\ Room
      /\ \A s \in Runner : Row(run[s]) /\ SessionKnown(s) /\ CallKnown(s)
  BY DEF Known
<1>2. run' \in [Runner -> RunRow] /\ \A s \in Runner : Row(run'[s])
  BY <1>1, RowsStay
<1>3. UNCHANGED <<session, journal, landed>>
  BY DEF Next, vars, Crash, OrphanEnds, WarmUp, Expire, Lapse, Unblock, AnswerDelivery, outside
<1>4. \A s \in Runner :
        \/ run'[s].pc = "idle" /\ run'[s].sid = 0 /\ run'[s].call = 0
        \/ /\ run'[s].pc = run[s].pc /\ run'[s].job = run[s].job /\ run'[s].node = run[s].node
           /\ run'[s].sid = run[s].sid /\ run'[s].call = run[s].call
  <2> TAKE s \in Runner
  <2>1. ASSUME NEW r \in Runner, Crash(r)
        PROVE  run'[s] = run[s] \/ run'[s] = Idle
    BY <1>1, <2>1 DEF Crash, TypeOK
  <2>2. ASSUME NEW j \in Job, Lapse(j)
        PROVE  run'[s] = run[s] \/ run'[s] = [run[s] EXCEPT !.lapsed = TRUE]
    BY <1>1, <2>2 DEF Lapse, TypeOK
  <2>3. \/ run'[s] = run[s] \/ run'[s] = Idle \/ run'[s] = [run[s] EXCEPT !.lapsed = TRUE]
    BY <2>1, <2>2 DEF Next, vars, OrphanEnds, WarmUp, Expire, Unblock, AnswerDelivery
  <2>4. run[s] \in RunRow
    BY <1>1 DEF TypeOK
  <2>5. CASE run'[s] = [run[s] EXCEPT !.lapsed = TRUE]
    BY <2>4, <2>5 DEF RunRow
  <2> QED
    BY <2>3, <2>5 DEF Idle
<1>5. \A s \in Runner : /\ run'[s].sid \in 0 .. Len(session') /\ run'[s].call \in 0 .. Len(journal')
                        /\ (SessionKnown(s))' /\ (CallKnown(s))'
  <2> TAKE s \in Runner
  <2>1. Len(session) \in Nat /\ Len(journal) \in Nat
    BY <1>1 DEF TypeOK
  <2>2. run[s].sid \in 0 .. Len(session) /\ run[s].call \in 0 .. Len(journal)
    BY <1>1 DEF TypeOK
  <2>3. SessionKnown(s) /\ CallKnown(s)
    BY <1>1
  <2> QED
    BY <1>3, <1>4, <2>1, <2>2, <2>3 DEF SessionKnown, CallKnown, At
<1>6. Room'
  <2> DEFINE S == {s \in Runner : At(s, "started")}
             T == {s \in Runner : run'[s].pc = "started"}
  <2>1. T \subseteq S
    BY <1>4 DEF At
  <2>2. IsFiniteSet(S) /\ Cardinality(S) \in Nat
    BY StartedCounts
  <2>3. Cardinality(T) <= Cardinality(S) /\ Cardinality(T) \in Nat
    <3> HIDE DEF S, T
    <3> QED
      BY <2>1, <2>2, FS_Subset, FS_CardinalityType
  <2>4. Len(session) \in Nat /\ MaxSession \in Nat
    BY <1>1, DispatchAssumption DEF TypeOK
  <2> QED
    BY <1>1, <1>3, <2>2, <2>3, <2>4 DEF Room, At
<1>7. job' \in [Job -> JobRow]
  <2>1. job \in [Job -> JobRow]
    BY <1>1 DEF TypeOK
  <2>2. ASSUME NEW j \in Job, Unblock(j) PROVE job' \in [Job -> JobRow]
    BY <2>1, <2>2 DEF Unblock, JobRow
  <2>3. ASSUME NEW j \in Job, NEW said \in {"retry", "skip"}, AnswerDelivery(j, said)
        PROVE  job' \in [Job -> JobRow]
    <3> DEFINE n == job[j].asked
               row == [job[j] EXCEPT !.blocked = FALSE, !.asked = NoNode,
                         !.decided[n] = said]
    <3>1. n \in Delivers /\ job[j] \in JobRow
      BY <2>1, <2>3 DEF AnswerDelivery, JobRow
    <3>2. row \in JobRow
      <4> HIDE DEF n
      <4> QED
        BY <3>1 DEF JobRow
    <3>3. job' = [job EXCEPT ![j] = row]
      BY <2>3 DEF AnswerDelivery
    <3> HIDE DEF row
    <3> QED
      BY <2>1, <3>2, <3>3
  <2>4. CASE UNCHANGED job
    BY <2>1, <2>4
  <2> QED
    BY <2>2, <2>3, <2>4 DEF Next, vars, Crash, OrphanEnds, WarmUp, Expire, Lapse
<1>8. memory' \in [Runner -> MemoryRow]
  <2>1. memory \in [Runner -> MemoryRow] /\ Fresh \in MemoryRow
    BY <1>1 DEF TypeOK, Fresh, MemoryRow
  <2>2. ASSUME NEW r \in Runner, NEW j \in Job, WarmUp(r, j)
        PROVE  memory' \in [Runner -> MemoryRow]
    BY <2>1, <2>2 DEF WarmUp, MemoryRow
  <2>3. ASSUME NEW r \in Runner, Crash(r) PROVE memory' \in [Runner -> MemoryRow]
    BY <2>1, <2>3 DEF Crash
  <2> QED
    BY <2>1, <2>2, <2>3 DEF Next, vars, OrphanEnds, Expire, Lapse, Unblock, AnswerDelivery
<1>9. lease' \in [Job -> Runner \cup {NoRunner}]
  BY <1>1 DEF TypeOK, Next, vars, Crash, OrphanEnds, WarmUp, Expire, Lapse, Unblock, AnswerDelivery
<1>10. engine' \in [Runner -> Job \cup {NoJob}]
  BY <1>1 DEF TypeOK, Next, vars, Crash, OrphanEnds, WarmUp, Expire, Lapse, Unblock, AnswerDelivery
<1>11. orphan' \subseteq OrphanRow
  <2>1. orphan \subseteq OrphanRow /\ engine \in [Runner -> Job \cup {NoJob}]
        /\ run \in [Runner -> RunRow]
    BY <1>1 DEF TypeOK
  <2>2. ASSUME NEW r \in Runner, Crash(r) PROVE orphan' \subseteq OrphanRow
    <3>1. run[r].lapsed \in BOOLEAN /\ (engine[r] # NoJob => engine[r] \in Job)
      BY <2>1 DEF RunRow
    <3>2. engine[r] # NoJob =>
            [job |-> engine[r], runner |-> r, held |-> ~run[r].lapsed] \in OrphanRow
      BY <3>1 DEF OrphanRow
    <3> QED
      BY <2>1, <2>2, <3>2 DEF Crash
  <2>3. ASSUME NEW j \in Job, Expire(j) PROVE orphan' \subseteq OrphanRow
    <3>1. \A o \in OrphanRow : [o EXCEPT !.held = FALSE] \in OrphanRow
      BY DEF OrphanRow
    <3> QED
      BY <2>1, <2>3, <3>1 DEF Expire
  <2>4. ASSUME NEW o \in orphan, OrphanEnds(o) PROVE orphan' \subseteq OrphanRow
    BY <2>1, <2>4 DEF OrphanEnds
  <2>5. ASSUME NEW j \in Job, \/ Lapse(j) \/ Unblock(j) \/ AnswerDelivery(j, "retry")
                              \/ AnswerDelivery(j, "skip") \/ \E r \in Runner : WarmUp(r, j)
        PROVE  UNCHANGED orphan
    BY <2>5 DEF Lapse, Unblock, AnswerDelivery, WarmUp
  <2> QED
    BY <2>1, <2>2, <2>3, <2>4, <2>5 DEF Next, vars
<1>12. TypeOK'
  BY <1>1, <1>2, <1>3, <1>5, <1>7, <1>8, <1>9, <1>10, <1>11 DEF TypeOK
<1> QED
  BY <1>2, <1>5, <1>6, <1>12 DEF Known

LEMMA KnownAtFirst == Init => Known
<1> SUFFICES ASSUME Init PROVE Known
  OBVIOUS
<1>1. /\ job \in [Job -> JobRow] /\ lease \in [Job -> Runner \cup {NoRunner}]
      /\ landed \in [Job -> [Delivers -> Nat]] /\ engine \in [Runner -> Job \cup {NoJob}]
      /\ memory \in [Runner -> MemoryRow] /\ orphan \subseteq OrphanRow
  BY DispatchAssumption DEF Init, JobRow, MemoryRow, Fresh
<1>2. session \in Seq(SessionRow) /\ journal \in Seq(CallRow) /\ Len(session) = 0 /\ Len(journal) = 0
  BY EmptySeq DEF Init
<1>3. \A r \in Runner : run[r] = Idle
  BY DEF Init
<1>4. run \in [Runner -> RunRow] /\ \A r \in Runner : Row(run[r])
  BY <1>3, IdleRow DEF Init, Row
<1>5. \A r \in Runner : run[r].pc = "idle" /\ run[r].sid = 0 /\ run[r].call = 0
  BY <1>3 DEF Idle
<1>6. {r \in Runner : At(r, "started")} = {}
  BY <1>5 DEF At
<1>7. Room
  <2>1. Cardinality({r \in Runner : At(r, "started")}) = 0
    BY <1>6, FS_EmptySet
  <2>2. MaxSession \in Nat
    BY DispatchAssumption
  <2> QED
    BY <1>2, <2>1, <2>2 DEF Room
<1> QED
  BY <1>1, <1>2, <1>4, <1>5, <1>7 DEF Known, TypeOK, SessionKnown, CallKnown, At

LEMMA KnownStays == Known /\ [Next]_vars => Known'
BY StepKeepsTypes, OthersKeepTypes

LEMMA KnownAlways == Spec => []Known
BY KnownAtFirst, KnownStays, PTL DEF Spec

(* Rows, passes and memories keep their shape, and a dispatch past its POST names
   a session that exists, whatever fails and whoever is killed. *)
THEOREM TypeCorrect == Spec => []TypeOK
<1>1. Known => TypeOK
  BY DEF Known
<1> QED
  BY <1>1, KnownAlways, PTL

(* A dispatch stops its job once or moves it once, and one that ends well after
   a completed session did one of the two. *)
THEOREM OneWayOutAlways == Spec => []OneWayOut
<1>1. Known => OneWayOut
  BY DEF Known, Row, OneWay, OneWayOut, Ways
<1> QED
  BY <1>1, KnownAlways, PTL

-----------------------------------------------------------------------------
(* One engine per job. *)

LEMMA LapsesStay ==
  ASSUME NEW r \in Runner, RunnerStep(r)
  PROVE  UNCHANGED lapses
<1>1. CASE Loop(r)
  BY <1>1 DEF Loop, Poll, EndPass, Release, Take, PassOver, LoseRequest, counters
<1>2. CASE BeforeSession(r)
  BY <1>2 DEF BeforeSession, CoolDown, ReadJob, SettleSkip, SettleRetry, FailToStart,
              StartSession, OpenSession, counters
<1>3. CASE AfterSession(r)
  BY <1>3 DEF AfterSession, EngineEnds, FinishSession, Decide, AdvanceBench, LookBack, Intend,
              Call, CloseCall, AskAboutDelivery, Route, Settle, Stop, Write, counters
<1> QED
  BY <1>1, <1>2, <1>3 DEF RunnerStep

LEMMA LoopLapsed ==
  ASSUME run \in [Runner -> RunRow], NEW r \in Runner, Loop(r), ~run[r].lapsed
  PROVE  ~run'[r].lapsed
<1>1. \/ Step(r, Idle)
      \/ \E todo : Step(r, [Idle EXCEPT !.pc = "asking", !.todo = todo])
      \/ \E j, todo : Step(r, [Idle EXCEPT !.pc = "leased", !.job = j, !.todo = todo])
      \/ \E j : Step(r, [run[r] EXCEPT !.todo = @ \ {j}])
  BY DEF Loop, Poll, EndPass, Release, Take, PassOver, LoseRequest
<1>2. ASSUME NEW todo PROVE ~[Idle EXCEPT !.pc = "asking", !.todo = todo].lapsed
  BY DEF Idle
<1>3. ASSUME NEW todo, NEW j
      PROVE  ~[Idle EXCEPT !.pc = "leased", !.job = j, !.todo = todo].lapsed
  BY DEF Idle
<1>4. ASSUME NEW j PROVE ~[run[r] EXCEPT !.todo = @ \ {j}].lapsed
  BY DEF RunRow
<1>5. ~Idle.lapsed
  BY DEF Idle
<1> QED
  BY <1>1, <1>2, <1>3, <1>4, <1>5, StepIs

(* With its engine up, a dispatch records its session or hears its end. *)
LEMMA EngineUp ==
  ASSUME NEW r \in Runner, RunnerStep(r), At(r, "started") \/ At(r, "running")
  PROVE  OpenSession(r) \/ \E e \in Ending : EngineEnds(r, e)
<1>1. ~Loop(r)
  BY DEF Loop, Poll, EndPass, Release, Take, PassOver, LoseRequest, NextCandidate, At
<1>2. BeforeSession(r) => OpenSession(r)
  BY DEF BeforeSession, CoolDown, ReadJob, SettleSkip, SettleRetry, FailToStart, StartSession, At
<1>3. AfterSession(r) => \E e \in Ending : EngineEnds(r, e)
  BY DEF AfterSession, FinishSession, Decide, AdvanceBench, LookBack, Intend, Call, CloseCall,
         AskAboutDelivery, Route, Settle, At
<1> QED
  BY <1>1, <1>2, <1>3 DEF RunnerStep

LEMMA EngineStep ==
  ASSUME Known, NEW r \in Runner, RunnerStep(r),
         engine[r] # NoJob => engine[r] = run[r].job /\ run[r].pc \in {"started", "running"},
         engine'[r] # NoJob
  PROVE  engine'[r] = run'[r].job /\ run'[r].pc \in {"started", "running"}
<1> DEFINE d == run[r]  x == run'[r]
<1>1. TypeOK /\ engine \in [Runner -> Job \cup {NoJob}]
  BY DEF Known, TypeOK
<1>2. CASE StartSession(r)
  <2>1. x.pc = "started" /\ x.job = d.job /\ ~OpenSession(r)
    BY <1>1, <1>2, StepCases DEF StartSession, OpenSession, At, Follows, Onward,
       Loop, Poll, EndPass, Release, Take, PassOver, LoseRequest, NextCandidate,
       ReadJob, SettleRetry, Intend
  <2>2. engine'[r] = d.job
    BY <1>1, <1>2 DEF StartSession
  <2> QED
    BY <2>1, <2>2
<1>3. CASE OpenSession(r)
  <2>1. engine' = [engine EXCEPT ![r] = NoJob] \/ engine' = engine
    BY <1>3 DEF OpenSession
  <2>2. engine' = engine /\ engine[r] # NoJob
    BY <1>1, <2>1
  <2>3. ~(engine' = [engine EXCEPT ![r] = NoJob])
    BY <1>1
  <2>4. Step(r, [d EXCEPT !.pc = "running", !.sid = Len(session) + 1])
    BY <1>3, <2>3 DEF OpenSession
  <2>5. x = [d EXCEPT !.pc = "running", !.sid = Len(session) + 1] /\ d \in RunRow
    BY <1>1, <2>4, StepIs DEF TypeOK
  <2>6. x.pc = "running" /\ x.job = d.job
    BY <2>5 DEF RunRow
  <2> QED
    BY <2>2, <2>6
<1>4. CASE \E e \in Ending : EngineEnds(r, e)
  BY <1>1, <1>4 DEF EngineEnds
<1>5. CASE /\ ~StartSession(r) /\ ~OpenSession(r)
           /\ \A e \in Ending : ~EngineEnds(r, e)
  BY <1>5, EngineWriters, EngineUp DEF At
<1> QED
  BY <1>2, <1>3, <1>4, <1>5

(* The loop gives back the lease of its own dispatch and takes one nobody has. *)
LEMMA LoopLease ==
  ASSUME Known, NEW r \in Runner, Loop(r)
  PROVE  /\ \/ run'[r].job = NoJob
            \/ run'[r].job \in Job /\ lease[run'[r].job] = NoRunner /\ lease'[run'[r].job] = r
         /\ \A k \in Job :
              lease[k] # NoRunner => lease'[k] = lease[k] \/ (lease[k] = r /\ k = run[r].job)
<1> DEFINE d == run[r]  x == run'[r]
           asking(todo) == [Idle EXCEPT !.pc = "asking", !.todo = todo]
<1>1. /\ TypeOK /\ Row(d) /\ run \in [Runner -> RunRow]
      /\ lease \in [Job -> Runner \cup {NoRunner}] /\ NoRunner \notin Runner
  BY DispatchAssumption DEF Known, TypeOK
<1>2. Idle.job = NoJob /\ \A todo : asking(todo).job = NoJob
  BY DEF Idle
<1> HIDE DEF asking
<1>3. CASE Poll(r) \/ EndPass(r)
  <2>1. (Step(r, Idle) \/ \E todo : Step(r, asking(todo))) /\ lease' = lease
    BY <1>3 DEF Poll, EndPass, asking
  <2>2. x.job = NoJob
    BY <1>1, <1>2, <2>1, StepIs
  <2> QED
    BY <2>1, <2>2
<1>4. CASE Release(r)
  <2>1. x.job = NoJob
    <3>1. Step(r, Idle) \/ Step(r, asking(d.todo))
      BY <1>4 DEF Release, asking
    <3> QED
      BY <1>1, <1>2, <3>1, StepIs
  <2>2. \/ lease' = lease
        \/ lease' = [lease EXCEPT ![d.job] = IF @ = r THEN NoRunner ELSE @]
    BY <1>4 DEF Release
  <2> QED
    BY <1>1, <2>1, <2>2
<1>5. ASSUME NEW j \in Job, LoseRequest(r, j)
      PROVE  x.job = NoJob /\ \A k \in Job : lease[k] # NoRunner => lease'[k] = lease[k]
  <2>1. x.job = NoJob
    BY <1>1, <1>5, StepIs DEF LoseRequest, Idle
  <2>2. \A k \in Job : lease[k] # NoRunner => lease'[k] = lease[k]
    BY <1>1, <1>5 DEF LoseRequest
  <2> QED
    BY <2>1, <2>2
<1>6. ASSUME NEW j \in Job, Take(r, j)
      PROVE  /\ x.job = j /\ lease[j] = NoRunner /\ lease'[j] = r
             /\ \A k \in Job : lease[k] # NoRunner => lease'[k] = lease[k]
  <2>1. x = [Idle EXCEPT !.pc = "leased", !.job = j, !.todo = d.todo \ {j}]
    BY <1>1, <1>6, StepIs DEF Take
  <2>2. lease' = [lease EXCEPT ![j] = r] /\ lease[j] = NoRunner
    BY <1>6 DEF Take
  <2> QED
    BY <1>1, <2>1, <2>2 DEF Idle
<1>7. ASSUME NEW j \in Job, PassOver(r, j) PROVE x.job = NoJob /\ lease' = lease
  <2>1. x = [d EXCEPT !.todo = @ \ {j}] /\ lease' = lease /\ d \in RunRow /\ d.pc = "asking"
    BY <1>1, <1>7, StepIs DEF PassOver, NextCandidate, At
  <2>2. x.job = d.job /\ d.job = NoJob
    BY <1>1, <2>1 DEF RunRow, Row, RowMakesSense
  <2> QED
    BY <2>1, <2>2
<1>8. CASE \E j \in Job : Take(r, j)
  BY <1>6, <1>8
<1>9. CASE \E j \in Job : PassOver(r, j) \/ LoseRequest(r, j)
  BY <1>5, <1>7, <1>9
<1> QED
  BY <1>3, <1>4, <1>8, <1>9 DEF Loop

LEMMA LeaseStep ==
  ASSUME Known, Covered, NEW r \in Runner, RunnerStep(r)
  PROVE  /\ \A s \in Runner :
              run'[s].job # NoJob => lease'[run'[s].job] = s \/ run'[s].lapsed
         /\ \A o \in orphan : (OrphanCovered(o))'
<1> DEFINE d == run[r]  x == run'[r]
<1>1. /\ TypeOK /\ run \in [Runner -> RunRow] /\ orphan \subseteq OrphanRow
      /\ NoRunner \notin Runner /\ NoJob \notin Job
      /\ \A s \in Runner \ {r} : run'[s] = run[s]
  <2>1. RowMoves(r) /\ TypeOK
    BY StepMoves DEF Known
  <2> QED
    BY <2>1, DispatchAssumption DEF Known, TypeOK, RowMoves
<1>2. \A s \in Runner : run[s].job # NoJob =>
        run[s].job \in Job /\ (lease[run[s].job] = s \/ run[s].lapsed)
  BY DEF Known, Row, RunRow, Covered, LeaseCovers
<1>3. \A o \in orphan : /\ o.job \in Job /\ o.runner \in Runner /\ OrphanCovered(o)
  BY <1>1 DEF Covered, OrphanRow
<1>4. CASE Loop(r)
  <2>1. \A o \in orphan : (OrphanCovered(o))'
    BY <1>1, <1>3, <1>4, LoopLease DEF OrphanCovered
  <2> QED
    BY <1>1, <1>2, <1>4, <2>1, LoopLease
<1>5. CASE ~Loop(r)
  <2>1. x.job = d.job /\ x.lapsed = d.lapsed
    BY <1>1, <1>5, StepCases DEF Onward, Follows
  <2>2. lease' = lease
    BY <1>5, LeaseWriters DEF Loop
  <2>3. \A o \in orphan : (OrphanCovered(o))'
    BY <1>1, <1>3, <2>1, <2>2 DEF OrphanCovered
  <2> QED
    BY <1>1, <1>2, <2>1, <2>2, <2>3
<1> QED
  BY <1>4, <1>5

LEMMA CoveredStep ==
  ASSUME Known, Covered, NEW r \in Runner, RunnerStep(r)
  PROVE  Covered'
<1>1. \A s \in Runner : engine'[s] # NoJob =>
        engine'[s] = run'[s].job /\ run'[s].pc \in {"started", "running"}
  <2>1. \A s \in Runner \ {r} : run'[s] = run[s] /\ engine'[s] = engine[s]
    <3>1. RowMoves(r) /\ TypeOK
      BY StepMoves DEF Known
    <3> QED
      BY <3>1, LeaseAndEngineStep DEF Known, TypeOK, RowMoves
  <2>2. engine'[r] # NoJob =>
          engine'[r] = run'[r].job /\ run'[r].pc \in {"started", "running"}
    BY EngineStep DEF Covered, LeaseCovers
  <2> QED
    BY <2>1, <2>2 DEF Covered, LeaseCovers
<1>2. \A s \in Runner : (LeaseCovers(s))'
  BY <1>1, LeaseStep DEF LeaseCovers
<1>5. \A o \in orphan' : (OrphanCovered(o))'
  BY LeaseStep, OrphansStay
<1>4. lapses' \in Nat
  BY LapsesStay DEF Covered
<1>3. lapses' = 0 => \A s \in Runner : ~run'[s].lapsed
  <2> SUFFICES ASSUME lapses' = 0, NEW s \in Runner PROVE ~run'[s].lapsed
    OBVIOUS
  <2>1. lapses = 0 /\ ~run[s].lapsed /\ ~run[r].lapsed
    BY LapsesStay DEF Covered
  <2>2. RowMoves(r) /\ TypeOK /\ run \in [Runner -> RunRow]
    BY StepMoves DEF Known, TypeOK
  <2>3. CASE s # r
    BY <2>1, <2>2, <2>3 DEF RowMoves
  <2>4. CASE s = r /\ Loop(r)
    BY <2>1, <2>2, <2>4, LoopLapsed
  <2>5. CASE s = r /\ ~Loop(r)
    <3>1. run'[r].lapsed = run[r].lapsed
      BY <2>2, <2>5, StepCases DEF Onward, Follows
    <3> QED
      BY <2>1, <2>5, <3>1
  <2> QED
    BY <2>3, <2>4, <2>5
<1> QED
  BY <1>2, <1>3, <1>4, <1>5 DEF Covered

LEMMA CoveredStays ==
  ASSUME Known, Covered, [Next]_vars
  PROVE  Covered'
<1>1. /\ TypeOK /\ run \in [Runner -> RunRow] /\ lapses \in Nat
      /\ lease \in [Job -> Runner \cup {NoRunner}] /\ engine \in [Runner -> Job \cup {NoJob}]
      /\ NoRunner \notin Runner /\ NoJob \notin Job
      /\ \A s \in Runner : Row(run[s])
      /\ \A o \in orphan : o \in OrphanRow /\ o.job \in Job /\ o.runner \in Runner
                           /\ OrphanCovered(o)
  BY DispatchAssumption DEF Known, TypeOK, Covered, OrphanRow
<1>2. ASSUME NEW r \in Runner, RunnerStep(r) PROVE Covered'
  BY <1>2, CoveredStep
<1>3. ASSUME NEW r \in Runner, Crash(r) PROVE Covered'
  <2>1. run'[r] = Idle /\ engine'[r] = NoJob /\ UNCHANGED <<lease, lapses>>
    BY <1>1, <1>3 DEF Crash
  <2>2. \A s \in Runner \ {r} : run'[s] = run[s] /\ engine'[s] = engine[s]
    BY <1>1, <1>3 DEF Crash
  <2>3. Idle.job = NoJob /\ ~Idle.lapsed
    BY DEF Idle
  <2>4. \A s \in Runner : (LeaseCovers(s))'
    BY <2>1, <2>2, <2>3 DEF Covered, LeaseCovers
  <2>5. lapses' \in Nat /\ (lapses' = 0 => \A s \in Runner : ~run'[s].lapsed)
    BY <2>1, <2>2, <2>3 DEF Covered
  <2>6. \A o \in orphan : (OrphanCovered(o))'
    BY <1>1, <2>1, <2>2, <2>3 DEF OrphanCovered
  <2> PICK left : left = [job |-> engine[r], runner |-> r, held |-> ~run[r].lapsed]
    OBVIOUS
  <2>7. orphan' = orphan \/ (engine[r] # NoJob /\ orphan' = orphan \cup {left})
    BY <1>3 DEF Crash
  <2>8. left.job = engine[r] /\ left.runner = r /\ (left.held => ~run[r].lapsed)
    OBVIOUS
  <2>9. ASSUME engine[r] # NoJob PROVE (OrphanCovered(left))'
    <3>1. engine[r] = run[r].job /\ run[r].job \in Job
      BY <1>1, <2>9 DEF Covered, LeaseCovers, Row, RunRow
    <3>2. left.held => lease[engine[r]] = r
      BY <1>1, <2>8, <3>1 DEF Covered, LeaseCovers
    <3>3. lease' = lease /\ run'[left.runner].job # left.job
      BY <1>1, <2>1, <2>3, <2>8, <3>1
    <3> QED
      BY <2>8, <3>2, <3>3 DEF OrphanCovered
  <2>10. \A o \in orphan' : (OrphanCovered(o))'
    BY <2>6, <2>7, <2>9
  <2> QED
    BY <2>4, <2>5, <2>10 DEF Covered
<1>4. ASSUME NEW j \in Job, Expire(j) PROVE Covered'
  <2>1. /\ UNCHANGED <<run, engine, lapses>> /\ lease[j] \in Runner
        /\ run[lease[j]].job # j
        /\ \A k \in Job \ {j} : lease'[k] = lease[k]
    BY <1>1, <1>4 DEF Expire, Beating, counters
  <2>2. \A s \in Runner : run[s].job # NoJob =>
          run[s].job \in Job /\ (lease[run[s].job] = s \/ run[s].lapsed)
    BY <1>1 DEF Row, RunRow, Covered, LeaseCovers
  <2>3. \A s \in Runner : (LeaseCovers(s))'
    BY <2>1, <2>2 DEF Covered, LeaseCovers
  <2>4. \A o \in orphan : o.job # j => (OrphanCovered(o))'
    BY <1>1, <2>1 DEF OrphanCovered
  <2>5. \A o \in orphan : ([o EXCEPT !.held = FALSE]).held = FALSE
    BY <1>1 DEF OrphanRow
  <2>6. \A o \in orphan' : (OrphanCovered(o))'
    BY <1>4, <2>4, <2>5 DEF Expire, OrphanCovered
  <2> QED
    BY <2>1, <2>3, <2>6 DEF Covered
<1>5. ASSUME NEW j \in Job, Lapse(j) PROVE Covered'
  <2> PICK r \in Runner : r = lease[j]
    BY <1>1, <1>5 DEF Lapse
  <2> DEFINE x == [run[r] EXCEPT !.lapsed = TRUE]
  <2>1. /\ r \in Runner /\ UNCHANGED <<engine, orphan>> /\ lapses' = lapses + 1
        /\ run[r].job = j /\ run' = [run EXCEPT ![r] = x]
        /\ \A k \in Job \ {j} : lease'[k] = lease[k]
    BY <1>1, <1>5 DEF Lapse, Beating
  <2>2. x.pc = run[r].pc /\ x.job = run[r].job /\ x.lapsed
    BY <1>1, <2>1 DEF RunRow
  <2>3. run'[r] = x /\ \A s \in Runner \ {r} : run'[s] = run[s]
    BY <1>1, <2>1
  <2>4. \A s \in Runner : run[s].job # NoJob =>
          run[s].job \in Job /\ (lease[run[s].job] = s \/ run[s].lapsed)
    BY <1>1 DEF Row, RunRow, Covered, LeaseCovers
  <2> HIDE DEF x
  <2>5. \A s \in Runner \ {r} : (LeaseCovers(s))'
    BY <2>1, <2>3, <2>4 DEF Covered, LeaseCovers
  <2>6. (LeaseCovers(r))'
    BY <2>1, <2>2, <2>3 DEF Covered, LeaseCovers
  <2>7. lapses' # 0 /\ lapses' \in Nat
    BY <1>1, <2>1
  <2>8. \A o \in orphan : (OrphanCovered(o))'
    <3> SUFFICES ASSUME NEW o \in orphan, o.held
                 PROVE  lease'[o.job] = o.runner /\ run'[o.runner].job # o.job
      BY DEF OrphanCovered
    <3>1. lease[o.job] = o.runner /\ run[o.runner].job # o.job
          /\ o.job \in Job /\ o.runner \in Runner
      BY <1>1 DEF OrphanCovered
    <3>2. o.job # j
      BY <2>1, <3>1
    <3> QED
      BY <2>1, <2>2, <2>3, <3>1, <3>2
  <2> QED
    BY <2>1, <2>5, <2>6, <2>7, <2>8 DEF Covered
<1>6. CASE UNCHANGED <<run, lease, engine, orphan, lapses>>
  BY <1>6 DEF Covered, LeaseCovers, OrphanCovered
<1>7. ASSUME NEW j \in Job, \/ Unblock(j) \/ AnswerDelivery(j, "retry")
                            \/ AnswerDelivery(j, "skip") \/ \E r \in Runner : WarmUp(r, j)
      PROVE  UNCHANGED <<run, lease, engine, orphan, lapses>>
  BY <1>7 DEF Unblock, AnswerDelivery, WarmUp, counters
<1>8. ASSUME NEW o \in orphan, OrphanEnds(o) PROVE Covered'
  BY <1>8 DEF OrphanEnds, counters, Covered, LeaseCovers, OrphanCovered
<1> QED
  BY <1>2, <1>3, <1>4, <1>5, <1>6, <1>7, <1>8 DEF Next, vars, counters

LEMMA CoveredAtFirst == Init => Covered
<1>1. Idle.job = NoJob /\ ~Idle.lapsed
  BY DEF Idle
<1> QED
  BY <1>1 DEF Init, Covered, LeaseCovers

LEMMA CoveredAlways == Spec => []Covered
BY KnownAlways, CoveredAtFirst, CoveredStays, PTL DEF Spec

(* Two runners are never in a dispatch of one job, unless a lease lapsed. *)
LEMMA Alone ==
  ASSUME Covered, NEW r \in Runner, NEW s \in Runner, r # s,
         run[r].job = run[s].job, run[r].job # NoJob
  PROVE  run[r].lapsed \/ run[s].lapsed
BY DEF Covered, LeaseCovers

(* Two engines never work on one job, one that outlived its runner included,
   unless a lease lapsed or ran out under one of them. *)
THEOREM EngineAlone == Spec => []OneEnginePerJob
<1>1. TypeOK /\ Covered => OneEnginePerJob
  <2> SUFFICES ASSUME TypeOK, Covered PROVE OneEnginePerJob
    OBVIOUS
  <2>1. /\ \A o \in orphan : o \in OrphanRow /\ o.job \in Job /\ OrphanCovered(o)
        /\ \A r \in Runner : LeaseCovers(r)
        /\ NoJob \notin Job
    BY DispatchAssumption DEF TypeOK, Covered, OrphanRow
  <2>2. ASSUME NEW r \in Runner, NEW s \in Runner, r # s,
               engine[r] # NoJob, engine[r] = engine[s]
        PROVE  run[r].lapsed \/ run[s].lapsed
    BY <2>2, Alone DEF Covered, LeaseCovers
  <2>3. ASSUME NEW o \in orphan, NEW r \in Runner, engine[r] = o.job
        PROVE  ~o.held \/ run[r].lapsed
    BY <2>1, <2>3 DEF LeaseCovers, OrphanCovered
  <2>4. ASSUME NEW o \in orphan, NEW p \in orphan, o.job = p.job, o.held, p.held
        PROVE  o = p
    <3>1. o.runner = p.runner /\ o.held = TRUE /\ p.held = TRUE
      BY <2>1, <2>4 DEF OrphanCovered, OrphanRow
    <3> QED
      BY <2>1, <2>4, <3>1 DEF OrphanRow
  <2> QED
    BY <2>2, <2>3, <2>4 DEF OneEnginePerJob
<1> QED
  BY <1>1, TypeCorrect, CoveredAlways, PTL

-----------------------------------------------------------------------------
(* What cannot be repeated is not repeated. *)

(* A dispatch writes in the journal about its own job and node only. *)
LEMMA JournalIsLocal ==
  ASSUME Known, NEW r \in Runner, RunnerStep(r),
         NEW c \in DOMAIN journal,
         journal[c].job # run[r].job \/ journal[c].node # run[r].node
  PROVE  c \in DOMAIN journal' /\ journal'[c] = journal[c]
<1> DEFINE d == run[r]
<1>1. /\ TypeOK /\ Row(d) /\ CallKnown(r)
      /\ DOMAIN journal = 1 .. Len(journal) /\ Len(journal) \in Nat
  BY LenProperties DEF Known, TypeOK
<1>2. Grows(journal, journal')
  BY <1>1, JournalStep
<1>3. c \in DOMAIN journal'
  BY <1>1, <1>2, LenProperties DEF Grows
<1>4. CASE SettleSkip(r)
  <2>1. d.pc = "planned" /\ d.job \in Job /\ d.node \in Delivers
    BY <1>1, <1>4, DecisionIsAbout, WorksOnAJob DEF SettleSkip, At
  <2>2. CASE Dangling(d.job, d.node) # {}
    <3> PICK b \in Dangling(d.job, d.node) :
               journal' \in {journal, [journal EXCEPT ![b].outcome = "settled"]}
      BY <1>4, <2>2 DEF SettleSkip
    <3>1. b \in DOMAIN journal /\ b # c
      BY DanglingIs
    <3> QED
      BY <1>1, <1>3, <3>1
  <2>3. CASE Dangling(d.job, d.node) = {}
    <3>1. \/ journal' = journal
          \/ \E o \in {"open", "settled"} :
               journal' = Append(journal, [job |-> d.job, node |-> d.node, outcome |-> o])
      BY <1>4, <2>3 DEF SettleSkip
    <3> QED
      BY <1>1, <1>3, <2>1, <3>1, RowWritten
  <2> QED
    BY <2>2, <2>3
<1>5. CASE SettleRetry(r)
  <2>1. c \notin Dangling(d.job, d.node)
    BY DanglingIs
  <2> QED
    BY <1>3, <1>5, <2>1 DEF SettleRetry
<1>6. CASE Intend(r)
  <2>1. d.job \in Job /\ d.node \in Delivers
    BY <1>1, <1>6, WorksOnAJob DEF Intend, At, Row, RowMakesSense
  <2>2. journal' \in {journal, Append(journal,
                        [job |-> d.job, node |-> d.node, outcome |-> "open"])}
    BY <1>6 DEF Intend
  <2> QED
    BY <1>1, <1>3, <2>1, <2>2, RowWritten
<1>7. CASE CloseCall(r)
  <2>1. d.call # c
    BY <1>1, <1>7 DEF CloseCall, CallKnown
  <2>2. journal' \in {journal, [journal EXCEPT ![d.call].outcome =
                        IF d.answer = "ok" THEN "settled" ELSE "error"]}
    BY <1>7 DEF CloseCall
  <2> QED
    BY <1>3, <2>1, <2>2
<1> QED
  BY <1>3, <1>4, <1>5, <1>6, <1>7, JournalWriters

LEMMA LandedIsLocal ==
  ASSUME Known, NEW r \in Runner, RunnerStep(r), NEW j \in Job, NEW n \in Delivers,
         \/ run[r].job # j \/ run[r].node # n
         \/ \A answer \in {"ok", "error", "timeout"} : ~Call(r, answer)
  PROVE  landed'[j][n] = landed[j][n]
<1>1. landed \in [Job -> [Delivers -> Nat]] /\ Row(run[r])
  BY DEF Known, TypeOK
<1>2. ASSUME NEW answer \in {"ok", "error", "timeout"}, Call(r, answer),
             run[r].job # j \/ run[r].node # n
      PROVE  landed'[j][n] = landed[j][n]
  <2>1. run[r].job \in Job /\ run[r].node \in Delivers
    BY <1>1, <1>2, WorksOnAJob DEF Call, At, Row, RowMakesSense
  <2>2. landed' = landed \/ landed' = [landed EXCEPT ![run[r].job][run[r].node] = @ + 1]
    BY <1>2 DEF Call
  <2> QED
    BY <1>1, <1>2, <2>1, <2>2
<1> QED
  BY <1>2, LandedWriters

LEMMA SameCalls ==
  ASSUME NEW j, NEW n, NEW o,
         \A c \in DOMAIN journal : journal[c].job = j /\ journal[c].node = n =>
           c \in DOMAIN journal' /\ journal'[c] = journal[c]
  PROVE  Calls(j, n, o) \subseteq (Calls(j, n, o))'
BY DEF Calls

(* An error stands: only an open row is ever closed. *)
LEMMA ErrorStands ==
  ASSUME Known, NEW r \in Runner, RunnerStep(r),
         NEW c \in DOMAIN journal, journal[c].outcome = "error"
  PROVE  c \in DOMAIN journal' /\ journal'[c] = journal[c]
<1> DEFINE d == run[r]
<1>1. /\ TypeOK /\ Row(d) /\ CallKnown(r)
      /\ DOMAIN journal = 1 .. Len(journal) /\ Len(journal) \in Nat
  BY LenProperties DEF Known, TypeOK
<1>2. Grows(journal, journal')
  BY <1>1, JournalStep
<1>3. c \in DOMAIN journal'
  BY <1>1, <1>2, LenProperties DEF Grows
<1>4. CASE SettleSkip(r)
  <2>1. d.pc = "planned" /\ d.job \in Job /\ d.node \in Delivers
    BY <1>1, <1>4, DecisionIsAbout, WorksOnAJob DEF SettleSkip, At
  <2>2. CASE Dangling(d.job, d.node) # {}
    <3> PICK b \in Dangling(d.job, d.node) :
               journal' \in {journal, [journal EXCEPT ![b].outcome = "settled"]}
      BY <1>4, <2>2 DEF SettleSkip
    <3>1. b \in DOMAIN journal /\ b # c
      BY DanglingIs
    <3> QED
      BY <1>1, <1>3, <3>1
  <2>3. CASE Dangling(d.job, d.node) = {}
    <3>1. \/ journal' = journal
          \/ \E o \in {"open", "settled"} :
               journal' = Append(journal, [job |-> d.job, node |-> d.node, outcome |-> o])
      BY <1>4, <2>3 DEF SettleSkip
    <3> QED
      BY <1>1, <1>3, <2>1, <3>1, RowWritten
  <2> QED
    BY <2>2, <2>3
<1>5. CASE SettleRetry(r)
  <2>1. c \notin Dangling(d.job, d.node)
    BY DanglingIs
  <2> QED
    BY <1>3, <1>5, <2>1 DEF SettleRetry
<1>6. CASE Intend(r)
  <2>1. d.job \in Job /\ d.node \in Delivers
    BY <1>1, <1>6, WorksOnAJob DEF Intend, At, Row, RowMakesSense
  <2>2. journal' \in {journal, Append(journal,
                        [job |-> d.job, node |-> d.node, outcome |-> "open"])}
    BY <1>6 DEF Intend
  <2> QED
    BY <1>1, <1>3, <2>1, <2>2, RowWritten
<1>7. CASE CloseCall(r)
  <2>1. \/ journal' = journal
        \/ /\ journal[d.call].outcome = "open"
           /\ journal' = [journal EXCEPT ![d.call].outcome =
                            IF d.answer = "ok" THEN "settled" ELSE "error"]
    BY <1>7 DEF CloseCall
  <2> QED
    BY <1>3, <2>1
<1> QED
  BY <1>3, <1>4, <1>5, <1>6, <1>7, JournalWriters

(* So the errors are never fewer, and a row that becomes one adds to them. *)
LEMMA FailedGrows ==
  ASSUME Known, NEW r \in Runner, RunnerStep(r), NEW j, NEW n
  PROVE  /\ Failed(j, n) \in Nat /\ (Failed(j, n))' \in Nat
         /\ Failed(j, n) <= (Failed(j, n))'
         /\ \A c \in (Calls(j, n, "error"))' :
              c \notin Calls(j, n, "error") => Failed(j, n) + 1 <= (Failed(j, n))'
<1>1. PICK S : S = Calls(j, n, "error")
  OBVIOUS
<1>2. PICK T : T = (Calls(j, n, "error"))'
  OBVIOUS
<1>3. /\ TypeOK /\ journal \in Seq(CallRow) /\ journal' \in Seq(CallRow)
  BY JournalStep DEF Known, TypeOK, Grows
<1>4. IsFiniteSet(DOMAIN journal')
  <2>1. DOMAIN journal' = 1 .. Len(journal') /\ Len(journal') \in Nat
    BY <1>3, LenProperties
  <2> QED
    BY <2>1, FS_Interval
<1>5. T \subseteq DOMAIN journal'
  BY <1>2 DEF Calls
<1>6. S \subseteq T
  BY <1>1, <1>2, ErrorStands DEF Calls
<1>7. /\ IsFiniteSet(T) /\ IsFiniteSet(S) /\ Cardinality(S) <= Cardinality(T)
      /\ Cardinality(S) \in Nat /\ Cardinality(T) \in Nat
  <2>1. IsFiniteSet(T)
    BY <1>4, <1>5, FS_Subset
  <2> QED
    BY <1>6, <2>1, FS_Subset, FS_CardinalityType
<1>8. ASSUME NEW c \in T, c \notin S PROVE Cardinality(S) + 1 <= Cardinality(T)
  <2>1. IsFiniteSet(T \ {c}) /\ Cardinality(T \ {c}) = Cardinality(T) - 1
    BY <1>7, FS_RemoveElement
  <2>2. S \subseteq T \ {c}
    BY <1>6, <1>8
  <2>3. Cardinality(S) <= Cardinality(T \ {c})
    BY <2>1, <2>2, FS_Subset
  <2> QED
    BY <1>7, <2>1, <2>3
<1> QED
  BY <1>1, <1>2, <1>7, <1>8 DEF Failed

Live(j, n) == Dangling(j, n) # {} \/ SettledCall(j, n)

LEMMA RememberedIs ==
  ASSUME NEW j, NEW n
  PROVE  /\ Remembered(j, n) <=>
              landed[j][n] <= Failed(j, n) + (IF Live(j, n) THEN 1 ELSE 0)
         /\ (Remembered(j, n))' <=>
              landed'[j][n] <= (Failed(j, n))' + (IF (Live(j, n))' THEN 1 ELSE 0)
BY DEF Remembered, Live

LEMMA Elsewhere ==
  ASSUME Known, NEW r \in Runner, RunnerStep(r), NEW j \in Job, NEW n \in Delivers,
         run[r].job # j \/ run[r].node # n, Remembered(j, n)
  PROVE  (Remembered(j, n))'
<1>1. landed'[j][n] = landed[j][n] /\ landed[j][n] \in Nat
  BY LandedIsLocal DEF Known, TypeOK
<1>2. \A c \in DOMAIN journal : journal[c].job = j /\ journal[c].node = n =>
         c \in DOMAIN journal' /\ journal'[c] = journal[c]
  BY JournalIsLocal
<1>3. \A o : Calls(j, n, o) \subseteq (Calls(j, n, o))'
  BY <1>2, SameCalls
<1>4. Live(j, n) => (Live(j, n))'
  BY <1>3 DEF Live, Dangling, SettledCall
<1> QED
  BY <1>1, <1>4, FailedGrows, RememberedIs

(* The dispatch that is on the job: it calls what it has written down, and the
   row of a call stays live until it is an error. *)
LEMMA Here ==
  ASSUME Known, NEW r \in Runner, RunnerStep(r), NEW j \in Job, NEW n \in Delivers,
         run[r].job = j, run[r].node = n, Remembered(j, n), CallTrue(r)
  PROVE  (Remembered(j, n))'
<1> DEFINE d == run[r]
<1>1. /\ TypeOK /\ Row(d) /\ CallKnown(r) /\ landed \in [Job -> [Delivers -> Nat]]
      /\ DOMAIN journal = 1 .. Len(journal) /\ Len(journal) \in Nat
      /\ landed[j][n] \in Nat
  BY LenProperties DEF Known, TypeOK
<1>2. /\ Failed(j, n) \in Nat /\ (Failed(j, n))' \in Nat
      /\ Failed(j, n) <= (Failed(j, n))'
  BY FailedGrows
<1>3. ASSUME At(r, "calling") \/ At(r, "answered")
      PROVE  /\ d.call \in DOMAIN journal /\ journal[d.call] \in CallRow
             /\ journal[d.call].job = j /\ journal[d.call].node = n
  <2>1. d.call \in 0 .. Len(journal) /\ d.call # 0
    BY <1>1, <1>3 DEF TypeOK, CallKnown
  <2> QED
    BY <1>1, <1>3, <2>1, ElementOfSeq DEF CallKnown, TypeOK
<1>4. ASSUME NEW answer \in {"ok", "error", "timeout"}, Call(r, answer)
      PROVE  (Remembered(j, n))'
  <2>1. At(r, "calling") /\ landed[j][n] <= Failed(j, n) /\ journal[d.call].outcome = "open"
    BY <1>4 DEF Call, CallTrue
  <2>2. d.call \in DOMAIN journal /\ journal[d.call] = [job |-> j, node |-> n, outcome |-> "open"]
    BY <1>3, <2>1 DEF CallRow
  <2>3. (Live(j, n))'
    BY <1>4, <2>2 DEF Live, Dangling, Calls, Call
  <2>4. landed' = landed \/ landed' = [landed EXCEPT ![j][n] = @ + 1]
    BY <1>4 DEF Call
  <2>5. landed'[j][n] <= landed[j][n] + 1 /\ landed'[j][n] \in Nat
    BY <1>1, <2>4
  <2> QED
    BY <1>1, <1>2, <2>1, <2>3, <2>5, RememberedIs
<1>5. CASE \A answer \in {"ok", "error", "timeout"} : ~Call(r, answer)
  <2>1. landed'[j][n] = landed[j][n]
    BY <1>5, LandedIsLocal
  <2>2. CASE ~Live(j, n)
    BY <1>1, <1>2, <2>1, <2>2, RememberedIs
  <2>3. SUFFICES ASSUME Live(j, n)
                 PROVE  \/ (Live(j, n))'
                        \/ \E c \in (Calls(j, n, "error"))' : c \notin Calls(j, n, "error")
    BY <1>1, <1>2, <2>1, <2>2, FailedGrows, RememberedIs
  <2>4. CASE journal' = journal
    BY <2>3, <2>4 DEF Live, Dangling, SettledCall, Calls
  <2>5. CASE SettleSkip(r) /\ journal' # journal
    <3>1. Dangling(j, n) # {}
      BY <1>1, <2>3, <2>5, DecisionIsAbout DEF SettleSkip, Live
    <3> PICK b \in Dangling(j, n) : journal' = [journal EXCEPT ![b].outcome = "settled"]
      BY <2>5, <3>1 DEF SettleSkip
    <3>2. b \in DOMAIN journal /\ journal[b] = [job |-> j, node |-> n, outcome |-> "open"]
      BY DEF Dangling, Calls
    <3>3. b \in DOMAIN journal' /\ journal'[b] = [job |-> j, node |-> n, outcome |-> "settled"]
      BY <3>2
    <3> QED
      BY <3>3 DEF Live, SettledCall, Calls
  <2>6. CASE SettleRetry(r) /\ journal' # journal
    <3>1. PICK b \in Dangling(j, n) : TRUE
      BY <2>6 DEF SettleRetry
    <3>2. b \in DOMAIN journal /\ journal[b] = [job |-> j, node |-> n, outcome |-> "open"]
      BY DEF Dangling, Calls
    <3>3. b \in DOMAIN journal' /\ journal'[b] = [journal[b] EXCEPT !.outcome = "error"]
      BY <2>6, <3>2 DEF SettleRetry
    <3> QED
      BY <3>2, <3>3 DEF Calls
  <2>7. CASE Intend(r)
    BY <2>3, <2>7 DEF Intend, Live
  <2>8. CASE CloseCall(r) /\ journal' # journal
    <3>1. /\ At(r, "answered") /\ journal[d.call].outcome = "open"
          /\ \E o \in {"settled", "error"} : journal' = [journal EXCEPT ![d.call].outcome = o]
      BY <2>8 DEF CloseCall
    <3> PICK o \in {"settled", "error"} : journal' = [journal EXCEPT ![d.call].outcome = o]
      BY <3>1
    <3>2. /\ d.call \in DOMAIN journal
          /\ journal[d.call] = [job |-> j, node |-> n, outcome |-> "open"]
      BY <1>3, <3>1 DEF CallRow
    <3>3. /\ d.call \in DOMAIN journal'
          /\ journal'[d.call] = [job |-> j, node |-> n, outcome |-> o]
      BY <3>2
    <3> QED
      BY <3>2, <3>3 DEF Live, SettledCall, Calls
  <2> QED
    BY <2>4, <2>5, <2>6, <2>7, <2>8, JournalWriters
<1> QED
  BY <1>4, <1>5

(* After its step, what the dispatch holds is true again. *)
LEMMA HandIsTrue ==
  ASSUME Known, NEW r \in Runner, RunnerStep(r), NEW j \in Job, NEW n \in Delivers,
         run'[r].job = j, run'[r].node = n,
         run[r].job = j /\ run[r].node = n => Remembered(j, n)
  PROVE  (CallTrue(r))'
<1> DEFINE d == run[r]  x == run'[r]
<1>1. TypeOK /\ run \in [Runner -> RunRow]
  BY DEF Known, TypeOK
<1>2. SUFFICES ASSUME x.pc = "calling"
               PROVE  landed'[j][n] <= (Failed(j, n))' /\ journal'[x.call].outcome = "open"
  BY DEF CallTrue, At
<1>3. /\ Intend(r) /\ x.job = d.job /\ x.node = d.node /\ x.call = Len(journal')
      /\ journal' = Append(journal, [job |-> d.job, node |-> d.node, outcome |-> "open"])
  BY <1>1, <1>2, StepCases DEF Onward, Follows
<1>4. ~Live(j, n) /\ landed' = landed
  BY <1>3 DEF Intend, Live
<1>5. landed[j][n] <= Failed(j, n) /\ landed[j][n] \in Nat
  BY <1>1, <1>3, <1>4, FailedGrows, RememberedIs DEF TypeOK
<1>6. journal'[x.call].outcome = "open"
  BY <1>1, <1>3, RowWritten
<1> QED
  BY <1>4, <1>5, <1>6, FailedGrows

LEMMA OnceStep ==
  ASSUME Known, Covered, Once, NEW r \in Runner, RunnerStep(r)
  PROVE  Once'
<1>1. TypeOK /\ lapses' = lapses
  BY LapsesStay DEF Known
<1>2. ASSUME lapses' = 0, NEW j \in Job, NEW n \in Delivers
      PROVE  /\ (Remembered(j, n))'
             /\ \A s \in Runner : run'[s].job = j /\ run'[s].node = n => (CallTrue(s))'
  <2>1. /\ lapses = 0 /\ Remembered(j, n)
        /\ \A s \in Runner : run[s].job = j /\ run[s].node = n => CallTrue(s)
    BY <1>1, <1>2 DEF Once
  <2>2. (Remembered(j, n))'
    BY <2>1, Elsewhere, Here
  <2>3. run'[r].job = j /\ run'[r].node = n => (CallTrue(r))'
    BY <2>1, HandIsTrue
  <2>4. ASSUME NEW s \in Runner \ {r}, run'[s].job = j, run'[s].node = n
        PROVE  (CallTrue(s))'
    <3>1. run'[s] = run[s]
      BY <1>1, StepMoves DEF Known, RowMoves, TypeOK
    <3>2. run[s].job = j /\ run[s].node = n /\ CallTrue(s) /\ CallKnown(s)
      BY <2>1, <2>4, <3>1 DEF Known
    <3>3. run[r].job # j
      BY <2>1, <3>2, Alone, DispatchAssumption DEF Covered
    <3>4. SUFFICES ASSUME At(s, "calling")
                   PROVE  /\ landed'[j][n] <= (Failed(j, n))'
                          /\ journal'[run[s].call].outcome = "open"
      BY <3>1, <3>2 DEF CallTrue, At
    <3>5. /\ landed[j][n] <= Failed(j, n) /\ journal[run[s].call].outcome = "open"
          /\ landed[j][n] \in Nat
      BY <1>1, <3>2, <3>4 DEF CallTrue, TypeOK
    <3>6. landed'[j][n] = landed[j][n]
      BY <3>3, LandedIsLocal
    <3>7. run[s].call \in DOMAIN journal
      <4>1. run[s].call \in 0 .. Len(journal) /\ DOMAIN journal = 1 .. Len(journal)
            /\ Len(journal) \in Nat
        BY <1>1, LenProperties DEF TypeOK
      <4> QED
        BY <3>2, <3>4, <4>1 DEF CallKnown
    <3>8. journal'[run[s].call] = journal[run[s].call]
      BY <3>2, <3>3, <3>4, <3>7, JournalIsLocal DEF CallKnown
    <3> QED
      BY <3>5, <3>6, <3>8, FailedGrows
  <2> QED
    BY <2>2, <2>3, <2>4
<1> QED
  BY <1>2 DEF Once

LEMMA OnceStays ==
  ASSUME Known, Covered, Once, [Next]_vars
  PROVE  Once'
<1>1. /\ TypeOK /\ run \in [Runner -> RunRow] /\ lapses \in Nat
  BY DEF Known, TypeOK, Covered
<1>2. ASSUME NEW r \in Runner, RunnerStep(r) PROVE Once'
  BY <1>2, OnceStep
<1>3. ASSUME NEW r \in Runner, Crash(r) PROVE Once'
  <2>1. /\ UNCHANGED <<journal, landed, lapses>>
        /\ run'[r] = Idle /\ \A s \in Runner \ {r} : run'[s] = run[s]
    BY <1>1, <1>3 DEF Crash, outside
  <2>2. Idle.job \notin Job
    BY DispatchAssumption DEF Idle
  <2>3. \A j, n : Remembered(j, n) <=> (Remembered(j, n))'
    BY <2>1 DEF Remembered, Failed, Dangling, SettledCall, Calls
  <2>4. \A s \in Runner \ {r} : CallTrue(s) <=> (CallTrue(s))'
    BY <2>1 DEF CallTrue, Failed, Calls, At
  <2> QED
    BY <2>1, <2>2, <2>3, <2>4 DEF Once
<1>4. ASSUME NEW j \in Job, Lapse(j) PROVE Once'
  <2>1. lapses' # 0
    BY <1>1, <1>4 DEF Lapse
  <2> QED
    BY <2>1 DEF Once
<1>5. CASE UNCHANGED <<journal, landed, lapses, run>>
  <2>1. \A j, n : Remembered(j, n) <=> (Remembered(j, n))'
    BY <1>5 DEF Remembered, Failed, Dangling, SettledCall, Calls
  <2>2. \A s \in Runner : CallTrue(s) <=> (CallTrue(s))'
    BY <1>5 DEF CallTrue, Failed, Calls, At
  <2> QED
    BY <1>5, <2>1, <2>2 DEF Once
<1>6. ASSUME NEW j \in Job,
             \/ Expire(j) \/ Unblock(j) \/ \E r \in Runner : WarmUp(r, j)
             \/ \E said \in {"retry", "skip"} : AnswerDelivery(j, said)
      PROVE  UNCHANGED <<journal, landed, lapses, run>>
  BY <1>6 DEF Expire, WarmUp, Unblock, AnswerDelivery, outside, counters
<1>7. ASSUME NEW o \in orphan, OrphanEnds(o) PROVE UNCHANGED <<journal, landed, lapses, run>>
  BY <1>7 DEF OrphanEnds, outside, counters
<1> QED
  BY <1>2, <1>3, <1>4, <1>5, <1>6, <1>7 DEF Next, vars, outside, counters

LEMMA OnceAtFirst == Init => Once
<1> SUFFICES ASSUME Init, NEW j \in Job, NEW n \in Delivers PROVE Remembered(j, n)
  BY DispatchAssumption DEF Init, Idle, Once
<1>1. landed[j][n] = 0 /\ Calls(j, n, "error") = {}
  BY DEF Init, Calls
<1>2. Failed(j, n) = 0
  BY <1>1, FS_EmptySet DEF Failed
<1> QED
  BY <1>1, <1>2 DEF Remembered

(* Each time the tool carries out again what may not be repeated, the log has
   closed a call as an error, unless a lease lapsed under a dispatch. *)
THEOREM DeliveredOnceAlways == Spec => []DeliveredOnce
<1>1. TypeOK /\ Once /\ Covered => DeliveredOnce
  <2> SUFFICES ASSUME TypeOK, Once, Covered, NEW j \in Job, NEW n \in Delivers, ~(lapses > 0)
               PROVE  landed[j][n] <= 1 + Cardinality(Calls(j, n, "error"))
    BY DEF DeliveredOnce
  <2>1. lapses = 0 /\ Remembered(j, n) /\ landed[j][n] \in Nat
    BY DEF Covered, Once, TypeOK
  <2>2. Failed(j, n) \in Nat
    <3>1. DOMAIN journal = 1 .. Len(journal) /\ Len(journal) \in Nat
      BY LenProperties DEF TypeOK
    <3>2. IsFiniteSet(DOMAIN journal) /\ Calls(j, n, "error") \subseteq DOMAIN journal
      BY <3>1, FS_Interval DEF Calls
    <3> QED
      BY <3>2, FS_Subset, FS_CardinalityType DEF Failed
  <2> QED
    BY <2>1, <2>2 DEF Remembered, Failed
<1>2. Known /\ Covered => (Once /\ [Next]_vars => Once')
  BY OnceStays
<1>3. Spec => []Once
  BY <1>2, OnceAtFirst, KnownAlways, CoveredAlways, PTL DEF Spec
<1> QED
  BY <1>1, <1>3, TypeCorrect, CoveredAlways, PTL

=============================================================================
