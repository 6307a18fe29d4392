------------------------------ MODULE Dispatch ------------------------------
(***************************************************************************)
(* The runner processes of one project: the loop that takes a job under a   *)
(* lease, the dispatch that runs one session for it, and everything that    *)
(* dispatch writes back, in the order it writes it.                         *)
(*                                                                         *)
(* The board's side of a write is JobBoard's, reduced to the rows the       *)
(* runner moves.  Every request may fail, landed or not (MaxFault); a lease *)
(* may lapse under a beating heart (MaxLapse); a runner may be killed       *)
(* (MaxCrash).  No request carries the lease it was made under, so a runner *)
(* whose lease lapsed goes on exactly as one that holds it.                 *)
(***************************************************************************)
EXTENDS Naturals, FiniteSets, Sequences

CONSTANTS
  Runner, NoRunner,
  Job,           \* job ids, which the board lists in ascending order
  NoJob,
  Node, NoNode,
  Entry,         \* the node a job starts on
  Exits,         \* for each node, the nodes its edges lead to
  Working,       \* nodes with a skill: a final one completes by its report only
  Delivers,      \* nodes that declare an output and are unsafe_to_retry
  Ending,        \* how a session may end: members of EndingRow
  RunnerCap,     \* leases one runner may hold
  PreCeiling,    \* failures in a row before a session opens
  FailCeiling,   \* failed sessions in a row on one node
  MaxSession,    \* bound: sessions ever opened
  MaxFault,      \* bound: requests of a dispatch that fail
  MaxLapse,      \* bound: leases that expire although their runner beats
  MaxCrash,      \* bound: runner processes killed
  MaxUnblock     \* bound: times a person lowers a flag

(* What the adapter and the decoded output say: the status, what kind of
   failure it was, whether the session asked a question, and what stands in the
   way of its report: a dirty tree, a schema, an artifact refused before it was
   sent, an artifact that was sent. *)
EndingRow ==
  [status : {"completed", "failed", "stopped"},
   kind   : {"none", "engine_refusal", "quota"},
   asks   : BOOLEAN,
   report : {"clean", "dirty", "refused", "no_artifact", "artifact"}]

(* A session with a failure kind never completed: the engine exits non-zero on
   a refusal and on an exhausted quota. *)
ASSUME DispatchAssumption ==
  /\ IsFiniteSet(Runner)
  /\ Job \subseteq Nat \ {0} /\ NoJob \notin Job
  /\ NoRunner \notin Runner /\ NoNode \notin Node
  /\ Entry \in Node /\ Exits \in [Node -> SUBSET Node]
  /\ Working \subseteq Node /\ Delivers \subseteq Node
  /\ Ending \subseteq EndingRow
  /\ \A e \in Ending : e.kind # "none" => e.status # "completed"
  /\ {RunnerCap, PreCeiling, FailCeiling} \subseteq Nat \ {0}
  /\ {MaxSession, MaxFault, MaxLapse, MaxCrash, MaxUnblock} \subseteq Nat

VARIABLES
  job,       \* the board: node, flag, and the question about an output it may carry
  session,   \* the session table, in id order
  lease,     \* who holds each job's active lease
  journal,   \* the external_call table, in id order
  landed,    \* calls the outside tool carried out, per job and node
  run,       \* each runner's pass and the dispatch it is in
  memory,    \* what each runner process remembers between dispatches
  engine,    \* the job each runner's engine process works on, not told to stop
  orphan,    \* engines that outlived a killed runner
  faults, lapses, crashes, unblocks

counters == <<faults, lapses, crashes, unblocks>>
outside  == <<journal, landed>>
vars == <<job, session, lease, outside, run, memory, engine, orphan, counters>>

-----------------------------------------------------------------------------
(* The board. *)

Board == INSTANCE JobBoard WITH
  Round <- {}, NoRound <- "none", Final <- {n \in Node : Exits[n] = {}},
  Ceiling <- FailCeiling, Parent <- {NoJob}, DependsOn <- {{}}, Outcome <- {},
  MaxWaiting <- 0, MaxQuestion <- 0, row <- job, cancelled <- {},
  finishing <- {}, question <- <<>>, announced <- <<>>

(* asked is the node a pending question about a delivery is about; decided the
   last answer a person gave for each. *)
JobRow == [node : Node, blocked : BOOLEAN, asked : Delivers \cup {NoNode},
           decided : [Delivers -> {"none", "retry", "skip"}]]

SessionRow == [job : Job, node : Node, status : Board!Verdict \cup {"open"}]

CallRow == [job : Job, node : Delivers, outcome : {"open", "error", "settled"}]

(* An engine is spawned into a group of its own, so the kill of its runner does
   not reach it; held while the lease of that dispatch has not run out. *)
OrphanRow == [job : Job, runner : Runner, held : BOOLEAN]

(* What listReleasedJobs keeps of the board. *)
Released == {j \in Job : ~job[j].blocked /\ ~Board!Completed(job, session, j)}

Held(r) == {j \in Job : lease[j] = r}

(* Fault: the kind of a failure is written where its status belongs. *)
FaultyVerdictOf(e) == IF e.kind = "none" THEN e.status ELSE e.kind

(* The verdict a session's row carries once the control plane judged it. *)
VerdictOf(e) ==
  CASE e.status = "completed" /\ e.report \in {"refused", "no_artifact"} -> "no_output"
    [] e.status = "failed" /\ e.kind # "none" -> "refused"
    [] OTHER -> e.status

-----------------------------------------------------------------------------
(* A runner. *)

NoEnding == [status |-> "none"]

(* pc is the dispatch's next step; todo the rest of the pass's snapshot; fault a
   write whose failure was kept for later; moved and stops what this dispatch
   did to its job. *)
Idle == [pc |-> "idle", todo |-> {}, job |-> NoJob, node |-> Entry, sid |-> 0,
         ending |-> NoEnding, call |-> 0, answer |-> "none", known |-> TRUE, fault |-> FALSE, stale |-> FALSE,
         stops |-> 0, moved |-> FALSE, lapsed |-> FALSE, result |-> "none"]

Fresh == [streak |-> [j \in Job |-> 0], cooling |-> {}]

RunRow ==
  [pc : {"idle", "asking", "leased", "planned", "started", "running", "ended",
         "reported", "advancing", "delivering", "calling", "answered", "unsure",
         "routing", "settled", "releasing"},
   todo : SUBSET Job, job : Job \cup {NoJob}, node : Node, sid : 0 .. MaxSession,
   ending : EndingRow \cup {NoEnding}, call : Nat,
   answer : {"none", "ok", "error", "timeout"}, known : BOOLEAN, fault : BOOLEAN,
   stale : BOOLEAN, stops : 0 .. 2, moved : BOOLEAN, lapsed : BOOLEAN,
   result : {"none", "done", "next", "error"}]

MemoryRow == [streak : [Job -> Nat], cooling : SUBSET Job]

At(r, pc) == run[r].pc = pc

Goto(d, pc) == [d EXCEPT !.pc = pc]
Over(d, how) == [d EXCEPT !.pc = "releasing", !.result = how]

Step(r, next) == run' = [run EXCEPT ![r] = next]

(* One more request that got no answer; the dispatch's promise rejects. *)
Lost(r) ==
  /\ faults < MaxFault
  /\ faults' = faults + 1
  /\ Step(r, Over(run[r], "error"))

(* One write to the job's row, and what becomes of the dispatch: refused or
   unanswered, it throws, whether or not it landed. *)
Write(r, tab, next) ==
  /\ \/ job' = tab /\ Step(r, next) /\ UNCHANGED faults
     \/ job' \in {job, tab} /\ Lost(r)
  /\ UNCHANGED <<lapses, crashes, unblocks>>

Flagged(j) == [job EXCEPT ![j].blocked = TRUE]
Stopped(d) == [d EXCEPT !.stops = @ + 1]

(* POST /jobs/:id/blocks, or POST /input-requests, which blocks as it asks. *)
Stop(r, next) == Write(r, Flagged(run[r].job), Stopped(next))

-----------------------------------------------------------------------------
(* The loop (Controller.tick). *)

(* The board is read once per pass. *)
Poll(r) ==
  /\ At(r, "idle")
  /\ Step(r, [Idle EXCEPT !.pc = "asking", !.todo = Released])
  /\ UNCHANGED <<job, session, lease, outside, memory, engine, orphan, counters>>

NextCandidate(r, j) ==
  /\ At(r, "asking")
  /\ j \in run[r].todo /\ \A k \in run[r].todo : j <= k

(* POST /leases granted: a candidate blocked, moved or finished since the
   board was read is granted all the same. *)
Take(r, j) ==
  /\ NextCandidate(r, j)
  /\ lease[j] = NoRunner /\ Cardinality(Held(r)) < RunnerCap
  /\ lease' = [lease EXCEPT ![j] = r]
  /\ Step(r, [Idle EXCEPT !.pc = "leased", !.job = j, !.todo = run[r].todo \ {j}])
  /\ UNCHANGED <<job, session, outside, memory, engine, orphan, counters>>

(* job_already_leased: the pass goes on with the next candidate. *)
PassOver(r, j) ==
  /\ NextCandidate(r, j)
  /\ lease[j] # NoRunner
  /\ Step(r, [run[r] EXCEPT !.todo = @ \ {j}])
  /\ UNCHANGED <<job, session, lease, outside, memory, engine, orphan, counters>>

(* The list is through, or a cap is reached: the pass ends. *)
EndPass(r) ==
  /\ At(r, "asking")
  /\ \/ run[r].todo = {}
     \/ Cardinality(Held(r)) >= RunnerCap
        /\ \E j \in Job : NextCandidate(r, j) /\ lease[j] = NoRunner
  /\ Step(r, Idle)
  /\ UNCHANGED <<job, session, lease, outside, memory, engine, orphan, counters>>

(* The request for a lease gets no answer, granted or not: the tick rejects,
   and a lease granted so is in nobody's hands. *)
LoseRequest(r, j) ==
  /\ NextCandidate(r, j)
  /\ faults < MaxFault /\ faults' = faults + 1
  /\ lease' \in {lease} \cup
                (IF lease[j] = NoRunner /\ Cardinality(Held(r)) < RunnerCap
                 THEN {[lease EXCEPT ![j] = r]} ELSE {})
  /\ Step(r, Idle)
  /\ UNCHANGED <<job, session, outside, memory, engine, orphan, lapses, crashes, unblocks>>

(* The `finally` of #dispatch: the heart stops, the lease is given back, and a
   release that fails is only remembered: the lease stays until its TTL, and a
   blocked dispatch goes on with the pass all the same. *)
Release(r) ==
  /\ At(r, "releasing")
  /\ \/ lease' = [lease EXCEPT ![run[r].job] = IF @ = r THEN NoRunner ELSE @]
        /\ UNCHANGED faults
     \/ UNCHANGED lease /\ faults < MaxFault /\ faults' = faults + 1
  /\ Step(r, IF run[r].result = "next"
             THEN [Idle EXCEPT !.pc = "asking", !.todo = run[r].todo] ELSE Idle)
  /\ UNCHANGED <<job, session, outside, memory, engine, orphan, lapses, crashes, unblocks>>

(* Fault: the heart is not stopped with the dispatch. *)
RestlessBeating(r, j) == lease[j] = r

Beating(r, j) == run[r].job = j

(* A lease that nobody renews expires, an engine at work on its job or not. *)
Expire(j) ==
  /\ lease[j] # NoRunner /\ ~Beating(lease[j], j)
  /\ lease' = [lease EXCEPT ![j] = NoRunner]
  /\ orphan' = {IF o.job = j THEN [o EXCEPT !.held = FALSE] ELSE o : o \in orphan}
  /\ UNCHANGED <<job, session, outside, run, memory, engine, counters>>

(* The beats of a runner in its dispatch do not get through for a whole TTL. *)
Lapse(j) ==
  /\ lease[j] # NoRunner /\ Beating(lease[j], j)
  /\ lapses < MaxLapse /\ lapses' = lapses + 1
  /\ lease' = [lease EXCEPT ![j] = NoRunner]
  /\ run' = [run EXCEPT ![lease[j]].lapsed = TRUE]
  /\ UNCHANGED <<job, session, outside, memory, engine, orphan, faults, crashes, unblocks>>

-----------------------------------------------------------------------------
(* One dispatch, before a session exists. *)

Forget(r, j) == memory' = [memory EXCEPT ![r].streak[j] = 0]

(* A work this process knows to be out of quota is not even read. *)
CoolDown(r) ==
  /\ At(r, "leased") /\ run[r].job \in memory[r].cooling
  /\ Step(r, Over(run[r], "next"))
  /\ UNCHANGED <<job, session, lease, outside, memory, engine, orphan, counters>>

(* GET /jobs/:id: the node every later step is about. *)
ReadJob(r) ==
  /\ At(r, "leased") /\ run[r].job \notin memory[r].cooling
  /\ \/ Step(r, [run[r] EXCEPT !.pc = "planned", !.node = job[run[r].job].node])
        /\ UNCHANGED faults
     \/ Lost(r)
  /\ UNCHANGED <<job, session, lease, outside, memory, engine, orphan, lapses, crashes, unblocks>>

(* The journal's rows of one job's declared output. *)
Calls(j, n, outcome) ==
  {c \in DOMAIN journal : journal[c] = [job |-> j, node |-> n, outcome |-> outcome]}
Dangling(j, n) == Calls(j, n, "open")
SettledCall(j, n) == Calls(j, n, "settled") # {}

(* What a person decided about an output this node could not deliver. *)
Decision(r) ==
  LET j == run[r].job  n == run[r].node IN
  IF n \in Delivers /\ ~SettledCall(j, n) THEN job[j].decided[n] ELSE "none"

(* settleAnsweredOutputWrite, `skip` or `done`: the log says so, in the row left
   open or in a row opened for it, and the work moves on the stored report, with
   no session. *)
SettleSkip(r) ==
  LET j == run[r].job  n == run[r].node
      row(outcome) == Append(journal, [job |-> j, node |-> n, outcome |-> outcome])
      opened == IF Dangling(j, n) # {} THEN journal ELSE row("open")
      said == IF Dangling(j, n) # {}
              THEN [journal EXCEPT ![CHOOSE c \in Dangling(j, n) : TRUE].outcome = "settled"]
              ELSE row("settled")
  IN
  /\ At(r, "planned") /\ Decision(r) = "skip"
  /\ \/ journal' = said /\ Step(r, Goto(run[r], "routing")) /\ UNCHANGED faults
     \/ journal' \in {journal, opened, said} /\ Lost(r)
  /\ UNCHANGED <<job, session, lease, landed, memory, engine, orphan, lapses, crashes, unblocks>>

(* ... and `retry`: whatever call is still open is closed as an error. *)
SettleRetry(r) ==
  LET open   == Dangling(run[r].job, run[r].node)
      closed == [c \in DOMAIN journal |->
                   IF c \in open THEN [journal[c] EXCEPT !.outcome = "error"]
                   ELSE journal[c]] IN
  /\ At(r, "planned") /\ Decision(r) = "retry" /\ open # {}
  /\ \/ journal' = closed /\ UNCHANGED <<run, faults>>
     \/ journal' \in {journal, closed} /\ Lost(r)
  /\ UNCHANGED <<job, session, lease, landed, memory, engine, orphan>>
  /\ UNCHANGED <<lapses, crashes, unblocks>>

Unsettled(r) ==
  \/ Decision(r) = "skip"
  \/ Decision(r) = "retry" /\ Dangling(run[r].job, run[r].node) # {}

(* The block of a work that cannot start, and the count it leaves when the
   block itself fails. *)
StopUnstarted(r, failures) ==
  LET j == run[r].job IN
  \/ /\ job' = Flagged(j)
     /\ Step(r, Stopped(Over(run[r], "next")))
     /\ Forget(r, j)
     /\ UNCHANGED faults
  \/ /\ job' \in {job, Flagged(j)}
     /\ Lost(r)
     /\ memory' = [memory EXCEPT ![r].streak[j] = failures]

(* Fault: the count does not outlive its dispatch, so the ceiling is not met. *)
ForgetfulFailToStart(r) ==
  /\ At(r, "planned") /\ ~Unsettled(r)
  /\ \/ StopUnstarted(r, 0)
     \/ Step(r, Over(run[r], "error")) /\ UNCHANGED <<job, memory, faults>>
  /\ UNCHANGED <<session, lease, outside, engine, orphan, lapses, crashes, unblocks>>

(* The plan, the worktree or the engine does not come up.  A cause known to
   reproduce stops the work at once; any other is counted by this process and
   stops it at the ceiling. *)
FailToStart(r) ==
  LET before == memory[r].streak[run[r].job] IN
  /\ At(r, "planned") /\ ~Unsettled(r)
  /\ \/ StopUnstarted(r, before)
     \/ before + 1 >= PreCeiling /\ StopUnstarted(r, before + 1)
     \/ /\ before + 1 < PreCeiling
        /\ memory' = [memory EXCEPT ![r].streak[run[r].job] = before + 1]
        /\ Step(r, Over(run[r], "error"))
        /\ UNCHANGED <<job, faults>>
  /\ UNCHANGED <<session, lease, outside, engine, orphan, lapses, crashes, unblocks>>

(* The worktree is cut and the engine comes up in it. *)
StartSession(r) ==
  /\ At(r, "planned") /\ ~Unsettled(r)
  /\ Len(session) + Cardinality({s \in Runner : At(s, "started")}) < MaxSession
  /\ engine' = [engine EXCEPT ![r] = run[r].job]
  /\ Step(r, Goto(run[r], "started"))
  /\ UNCHANGED <<job, session, lease, outside, memory, orphan, counters>>

SessionOf(r) == [job |-> run[r].job, node |-> run[r].node, status |-> "open"]

(* Fault: the engine is left to itself when its session cannot be recorded. *)
LeaveEngine(r) ==
  /\ At(r, "started")
  /\ \/ /\ session' = Append(session, SessionOf(r))
        /\ Step(r, [run[r] EXCEPT !.pc = "running", !.sid = Len(session) + 1])
        /\ Forget(r, run[r].job)
        /\ UNCHANGED <<engine, faults>>
     \/ /\ Lost(r)
        /\ session' \in {session, Append(session, SessionOf(r))}
        /\ UNCHANGED <<memory, engine>>
  /\ UNCHANGED <<job, lease, outside, orphan, lapses, crashes, unblocks>>

(* POST /sessions, with the engine already up: when it fails the engine is told
   to stop, and the row, if it landed, stays open. *)
OpenSession(r) ==
  /\ At(r, "started")
  /\ \/ /\ session' = Append(session, SessionOf(r))
        /\ Step(r, [run[r] EXCEPT !.pc = "running", !.sid = Len(session) + 1])
        /\ Forget(r, run[r].job)
        /\ UNCHANGED <<engine, faults>>
     \/ /\ Lost(r)
        /\ session' \in {session, Append(session, SessionOf(r))}
        /\ engine' = [engine EXCEPT ![r] = NoJob]
        /\ UNCHANGED memory
  /\ UNCHANGED <<job, lease, outside, orphan, lapses, crashes, unblocks>>

-----------------------------------------------------------------------------
(* The session's end, and what it writes. *)

(* The engine ends on its own, or by one of the session's clocks; its artifacts
   are uploaded, its tree handed back, kept when it is dirty, and the last
   denials are written.  A failure of the last two is kept for later; a tree
   that could not be looked at does not count as dirty.  An artifact that was
   sent throws, even stored: the route answers with a number for its id, where
   uploadOne wants a string.  The session's row is left open. *)
EngineEnds(r, e) ==
  /\ At(r, "running")
  /\ engine' = [engine EXCEPT ![r] = NoJob]
  /\ \/ e.report = "artifact" /\ Step(r, Over(run[r], "error")) /\ UNCHANGED faults
     \/ /\ e.report # "artifact"
        /\ Step(r, [run[r] EXCEPT !.pc = "ended", !.ending = e])
        /\ UNCHANGED faults
     \/ /\ e.report # "artifact" /\ faults < MaxFault /\ faults' = faults + 1
        /\ Step(r, [run[r] EXCEPT !.pc = "ended", !.fault = TRUE,
                      !.ending = IF e.report = "dirty"
                                 THEN [e EXCEPT !.report = "clean"] ELSE e])
  /\ UNCHANGED <<job, session, lease, outside, memory, orphan, lapses, crashes, unblocks>>

(* The control plane's half of a finish: the row, and the streak it may close. *)
Closed(r) ==
  [session EXCEPT ![run[r].sid].status =
     IF @ = "open" THEN VerdictOf(run[r].ending) ELSE @]

Judged(r) ==
  IF /\ session[run[r].sid].status = "open"
     /\ VerdictOf(run[r].ending) = "failed"
     /\ Board!Streak(Closed(r), run[r].job, run[r].node)
  THEN Flagged(run[r].job) ELSE job

(* PATCH /sessions/:id/finish: a failure is kept for later, and then nobody
   knows whether the report was accepted. *)
FinishSession(r) ==
  /\ At(r, "ended")
  /\ \/ /\ session' = Closed(r) /\ job' = Judged(r)
        /\ Step(r, Goto(run[r], "reported"))
        /\ UNCHANGED faults
     \/ /\ faults < MaxFault /\ faults' = faults + 1
        /\ \/ session' = Closed(r) /\ job' = Judged(r)
           \/ UNCHANGED <<session, job>>
        /\ Step(r, [run[r] EXCEPT !.pc = "reported", !.fault = TRUE, !.known = FALSE])
  /\ UNCHANGED <<lease, outside, memory, engine, orphan, lapses, crashes, unblocks>>

(* What stops a completed session's work before it may move. *)
Unfit(d) ==
  /\ d.ending.status = "completed"
  /\ d.ending.report # "clean" /\ (d.ending.report = "refused" => d.known)

(* Fault: a report is judged although the session asked. *)
FaultyDecide(r) ==
  LET d == run[r]  after == IF d.ending.status = "completed" THEN "advancing" ELSE "settled" IN
  /\ At(r, "reported")
  /\ \/ /\ d.ending.asks /\ d.stops = 0 /\ Stop(r, d)
     \/ /\ d.stops = 1 \/ ~d.ending.asks
        /\ Unfit(d) /\ Stop(r, Goto(d, "settled"))
     \/ /\ d.stops = 1 \/ ~d.ending.asks
        /\ ~Unfit(d)
        /\ Step(r, Goto(d, IF d.ending.asks THEN "settled" ELSE after)) /\ UNCHANGED <<job, counters>>
  /\ UNCHANGED <<session, lease, outside, memory, engine, orphan>>

(* A question stops the work, and then nothing else does; failing that, the
   artifacts, the schema or the dirty tree; failing those, a completed session
   has earned its advance. *)
Decide(r) ==
  LET d == run[r] IN
  /\ At(r, "reported")
  /\ \/ /\ d.ending.asks \/ Unfit(d)
        /\ Stop(r, Goto(d, "settled"))
     \/ /\ ~d.ending.asks /\ ~Unfit(d)
        /\ Step(r, Goto(d, IF d.ending.status = "completed"
                           THEN "advancing" ELSE "settled"))
        /\ UNCHANGED <<job, counters>>
  /\ UNCHANGED <<session, lease, outside, memory, engine, orphan>>

(* The test bench goes first: one that cannot be advanced stops the work. *)
AdvanceBench(r) ==
  /\ At(r, "advancing")
  /\ \/ Stop(r, [run[r] EXCEPT !.pc = "settled", !.stale = TRUE])
     \/ /\ Step(r, Goto(run[r], IF run[r].node \in Delivers
                                THEN "delivering" ELSE "routing"))
        /\ UNCHANGED <<job, counters>>
  /\ UNCHANGED <<session, lease, outside, memory, engine, orphan>>

(* writeExternalOutputs of an unsafe node, first look: a settled output is not
   sent again, and a call nobody closed is a person's to judge. *)
LookBack(r) ==
  LET j == run[r].job  n == run[r].node IN
  /\ At(r, "delivering")
  /\ SettledCall(j, n) \/ Dangling(j, n) # {}
  /\ Step(r, Goto(run[r], IF SettledCall(j, n) THEN "routing" ELSE "unsure"))
  /\ UNCHANGED <<job, session, lease, outside, memory, engine, orphan, counters>>

(* Fault: the call is made before it is written down. *)
CallFirst(r) ==
  LET j == run[r].job  n == run[r].node IN
  /\ At(r, "delivering")
  /\ ~SettledCall(j, n) /\ Dangling(j, n) = {}
  /\ landed' = [landed EXCEPT ![j][n] = @ + 1]
  /\ \/ /\ journal' = Append(journal, [job |-> j, node |-> n, outcome |-> "open"])
        /\ Step(r, [run[r] EXCEPT !.pc = "answered", !.answer = "ok",
                                  !.call = Len(journal) + 1])
        /\ UNCHANGED faults
     \/ journal' \in {journal, Append(journal, [job |-> j, node |-> n, outcome |-> "open"])}
        /\ Lost(r)
  /\ UNCHANGED <<job, session, lease, memory, engine, orphan, lapses, crashes, unblocks>>

(* The intent, before the call. *)
Intend(r) ==
  LET j == run[r].job  n == run[r].node
      intent == Append(journal, [job |-> j, node |-> n, outcome |-> "open"]) IN
  /\ At(r, "delivering")
  /\ ~SettledCall(j, n) /\ Dangling(j, n) = {}
  /\ \/ /\ journal' = intent
        /\ Step(r, [run[r] EXCEPT !.pc = "calling", !.call = Len(intent)])
        /\ UNCHANGED faults
     \/ journal' \in {journal, intent} /\ Lost(r)
  /\ UNCHANGED <<job, session, lease, landed, memory, engine, orphan, lapses, crashes, unblocks>>

(* The one attempt: the tool does it, does not answer in time, or fails.  A
   failure is the tool's own refusal, a connection lost or a server that died
   with the call in flight, and the last two may have done it. *)
Call(r, answer) ==
  LET done == [landed EXCEPT ![run[r].job][run[r].node] = @ + 1] IN
  /\ At(r, "calling")
  /\ landed' \in IF answer = "ok" THEN {done} ELSE {landed, done}
  /\ Step(r, [run[r] EXCEPT !.pc = "answered", !.answer = answer])
  /\ UNCHANGED <<job, session, lease, journal, memory, engine, orphan, counters>>

(* The outcome, after it: a timeout is left open, every other failure is closed
   as an error.  A row already closed refuses (the first answer stands), and the
   dispatch throws. *)
CloseCall(r) ==
  LET d == run[r]
      closed == [journal EXCEPT ![d.call].outcome =
                   IF d.answer = "ok" THEN "settled" ELSE "error"]
      after  == Goto(d, IF d.answer = "ok" THEN "routing" ELSE "unsure") IN
  /\ At(r, "answered")
  /\ \/ d.answer = "timeout" /\ Step(r, after) /\ UNCHANGED <<journal, faults>>
     \/ /\ d.answer # "timeout" /\ journal[d.call].outcome = "open"
        /\ journal' = closed /\ Step(r, after) /\ UNCHANGED faults
     \/ /\ d.answer # "timeout" /\ journal[d.call].outcome = "open"
        /\ journal' \in {journal, closed} /\ Lost(r)
     \/ /\ d.answer # "timeout" /\ journal[d.call].outcome # "open"
        /\ Step(r, Over(d, "error")) /\ UNCHANGED <<journal, faults>>
  /\ UNCHANGED <<job, session, lease, landed, memory, engine, orphan, lapses, crashes, unblocks>>

(* askAboutDelivery: whatever the node's policy, a person is asked. *)
AskAboutDelivery(r) ==
  LET j == run[r].job IN
  /\ At(r, "unsure")
  /\ Write(r, [job EXCEPT ![j].blocked = TRUE, ![j].asked = run[r].node],
           Stopped(Goto(run[r], "settled")))
  /\ UNCHANGED <<session, lease, outside, memory, engine, orphan>>

(* Takes an edge: the only one, the one the report names, or, when the report
   names none of several, a question. *)
Route(r) ==
  LET d == run[r]  exits == Exits[d.node] IN
  /\ At(r, "routing")
  /\ \/ /\ exits = {}
        /\ Step(r, Goto(d, "settled")) /\ UNCHANGED <<job, counters>>
     \/ \E n \in exits :
          Write(r, [job EXCEPT ![d.job].node = n],
                [d EXCEPT !.pc = "settled", !.moved = TRUE])
     \/ Cardinality(exits) > 1 /\ Stop(r, Goto(d, "settled"))
  /\ UNCHANGED <<session, lease, outside, memory, engine, orphan>>

(* How the dispatch ends once everything it owed was tried. *)
Settle(r) ==
  LET d == run[r]  e == d.ending IN
  /\ At(r, "settled")
  /\ \/ /\ d.fault \/ d.stale
        /\ Step(r, Over(d, IF d.fault THEN "error" ELSE "next"))
        /\ UNCHANGED <<job, memory, counters>>
     \/ /\ ~d.fault /\ ~d.stale /\ e.status # "none" /\ e.kind = "engine_refusal"
        /\ Stop(r, Over(d, "next"))
        /\ UNCHANGED memory
     \/ /\ ~d.fault /\ ~d.stale /\ e.status = "failed" /\ e.kind = "quota"
        /\ memory' = [memory EXCEPT ![r].cooling = @ \cup {d.job}]
        /\ Step(r, Over(d, "next"))
        /\ UNCHANGED <<job, counters>>
     \/ /\ ~d.fault /\ ~d.stale
        /\ \/ e.status # "none" /\ e.kind = "none"
           \/ e.status = "stopped" /\ e.kind = "quota"
        /\ memory' = [memory EXCEPT ![r].cooling =
                        IF e.status = "completed" THEN @ \ {d.job} ELSE @]
        /\ Step(r, Over(d, IF e.status = "completed" THEN "done" ELSE "error"))
        /\ UNCHANGED <<job, counters>>
     \/ /\ e.status = "none"
        /\ Step(r, Over(d, "done"))
        /\ UNCHANGED <<job, memory, counters>>
  /\ UNCHANGED <<session, lease, outside, engine, orphan>>

-----------------------------------------------------------------------------
(* What happens around a dispatch. *)

(* A person unblocks a job, or answers the question that blocks it. *)
Unblock(j) ==
  /\ job[j].blocked
  /\ unblocks < MaxUnblock /\ unblocks' = unblocks + 1
  /\ job' = [job EXCEPT ![j].blocked = FALSE]
  /\ UNCHANGED <<session, lease, outside, run, memory, engine, orphan, faults, lapses, crashes>>

(* Or the question about a delivery: an answer nobody can read counts as retry,
   and `done` goes the way of `skip`. *)
AnswerDelivery(j, said) ==
  /\ job[j].asked # NoNode
  /\ unblocks < MaxUnblock /\ unblocks' = unblocks + 1
  /\ job' = [job EXCEPT ![j].blocked = FALSE, ![j].asked = NoNode,
                        ![j].decided[job[j].asked] = said]
  /\ UNCHANGED <<session, lease, outside, run, memory, engine, orphan, faults, lapses, crashes>>

(* The instant the quota resets, or the rung of the ladder, goes by. *)
WarmUp(r, j) ==
  /\ j \in memory[r].cooling
  /\ memory' = [memory EXCEPT ![r].cooling = @ \ {j}]
  /\ UNCHANGED <<job, session, lease, outside, run, engine, orphan, counters>>

(* A runner dies and comes back: streaks and waits were in its memory.  Its
   engine is told to stop by the exit hook, which a SIGKILL does not run: then
   the engine lives on. *)
Crash(r) ==
  /\ crashes < MaxCrash /\ crashes' = crashes + 1
  /\ run' = [run EXCEPT ![r] = Idle]
  /\ memory' = [memory EXCEPT ![r] = Fresh]
  /\ engine' = [engine EXCEPT ![r] = NoJob]
  /\ \/ UNCHANGED orphan
     \/ /\ engine[r] # NoJob
        /\ orphan' = orphan \cup {[job |-> engine[r], runner |-> r, held |-> ~run[r].lapsed]}
  /\ UNCHANGED <<job, session, lease, outside, faults, lapses, unblocks>>

OrphanEnds(o) ==
  /\ orphan' = orphan \ {o}
  /\ UNCHANGED <<job, session, lease, outside, run, memory, engine, counters>>

-----------------------------------------------------------------------------

Init ==
  /\ job = [j \in Job |-> [node |-> Entry, blocked |-> FALSE, asked |-> NoNode,
                           decided |-> [n \in Delivers |-> "none"]]]
  /\ session = <<>> /\ lease = [j \in Job |-> NoRunner]
  /\ journal = <<>> /\ landed = [j \in Job |-> [n \in Delivers |-> 0]]
  /\ run = [r \in Runner |-> Idle]
  /\ memory = [r \in Runner |-> Fresh]
  /\ engine = [r \in Runner |-> NoJob] /\ orphan = {}
  /\ faults = 0 /\ lapses = 0 /\ crashes = 0 /\ unblocks = 0

Loop(r) ==
  \/ Poll(r) \/ EndPass(r) \/ Release(r)
  \/ \E j \in Job : Take(r, j) \/ PassOver(r, j) \/ LoseRequest(r, j)

BeforeSession(r) ==
  \/ CoolDown(r) \/ ReadJob(r) \/ SettleSkip(r) \/ SettleRetry(r)
  \/ FailToStart(r) \/ StartSession(r) \/ OpenSession(r)

AfterSession(r) ==
  \/ \E e \in Ending : EngineEnds(r, e)
  \/ FinishSession(r) \/ Decide(r) \/ AdvanceBench(r)
  \/ LookBack(r) \/ Intend(r) \/ CloseCall(r) \/ AskAboutDelivery(r)
  \/ \E answer \in {"ok", "error", "timeout"} : Call(r, answer)
  \/ Route(r) \/ Settle(r)

RunnerStep(r) == Loop(r) \/ BeforeSession(r) \/ AfterSession(r)

Next ==
  \/ \E r \in Runner : RunnerStep(r) \/ Crash(r) \/ \E j \in Job : WarmUp(r, j)
  \/ \E j \in Job : \/ Expire(j) \/ Lapse(j) \/ Unblock(j)
                    \/ AnswerDelivery(j, "retry") \/ AnswerDelivery(j, "skip")
  \/ \E o \in orphan : OrphanEnds(o)

Spec == Init /\ [][Next]_vars

(* A runner's loop never pauses for good: every request has a timeout and every
   session two clocks.  The bench's install and the git commands have neither,
   and are taken to end.  Leases that are not renewed expire, waits go by; an
   orphaned engine may work for ever. *)
FairSpec ==
  /\ Spec
  /\ \A r \in Runner : WF_vars(RunnerStep(r))
  /\ \A r \in Runner, j \in Job : WF_vars(WarmUp(r, j))
  /\ \A j \in Job : WF_vars(Expire(j))

-----------------------------------------------------------------------------
(* Correctness. *)

(* Rows, passes and memories keep their shape; a dispatch past its POST names a
   session that exists. *)
TypeOK ==
  /\ job \in [Job -> JobRow] /\ session \in Seq(SessionRow)
  /\ lease \in [Job -> Runner \cup {NoRunner}]
  /\ journal \in Seq(CallRow) /\ landed \in [Job -> [Delivers -> Nat]]
  /\ run \in [Runner -> RunRow] /\ memory \in [Runner -> MemoryRow]
  /\ engine \in [Runner -> Job \cup {NoJob}] /\ orphan \subseteq OrphanRow
  /\ \A r \in Runner : run[r].sid \in 0 .. Len(session)
  /\ \A r \in Runner : run[r].call \in 0 .. Len(journal)

(* Two engines never work on one job while a lease says whose it is: every way
   out of a dispatch stops the engine before the lease is given back, the
   failures between the engine coming up and its end included, and the engine of
   a killed runner keeps every other off its job as long as that lease runs.
   What remains is an engine that outlived its lease, under a dispatch that
   could not renew it or with no runner at all. *)
OneEnginePerJob ==
  /\ \A r, s \in Runner :
       r # s /\ engine[r] # NoJob /\ engine[r] = engine[s]
         => run[r].lapsed \/ run[s].lapsed
  /\ \A o \in orphan, r \in Runner :
       engine[r] = o.job => ~o.held \/ run[r].lapsed
  /\ \A o, p \in orphan : o # p /\ o.job = p.job => ~(o.held /\ p.held)

(* "Two owners for one flag is how a work ends up blocked with nothing pending":
   a dispatch stops its job once or moves it once, never both, and one that ends
   well after a completed session did exactly one of the two, unless the node is
   final: a job is never left standing to be run again.  An engine's refusal is
   decided last, so a session that asked and was then refused is the exception. *)
OneWayOut ==
  \A r \in Runner :
    LET d == run[r]  ways == d.stops + (IF d.moved THEN 1 ELSE 0) IN
    /\ ways > 1 => d.ending.asks /\ d.ending.kind = "engine_refusal"
    /\ d.pc = "releasing" /\ d.result \in {"done", "next"} /\ d.ending.status = "completed"
         => ways = 1 \/ Exits[d.node] = {}

(* RF-36: a step that cannot be repeated is not repeated.  Whatever fails and
   whoever crashes between the intent, the call and the outcome, each time the
   tool does it again follows a call that the log closed as an error, failed by
   its answer or given up by a person's retry, until a lease lapses under a
   dispatch.  A call that never reported is never repeated on its own. *)
DeliveredOnce ==
  \A j \in Job, n \in Delivers :
    lapses > 0 \/ landed[j][n] <= 1 + Cardinality(Calls(j, n, "error"))

(* Every lease comes back: whatever the dispatch ends with, and whether or not
   the release gets through, the job is free again in the end, if the bench's
   install and git come to an end, which no clock sees to. *)
LeaseComesBack ==
  \A j \in Job : lease[j] # NoRunner ~> lease[j] = NoRunner

(* A job that does not fail is not stopped: completed and due again, stopped by
   its clocks or with an upload that throws, it is the first of every poll. *)
HeldUp(j) ==
  /\ Len(session) = MaxSession
  /\ \E s \in DOMAIN session :
       session[s].job # j /\ session[s].status \notin {"failed", "refused"}

(* A job that cannot run does not stall the ones behind it: the one that fails
   before its session is stopped at the ceiling, the one that fails in it is
   stopped by the streak, and one out of quota is passed over in the same pass.
   One ahead whose sessions do not fail may stall it without end, and HeldUp is
   where the bound on sessions cuts such a behaviour off. *)
NobodyStarves ==
  \A j \in Job :
    [](j \in Released /\ lease[j] = NoRunner
         => <>(lease[j] # NoRunner \/ j \notin Released \/ HeldUp(j)))
=============================================================================
