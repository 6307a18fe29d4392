------------------------------ MODULE JobBoard ------------------------------
(***************************************************************************)
(* The control plane's record of the work: jobs travelling one graph, the  *)
(* sessions that ran on them, the questions raised about them, the leases  *)
(* that hold them (LeaseTable has their table), and the one fact the        *)
(* control plane asserts about itself, execution.finished.                  *)
(*                                                                         *)
(* Every handler is one synchronous transaction and so one action.  The    *)
(* exception is PATCH /sessions/:id/finish with a transcript over the cap, *)
(* which awaits the artifact store between its check and its transaction.  *)
(* A refusal that writes nothing is a stuttering step.  The hook rows and  *)
(* log events that a handler adds beside the state below are not modelled. *)
(***************************************************************************)
EXTENDS Naturals, FiniteSets, Sequences

CONSTANTS
  Job,           \* ids the job table may come to hold
  NoJob,
  Round,         \* execution ids a job may be created with
  NoRound,       \* execution_id NULL
  Node,          \* nodes of the graph version
  Final,         \* its final_nodes
  Working,       \* nodes that pin a skill or call a subgraph
  Ceiling,       \* max_consecutive_failures of the version
  Parent,        \* parent_job_id values a creation may carry
  DependsOn,     \* depends_on lists a creation may carry
  Outcome,       \* verdicts a finish may report
  MaxSession,    \* bound: sessions ever opened
  MaxWaiting,    \* bound: finishes awaiting the artifact store at once
  MaxQuestion    \* bound: questions ever asked

ASSUME JobBoardAssumption ==
  /\ NoJob \notin Job /\ NoRound \notin Round
  /\ Final \subseteq Node /\ Working \subseteq Node
  /\ Ceiling \in Nat \ {0}
  /\ Parent \subseteq Job \cup {NoJob}
  /\ DependsOn \subseteq SUBSET Job
  /\ MaxSession \in Nat /\ MaxWaiting \in Nat /\ MaxQuestion \in Nat

VARIABLES
  row,         \* job, job_parent and job_dependency
  cancelled,   \* job_cancellation
  lease,       \* what became of the job's last lease: LeaseTable has the rows
  session,     \* the session table, in id order
  finishing,   \* finish requests awaiting the artifact store
  question,    \* the input_request table, in id order
  announced    \* execution.finished events in the log, per round

vars == <<row, cancelled, lease, session, finishing, question, announced>>

-----------------------------------------------------------------------------

NoRow == [round |-> NoRound, node |-> "none", blocked |-> FALSE,
          parent |-> NoJob, deps |-> {}, born |-> FALSE]

JobRow == [round : Round \cup {NoRound}, node : Node, blocked : BOOLEAN,
           parent : Job \cup {NoJob}, deps : SUBSET Job, born : {TRUE}]

Born(tab) == {j \in Job : tab[j].born}
JobsOf(tab, r) == {j \in Born(tab) : tab[j].round = r}

(* How a session may end, as its finish reports it: with an output the node's
   schema accepted or without one, failed plainly, failed with a failure_kind
   (engine_refusal or quota), or stopped (timed_out, cancelled...). *)
Verdict == {"completed", "no_output", "failed", "refused", "stopped"}

ASSUME OutcomeAssumption == Outcome \subseteq Verdict

SessionRow == [job : Job, node : Node, status : Verdict \cup {"open"},
               draft : BOOLEAN]

(* The column status reads `failed` for both; failure_kind is not a column. *)
Failed(s) == s.status \in {"failed", "refused"}

(* A question, with the answer events the log carries for it. *)
QuestionRow == [job : Job, status : {"pending", "answered"}, answers : Nat]

(* A lease row that was released leaves the job as free as if there had been
   none; one that expired says so. *)
LeaseState == {"free", "active", "expired"}

-----------------------------------------------------------------------------
(* What the projection derives. *)

(* hasArrived: an unblocked job on a final node; where the node has work of its
   own, a session on it must have completed with an accepted output. *)
Completed(tab, ses, j) ==
  /\ ~tab[j].blocked
  /\ tab[j].node \in Final
  /\ tab[j].node \in Working =>
       \E s \in DOMAIN ses : /\ ses[s].job = j /\ ses[s].node = tab[j].node
                             /\ ses[s].status = "completed"

(* What announceFinishedExecution asks of a round. *)
Ended(tab, ses, held, r) ==
  /\ JobsOf(tab, r) # {}
  /\ \A j \in JobsOf(tab, r) : Completed(tab, ses, j) /\ held[j] # "active"

(* Fault: the log is not asked whether the round ended before. *)
ForgetfulAnnounce(r, tab, ses, held) ==
  announced' = IF r # NoRound /\ announced[r] < 2 /\ Ended(tab, ses, held, r)
               THEN [announced EXCEPT ![r] = @ + 1]
               ELSE announced

(* Fault: the leases over the round's jobs are not asked. *)
HastyAnnounce(r, tab, ses, held) ==
  announced' = IF /\ r # NoRound /\ announced[r] = 0
                  /\ JobsOf(tab, r) # {}
                  /\ \A j \in JobsOf(tab, r) : Completed(tab, ses, j)
               THEN [announced EXCEPT ![r] = @ + 1]
               ELSE announced

(* announceFinishedExecution, over the tables as the caller's transaction has
   written them so far: at most one event per round, ever. *)
Announce(r, tab, ses, held) ==
  announced' = IF r # NoRound /\ announced[r] = 0 /\ Ended(tab, ses, held, r)
               THEN [announced EXCEPT ![r] = @ + 1]
               ELSE announced

Children(tab, j) == {c \in Born(tab) : tab[c].parent = j}

(* deriveDispatchHold, the first match first. *)
DispatchHold(j) ==
  IF j \in cancelled THEN "cancelled"
  ELSE IF \E d \in row[j].deps : ~Completed(row, session, d) THEN "dependencies"
  ELSE IF \E c \in Children(row, j) : ~Completed(row, session, c) THEN "children"
  ELSE "none"

-----------------------------------------------------------------------------
(* Jobs. *)

(* POST /jobs: a parent that exists and is not cancelled, dependencies that
   exist.  A job may be born on a final node, which may end its round. *)
CreateJob(j, r, n, p, deps) ==
  /\ j \notin Born(row)
  /\ p # NoJob => p \in Born(row) \ cancelled
  /\ deps \subseteq Born(row)
  /\ row' = [row EXCEPT ![j] = [round |-> r, node |-> n, blocked |-> FALSE,
                                parent |-> p, deps |-> deps, born |-> TRUE]]
  /\ Announce(r, row', session, lease)
  /\ UNCHANGED <<cancelled, lease, session, finishing, question>>

(* Fault: an id that names no job is not refused. *)
FaultyTransition(j, n) ==
  /\ row' = [row EXCEPT ![j].node = n]
  /\ Announce(row[j].round, row', session, lease)
  /\ UNCHANGED <<cancelled, lease, session, finishing, question>>

(* POST /jobs/:id/transitions: neither the edges of the graph, nor the flag,
   the lease or a cancellation are asked. *)
Transition(j, n) ==
  /\ j \in Born(row)
  /\ row' = [row EXCEPT ![j].node = n]
  /\ Announce(row[j].round, row', session, lease)
  /\ UNCHANGED <<cancelled, lease, session, finishing, question>>

(* POST /jobs/:id/blocks *)
Block(j) ==
  /\ j \in Born(row)
  /\ row' = [row EXCEPT ![j].blocked = TRUE]
  /\ UNCHANGED <<cancelled, lease, session, finishing, question, announced>>

(* POST /jobs/:id/unblocks *)
Unblock(j) ==
  /\ j \in Born(row)
  /\ row' = [row EXCEPT ![j].blocked = FALSE]
  /\ UNCHANGED <<cancelled, lease, session, finishing, question, announced>>

Open(j) == ~Completed(row, session, j) /\ j \notin cancelled

(* The open children of a set of jobs. *)
OpenChildren(S) == {c \in Born(row) : row[c].parent \in S /\ Open(c)}

(* Fault: only the direct children. *)
ShallowCascade(j) == {j} \cup OpenChildren({j})

(* cancelJob's descent: the least set with j in it that is closed under open
   children.  It goes neither up nor through a completed or cancelled child. *)
Cascade(j) ==
  {c \in Born(row) : \A S \in SUBSET Born(row) :
                       (j \in S /\ OpenChildren(S) \subseteq S) => c \in S}

(* POST /jobs/:id/cancellations: all or nothing; the session and the lease of a
   cancelled job are left alone, and no round is looked at. *)
Cancel(j) ==
  /\ j \in Born(row)
  /\ Open(j)
  /\ cancelled' = cancelled \cup Cascade(j)
  /\ UNCHANGED <<row, lease, session, finishing, question, announced>>

-----------------------------------------------------------------------------
(* Questions. *)

(* POST /input-requests: the question and the block in one transaction, whether
   or not the job has a question already. *)
Ask(j) ==
  /\ Len(question) < MaxQuestion
  /\ j \in Born(row)
  /\ question' = Append(question, [job |-> j, status |-> "pending",
                                   answers |-> 0])
  /\ row' = [row EXCEPT ![j].blocked = TRUE]
  /\ UNCHANGED <<cancelled, lease, session, finishing, announced>>

(* Fault: neither the route nor the UPDATE asks for a pending question. *)
FaultyAnswerable(q) == question[q].answers < 2

Answerable(q) == question[q].status = "pending"

(* PATCH /input-requests/:id/answer and .../auto-resolution: the flag falls
   whatever raised it. *)
Answer(q) ==
  /\ Answerable(q)
  /\ question' = [question EXCEPT ![q].status = "answered", ![q].answers = @ + 1]
  /\ row' = [row EXCEPT ![question[q].job].blocked = FALSE]
  /\ UNCHANGED <<cancelled, lease, session, finishing, announced>>

-----------------------------------------------------------------------------
(* Sessions. *)

(* POST /sessions: neither the lease, the flag nor another open session of the
   job is asked, and the node is the one the body names. *)
OpenSession(j, n) ==
  /\ Len(session) < MaxSession
  /\ j \in Born(row)
  /\ session' = Append(session, [job |-> j, node |-> n, status |-> "open",
                                 draft |-> FALSE])
  /\ UNCHANGED <<row, cancelled, lease, finishing, question, announced>>

(* PATCH /sessions/:id/partial-text, which a closed session ignores. *)
WriteDraft(s) ==
  /\ session[s].status = "open"
  /\ session' = [session EXCEPT ![s].draft = TRUE]
  /\ UNCHANGED <<row, cancelled, lease, finishing, question, announced>>

(* The sessions of one job on one node, by id. *)
RunsOn(ses, j, n) ==
  {s \in DOMAIN ses : ses[s].job = j /\ ses[s].node = n}

(* Fault: the streak has to pass the ceiling. *)
LateStreak(ses, j, n) ==
  LET run    == RunsOn(ses, j, n)
      recent == {s \in run : Cardinality({t \in run : t >= s}) <= Ceiling + 1}
  IN  Cardinality(recent) > Ceiling /\ \A s \in recent : Failed(ses[s])

(* blockOnRepeatedFailure's query: the last Ceiling sessions of the pair exist
   and every one reads `failed`, whatever kind of failure it was. *)
Streak(ses, j, n) ==
  LET run    == RunsOn(ses, j, n)
      recent == {s \in run : Cardinality({t \in run : t >= s}) <= Ceiling}
  IN  Cardinality(recent) = Ceiling /\ \A s \in recent : Failed(ses[s])

(* Only a plain failure asks for the streak, and only of an unblocked job. *)
BlockOnStreak(s, verdict, ses) ==
  LET j == session[s].job IN
  row' = IF verdict = "failed" /\ Streak(ses, j, session[s].node)
         THEN [row EXCEPT ![j].blocked = TRUE]
         ELSE row

(* Fault: the route's check is trusted, and the UPDATE has no guard. *)
FaultyClose(s, verdict) ==
  /\ session' = [session EXCEPT ![s].status = verdict, ![s].draft = FALSE]
  /\ Announce(row[session[s].job].round, row, session', lease)
  /\ BlockOnStreak(s, verdict, session')
  /\ UNCHANGED <<cancelled, lease, question>>

(* The transaction of finishSession: the UPDATE clears the draft with the
   status, the round is looked at, and the streak is counted last. *)
Close(s, verdict) ==
  /\ session[s].status = "open"
  /\ session' = [session EXCEPT ![s].status = verdict, ![s].draft = FALSE]
  /\ Announce(row[session[s].job].round, row, session', lease)
  /\ BlockOnStreak(s, verdict, session')
  /\ UNCHANGED <<cancelled, lease, question>>

(* PATCH /sessions/:id/finish whose transcript fits the column. *)
Finish(s, verdict) ==
  /\ Close(s, verdict)
  /\ UNCHANGED finishing

(* ... and one whose transcript does not: the route saw the session open, and
   the request now waits for the store. *)
BeginFinish(s, verdict) ==
  /\ session[s].status = "open"
  /\ Cardinality(finishing) < MaxWaiting
  /\ finishing' = finishing \cup {<<s, verdict>>}
  /\ UNCHANGED <<row, cancelled, lease, session, question, announced>>

(* The store answered: the guarded UPDATE takes the session, or finds it taken
   and the transaction falls with nothing written. *)
ResumeFinish(s, verdict) ==
  /\ <<s, verdict>> \in finishing
  /\ finishing' = finishing \ {<<s, verdict>>}
  /\ \/ Close(s, verdict)
     \/ /\ session[s].status # "open"
        /\ UNCHANGED <<row, cancelled, lease, session, question, announced>>

-----------------------------------------------------------------------------
(* Leases, as this side sees them. *)

(* POST /leases: a held job is refused; a blocked or a completed one is not. *)
GrantLease(j) ==
  /\ j \in Born(row) /\ lease[j] # "active"
  /\ DispatchHold(j) = "none"
  /\ lease' = [lease EXCEPT ![j] = "active"]
  /\ UNCHANGED <<row, cancelled, session, finishing, question, announced>>

(* Fault: the release looks at no round. *)
FaultyReleaseLease(j) ==
  /\ lease[j] = "active"
  /\ lease' = [lease EXCEPT ![j] = "free"]
  /\ UNCHANGED <<row, cancelled, session, finishing, question, announced>>

(* POST /leases/:id/releases, which looks at the round once the lease is gone. *)
ReleaseLease(j) ==
  /\ lease[j] = "active"
  /\ lease' = [lease EXCEPT ![j] = "free"]
  /\ Announce(row[j].round, row, session, lease')
  /\ UNCHANGED <<row, cancelled, session, finishing, question>>

(* The sweep, which looks at no round. *)
ExpireLease(j) ==
  /\ lease[j] = "active"
  /\ lease' = [lease EXCEPT ![j] = "expired"]
  /\ UNCHANGED <<row, cancelled, session, finishing, question, announced>>

(* The control plane dies and comes back: the tables are on disk, a finish that
   was waiting for the store is not. *)
Restart ==
  /\ finishing' = {}
  /\ UNCHANGED <<row, cancelled, lease, session, question, announced>>

-----------------------------------------------------------------------------

Init ==
  /\ row = [j \in Job |-> NoRow]
  /\ cancelled = {} /\ lease = [j \in Job |-> "free"]
  /\ session = <<>> /\ finishing = {} /\ question = <<>>
  /\ announced = [r \in Round |-> 0]

JobStep(j) ==
  \/ \E r \in Round \cup {NoRound}, n \in Node, p \in Parent,
        deps \in DependsOn : CreateJob(j, r, n, p, deps)
  \/ \E n \in Node : Transition(j, n) \/ OpenSession(j, n)
  \/ Block(j) \/ Unblock(j) \/ Cancel(j) \/ Ask(j)
  \/ GrantLease(j) \/ ReleaseLease(j) \/ ExpireLease(j)

SessionStep(s) ==
  \/ WriteDraft(s)
  \/ \E verdict \in Outcome :
       \/ Finish(s, verdict)
       \/ BeginFinish(s, verdict)
       \/ ResumeFinish(s, verdict)

Next ==
  \/ \E j \in Job : JobStep(j)
  \/ \E s \in DOMAIN session : SessionStep(s)
  \/ \E q \in DOMAIN question : Answer(q)
  \/ Restart

Spec == Init /\ [][Next]_vars

-----------------------------------------------------------------------------
(* Correctness. *)

(* Every table holds rows of its own shape. *)
TypeOK ==
  /\ row \in [Job -> JobRow \cup {NoRow}]
  /\ cancelled \subseteq Born(row)
  /\ lease \in [Job -> LeaseState]
  /\ session \in Seq(SessionRow)
  /\ finishing \subseteq (DOMAIN session) \X Verdict
  /\ question \in Seq(QuestionRow)
  /\ announced \in [Round -> Nat]

(* "Once, forever": however often the last job leaves its final node and comes
   back, and whichever of the four callers looks, the log carries at most one
   execution.finished per round (the alreadyAnnounced guard). *)
RoundEndsOnce == \A r \in Round : announced[r] <= 1

RaisesAFlag == \E j \in Job : row'[j].blocked /\ ~row[j].blocked
LowersAFlag == \E j \in Job : row[j].blocked /\ ~row'[j].blocked
LosesALease == \E j \in Job : lease'[j] = "expired" /\ lease[j] # "expired"

EndsNow(r) == ~Ended(row, session, lease, r) /\ Ended(row', session', lease', r)

(* The control plane never declares a round over that is not: when the event is
   written every job of the round is complete and no active lease holds one.
   The steps left out are those that raise a flag in the same transaction:
   finishSession looks at the round before it counts the streak, and may block
   a job of the round it has just declared over. *)
EndIsTrue ==
  [][\A r \in Round :
       announced'[r] # announced[r]
         => RaisesAFlag \/ Ended(row', session', lease', r)]_vars

(* No round ends in silence: of all the steps that can complete a round's last
   condition (a creation, a transition, a session's end, a release), each
   declares it in its own transaction.  A sweep does not, as its comment says,
   and neither does a lowered flag (unblockJob, answer), which no comment says. *)
EndIsAnnounced ==
  [][\A r \in Round :
       EndsNow(r) => announced'[r] # 0 \/ LosesALease \/ LowersAFlag]_vars

(* A draft exists only while its session is open, though drafts are written by
   a fire-and-forget tick that crosses the closure (the literal NULL of
   finishSession, the status guard of writePartialText). *)
DraftOnlyWhileOpen ==
  \A s \in DOMAIN session : session[s].draft => session[s].status = "open"

(* A session ends once: of two finishes that both found it open, one of them
   waiting for the artifact store, the second changes nothing, on the session
   or anywhere else on the row (the guarded UPDATE of finishSession); and the
   session that ended holds no draft, whatever tick was still on its way. *)
SessionEndsOnce ==
  [][\A s \in DOMAIN session :
       session[s].status # "open" => session'[s] = session[s] /\ ~session[s].draft]_vars

(* A question is answered once, by a person or by the gate: the log never
   carries two answers to it (refuseUnlessPending and the guarded UPDATE). *)
OneAnswerPerQuestion ==
  \A q \in DOMAIN question :
    question[q].answers = IF question[q].status = "answered" THEN 1 ELSE 0

(* The session that closed in this step, if one did. *)
Closing == {s \in DOMAIN session : session[s] # session'[s]
                                   /\ session'[s].status # "open"}

(* The newest sessions of a pair, back to the first that did not fail. *)
FailedTail(ses, j, n) ==
  {s \in RunsOn(ses, j, n) : \A t \in RunsOn(ses, j, n) :
                                t >= s => Failed(ses[t])}

(* Those of them whose failure was nobody else's to handle. *)
PlainTail(ses, j, n) ==
  {s \in FailedTail(ses, j, n) : ses[s].status = "failed"}

(* The control plane raised the flag because of the session that closed. *)
StreakBlocks(s) == row'[session[s].job].blocked /\ ~row[session[s].job].blocked

(* A node that keeps failing stops its job: the plain failure that brings the
   unbroken tail of failures to the ceiling's worth of plain ones leaves the job
   blocked in that very step, whatever the order the sessions opened and closed
   in. *)
FailingNodeStops ==
  [][\A s \in Closing :
       (/\ session'[s].status = "failed"
        /\ Cardinality(PlainTail(session', session[s].job, session[s].node)) >= Ceiling)
          => row'[session[s].job].blocked]_vars

(* A success zeroes the count, and so does a stop: the control plane blocks a
   job only behind an unbroken tail of failures of one node, and where no refusal
   stands in that tail the failures it counted are all plain. *)
StreakIsUnbroken ==
  [][\A s \in Closing :
       LET tail  == FailedTail(session', session[s].job, session[s].node)
           plain == PlainTail(session', session[s].job, session[s].node) IN
       StreakBlocks(s) => \/ Cardinality(plain) >= Ceiling
                          \/ Cardinality(tail) >= Ceiling /\ plain # tail]_vars

(* The failure ceiling blocks when it should; and when it should not, only by
   counting a refusal, which is what RefusalsAreNotCounted is about. *)
CeilingIsExact == FailingNodeStops /\ StreakIsUnbroken

(* "A refusal does not enter the count" (docs/spec/runner-and-controller.md, and
   the comment on blockOnRepeatedFailure): the control plane blocks a job only
   behind a ceiling's worth of plain failures.  The code does not keep to it: the
   refusal asks for no count, but the count a later failure asks for reads only
   the status, which is `failed` for both. *)
RefusalsAreNotCounted ==
  [][\A s \in Closing :
       StreakBlocks(s)
         => Cardinality(PlainTail(session', session[s].job, session[s].node))
              >= Ceiling]_vars

(* A cancel leaves no open child behind: under a job cancelled in this step,
   or born in this step, no child is open below a cancelled parent (the descent
   of cancelJob, and createJob's refusal of a cancelled parent). *)
NoOpenChildOfCancelled ==
  [][\A c \in Born(row') :
       (row'[c].parent \in cancelled' /\
          (row'[c].parent \notin cancelled \/ c \notin Born(row)))
         => Completed(row', session', c) \/ c \in cancelled']_vars

(* A cancel takes nothing it should spare: nobody completed, nobody above the
   job named, nobody behind a completed or an already cancelled child. *)
CancelStaysBelow ==
  [][LET hit == cancelled' \ cancelled IN
       /\ \A c \in hit : ~Completed(row, session, c)
       /\ Cardinality({c \in hit : row[c].parent \notin hit}) <= 1]_vars

(* A cancel reaches exactly the open family below the job named. *)
CancelIsExact == NoOpenChildOfCancelled /\ CancelStaysBelow

=============================================================================
