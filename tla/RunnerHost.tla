----------------------------- MODULE RunnerHost -----------------------------
(***************************************************************************)
(* The runner's own process: its startup, its loop and its shutdown        *)
(* (packages/runner/src/cli/run.ts and cli/index.ts), over the session     *)
(* process of the dispatch in flight (SessionProcess).                     *)
(*                                                                         *)
(* A signal handler and a timer run between any two steps of the loop; what *)
(* they know of a session is the cancel the dispatch announced.  What a    *)
(* tick does on the board is Dispatch's, reduced here to whether it opens a *)
(* session and how it ends.                                                *)
(***************************************************************************)
EXTENDS SessionProcess

CONSTANT NoSession

ASSUME HostAssumption == NoSession \notin Session

VARIABLE host

hostVars == <<session, runner, host>>

\* `grace` says whether the shutdown's clock is running, `live` whose cancel was
\* announced, `dispatch` the session of the dispatch in flight.
Booting == [pc |-> "startup", stopping |-> FALSE, grace |-> FALSE,
            live |-> NoSession, dispatch |-> NoSession]

At(pc)   == runner = "up" /\ host.pc = pc
Goto(pc) == host' = [host EXCEPT !.pc = pc] /\ UNCHANGED <<session, runner>>

\* The loop's own stop check.
GoOn(pc) == Goto(IF host.stopping THEN "leaving" ELSE pc)

-----------------------------------------------------------------------------
(* Startup and loop (runRunner).                                           *)

\* The pairing refused: nothing to hand back.  Any other phase that fails, and a
\* stop seen between two of them, goes through the deregistration.
Boot ==
    /\ At("startup")
    /\ Goto("left") \/ Goto("leaving") \/ GoOn("looking")

Look == At("looking") /\ GoOn("ticking")

\* No candidate, no lease, or a request of the tick that fails.
FindNothing == At("ticking") /\ Goto("between")

\* A job leased and planned: the dispatch starts its session.
Begin(s) ==
    /\ At("ticking") /\ Start(s)
    /\ host' = [host EXCEPT !.pc = "starting", !.dispatch = s]

\* startSession rejected: the work is stopped and the same pass goes on, or the
\* tick fails.
NotStarted ==
    /\ At("starting") /\ session[host.dispatch].status = "rejected"
    /\ Goto("ticking") \/ Goto("between")

\* Fault: whoever comes up after the grace is left to run.
LateComeUp(s) ==
    /\ At("starting") /\ session[s].status = "pending"
    /\ Becomes(s, Up(session[s]))
    /\ host' = [host EXCEPT !.pc = "recording", !.live = s]

\* 'spawn', start() and onSessionStarted, in one turn of the event loop.  The
\* session that comes up when the grace has run out gets none of its own.
ComeUp(s) ==
    LET late == host.stopping /\ ~host.grace
    IN  /\ At("starting") /\ session[s].status = "pending"
        /\ Becomes(s, IF late THEN Cancelled(Up(session[s])) ELSE Up(session[s]))
        /\ host' = [host EXCEPT !.pc = "recording",
                                !.live = IF late THEN NoSession ELSE s]

\* POST /sessions answers, or fails and the engine is told to stop: then the
\* dispatch does not wait for its end.
Record ==
    /\ At("recording")
    /\ \/ Goto("waiting")
       \/ /\ Becomes(host.dispatch, Cancelled(session[host.dispatch]))
          /\ host' = [host EXCEPT !.pc = "between", !.live = NoSession]

\* The listener was told of the end: nothing is left to cancel.
Hear ==
    /\ At("waiting") /\ Finished(session[host.dispatch])
    /\ host' = [host EXCEPT !.pc = "reporting", !.live = NoSession]
    /\ UNCHANGED <<session, runner>>

\* What the session's end writes.  A dispatch that ends blocked lets the pass go
\* on with the next candidate, and no stop is looked at before it.
Report == At("reporting") /\ (Goto("ticking") \/ Goto("between"))

\* The re-check, the heartbeat and the interval, which a stop cuts short.
Rest == At("between") /\ GoOn("looking")

\* Deregistered, the listeners taken off and the grace disarmed.
Leave ==
    /\ At("leaving")
    /\ host' = [host EXCEPT !.pc = "left", !.grace = FALSE]
    /\ UNCHANGED <<session, runner>>

\* The command never calls process.exit: the process ends when nothing is left
\* to do.  A timer, an engine and a pipe somebody holds are something left.
Quiet(r) ==
    /\ r.status \in {"none", "rejected"} \cup Terminal
    /\ r.escalation = "off" /\ ~r.net
    /\ r.engine \in {"none", "dead"} /\ ~r.helper
    /\ \A c \in Channel : r.pipe[c] = <<>>

Depart ==
    /\ At("left")
    /\ \A s \in Session : Quiet(session[s])
    /\ runner' = "exited"
    /\ UNCHANGED <<session, host>>

-----------------------------------------------------------------------------
(* Shutdown (runRunnerCli).                                                *)

\* forceDown: the grace is over, and the session somebody announced goes down.
ForceDown ==
    /\ host' = [host EXCEPT !.grace = FALSE, !.live = NoSession]
    /\ IF host.live = NoSession THEN UNCHANGED <<session, runner>>
       ELSE Becomes(host.live, Cancelled(session[host.live]))

\* SIGINT or SIGTERM while the listeners are on: the first one stops the loop
\* and starts the grace, the next one does not wait for it.
SignalArrives ==
    /\ runner = "up" /\ host.pc # "left"
    /\ \/ /\ ~host.stopping
          /\ host' = [host EXCEPT !.stopping = TRUE, !.grace = TRUE]
          /\ UNCHANGED <<session, runner>>
       \/ host.stopping /\ (host.grace \/ host.live # NoSession) /\ ForceDown

GraceEnds == runner = "up" /\ host.grace /\ ForceDown

-----------------------------------------------------------------------------
HostInit ==
    /\ session = [s \in Session |-> Unborn] /\ runner = "up"
    /\ host = Booting

Loop ==
    \/ Boot \/ Look \/ FindNothing \/ NotStarted
    \/ Record \/ Hear \/ Report \/ Rest \/ Leave \/ Depart

HostNext ==
    \/ Loop \/ SignalArrives \/ GraceEnds
    \/ \E s \in Session : Begin(s) \/ ComeUp(s)
    \/ /\ UNCHANGED host
       /\ \/ \E s \in Session : FailToComeUp(s) \/ Callback(s) \/ Engine(s)
          \/ RunnerExits
          \/ RunnerIsKilled

HostSpec == HostInit /\ [][HostNext]_hostVars

\* Every request of the loop has a timeout, so the loop goes on; the event loop
\* runs what is due; timers fire; an engine that heeds SIGTERM ends.  Nothing is
\* asked of an engine nobody signalled, nor of a person to signal twice.
HostFairSpec ==
    /\ HostSpec
    /\ WF_hostVars(Loop)
    /\ WF_hostVars(GraceEnds)
    /\ \A s \in Session :
         /\ WF_hostVars(ComeUp(s) \/ (FailToComeUp(s) /\ UNCHANGED host))
         /\ WF_hostVars(WallClock(s) /\ UNCHANGED host)
         /\ WF_hostVars(Escalate(s) /\ UNCHANGED host)
         /\ WF_hostVars(SafetyNet(s) /\ UNCHANGED host)
         /\ WF_hostVars(Exit(s) /\ session[s].engine = "ending" /\ UNCHANGED host)
         /\ \A c \in Channel : WF_hostVars(Data(s, c) /\ UNCHANGED host)

-----------------------------------------------------------------------------
EngineGone(s) ==
    \/ session[s].engine \in {"none", "dead"}
    \/ session[s].temper = "foreign"
    \/ runner = "killed"
    \/ runner = "exited" /\ session[s].temper = "deaf"

\* A session under a wall clock, or told to stop, ends: its listener is told
\* (while there is a runner to tell it) though the engine ignores SIGTERM or a
\* stray helper keeps the pipes open, and no engine is left running behind it.
SessionsEnd ==
    \A s \in Session :
      (Live(session[s]) /\ (session[s].limit \/ session[s].order # "none"))
        ~> (runner = "up" => Finished(session[s])) /\ EngineGone(s)

\* One signal is enough: the loop returns and the process ends, whatever it was
\* doing and whatever comes up meanwhile, with no engine left to itself.
RunnerEnds ==
    (host.stopping /\ runner = "up")
      ~> /\ \A s \in Session : EngineGone(s)
         /\ \/ runner # "up"
            \/ host.pc = "left" /\ \E s \in Session : session[s].temper \in {"leaky", "foreign"}

\* "Stopping always ends, and leaves no orphan session", of a session and of the
\* runner.  The exceptions are the code's: an engine the runner may not signal,
\* a runner that is killed, an engine that ignores the only signal a crashing
\* runner can still send; and a runner that has left its loop but is kept up by
\* the pipes a stray helper holds, which nothing destroys.  What a dispatch does
\* after its session is taken to return, and a bench's install has no clock.
StoppingEnds == SessionsEnd /\ RunnerEnds
=============================================================================
