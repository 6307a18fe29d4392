--------------------------- MODULE SessionProcess ---------------------------
(***************************************************************************)
(* An engine's process under the runner that started it:                   *)
(* packages/runner/src/engine/process-lifecycle.ts.  The three adapters    *)
(* (Claude Code, Codex, Copilot) run their sessions through it.            *)
(*                                                                         *)
(* A row of `session` holds both sides: what the runner keeps of the       *)
(* session (status, timers, the order to stop), the operating system's     *)
(* side (the engine, a helper it left behind, the bytes in the pipes) and, *)
(* in `log`, what the listener has been told.  Time is abstract: an armed  *)
(* timer may fire at any moment.  The event loop runs one callback at a    *)
(* time, so every action is one callback; what follows the `await` of      *)
(* start() runs before any input is read, so it is part of the 'spawn'     *)
(* callback.  The stop is the POSIX one.  Who starts and who cancels a      *)
(* session is RunnerHost's, which composes these steps with its own.       *)
(***************************************************************************)
EXTENDS Naturals, Sequences

CONSTANTS Session,    \* handles of the sessions this runner opens
          Channels,   \* stdout and stderr, in the order they are drained
          Temper,     \* how engines behave, a subset of Tempers
          MaxChunk    \* bound: chunks an engine writes, per channel

Channel == {Channels[k] : k \in DOMAIN Channels}

Terminal == {"completed", "failed", "cancelled", "timed_out"}

\* "meek" ends on SIGTERM; "deaf" ignores it; "leaky" is meek and leaves a
\* helper outside its group that holds the pipes open for good; "foreign" may
\* not be signalled at all (EPERM).
Tempers == {"meek", "deaf", "leaky", "foreign"}

ASSUME SessionProcessAssumption ==
    /\ Channels \in Seq(Channel) /\ Channels # <<>>
    /\ \A j, k \in DOMAIN Channels : Channels[j] = Channels[k] => j = k
    /\ Temper \subseteq Tempers
    /\ MaxChunk \in [Channel -> Nat]

VARIABLES session,    \* one row per handle
          runner      \* "up", "exited" (its exit handlers ran) or "killed"

\* `limit` and `quiet` say whether the session has a wall clock and a silence
\* watchdog, `clock`, `silence`, `escalation` and `net` which timers are armed;
\* `pipe` holds the chunks written and not yet read, `tail` those read that end
\* no line yet; `order` remembers the first order to stop given while it ran.
Unborn == [status |-> "none", requested |-> "none", reason |-> "none",
           limit |-> FALSE, quiet |-> FALSE,
           clock |-> FALSE, silence |-> FALSE, escalation |-> "off",
           net |-> FALSE, backstop |-> FALSE,
           temper |-> "meek", engine |-> "none", code |-> 0, helper |-> FALSE,
           wrote |-> [c \in Channel |-> 0],
           pipe |-> [c \in Channel |-> <<>>],
           tail |-> [c \in Channel |-> <<>>],
           log |-> <<>>, order |-> "none"]

-----------------------------------------------------------------------------
(* What the callbacks of the lifecycle do to one session's row.            *)

Live(r)     == r.status = "running"
Finished(r) == r.status \in Terminal

\* #finish: the one way a session ends.  Timers off, the listener told, and
\* only then the status is terminal; a second call does nothing.
Finish(r, status) ==
    IF ~Live(r) THEN r
    ELSE [r EXCEPT !.clock = FALSE, !.silence = FALSE, !.escalation = "off",
                   !.net = FALSE, !.backstop = FALSE, !.status = status,
                   !.log = Append(@, [event |-> "finished", status |-> status,
                                      reason |-> r.reason])]

\* #emit: a line reaches the listener unless the session is over.
Emit(r, c, text) ==
    IF Finished(r) THEN r
    ELSE [r EXCEPT !.log = Append(@, [event |-> "line", channel |-> c,
                                      text |-> text])]

\* #armSilence: any chunk proves the engine is not silent.
ArmSilence(r) == IF r.quiet /\ ~Finished(r) THEN [r EXCEPT !.silence = TRUE] ELSE r

\* #pump: a chunk that ends a line emits it with the tail kept so far; one
\* that does not joins the tail.
Pump(r, c, chunk) ==
    LET text == Append(r.tail[c], chunk.id)
        kept == [r EXCEPT !.tail[c] = IF chunk.whole THEN <<>> ELSE text]
    IN  IF chunk.whole THEN Emit(ArmSilence(kept), c, text) ELSE ArmSilence(kept)

\* What a channel still has becomes its last line.
Flush(r, c) ==
    IF r.tail[c] = <<>> THEN r
    ELSE Emit([r EXCEPT !.tail[c] = <<>>], c, r.tail[c])

\* The leftovers of every channel, one after the other.
Drain(r) ==
    LET drained[k \in 0..Len(Channels)] ==
          IF k = 0 THEN r ELSE Flush(drained[k - 1], Channels[k])
    IN  drained[Len(Channels)]

\* #complete: whoever ordered the stop decides the status, else the exit code.
Complete(r) ==
    LET natural == IF r.code = 0 THEN "completed" ELSE "failed"
    IN  IF ~Live(r) THEN r
        ELSE Finish(Drain(r), IF r.requested = "none" THEN natural ELSE r.requested)

\* stopProcessTree: SIGTERM asks, SIGKILL takes the group.  A refused kill
\* makes the child emit 'error', which ends the session and leaves the engine.
Signal(r, signal) ==
    CASE r.engine \notin {"alive", "ending"} ->
            IF signal = "SIGKILL" THEN [r EXCEPT !.helper = @ /\ r.temper = "leaky"] ELSE r
      [] r.engine \in {"alive", "ending"} /\ r.temper = "foreign" ->
            Finish(r, IF r.requested = "none" THEN "failed" ELSE r.requested)
      [] r.engine \in {"alive", "ending"} /\ r.temper # "foreign" /\ signal = "SIGTERM" ->
            IF r.temper = "deaf" THEN r ELSE [r EXCEPT !.engine = "ending"]
      [] OTHER ->
            [r EXCEPT !.engine = "dead", !.code = 1, !.helper = @ /\ r.temper = "leaky"]

\* `requested` overwritten by every order: what the guard of #stop prevents.
OverwritingStop(r, status, reason) ==
    LET asked == [r EXCEPT !.order = IF @ = "none" THEN status ELSE @,
                           !.requested = status, !.reason = reason]
    IN  IF ~Live(r) THEN r
        ELSE IF r.escalation # "off" THEN asked
        ELSE [Signal(asked, "SIGTERM") EXCEPT !.escalation = "armed"]

\* #stop: the first order decides; while one is in flight another does
\* nothing.  The escalation is armed after the signal, even when the signal
\* itself ended the session.
Stop(r, status, reason) ==
    LET asked   == [r EXCEPT !.order = IF @ = "none" THEN status ELSE @]
        ordered == [asked EXCEPT !.requested = status, !.reason = reason]
    IN  IF ~Live(r) THEN r
        ELSE IF r.escalation # "off" THEN asked
        ELSE [Signal(ordered, "SIGTERM") EXCEPT !.escalation = "armed"]

-----------------------------------------------------------------------------
(* The runner's callbacks.                                                 *)

Becomes(s, r) == session' = [session EXCEPT ![s] = r] /\ UNCHANGED runner

\* start(): spawn throws, or the handlers are registered and the process is
\* on its way up.
Start(s) ==
    /\ runner = "up" /\ session[s].status = "none"
    /\ \/ Becomes(s, [session[s] EXCEPT !.status = "rejected"])
       \/ \E limit, quiet \in BOOLEAN, temper \in Temper :
            Becomes(s, [session[s] EXCEPT !.status = "pending", !.temper = temper,
                                          !.limit = limit, !.quiet = quiet])

\* 'spawn': running, the exit backstop and both watchdogs armed.
Up(r) == ArmSilence([r EXCEPT !.status = "running", !.engine = "alive", !.backstop = TRUE,
                              !.clock = r.limit, !.helper = r.temper = "leaky"])

\* 'error' or 'close' before 'spawn': start() rejects and the listener never
\* hears of the session.
FailToComeUp(s) ==
    /\ runner = "up" /\ session[s].status = "pending"
    /\ Becomes(s, [session[s] EXCEPT !.status = "rejected"])

\* A 'data' event: the next chunk of one channel.
Data(s, c) ==
    /\ runner = "up" /\ session[s].pipe[c] # <<>>
    /\ Becomes(s, Pump([session[s] EXCEPT !.pipe[c] = Tail(@)], c, Head(session[s].pipe[c])))

\* 'close': the engine is gone, nobody holds the pipes and they are drained.
Close(s) ==
    LET r == session[s]
    IN  /\ runner = "up" /\ Live(r)
        /\ r.engine = "dead" /\ ~r.helper
        /\ \A c \in Channel : r.pipe[c] = <<>>
        /\ Becomes(s, Complete(r))

WallClock(s) ==
    /\ runner = "up" /\ session[s].clock
    /\ Becomes(s, Stop([session[s] EXCEPT !.clock = FALSE], "timed_out", "wall_clock"))

Silence(s) ==
    /\ runner = "up" /\ session[s].silence
    /\ Becomes(s, Stop([session[s] EXCEPT !.silence = FALSE], "timed_out", "silence"))

\* cancel(), by whoever holds the handle.
Cancelled(r) == Stop(r, "cancelled", "none")

\* The grace is over: SIGKILL, and the safety net for a 'close' that never comes.
Escalate(s) ==
    /\ runner = "up" /\ session[s].escalation = "armed"
    /\ Becomes(s, [Signal(session[s], "SIGKILL") EXCEPT !.escalation = "fired", !.net = TRUE])

SafetyNet(s) ==
    /\ runner = "up" /\ session[s].net
    /\ Becomes(s, Finish([session[s] EXCEPT !.net = FALSE], session[s].requested))

-----------------------------------------------------------------------------
(* The engine, its helper and the runner's own end.                        *)

Write(s, c) ==
    LET r == session[s]
    IN  /\ runner = "up"                \* nobody reads the pipe of a dead runner
        /\ r.engine \in {"alive", "ending"} /\ r.wrote[c] < MaxChunk[c]
        /\ \E whole \in BOOLEAN :
             Becomes(s, [r EXCEPT !.wrote[c] = @ + 1,
                                  !.pipe[c] = Append(@, [id |-> r.wrote[c] + 1,
                                                         whole |-> whole])])

\* By itself, or because SIGTERM asked; the engine may leave a helper of its
\* own group that holds the pipes for a while.
Exit(s) ==
    /\ session[s].engine \in {"alive", "ending"}
    /\ \E code \in {0, 1}, helper \in BOOLEAN :
         Becomes(s, [session[s] EXCEPT !.engine = "dead", !.code = code,
                                       !.helper = @ \/ helper])

HelperEnds(s) ==
    /\ session[s].engine = "dead" /\ session[s].helper
    /\ session[s].temper # "leaky"
    /\ Becomes(s, [session[s] EXCEPT !.helper = FALSE])

\* The runner's process ends with its exit handlers run: SIGTERM to every
\* group that still has its backstop, and nothing after it.
RunnerExits ==
    /\ runner = "up"
    /\ runner' = "exited"
    /\ session' = [s \in Session |->
                     IF session[s].backstop THEN Signal(session[s], "SIGTERM")
                     ELSE session[s]]

\* SIGKILL of the runner: no handler runs.
RunnerIsKilled == runner = "up" /\ runner' = "killed" /\ UNCHANGED session

Callback(s) ==
    \/ Close(s) \/ WallClock(s) \/ Silence(s) \/ Escalate(s) \/ SafetyNet(s)
    \/ \E c \in Channel : Data(s, c)

Engine(s) == Exit(s) \/ HelperEnds(s) \/ \E c \in Channel : Write(s, c)

-----------------------------------------------------------------------------
Ended(s)       == {i \in DOMAIN session[s].log : session[s].log[i].event = "finished"}

\* What a log says was heard on a channel.
Said(log, c) ==
    LET said[k \in 0..Len(log)] ==
          IF k = 0 THEN <<>>
          ELSE IF log[k].event = "line" /\ log[k].channel = c
               THEN said[k - 1] \o log[k].text ELSE said[k - 1]
    IN  said[Len(log)]

\* The listener's contract (invariants 1 to 3 of the lifecycle, and the first
\* order of #stop): the end is told at most once, is the last thing told, and
\* is told exactly when the status turns terminal; the status is the first
\* order's however many raced, and its cause is a watchdog's only when a
\* watchdog gave that order; a session that never came up is never heard of;
\* and one that ended by itself was heard to its last byte, in order, on every
\* channel.  The watchdogs, cancel, 'close', a refused kill and the safety net
\* all race to break it.
OneEnd ==
    \A s \in Session :
      LET r == session[s]
      IN  /\ Ended(s) \subseteq {Len(r.log)}
          /\ (Ended(s) # {}) <=> Finished(r)
          /\ Finished(r) => /\ r.log[Len(r.log)].status = r.status
                            /\ r.order # "none" => r.status = r.order
                            /\ r.log[Len(r.log)].reason # "none" => r.order = "timed_out"
          /\ r.status \in {"none", "pending", "rejected"} => r.log = <<>>
          /\ Finished(r) /\ r.order = "none" /\ runner = "up" =>
                \A c \in Channel : Said(r.log, c) = [i \in 1..r.wrote[c] |-> i]
=============================================================================
