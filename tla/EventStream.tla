----------------------------- MODULE EventStream -----------------------------
(***************************************************************************)
(* The event stream (GET /v1/events/stream) and the surveyor's watcher, its  *)
(* one client that acts on what it hears: a connection that polls the log    *)
(* past a cursor of its own, and a reader that keeps the last event it        *)
(* processed, runs two lenses per finished round and reconnects for ever.     *)
(* The watcher's own death, which starts it over at the present, is left out. *)
(***************************************************************************)
EXTENDS Naturals, Sequences, FiniteSets

CONSTANTS
  MaxEvent,     \* bound: events of the project
  MaxDrop       \* bound: connections the network loses

ASSUME StreamAssumption == MaxEvent \in Nat /\ MaxDrop \in Nat

VARIABLES
  log,      \* the project's events: TRUE for one that says a round finished
  conn,     \* the connection: whether it is up, the server's cursor, the bytes on the way
  watch,    \* the watcher: where it is, its cursor (0 before the first event), its event
  lines,    \* the outcomes it wrote, in order: which event, which lens
  drops

streamVars == <<log, conn, watch, lines, drops>>

Unconnected == [up |-> FALSE, cursor |-> 0, wire |-> << >>]

Turn(stage) == watch' = [watch EXCEPT !.at = stage]

(* listEvents with the filter of this subscription: what finished past an id. *)
FinishedSince(id) ==
  LET upto[n \in 0..Len(log)] ==
        IF n = 0 THEN << >>
        ELSE IF log[n] /\ n > id THEN Append(upto[n - 1], n) ELSE upto[n - 1]
  IN  upto[Len(log)]

-----------------------------------------------------------------------------

(* recordEvent, which knows nothing of who listens. *)
Record ==
  /\ Len(log) < MaxEvent
  /\ \E finished \in BOOLEAN : log' = Append(log, finished)
  /\ UNCHANGED <<conn, watch, lines, drops>>

(* drain: everything past the connection's cursor, which moves to the last of
   it; the bounded reads of one tick follow each other without a pause. *)
Pushed(c) ==
  LET news == FinishedSince(c.cursor) IN
    IF news = << >> THEN c
    ELSE [c EXCEPT !.wire = @ \o news, !.cursor = news[Len(news)]]

Poll ==
  /\ conn.up
  /\ conn' = Pushed(conn)
  /\ UNCHANGED <<log, watch, lines, drops>>

(* runWatch: the subscription starts with no cursor. *)
Watch ==
  /\ watch.at = "off"
  /\ Turn("connecting")
  /\ UNCHANGED <<log, conn, lines, drops>>

(* Fault: a client that says where it was is given the present all the same. *)
FaultyReadCursor(header) == Len(log)

(* readCursor: the header, or the present when there is none. *)
ReadCursor(header) == IF header = 0 THEN Len(log) ELSE header

(* The request is answered, and begin reads the backlog at once. *)
Connect ==
  /\ watch.at = "connecting"
  /\ conn' = Pushed([up |-> TRUE, cursor |-> ReadCursor(watch.cursor), wire |-> << >>])
  /\ Turn("reading")
  /\ UNCHANGED <<log, lines, drops>>

(* Nobody listens, or something in between answers in their place. *)
Unanswered ==
  /\ watch.at = "connecting"
  /\ Turn("pausing")
  /\ UNCHANGED <<log, conn, lines, drops>>

(* decodeBody yields a whole block, and the watcher takes it up. *)
Hear ==
  /\ watch.at = "reading" /\ conn.wire # << >>
  /\ watch' = [watch EXCEPT !.at = "flow", !.event = Head(conn.wire)]
  /\ conn' = [conn EXCEPT !.wire = Tail(@)]
  /\ UNCHANGED <<log, lines, drops>>

(* A lens answers, or fails and is a line all the same. *)
RunFlow ==
  /\ watch.at = "flow"
  /\ lines' = Append(lines, <<watch.event, "flow">>)
  /\ Turn("cost")
  /\ UNCHANGED <<log, conn, drops>>

(* Back in the generator, the cursor is what was processed. *)
RunCost ==
  /\ watch.at = "cost"
  /\ lines' = Append(lines, <<watch.event, "cost">>)
  /\ watch' = [at |-> "reading", cursor |-> watch.event, event |-> 0]
  /\ UNCHANGED <<log, conn, drops>>

(* The connection ends: of what was on its way some arrives, the rest does not. *)
Sever ==
  \E n \in 0..Len(conn.wire) :
    conn' = [up |-> FALSE, cursor |-> 0, wire |-> SubSeq(conn.wire, 1, n)]

Drop ==
  /\ conn.up /\ drops < MaxDrop
  /\ Sever
  /\ drops' = drops + 1
  /\ UNCHANGED <<log, watch, lines>>

(* The body ends or throws: either is a connection to make again. *)
HearEnd ==
  /\ watch.at = "reading" /\ conn.wire = << >> /\ ~conn.up
  /\ Turn("pausing")
  /\ UNCHANGED <<log, conn, lines, drops>>

(* The fixed second is over. *)
Resume ==
  /\ watch.at = "pausing"
  /\ Turn("connecting")
  /\ UNCHANGED <<log, conn, lines, drops>>

WatcherStep == Hear \/ RunFlow \/ RunCost \/ HearEnd \/ Resume

StreamInit ==
  /\ log = << >>
  /\ conn = Unconnected
  /\ watch = [at |-> "off", cursor |-> 0, event |-> 0]
  /\ lines = << >>
  /\ drops = 0

-----------------------------------------------------------------------------

(* Every party stands somewhere, and the wire holds events of the log. *)
StreamTypeOK ==
  /\ log \in Seq(BOOLEAN) /\ Len(log) <= MaxEvent
  /\ conn.up \in BOOLEAN /\ conn.cursor \in 0..Len(log)
  /\ conn.wire \in Seq(1..Len(log))
  /\ watch.at \in {"off", "connecting", "reading", "flow", "cost", "pausing"}
  /\ watch.cursor \in 0..Len(log) /\ watch.event \in 0..Len(log)
  /\ lines \in Seq((1..Len(log)) \X {"flow", "cost"})
  /\ drops \in 0..MaxDrop

Lens(k) == IF k % 2 = 1 THEN "flow" ELSE "cost"

(* From the first round the watcher heard of, it looks at every round that
   finishes, once with each lens, in the log's order, whatever dropped or went
   down in between (stream.ts: exactly once, in the order the log recorded). *)
EachRoundOnce ==
  lines # << >> =>
    LET rounds == FinishedSince(lines[1][1] - 1) IN
      \A k \in DOMAIN lines :
        /\ (k + 1) \div 2 \in DOMAIN rounds
        /\ lines[k] = <<rounds[(k + 1) \div 2], Lens(k)>>

=============================================================================
