---------------------------- MODULE ControlPlane ----------------------------
(***************************************************************************)
(* Control planes that come and go over one database (Startup), and a       *)
(* watcher that outlives them (EventStream): events are recorded and streams *)
(* served only while a process answers, and its end ends its streams.        *)
(***************************************************************************)
EXTENDS Startup, EventStream

allVars == <<vars, startupVars, streamVars>>

Answering == \E p \in Process : Serving(p)

(* preClose ends every open stream, and a death cuts them. *)
Hangs(p) ==
  IF Serving(p) /\ ~Serving(p)' /\ conn.up
  THEN Sever /\ UNCHANGED <<log, watch, lines, drops>>
  ELSE UNCHANGED streamVars

(* Process ids are given out in order. *)
InTurn(p) == at[p] = "unborn" => \A q \in Process : q < p => at[q] # "unborn"

Host(p) == InTurn(p) /\ HostStep(p) /\ Hangs(p)

(* What takes a process that answers. *)
Served(step) == Answering /\ step /\ UNCHANGED <<vars, startupVars>>

(* What the watcher does by itself. *)
Alone(step) == step /\ UNCHANGED <<vars, startupVars>>

(* A watch takes a token to present; a request goes unanswered while nobody
   listens. *)
StreamStep ==
  \/ Served(Record) \/ Served(Poll) \/ Served(Connect)
  \/ token = "told" /\ Alone(Watch)
  \/ ~Answering /\ Alone(Unanswered)
  \/ Alone(WatcherStep)
  \/ Alone(Drop)

ControlPlaneInit == StartupInit /\ StreamInit

ControlPlaneNext == StreamStep \/ \E p \in Process : Host(p)

(* The poll's interval fires, fetch is answered while somebody listens and fails
   while nobody does, and the watcher's own awaits end. *)
Fairness ==
  /\ WF_allVars(Served(Poll))
  /\ WF_allVars(Served(Connect))
  /\ WF_allVars(Alone(WatcherStep))

ControlPlaneSpec == ControlPlaneInit /\ [][ControlPlaneNext]_allVars /\ Fairness

-----------------------------------------------------------------------------

(* If a control plane stays up in the end, every round that finishes after the
   watcher has looked at one is looked at too. *)
RoundsAreWatched ==
  <>[]Answering =>
    \A e \in 1..MaxEvent :
      (e \in DOMAIN log /\ log[e] /\ watch.cursor # 0 /\ watch.cursor < e)
        ~> (\E k \in DOMAIN lines : lines[k] = <<e, "cost">>)

(* No round twice, none skipped, none waited for in vain. *)
WatchIsExact == [](StreamTypeOK /\ EachRoundOnce) /\ RoundsAreWatched

=============================================================================
