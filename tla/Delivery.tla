------------------------------ MODULE Delivery ------------------------------
(***************************************************************************)
(* The two outgoing queues of the control plane: webhook_delivery, filled  *)
(* by a fan-out over the log, and hook_delivery, filled by the fact that    *)
(* fires the hook.  A daemon per queue claims what is due, sends it and     *)
(* writes down how it went.                                                *)
(*                                                                         *)
(* The file lock means one control plane, but the claim is there for two:  *)
(* statements of two hosts interleave here, and so do the routes with the  *)
(* daemons.  What one transaction does is one action.                       *)
(*                                                                         *)
(* Instants are told by what is left of them: a row's next_attempt_at is    *)
(* how long it still waits, and of a tick's moment only the set of rows     *)
(* that were due at it is kept.                                            *)
(***************************************************************************)
EXTENDS Integers, Sequences, FiniteSets, FiniteSetsExt

CONSTANTS
  Host,              \* control planes over the database
  Subscription,
  Hook,              \* hooks of the graph version, with a live secret
  Wants,             \* the events each of them matches
  MaxEvent,          \* bound: events ever recorded
  FanoutCeiling,     \* events one subscription's fan-out enqueues per tick
  DeliveryCeiling,   \* attempts of one batch
  DeliveryTimeout,   \* how long a claim holds its row, and an attempt may last
  Backoff,           \* the retry schedule, a delay per retry
  MaxCrash           \* bound: crashes

Event    == 1..MaxEvent
Target   == Subscription \cup Hook
Delivery == Target \X Event
Longest  == Max({DeliveryTimeout} \cup Range(Backoff))

ASSUME DeliveryAssumption ==
  /\ IsFiniteSet(Host) /\ Subscription \cap Hook = {}
  /\ MaxEvent \in Nat /\ MaxCrash \in Nat
  /\ Wants \in [Target -> SUBSET Event]
  /\ FanoutCeiling \in Nat \ {0} /\ DeliveryCeiling \in Nat \ {0}
  /\ DeliveryTimeout \in Nat \ {0}
  /\ Backoff \in Seq(Nat \ {0})

(* How the two settings stand to each other, which nothing checks: no retry is
   due before the attempt it follows is over. *)
RetriesOutlastAttempts == \A i \in DOMAIN Backoff : DeliveryTimeout <= Backoff[i]

VARIABLES
  log,            \* the last event's id
  subscription,   \* webhook_subscription
  row,            \* webhook_delivery and hook_delivery, UNIQUE per target and event
  failedLog,      \* job.hook_failed events recorded
  daemon,         \* what each tick has in memory
  crashes

vars == <<log, subscription, row, failedLog, daemon, crashes>>

-----------------------------------------------------------------------------

NoRow == [status |-> "none", attempts |-> 0, wait |-> 0]

Born == [status |-> "pending", attempts |-> 0, wait |-> 0]

Pending(d) == row[d].status = "pending"

Unsubscribed == [state |-> "none", from |-> 0]

(* dueDeliveries looks at the subscription too; a hook has nobody to leave. *)
Listening(t) == t \in Subscription => subscription[t].state = "active"

Daemon == Host \X {"webhook", "hook"}

Queue(dm) == (IF dm[2] = "webhook" THEN Subscription ELSE Hook) \X Event

(* No tick in flight. *)
Idle == [stage |-> "idle", ripe |-> {}, batch |-> {}, full |-> FALSE, flying |-> {}]

(* The tables give rows a next_attempt_at after every daemon's moment. *)
Unripe(state, d) ==
  [dm \in Daemon |-> [state[dm] EXCEPT !.ripe = @ \ {d}]]

-----------------------------------------------------------------------------
(* The routes, and the facts the control plane records. *)

(* A fact enters the log with the rows of the hooks it fires. *)
Record ==
  /\ log < MaxEvent
  /\ log' = log + 1
  /\ row' = [d \in Delivery |->
               IF d[1] \in Hook /\ d[2] = log' /\ d[2] \in Wants[d[1]]
               THEN Born ELSE row[d]]
  /\ UNCHANGED <<subscription, failedLog, daemon, crashes>>

(* createSubscription: anchored at the end of the log. *)
Subscribe(s) ==
  /\ subscription[s] = Unsubscribed
  /\ subscription' = [subscription EXCEPT ![s] = [state |-> "active", from |-> log]]
  /\ UNCHANGED <<log, row, failedLog, daemon, crashes>>

(* deactivateSubscription: its pending rows close with it. *)
Deactivate(s) ==
  /\ subscription[s].state = "active"
  /\ subscription' = [subscription EXCEPT ![s].state = "deactivated"]
  /\ row' = [d \in Delivery |-> IF d[1] = s /\ Pending(d)
                                THEN [row[d] EXCEPT !.status = "exhausted"]
                                ELSE row[d]]
  /\ UNCHANGED <<log, failedLog, daemon, crashes>>

-----------------------------------------------------------------------------
(* One tick: fan-out, then batches of attempts until caught up. *)

Enqueued(s) == {e \in Event : row[<<s, e>>].status # "none"}

(* fanoutCursor: the last event enqueued, or where the subscription began. *)
Cursor(s) == IF Enqueued(s) = {} THEN subscription[s].from ELSE Max(Enqueued(s))

(* Fault: the window is read from the end of the log. *)
FaultyWindow(s) ==
  LET matched == {e \in Wants[s] : Cursor(s) < e /\ e <= log}
  IN  {e \in matched : Cardinality({f \in matched : f >= e}) <= FanoutCeiling}

(* The events one fan-out reads: the first that match behind the cursor. *)
Window(s) ==
  LET matched == {e \in Wants[s] : Cursor(s) < e /\ e <= log}
  IN  {e \in matched : Cardinality({f \in matched : f <= e}) <= FanoutCeiling}

Fanned ==
  {d \in Subscription \X Event : Listening(d[1]) /\ d[2] \in Window(d[1])}

(* A tick begins: its moment is read, and a webhook tick fans out.  A row it
   enqueues is due at once, and due at the moment too unless the clock has
   moved on by then. *)
BeginTick(dm) ==
  /\ daemon[dm] = Idle
  /\ LET born == IF dm[2] = "webhook" THEN Fanned ELSE {}
     IN  /\ row' = [d \in Delivery |-> IF d \in born THEN Born ELSE row[d]]
         /\ \E sameInstant \in BOOLEAN :
              daemon' = [daemon EXCEPT ![dm].stage = "selecting",
                           ![dm].ripe = {d \in Queue(dm) : Pending(d) /\ row[d].wait = 0}
                                          \cup (IF sameInstant THEN born ELSE {})]
  /\ UNCHANGED <<log, subscription, failedLog, crashes>>

(* Fault: a row whose schedule is spent is not due any more. *)
FaultyDue(dm) ==
  {d \in daemon[dm].ripe : /\ Pending(d) /\ Listening(d[1])
                           /\ row[d].attempts <= Len(Backoff)}

Due(dm) == {d \in daemon[dm].ripe : Pending(d) /\ Listening(d[1])}

(* dueDeliveries: up to a ceiling of them.  Which come first (ORDER BY id) is
   left open. *)
Select(dm) ==
  /\ daemon[dm].stage = "selecting"
  /\ IF Due(dm) = {}
     THEN daemon' = [daemon EXCEPT ![dm] = Idle]
     ELSE LET size == Min({DeliveryCeiling, Cardinality(Due(dm))}) IN
          \E batch \in kSubset(size, Due(dm)) :
            daemon' = [daemon EXCEPT ![dm].stage = "attempting", ![dm].batch = batch,
                                     ![dm].full = (size = DeliveryCeiling)]
  /\ UNCHANGED <<log, subscription, row, failedLog, crashes>>

(* Fault: the row is only claimed as pending, its instant untouched. *)
FaultyClaim(dm, d) ==
  /\ d \in daemon[dm].batch
  /\ IF Pending(d)
     THEN /\ row' = [row EXCEPT ![d].attempts = @ + 1]
          /\ daemon' = [daemon EXCEPT ![dm].batch = @ \ {d},
                                      ![dm].flying = @ \cup {<<d, DeliveryTimeout>>}]
     ELSE /\ daemon' = [daemon EXCEPT ![dm].batch = @ \ {d}]
          /\ UNCHANGED row
  /\ UNCHANGED <<log, subscription, failedLog, crashes>>

(* claimDelivery, decided by its own WHERE, and the POST that only its winner
   sends: the attempt is counted and the row held for one timeout. *)
Claim(dm, d) ==
  /\ d \in daemon[dm].batch
  /\ IF Pending(d) /\ d \in daemon[dm].ripe
     THEN /\ row' = [row EXCEPT ![d].attempts = @ + 1, ![d].wait = DeliveryTimeout]
          /\ daemon' = Unripe([daemon EXCEPT
                                 ![dm].batch = @ \ {d},
                                 ![dm].flying = @ \cup {<<d, DeliveryTimeout>>}], d)
     ELSE /\ daemon' = [daemon EXCEPT ![dm].batch = @ \ {d}]
          /\ UNCHANGED row
  /\ UNCHANGED <<log, subscription, failedLog, crashes>>

Landed(dm, d, left) == [daemon EXCEPT ![dm].flying = @ \ {<<d, left>>}]

(* A 2xx, and recordDeliverySuccess over a row still pending. *)
Succeed(dm, d, left) ==
  /\ <<d, left>> \in daemon[dm].flying
  /\ row' = [row EXCEPT ![d].status = IF Pending(d) THEN "delivered" ELSE @]
  /\ daemon' = Landed(dm, d, left)
  /\ UNCHANGED <<log, subscription, failedLog, crashes>>

(* Fault: the status of the row is not asked again. *)
BlindFail(dm, d, left) ==
  /\ <<d, left>> \in daemon[dm].flying
  /\ row' = [row EXCEPT ![d] =
                IF @.attempts <= Len(Backoff)
                THEN [@ EXCEPT !.wait = Backoff[row[d].attempts]]
                ELSE [@ EXCEPT !.status = "exhausted"]]
  /\ daemon' = Unripe(Landed(dm, d, left), d)
  /\ UNCHANGED <<log, subscription, failedLog, crashes>>

(* Fault: the schedule is read a step early. *)
TimidFail(dm, d, left) ==
  /\ <<d, left>> \in daemon[dm].flying /\ Pending(d)
  /\ daemon' = Unripe(Landed(dm, d, left), d)
  /\ IF row[d].attempts + 1 <= Len(Backoff)
     THEN /\ row' = [row EXCEPT ![d].wait = Backoff[1]]
          /\ UNCHANGED failedLog
     ELSE /\ row' = [row EXCEPT ![d].status = "exhausted"]
          /\ failedLog' = IF d[1] \in Hook THEN [failedLog EXCEPT ![d] = @ + 1]
                          ELSE failedLog
  /\ UNCHANGED <<log, subscription, crashes>>

(* Anything else (a refusal, a timeout, an answer lost), and
   recordDeliveryFailure: wait for the retry of the attempt counted last, or
   give up when there is none, and say so in the log for a hook. *)
Fail(dm, d, left) ==
  /\ <<d, left>> \in daemon[dm].flying
  /\ \/ /\ ~Pending(d)
        /\ daemon' = Landed(dm, d, left)
        /\ UNCHANGED <<row, failedLog>>
     \/ /\ Pending(d) /\ row[d].attempts <= Len(Backoff)
        /\ row' = [row EXCEPT ![d].wait = Backoff[row[d].attempts]]
        /\ daemon' = Unripe(Landed(dm, d, left), d)
        /\ UNCHANGED failedLog
     \/ /\ Pending(d) /\ row[d].attempts > Len(Backoff)
        /\ row' = [row EXCEPT ![d].status = "exhausted"]
        /\ daemon' = Landed(dm, d, left)
        /\ failedLog' = IF d[1] \in Hook THEN [failedLog EXCEPT ![d] = @ + 1]
                        ELSE failedLog
  /\ UNCHANGED <<log, subscription, crashes>>

(* The batch has settled: behind a full one there may be more. *)
Settle(dm) ==
  /\ daemon[dm].stage = "attempting"
  /\ daemon[dm].batch = {} /\ daemon[dm].flying = {}
  /\ daemon' = [daemon EXCEPT ![dm] = IF daemon[dm].full
                                      THEN [@ EXCEPT !.stage = "selecting"]
                                      ELSE Idle]
  /\ UNCHANGED <<log, subscription, row, failedLog, crashes>>

(* A host dies and comes back, its ticks and their answers lost. *)
Crash(h) ==
  /\ crashes < MaxCrash
  /\ crashes' = crashes + 1
  /\ daemon' = [dm \in Daemon |-> IF dm[1] = h THEN Idle ELSE daemon[dm]]
  /\ UNCHANGED <<log, subscription, row, failedLog>>

Less(n) == IF n = 0 THEN 0 ELSE n - 1

(* Time: claims and attempts run out, retries come due. *)
Pass ==
  /\ row' = [d \in Delivery |-> [row[d] EXCEPT !.wait = Less(@)]]
  /\ daemon' = [dm \in Daemon |->
                 [daemon[dm] EXCEPT !.flying = {<<f[1], Less(f[2])>> : f \in @}]]
  /\ UNCHANGED <<log, subscription, failedLog, crashes>>

-----------------------------------------------------------------------------

Init ==
  /\ log = 0
  /\ subscription = [s \in Subscription |-> Unsubscribed]
  /\ row = [d \in Delivery |-> NoRow]
  /\ failedLog = [d \in Delivery |-> 0]
  /\ daemon = [dm \in Daemon |-> Idle]
  /\ crashes = 0

Answer(dm) ==
  \E f \in daemon[dm].flying : Succeed(dm, f[1], f[2]) \/ Fail(dm, f[1], f[2])

DaemonStep(dm) ==
  \/ BeginTick(dm) \/ Select(dm) \/ Settle(dm)
  \/ \E d \in daemon[dm].batch : Claim(dm, d)
  \/ Answer(dm)

Next ==
  \/ Record
  \/ \E s \in Subscription : Subscribe(s) \/ Deactivate(s)
  \/ \E dm \in Daemon : DaemonStep(dm)
  \/ \E h \in Host : Crash(h)
  \/ Pass

Spec == Init /\ [][Next]_vars

(* The timer fires as long as the process lives, a crashed one is started
   again, every attempt ends (AbortSignal.timeout), and time passes. *)
Fairness == WF_vars(Pass) /\ \A dm \in Daemon : WF_vars(DaemonStep(dm))

FairSpec == Spec /\ Fairness

-----------------------------------------------------------------------------

(* Every row and every tick has its own shape, and a tick holds only rows of
   its own queue. *)
TypeOK ==
  /\ log \in 0..MaxEvent /\ crashes \in 0..MaxCrash
  /\ subscription \in [Subscription -> [state : {"none", "active", "deactivated"},
                                        from : 0..MaxEvent]]
  /\ row \in [Delivery -> [status : {"none", "pending", "delivered", "exhausted"},
                           attempts : Nat, wait : 0..Longest]]
  /\ failedLog \in [Delivery -> Nat]
  /\ \A dm \in Daemon :
       /\ daemon[dm].stage \in {"idle", "selecting", "attempting"}
       /\ daemon[dm].ripe \subseteq Queue(dm) /\ daemon[dm].batch \subseteq Queue(dm)
       /\ daemon[dm].full \in BOOLEAN
       /\ daemon[dm].flying \subseteq Queue(dm) \X (0..DeliveryTimeout)

(* "By construction", not because there is one process: of two attempts in
   flight for one delivery, at most one is inside its claim (claimDelivery). *)
ClaimExcludes ==
  \A d \in Delivery :
    Cardinality({dm \in Daemon : \E f \in daemon[dm].flying : f[1] = d /\ f[2] > 0}) <= 1

(* A closed delivery stays as it closed, whatever an attempt still in the air
   reports: delivered is never undone, and nothing reopens what was given up
   or whose subscriber left (the `status = 'pending'` of every UPDATE). *)
ClosedStaysClosed ==
  [][\A d \in Delivery :
       row[d].status \in {"delivered", "exhausted"}
         => row'[d].status = row[d].status /\ row'[d].attempts = row[d].attempts]_vars

(* The fan-out skips nothing and repeats nothing: behind a subscription's
   cursor every event it matches has its row, and nothing before its anchor
   has one, however ticks of two hosts and crashes interleave. *)
NoGapBehindCursor ==
  \A s \in Subscription :
    Enqueued(s) = {e \in Wants[s] : subscription[s].from < e /\ e <= Cursor(s)}

(* A delivery is given up only when its schedule is spent or its subscriber
   left, and a hook that gave up is reported exactly once. *)
GivingUpIsTold ==
  \A d \in Delivery :
    /\ row[d].status = "exhausted"
         => row[d].attempts > Len(Backoff) \/ ~Listening(d[1])
    /\ failedLog[d] = IF d[1] \in Hook /\ row[d].status = "exhausted" THEN 1 ELSE 0

(* Nothing is sent to a subscriber that has left. *)
NothingSentAfterLeaving ==
  [][\A d \in Delivery :
       row'[d].attempts # row[d].attempts => Listening(d[1])]_vars

(* The schedule bounds the attempts: one, one per retry, one more per crash
   and one per host that claims behind an attempt that overstayed. *)
AttemptsAreBounded ==
  \A d \in Delivery :
    row[d].attempts <= Len(Backoff) + Cardinality(Host) + crashes

(* The schedule is kept to its last step: given up neither early nor in
   silence, and never retried past the end. *)
ScheduleIsKept == GivingUpIsTold /\ AttemptsAreBounded

(* A row that closed, or whose subscriber left, is not touched by what was
   already under way. *)
ClosedIsFinal == ClosedStaysClosed /\ NothingSentAfterLeaving

(* Every delivery settles: no crash and no lost answer leaves one waiting. *)
EveryDeliverySettles ==
  \A d \in Delivery : d[2] \in Wants[d[1]] => (Pending(d) ~> ~Pending(d))

(* A tick ends: the loop over batches runs out of work, so that the guard
   against overlapping ticks never keeps the next one out for good. *)
TicksEnd == \A dm \in Daemon : daemon[dm] # Idle ~> daemon[dm] = Idle

(* The queue drains, and the daemon gets back to waiting. *)
QueueDrains == EveryDeliverySettles /\ TicksEnd

(* Every event an active subscription matches is enqueued for it. *)
EveryMatchIsEnqueued ==
  \A s \in Subscription : \A e \in Wants[s] :
    (subscription[s].state = "active" /\ subscription[s].from < e /\ e <= log)
      ~> (row[<<s, e>>].status # "none" \/ ~Listening(s))

(* The fan-out is exact: no step leaves a gap behind the cursor, and every match
   is enqueued in the end. *)
FanoutIsExact == [][NoGapBehindCursor']_vars /\ EveryMatchIsEnqueued

=============================================================================
