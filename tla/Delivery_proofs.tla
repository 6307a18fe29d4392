--------------------------- MODULE Delivery_proofs ---------------------------
(***************************************************************************)
(* Proofs about the two outgoing queues (Delivery): what a row and a tick   *)
(* may look like, that a claim excludes, that what closed stays closed, and *)
(* that the schedule is kept.                                              *)
(***************************************************************************)
EXTENDS Delivery, FiniteSetTheorems, SequenceTheorems, WellFoundedInduction, TLAPS

-----------------------------------------------------------------------------
(* Numbers. *)

(* Every nonempty set of numbers has a least one. *)
LEMMA LeastNatural ==
  ASSUME NEW T, T \subseteq Nat, T # {}
  PROVE  \E x \in T : \A y \in T : x <= y
<1> DEFINE R == OpToRel(<, Nat)
<1>1. IsWellFoundedOn(R, Nat)
  BY NatLessThanWellFounded
<1>2. R = {ss \in Nat \X Nat : ss[1] < ss[2]}
  BY DEF OpToRel
<1>4. \A x, y \in Nat : <<y, x>> \in R <=> y < x
  BY <1>2
<1> HIDE DEF R
<1>3. \E x \in T : \A y \in T : <<y, x>> \notin R
  BY <1>1, WFMin
<1>5. PICK x \in T : \A y \in T : <<y, x>> \notin R
  BY <1>3
<1>6. ASSUME NEW y \in T PROVE x <= y
  <2>1. x \in Nat /\ y \in Nat
    OBVIOUS
  <2>2. ~(y < x)
    BY <1>4, <1>5, <2>1
  <2> QED
    BY <2>1, <2>2
<1> QED
  BY <1>6

(* A nonempty set of numbers with a bound has a greatest one. *)
LEMMA MaxIs ==
  ASSUME NEW T, T \subseteq Nat, T # {}, NEW bound \in Nat, \A x \in T : x <= bound
  PROVE  Max(T) \in T /\ \A x \in T : x <= Max(T)
<1> DEFINE U == {bound - x : x \in T}
<1>1. U \subseteq Nat /\ U # {}
  <2>1. \A x \in T : bound - x \in Nat
    OBVIOUS
  <2>2. PICK x \in T : TRUE
    OBVIOUS
  <2> QED
    BY <2>1, <2>2
<1> HIDE DEF U
<1>2. PICK u \in U : \A v \in U : u <= v
  BY <1>1, LeastNatural
<1>3. PICK x \in T : u = bound - x
  BY <1>2 DEF U
<1>4. ASSUME NEW y \in T PROVE x >= y
  <2>1. u <= bound - y
    BY <1>2 DEF U
  <2> QED
    BY <1>3, <2>1
<1>5. \E z \in T : \A y \in T : z >= y
  BY <1>4
<1>6. Max(T) \in T /\ \A y \in T : Max(T) >= y
  BY <1>5 DEF Max
<1> QED
  BY <1>6

(* The delays of the schedule have a bound: the first that no bound reached
   would be one more than a bound. *)
LEMMA DelaysAreBounded ==
  \E bound \in Nat : \A i \in DOMAIN Backoff : Backoff[i] <= bound
<1> DEFINE L == Len(Backoff)
           Bounded(n) == \E bound \in Nat : \A i \in 1..n : Backoff[i] <= bound
           T == {n \in 0..L : ~Bounded(n)}
<1>1. L \in Nat /\ DOMAIN Backoff = 1..L /\ \A i \in 1..L : Backoff[i] \in Nat
  BY DeliveryAssumption
<1> HIDE DEF L
<1>2. Bounded(0)
  <2>1. 0 \in Nat /\ \A i \in 1..0 : Backoff[i] <= 0
    OBVIOUS
  <2> QED
    BY <2>1
<1>3. ASSUME NEW n \in 1..L, Bounded(n - 1) PROVE Bounded(n)
  <2>1. PICK b \in Nat : \A i \in 1..(n - 1) : Backoff[i] <= b
    BY <1>3
  <2>2. n \in Nat /\ Backoff[n] \in Nat /\ \A i \in 1..n : Backoff[i] \in Nat
    BY <1>1
  <2>3. \A i \in 1..n : i \in 1..(n - 1) \/ i = n
    BY <2>2
  <2>4. b + Backoff[n] \in Nat /\ \A i \in 1..n : Backoff[i] <= b + Backoff[n]
    BY <2>1, <2>2, <2>3
  <2> QED
    BY <2>4
<1> HIDE DEF Bounded
<1>4. ASSUME T # {} PROVE FALSE
  <2>1. T \subseteq Nat
    OBVIOUS
  <2>2. \E n \in T : \A m \in T : n <= m
    <3> HIDE DEF T
    <3> QED
      BY <1>4, <2>1, LeastNatural
  <2>3. PICK n \in 0..L : ~Bounded(n) /\ \A m \in 0..L : ~Bounded(m) => n <= m
    BY <2>2
  <2>4. n \in 1..L /\ n - 1 \in 0..L /\ ~(n <= n - 1)
    BY <1>1, <1>2, <2>3
  <2> QED
    BY <1>3, <2>3, <2>4
<1>5. Bounded(L)
  BY <1>1, <1>4
<1> QED
  BY <1>1, <1>5 DEF Bounded

LEMMA LongestIs ==
  /\ Longest \in Nat /\ DeliveryTimeout <= Longest
  /\ \A i \in DOMAIN Backoff : Backoff[i] <= Longest
<1> DEFINE T == {DeliveryTimeout} \cup Range(Backoff)
<1>1. PICK bound \in Nat : \A i \in DOMAIN Backoff : Backoff[i] <= bound
  BY DelaysAreBounded
<1>2. \A i \in DOMAIN Backoff : Backoff[i] \in Nat
  BY DeliveryAssumption
<1>3. T \subseteq Nat /\ T # {} /\ \A x \in T : x <= bound + DeliveryTimeout
  BY <1>1, <1>2, DeliveryAssumption DEF Range
<1>4. DeliveryTimeout \in T /\ \A i \in DOMAIN Backoff : Backoff[i] \in T
  BY DEF Range
<1>5. bound + DeliveryTimeout \in Nat
  BY DeliveryAssumption
<1> HIDE DEF T
<1>6. Max(T) \in T /\ \A x \in T : x <= Max(T)
  BY <1>3, <1>5, MaxIs
<1>7. Longest = Max(T)
  BY DEF Longest, T
<1> QED
  BY <1>3, <1>4, <1>6, <1>7

-----------------------------------------------------------------------------
(* What the tables and the ticks may look like. *)

(* What a tick has in memory. *)
DaemonRow == [stage : {"idle", "selecting", "attempting"}, ripe : SUBSET Delivery,
              batch : SUBSET Delivery, full : BOOLEAN,
              flying : SUBSET (Delivery \X (0..DeliveryTimeout))]

(* A row is there for a recorded event only, empty before, and of a subscription
   that was ever made; while it waits, its subscriber listens. *)
RowMakesSense(d) ==
  /\ row[d].status = "none" => row[d] = NoRow
  /\ row[d].status # "none" => d[2] <= log
  /\ row[d].status # "none" /\ d[1] \in Subscription => subscription[d[1]].state # "none"
  /\ Pending(d) => Listening(d[1])

(* Nothing is left from one tick for the next, and what flies left its batch. *)
TickMakesSense(dm) ==
  LET t == daemon[dm] IN
  /\ t.stage # "attempting" => t.batch = {} /\ t.flying = {}
  /\ \A d \in Delivery, left \in 0..DeliveryTimeout :
       <<d, left>> \in t.flying =>
         d \notin t.batch /\ row[d].status # "none" /\ row[d].attempts > 0

(* A row that was due at a tick's moment and has not been claimed since waits
   for nothing: no claim is made on a stale moment. *)
RipeIsDue ==
  \A dm \in Daemon, d \in Delivery :
    d \in daemon[dm].ripe => row[d].wait = 0 /\ row[d].status # "none"

Sense ==
  /\ TypeOK /\ daemon \in [Daemon -> DaemonRow]
  /\ \A d \in Delivery : RowMakesSense(d)
  /\ \A s \in Subscription :
       subscription[s].state = "none" => subscription[s] = Unsubscribed
  /\ \A dm \in Daemon : TickMakesSense(dm)
  /\ RipeIsDue

(* A row is held for as long as any attempt on it may last. *)
ClaimHolds ==
  \A dm \in Daemon, d \in Delivery, left \in 0..DeliveryTimeout :
    <<d, left>> \in daemon[dm].flying => left <= row[d].wait

(* The hosts with an attempt on a delivery in the air. *)
Carrying(d) ==
  {h \in Host : \E q \in {"webhook", "hook"}, left \in 0..DeliveryTimeout :
                  <<d, left>> \in daemon[<<h, q>>].flying}

(* Behind the end of its schedule a row has only the attempts still in the air
   and those that crashed. *)
Overtime(d) ==
  row[d].attempts <= Len(Backoff) + crashes
    + (IF row[d].attempts <= Len(Backoff) THEN 0
       ELSE IF Pending(d) THEN Cardinality(Carrying(d)) ELSE Cardinality(Host))

LEMMA RowFields ==
  ASSUME TypeOK, NEW d \in Delivery
  PROVE  /\ row[d] = [status |-> row[d].status, attempts |-> row[d].attempts,
                      wait |-> row[d].wait]
         /\ row[d].status \in {"none", "pending", "delivered", "exhausted"}
         /\ row[d].attempts \in Nat /\ row[d].wait \in 0..Longest
BY DEF TypeOK

(* A row is made up of what it may hold. *)
LEMMA RowIs ==
  ASSUME NEW status \in {"none", "pending", "delivered", "exhausted"},
         NEW attempts \in Nat, NEW wait \in 0..Longest
  PROVE  [status |-> status, attempts |-> attempts, wait |-> wait]
           \in [status : {"none", "pending", "delivered", "exhausted"},
                attempts : Nat, wait : 0..Longest]
OBVIOUS

LEMMA SenseBegins == ASSUME Init PROVE Sense
<1> USE DEF Init, NoRow, Idle, Unsubscribed
<1>1. TypeOK
  <2>1. log \in 0..MaxEvent /\ crashes \in 0..MaxCrash /\ failedLog \in [Delivery -> Nat]
    BY DeliveryAssumption
  <2>2. subscription \in [Subscription -> [state : {"none", "active", "deactivated"},
                                           from : 0..MaxEvent]]
    BY DeliveryAssumption
  <2>3. row \in [Delivery -> [status : {"none", "pending", "delivered", "exhausted"},
                              attempts : Nat, wait : 0..Longest]]
    BY LongestIs
  <2>4. ASSUME NEW dm \in Daemon
        PROVE  /\ daemon[dm].stage \in {"idle", "selecting", "attempting"}
               /\ daemon[dm].ripe \subseteq Queue(dm) /\ daemon[dm].batch \subseteq Queue(dm)
               /\ daemon[dm].full \in BOOLEAN
               /\ daemon[dm].flying \subseteq Queue(dm) \X (0..DeliveryTimeout)
    BY <2>4
  <2> QED
    BY <2>1, <2>2, <2>3, <2>4 DEF TypeOK
<1>2. daemon \in [Daemon -> DaemonRow]
  BY DEF DaemonRow
<1>3. \A d \in Delivery : RowMakesSense(d)
  BY DEF RowMakesSense, Pending
<1>4. RipeIsDue /\ \A dm \in Daemon : TickMakesSense(dm)
  BY DEF TickMakesSense, RipeIsDue
<1> QED
  BY <1>1, <1>2, <1>3, <1>4 DEF Sense

(* Of a step that leaves the ticks alone: they make sense when the rows they
   know are what they were, but for the status of those. *)
LEMMA TicksKept ==
  ASSUME Sense, UNCHANGED daemon,
         \A d \in Delivery : row[d].status # "none" =>
           /\ row'[d].status # "none" /\ row'[d].attempts = row[d].attempts
           /\ row'[d].wait = row[d].wait
  PROVE  RipeIsDue' /\ \A dm \in Daemon : TickMakesSense(dm)'
<1>1. RipeIsDue'
  BY DEF Sense, RipeIsDue
<1>2. \A dm \in Daemon : TickMakesSense(dm)'
  BY DEF Sense, TickMakesSense
<1> QED
  BY <1>1, <1>2

LEMMA RecordStep == ASSUME Sense, Record PROVE Sense'
<1>1. /\ log < MaxEvent /\ log' = log + 1 /\ log \in Nat /\ MaxEvent \in Nat
      /\ UNCHANGED <<subscription, failedLog, daemon, crashes>>
      /\ row \in [Delivery -> [status : {"none", "pending", "delivered", "exhausted"},
                               attempts : Nat, wait : 0..Longest]]
  BY DeliveryAssumption DEF Record, Sense, TypeOK
<1>2. row' = [d \in Delivery |->
               IF d[1] \in Hook /\ d[2] = log' /\ d[2] \in Wants[d[1]]
               THEN Born ELSE row[d]]
  BY DEF Record
<1>3. \A d \in Delivery : row[d].status # "none" => row'[d] = row[d]
  BY <1>1, <1>2 DEF Sense, RowMakesSense
<1>4. Born \in [status : {"none", "pending", "delivered", "exhausted"},
                attempts : Nat, wait : 0..Longest]
  BY LongestIs DEF Born
<1>5. row' \in [Delivery -> [status : {"none", "pending", "delivered", "exhausted"},
                             attempts : Nat, wait : 0..Longest]]
  BY <1>1, <1>2, <1>4
<1>6. TypeOK'
  BY <1>1, <1>5 DEF Sense, TypeOK, Queue
<1>7. ASSUME NEW d \in Delivery PROVE RowMakesSense(d)'
  <2>1. ASSUME row'[d] = row[d] PROVE RowMakesSense(d)'
    <3>1. RowMakesSense(d) /\ (Pending(d)' <=> Pending(d)) /\ (Listening(d[1])' <=> Listening(d[1]))
      BY <1>1, <2>1 DEF Sense, Pending, Listening
    <3>2. d[2] \in 1..MaxEvent
      BY DEF Delivery, Event
    <3>3. d[2] <= log => d[2] <= log'
      BY <1>1, <3>2
    <3> QED
      BY <1>1, <2>1, <3>1, <3>3 DEF RowMakesSense
  <2>2. CASE row'[d] = Born /\ d[1] \in Hook /\ d[2] = log'
    BY <1>1, <2>2, DeliveryAssumption DEF RowMakesSense, Pending, Listening, Born
  <2> QED
    BY <1>2, <2>1, <2>2
<1>8. RipeIsDue' /\ \A dm \in Daemon : TickMakesSense(dm)'
  BY <1>1, <1>3, TicksKept
<1> QED
  BY <1>1, <1>6, <1>7, <1>8 DEF Sense

LEMMA SubscribeStep ==
  ASSUME Sense, NEW s \in Subscription, Subscribe(s) PROVE Sense'
<1>1. /\ subscription[s] = Unsubscribed
      /\ subscription' = [subscription EXCEPT ![s] = [state |-> "active", from |-> log]]
      /\ UNCHANGED <<log, row, failedLog, daemon, crashes>>
      /\ subscription \in [Subscription -> [state : {"none", "active", "deactivated"},
                                            from : 0..MaxEvent]]
  BY DEF Subscribe, Sense, TypeOK
<1>2. \A u \in Subscription :
        subscription'[u] = IF u = s THEN [state |-> "active", from |-> log]
                           ELSE subscription[u]
  BY <1>1
<1>3. TypeOK'
  BY <1>1 DEF Sense, TypeOK, Queue
<1>4. ASSUME NEW d \in Delivery PROVE RowMakesSense(d)'
  BY <1>1, <1>2 DEF Sense, RowMakesSense, Pending, Listening, Unsubscribed
<1>5. RipeIsDue' /\ \A dm \in Daemon : TickMakesSense(dm)'
  BY <1>1, TicksKept
<1> QED
  BY <1>1, <1>2, <1>3, <1>4, <1>5 DEF Sense

LEMMA DeactivateStep ==
  ASSUME Sense, NEW s \in Subscription, Deactivate(s) PROVE Sense'
<1>1. /\ subscription[s].state = "active"
      /\ subscription' = [subscription EXCEPT ![s].state = "deactivated"]
      /\ row' = [d \in Delivery |-> IF d[1] = s /\ Pending(d)
                                    THEN [row[d] EXCEPT !.status = "exhausted"]
                                    ELSE row[d]]
      /\ UNCHANGED <<log, failedLog, daemon, crashes>>
      /\ subscription \in [Subscription -> [state : {"none", "active", "deactivated"},
                                            from : 0..MaxEvent]]
  BY DEF Deactivate, Sense, TypeOK
<1>2. \A u \in Subscription :
        /\ subscription'[u].state = IF u = s THEN "deactivated" ELSE subscription[u].state
        /\ u # s => subscription'[u] = subscription[u]
  BY <1>1
<1>3. \A d \in Delivery :
        /\ row'[d].attempts = row[d].attempts /\ row'[d].wait = row[d].wait
        /\ row'[d].status = IF d[1] = s /\ Pending(d) THEN "exhausted" ELSE row[d].status
        /\ ~(d[1] = s /\ Pending(d)) => row'[d] = row[d]
  BY <1>1, RowFields DEF Sense
<1>4. TypeOK'
  <2>1. row' \in [Delivery -> [status : {"none", "pending", "delivered", "exhausted"},
                               attempts : Nat, wait : 0..Longest]]
    BY <1>1 DEF Sense, TypeOK
  <2> QED
    BY <1>1, <2>1 DEF Sense, TypeOK, Queue
<1>5. ASSUME NEW d \in Delivery PROVE RowMakesSense(d)'
  BY <1>1, <1>2, <1>3 DEF Sense, RowMakesSense, Pending, Listening
<1>6. RipeIsDue' /\ \A dm \in Daemon : TickMakesSense(dm)'
  BY <1>1, <1>3, TicksKept DEF Pending
<1> QED
  BY <1>1, <1>2, <1>4, <1>5, <1>6 DEF Sense

-----------------------------------------------------------------------------
(* The steps of a tick. *)

TickShape(dm) ==
  [stage : {"idle", "selecting", "attempting"}, ripe : SUBSET Queue(dm),
   batch : SUBSET Queue(dm), full : BOOLEAN,
   flying : SUBSET (Queue(dm) \X (0..DeliveryTimeout))]

(* Every tick has the shape of its own queue. *)
Shaped(state) ==
  /\ state \in [Daemon -> DaemonRow]
  /\ \A dm \in Daemon : state[dm] \in TickShape(dm)

LEMMA QueuesAreDeliveries ==
  ASSUME NEW dm \in Daemon PROVE Queue(dm) \subseteq Delivery
BY DEF Queue, Delivery, Target

LEMMA ShapeIs ==
  ASSUME Sense
  PROVE  /\ Shaped(daemon)
         /\ \A dm \in Daemon :
              daemon[dm] = [stage |-> daemon[dm].stage, ripe |-> daemon[dm].ripe,
                            batch |-> daemon[dm].batch, full |-> daemon[dm].full,
                            flying |-> daemon[dm].flying]
<1>1. daemon \in [Daemon -> DaemonRow]
  BY DEF Sense
<1>2. ASSUME NEW dm \in Daemon
      PROVE  /\ daemon[dm] = [stage |-> daemon[dm].stage, ripe |-> daemon[dm].ripe,
                              batch |-> daemon[dm].batch, full |-> daemon[dm].full,
                              flying |-> daemon[dm].flying]
             /\ daemon[dm] \in TickShape(dm)
  <2>1. daemon[dm] = [stage |-> daemon[dm].stage, ripe |-> daemon[dm].ripe,
                      batch |-> daemon[dm].batch, full |-> daemon[dm].full,
                      flying |-> daemon[dm].flying]
    BY <1>1 DEF DaemonRow
  <2>2. /\ daemon[dm].stage \in {"idle", "selecting", "attempting"}
        /\ daemon[dm].ripe \subseteq Queue(dm) /\ daemon[dm].batch \subseteq Queue(dm)
        /\ daemon[dm].full \in BOOLEAN
        /\ daemon[dm].flying \subseteq Queue(dm) \X (0..DeliveryTimeout)
    BY DEF Sense, TypeOK
  <2> QED
    BY <2>1, <2>2 DEF TickShape
<1> QED
  BY <1>1, <1>2 DEF Shaped

(* What has the shape of its queue has its type. *)
LEMMA ShapedIsTyped ==
  ASSUME NEW state, DOMAIN state = Daemon, state = [dm \in Daemon |-> state[dm]],
         \A dm \in Daemon : state[dm] \in TickShape(dm)
  PROVE  /\ Shaped(state)
         /\ \A dm \in Daemon :
              /\ state[dm].stage \in {"idle", "selecting", "attempting"}
              /\ state[dm].ripe \subseteq Queue(dm) /\ state[dm].batch \subseteq Queue(dm)
              /\ state[dm].full \in BOOLEAN
              /\ state[dm].flying \subseteq Queue(dm) \X (0..DeliveryTimeout)
<1>1. ASSUME NEW dm \in Daemon
      PROVE  /\ state[dm] \in DaemonRow
             /\ state[dm].stage \in {"idle", "selecting", "attempting"}
             /\ state[dm].ripe \subseteq Queue(dm) /\ state[dm].batch \subseteq Queue(dm)
             /\ state[dm].full \in BOOLEAN
             /\ state[dm].flying \subseteq Queue(dm) \X (0..DeliveryTimeout)
  <2>1. state[dm] \in TickShape(dm) /\ Queue(dm) \subseteq Delivery
    BY <1>1, QueuesAreDeliveries
  <2> QED
    BY <2>1 DEF TickShape, DaemonRow
<1> QED
  BY <1>1 DEF Shaped

(* A row that is not claimed as due any more. *)
LEMMA UnripeIs ==
  ASSUME NEW state, Shaped(state), NEW d
  PROVE  /\ Shaped(Unripe(state, d))
         /\ \A dm \in Daemon :
              /\ Unripe(state, d)[dm].ripe = state[dm].ripe \ {d}
              /\ Unripe(state, d)[dm].stage = state[dm].stage
              /\ Unripe(state, d)[dm].batch = state[dm].batch
              /\ Unripe(state, d)[dm].full = state[dm].full
              /\ Unripe(state, d)[dm].flying = state[dm].flying
<1> DEFINE new == Unripe(state, d)
<1>1. ASSUME NEW dm \in Daemon
      PROVE  /\ new[dm].ripe = state[dm].ripe \ {d}
             /\ new[dm].stage = state[dm].stage
             /\ new[dm].batch = state[dm].batch
             /\ new[dm].full = state[dm].full
             /\ new[dm].flying = state[dm].flying
             /\ new[dm] \in TickShape(dm)
  <2>1. state[dm] \in TickShape(dm)
    BY <1>1 DEF Shaped
  <2>2. new[dm] = [state[dm] EXCEPT !.ripe = @ \ {d}]
    BY <1>1 DEF Unripe
  <2>3. state[dm].ripe \ {d} \in SUBSET Queue(dm)
    BY <2>1 DEF TickShape
  <2> HIDE DEF new
  <2> QED
    BY <2>1, <2>2, <2>3 DEF TickShape
<1>2. DOMAIN new = Daemon /\ new = [dm \in Daemon |-> new[dm]]
  BY DEF Unripe
<1> HIDE DEF new
<1>3. Shaped(new)
  BY <1>1, <1>2, ShapedIsTyped
<1> QED
  BY <1>1, <1>3 DEF new

(* One tick changes, the others stay. *)
LEMMA ReplaceTick ==
  ASSUME NEW state, Shaped(state), NEW dm \in Daemon, NEW t \in TickShape(dm)
  PROVE  /\ Shaped([state EXCEPT ![dm] = t])
         /\ [state EXCEPT ![dm] = t][dm] = t
         /\ \A n \in Daemon : n # dm => [state EXCEPT ![dm] = t][n] = state[n]
<1> DEFINE new == [state EXCEPT ![dm] = t]
<1>1. DOMAIN new = Daemon /\ new = [n \in Daemon |-> new[n]]
  BY DEF Shaped
<1>2. new[dm] = t /\ \A n \in Daemon : n # dm => new[n] = state[n]
  BY DEF Shaped
<1>3. \A n \in Daemon : new[n] \in TickShape(n)
  BY <1>2 DEF Shaped
<1> HIDE DEF new
<1>4. Shaped(new)
  BY <1>1, <1>3, ShapedIsTyped
<1> QED
  BY <1>2, <1>4 DEF new

(* What the fan-out enqueues is new, recorded and wanted by a listener. *)
LEMMA FannedIsNew ==
  ASSUME TypeOK, NEW d \in Fanned
  PROVE  /\ d \in Delivery /\ d[1] \in Subscription /\ d[2] \in Event
         /\ subscription[d[1]].state = "active" /\ row[d].status = "none"
         /\ d[2] \in Wants[d[1]] /\ d[2] <= log
<1>1. /\ d \in Subscription \X Event /\ Listening(d[1])
      /\ d[2] \in Wants[d[1]] /\ Cursor(d[1]) < d[2] /\ d[2] <= log
  BY DEF Fanned, Window
<1>2. d \in Delivery /\ d[1] \in Subscription /\ d[2] \in Event /\ d = <<d[1], d[2]>>
  BY <1>1 DEF Delivery, Target
<1>3. row[d].status = "none"
  <2> SUFFICES ASSUME row[d].status # "none" PROVE FALSE
    OBVIOUS
  <2>1. d[2] \in Enqueued(d[1])
    BY <1>2 DEF Enqueued
  <2>2. Enqueued(d[1]) \subseteq Nat /\ MaxEvent \in Nat
        /\ \A e \in Enqueued(d[1]) : e <= MaxEvent
    BY DeliveryAssumption DEF Enqueued, Event
  <2>3. Cursor(d[1]) = Max(Enqueued(d[1]))
    BY <2>1 DEF Cursor
  <2>4. d[2] <= Max(Enqueued(d[1])) /\ Max(Enqueued(d[1])) \in Nat
    BY <2>1, <2>2, MaxIs
  <2> QED
    BY <1>1, <1>2, <2>3, <2>4, DeliveryAssumption DEF Event
<1> QED
  BY <1>1, <1>2, <1>3 DEF Listening

RowShape ==
  [status : {"none", "pending", "delivered", "exhausted"}, attempts : Nat,
   wait : 0..Longest]

(* The type, put together again after a step of a tick. *)
LEMMA TypedAgain ==
  ASSUME Sense, Shaped(daemon'), row' \in [Delivery -> RowShape],
         failedLog' \in [Delivery -> Nat], crashes' \in 0..MaxCrash,
         UNCHANGED <<log, subscription>>
  PROVE  TypeOK' /\ daemon' \in [Daemon -> DaemonRow]
<1>1. daemon' \in [Daemon -> DaemonRow]
  BY DEF Shaped
<1>2. DOMAIN daemon' = Daemon /\ daemon' = [dm \in Daemon |-> daemon'[dm]]
  BY <1>1
<1>3. \A dm \in Daemon :
        /\ daemon'[dm].stage \in {"idle", "selecting", "attempting"}
        /\ daemon'[dm].ripe \subseteq Queue(dm) /\ daemon'[dm].batch \subseteq Queue(dm)
        /\ daemon'[dm].full \in BOOLEAN
        /\ daemon'[dm].flying \subseteq Queue(dm) \X (0..DeliveryTimeout)
  BY <1>2, ShapedIsTyped DEF Shaped
<1>4. /\ log' \in 0..MaxEvent
      /\ subscription' \in [Subscription -> [state : {"none", "active", "deactivated"},
                                             from : 0..MaxEvent]]
  BY DEF Sense, TypeOK
<1> QED
  BY <1>1, <1>3, <1>4 DEF TypeOK, RowShape, Queue

(* Of a step that leaves the log and the subscriptions alone: the rows make
   sense when each is what it was, or was there and is in order. *)
LEMMA RowsKept ==
  ASSUME Sense, UNCHANGED <<log, subscription>>,
         \A d \in Delivery :
           \/ row'[d] = row[d]
           \/ /\ row[d].status # "none" /\ row'[d].status # "none"
              /\ row'[d].status = "pending" => Pending(d)
           \/ /\ row'[d] = Born /\ d[2] <= log
              /\ d[1] \in Subscription => subscription[d[1]].state = "active"
  PROVE  \A d \in Delivery : RowMakesSense(d)'
<1> TAKE d \in Delivery
<1>1. RowMakesSense(d) /\ (Listening(d[1])' <=> Listening(d[1]))
  BY DEF Sense, Listening
<1>2. CASE row'[d] = row[d]
  BY <1>1, <1>2 DEF RowMakesSense, Pending
<1>3. CASE /\ row[d].status # "none" /\ row'[d].status # "none"
           /\ row'[d].status = "pending" => Pending(d)
  BY <1>1, <1>3 DEF RowMakesSense, Pending
<1>4. CASE /\ row'[d] = Born /\ d[2] <= log
           /\ d[1] \in Subscription => subscription[d[1]].state = "active"
  BY <1>1, <1>4 DEF RowMakesSense, Pending, Born, Listening
<1> QED
  BY <1>2, <1>3, <1>4

LEMMA BeginTickStep ==
  ASSUME Sense, NEW dm \in Daemon, BeginTick(dm) PROVE Sense'
<1> DEFINE born == IF dm[2] = "webhook" THEN Fanned ELSE {}
           due  == {d \in Queue(dm) : Pending(d) /\ row[d].wait = 0}
<1>1. PICK same \in BOOLEAN :
        daemon' = [daemon EXCEPT ![dm].stage = "selecting",
                                 ![dm].ripe = due \cup (IF same THEN born ELSE {})]
  BY DEF BeginTick
<1>2. /\ daemon[dm] = Idle
      /\ row' = [d \in Delivery |-> IF d \in born THEN Born ELSE row[d]]
      /\ UNCHANGED <<log, subscription, failedLog, crashes>>
  BY DEF BeginTick
<1>3. \A d \in born :
        /\ d \in Delivery /\ d \in Queue(dm) /\ row[d].status = "none" /\ d[2] <= log
        /\ subscription[d[1]].state = "active"
  BY FannedIsNew DEF Sense, Queue, Fanned
<1> DEFINE ripe == due \cup (IF same THEN born ELSE {})
           t == [daemon[dm] EXCEPT !.stage = "selecting", !.ripe = ripe]
<1>4. ripe \subseteq due \cup born /\ ripe \subseteq Queue(dm)
  BY <1>3
<1>5. daemon' = [daemon EXCEPT ![dm] = t]
  <2> HIDE DEF ripe
  <2>1. daemon' = [daemon EXCEPT ![dm].stage = "selecting", ![dm].ripe = ripe]
    BY <1>1 DEF ripe
  <2> QED
    BY <2>1, ShapeIs DEF Shaped
<1>6. Shaped(daemon) /\ daemon[dm] \in TickShape(dm)
  BY ShapeIs DEF Shaped
<1>7. /\ t \in TickShape(dm)
      /\ t.stage = "selecting" /\ t.batch = {} /\ t.flying = {} /\ t.ripe = ripe
  <2>1. daemon[dm].batch = {} /\ daemon[dm].flying = {}
    BY <1>2 DEF Idle
  <2> HIDE DEF ripe
  <2> QED
    BY <1>4, <1>6, <2>1 DEF TickShape
<1>8. \A d \in t.ripe : \/ d \in born
                        \/ d \in Queue(dm) /\ Pending(d) /\ row[d].wait = 0
  BY <1>4, <1>7
<1>9. \A d \in Delivery : /\ d \in born => row'[d] = Born
                          /\ d \notin born => row'[d] = row[d]
  BY <1>2
<1> HIDE DEF due, born, ripe, t
<1>10. /\ Shaped(daemon') /\ daemon'[dm] = t
       /\ \A n \in Daemon : n # dm => daemon'[n] = daemon[n]
  <2>2. /\ Shaped([daemon EXCEPT ![dm] = t]) /\ [daemon EXCEPT ![dm] = t][dm] = t
        /\ \A n \in Daemon : n # dm => [daemon EXCEPT ![dm] = t][n] = daemon[n]
    BY <1>6, <1>7, ReplaceTick
  <2> QED
    BY <1>5, <2>2
<1>11. row' \in [Delivery -> RowShape]
  <2>1. row \in [Delivery -> RowShape] /\ Born \in RowShape
    BY LongestIs DEF Sense, TypeOK, RowShape, Born
  <2> QED
    BY <1>2, <2>1
<1>12. TypeOK' /\ daemon' \in [Daemon -> DaemonRow]
  BY <1>2, <1>10, <1>11, TypedAgain DEF Sense, TypeOK
<1>13. \A d \in Delivery : RowMakesSense(d)'
  <2>1. \A d \in Delivery :
          \/ row'[d] = row[d]
          \/ /\ row'[d] = Born /\ d[2] <= log
             /\ d[1] \in Subscription => subscription[d[1]].state = "active"
    BY <1>3, <1>9
  <2> QED
    BY <1>2, <2>1, RowsKept
<1>14. \A d \in Delivery : row[d].status # "none" => row'[d] = row[d]
  BY <1>3, <1>9
<1>15. ASSUME NEW n \in Daemon PROVE TickMakesSense(n)'
  <2>1. CASE n = dm
    BY <1>7, <1>10, <2>1 DEF TickMakesSense
  <2>2. CASE n # dm
    BY <1>10, <1>14, <2>2 DEF Sense, TickMakesSense
  <2> QED
    BY <2>1, <2>2
<1>16. RipeIsDue'
  <2> SUFFICES ASSUME NEW n \in Daemon, NEW d \in Delivery, d \in daemon'[n].ripe
               PROVE  row'[d].wait = 0 /\ row'[d].status # "none"
    BY DEF RipeIsDue
  <2>1. CASE n = dm /\ d \in born
    BY <1>9, <2>1 DEF Born
  <2>2. CASE n = dm /\ d \notin born
    BY <1>8, <1>9, <1>10, <2>2 DEF Pending
  <2>3. CASE n # dm
    BY <1>10, <1>14, <2>3 DEF Sense, RipeIsDue
  <2> QED
    BY <2>1, <2>2, <2>3
<1> QED
  BY <1>2, <1>12, <1>13, <1>15, <1>16 DEF Sense

(* What every step that makes no row has to keep. *)
LEMMA SenseKept ==
  ASSUME Sense, UNCHANGED <<log, subscription>>, Shaped(daemon'),
         row' \in [Delivery -> RowShape], failedLog' \in [Delivery -> Nat],
         crashes' \in 0..MaxCrash,
         \A d \in Delivery :
           \/ row'[d] = row[d]
           \/ /\ row[d].status # "none" /\ row'[d].status # "none"
              /\ row'[d].status = "pending" => Pending(d)
              /\ row[d].attempts <= row'[d].attempts,
         \A n \in Daemon, d \in Delivery :
           d \in daemon'[n].ripe =>
             d \in daemon[n].ripe /\ (row'[d].wait = 0 \/ row'[d].wait = row[d].wait),
         \A n \in Daemon :
           daemon'[n].stage # "attempting" => daemon'[n].batch = {} /\ daemon'[n].flying = {},
         \A n \in Daemon, d \in Delivery, left \in 0..DeliveryTimeout :
           <<d, left>> \in daemon'[n].flying =>
             /\ d \notin daemon'[n].batch
             /\ \/ \E l \in 0..DeliveryTimeout : <<d, l>> \in daemon[n].flying
                \/ row'[d].status # "none" /\ row'[d].attempts > 0
  PROVE  Sense'
<1>1. TypeOK' /\ daemon' \in [Daemon -> DaemonRow]
  BY TypedAgain
<1>2. \A d \in Delivery : RowMakesSense(d)'
  BY RowsKept
<1>3. \A d \in Delivery : row[d].attempts \in Nat /\ row'[d].attempts \in Nat
  BY DEF Sense, TypeOK, RowShape
<1>4. ASSUME NEW n \in Daemon PROVE TickMakesSense(n)'
  <2>1. ASSUME NEW d \in Delivery, NEW left \in 0..DeliveryTimeout,
               <<d, left>> \in daemon'[n].flying
        PROVE  d \notin daemon'[n].batch /\ row'[d].status # "none" /\ row'[d].attempts > 0
    <3>1. CASE row'[d].status # "none" /\ row'[d].attempts > 0
      BY <2>1, <3>1
    <3>2. CASE \E l \in 0..DeliveryTimeout : <<d, l>> \in daemon[n].flying
      <4>1. row[d].status # "none" /\ row[d].attempts > 0
        BY <3>2 DEF Sense, TickMakesSense
      <4> QED
        BY <1>3, <2>1, <4>1
    <3> QED
      BY <2>1, <3>1, <3>2
  <2> QED
    BY <2>1 DEF TickMakesSense
<1>5. RipeIsDue'
  <2> SUFFICES ASSUME NEW n \in Daemon, NEW d \in Delivery, d \in daemon'[n].ripe
               PROVE  row'[d].wait = 0 /\ row'[d].status # "none"
    BY DEF RipeIsDue
  <2>1. row[d].wait = 0 /\ row[d].status # "none"
    BY DEF Sense, RipeIsDue
  <2> QED
    BY <2>1
<1>6. \A s \in Subscription :
        subscription'[s].state = "none" => subscription'[s] = Unsubscribed
  BY DEF Sense
<1> QED
  BY <1>1, <1>2, <1>4, <1>5, <1>6 DEF Sense

(* Of those, the steps that change one tick and no row. *)
LEMMA TickAlone ==
  ASSUME Sense, UNCHANGED <<log, subscription, row, failedLog, crashes>>,
         NEW dm \in Daemon, NEW t \in TickShape(dm), daemon' = [daemon EXCEPT ![dm] = t],
         t.ripe \subseteq daemon[dm].ripe,
         t.stage # "attempting" => t.batch = {} /\ t.flying = {},
         \A d \in Delivery, left \in 0..DeliveryTimeout :
           <<d, left>> \in t.flying => d \notin t.batch /\ <<d, left>> \in daemon[dm].flying
  PROVE  Sense'
<1>1. Shaped(daemon)
  BY ShapeIs
<1>2. /\ Shaped([daemon EXCEPT ![dm] = t]) /\ [daemon EXCEPT ![dm] = t][dm] = t
      /\ \A n \in Daemon : n # dm => [daemon EXCEPT ![dm] = t][n] = daemon[n]
  BY ONLY <1>1, t \in TickShape(dm), dm \in Daemon, ReplaceTick
<1>3. /\ Shaped(daemon') /\ daemon'[dm] = t
      /\ \A n \in Daemon : n # dm => daemon'[n] = daemon[n]
  BY <1>2
<1>4. /\ row' \in [Delivery -> RowShape] /\ failedLog' \in [Delivery -> Nat]
      /\ crashes' \in 0..MaxCrash
  BY DEF Sense, TypeOK, RowShape
<1>5. \A n \in Daemon, d \in Delivery :
        d \in daemon'[n].ripe => d \in daemon[n].ripe /\ row'[d].wait = row[d].wait
  BY <1>3
<1>6. \A n \in Daemon :
        daemon'[n].stage # "attempting" => daemon'[n].batch = {} /\ daemon'[n].flying = {}
  BY <1>3 DEF Sense, TickMakesSense
<1>7. \A n \in Daemon, d \in Delivery, left \in 0..DeliveryTimeout :
        <<d, left>> \in daemon'[n].flying =>
          d \notin daemon'[n].batch /\ <<d, left>> \in daemon[n].flying
  BY <1>3 DEF Sense, TickMakesSense
<1> QED
  BY <1>3, <1>4, <1>5, <1>6, <1>7, SenseKept

LEMMA SelectStep ==
  ASSUME Sense, NEW dm \in Daemon, Select(dm) PROVE Sense'
<1>1. /\ daemon[dm].stage = "selecting" /\ daemon[dm] \in TickShape(dm)
      /\ daemon[dm].batch = {} /\ daemon[dm].flying = {}
      /\ UNCHANGED <<log, subscription, row, failedLog, crashes>>
  BY ShapeIs DEF Select, Sense, TickMakesSense, Shaped
<1>2. Idle \in TickShape(dm)
  BY DEF Idle, TickShape
<1>3. CASE daemon' = [daemon EXCEPT ![dm] = Idle]
  BY <1>1, <1>2, <1>3, TickAlone DEF Idle
<1>4. ASSUME NEW batch \in SUBSET Due(dm), NEW full \in BOOLEAN,
             daemon' = [daemon EXCEPT ![dm].stage = "attempting", ![dm].batch = batch,
                                      ![dm].full = full]
      PROVE  Sense'
  <2> DEFINE t == [daemon[dm] EXCEPT !.stage = "attempting", !.batch = batch, !.full = full]
  <2>1. daemon' = [daemon EXCEPT ![dm] = t]
    BY <1>4, ShapeIs DEF Shaped
  <2>2. batch \in SUBSET Queue(dm)
    BY <1>1 DEF Due, TickShape
  <2>3. /\ t \in TickShape(dm) /\ t.stage = "attempting" /\ t.flying = {}
        /\ t.ripe = daemon[dm].ripe
    BY <1>1, <2>2 DEF TickShape
  <2> HIDE DEF t
  <2> QED
    BY <1>1, <2>1, <2>3, TickAlone
<1> DEFINE size == Min({DeliveryCeiling, Cardinality(Due(dm))})
<1>5. \/ daemon' = [daemon EXCEPT ![dm] = Idle]
      \/ \E batch \in kSubset(size, Due(dm)) :
           daemon' = [daemon EXCEPT ![dm].stage = "attempting", ![dm].batch = batch,
                                    ![dm].full = (size = DeliveryCeiling)]
  BY DEF Select
<1> HIDE DEF size
<1>6. kSubset(size, Due(dm)) \subseteq SUBSET Due(dm) /\ (size = DeliveryCeiling) \in BOOLEAN
  BY DEF kSubset
<1> QED
  BY <1>3, <1>4, <1>5, <1>6

LEMMA SettleStep ==
  ASSUME Sense, NEW dm \in Daemon, Settle(dm) PROVE Sense'
<1> DEFINE t == IF daemon[dm].full THEN [daemon[dm] EXCEPT !.stage = "selecting"] ELSE Idle
<1>1. /\ daemon[dm].batch = {} /\ daemon[dm].flying = {}
      /\ UNCHANGED <<log, subscription, row, failedLog, crashes>>
      /\ Shaped(daemon) /\ daemon[dm] \in TickShape(dm)
  BY ShapeIs DEF Settle, Shaped
<1>2. daemon' = [daemon EXCEPT ![dm] = t]
  BY <1>1 DEF Settle, Shaped
<1>3. Idle \in TickShape(dm) /\ Idle.batch = {} /\ Idle.flying = {} /\ Idle.ripe = {}
  BY DEF Idle, TickShape
<1>4. /\ t \in TickShape(dm) /\ t.batch = {} /\ t.flying = {}
      /\ t.ripe \subseteq daemon[dm].ripe
  <2>1. CASE daemon[dm].full
    BY <1>1, <2>1 DEF TickShape
  <2>2. CASE ~daemon[dm].full
    BY <1>3, <2>2
  <2> QED
    BY <2>1, <2>2
<1> HIDE DEF t
<1> QED
  BY <1>1, <1>2, <1>4, TickAlone

(* What a tick is after an attempt on d is on its way. *)
LEMMA SentIs ==
  ASSUME Sense, NEW dm \in Daemon, NEW d \in daemon[dm].batch
  PROVE  LET state == [daemon EXCEPT ![dm].batch = @ \ {d},
                                     ![dm].flying = @ \cup {<<d, DeliveryTimeout>>}]
         IN  /\ Shaped(state)
             /\ state[dm].stage = daemon[dm].stage /\ state[dm].ripe = daemon[dm].ripe
             /\ state[dm].batch = daemon[dm].batch \ {d}
             /\ state[dm].flying = daemon[dm].flying \cup {<<d, DeliveryTimeout>>}
             /\ \A n \in Daemon : n # dm => state[n] = daemon[n]
<1> DEFINE batch == daemon[dm].batch \ {d}
           flying == daemon[dm].flying \cup {<<d, DeliveryTimeout>>}
           t == [daemon[dm] EXCEPT !.batch = batch, !.flying = flying]
<1>1. Shaped(daemon) /\ daemon[dm] \in TickShape(dm)
  BY ShapeIs DEF Shaped
<1>2. batch \in SUBSET Queue(dm) /\ flying \in SUBSET (Queue(dm) \X (0..DeliveryTimeout))
  <2>1. d \in Queue(dm) /\ DeliveryTimeout \in 0..DeliveryTimeout
    BY <1>1, DeliveryAssumption DEF TickShape
  <2> QED
    BY <1>1, <2>1 DEF TickShape
<1>3. [daemon EXCEPT ![dm].batch = @ \ {d}, ![dm].flying = @ \cup {<<d, DeliveryTimeout>>}]
        = [daemon EXCEPT ![dm] = t]
  BY <1>1 DEF Shaped
<1> HIDE DEF batch, flying
<1>4. /\ t \in TickShape(dm) /\ t.stage = daemon[dm].stage /\ t.ripe = daemon[dm].ripe
      /\ t.batch = batch /\ t.flying = flying
  BY <1>1, <1>2 DEF TickShape
<1> HIDE DEF t
<1>5. /\ Shaped([daemon EXCEPT ![dm] = t]) /\ [daemon EXCEPT ![dm] = t][dm] = t
      /\ \A n \in Daemon : n # dm => [daemon EXCEPT ![dm] = t][n] = daemon[n]
  BY <1>1, <1>4, ReplaceTick
<1> QED
  BY <1>3, <1>4, <1>5 DEF batch, flying

(* What a tick is after an attempt on d has ended. *)
LEMMA LandedIs ==
  ASSUME Sense, NEW dm \in Daemon, NEW d, NEW left
  PROVE  /\ Shaped(Landed(dm, d, left))
         /\ \A n \in Daemon :
              /\ Landed(dm, d, left)[n].stage = daemon[n].stage
              /\ Landed(dm, d, left)[n].ripe = daemon[n].ripe
              /\ Landed(dm, d, left)[n].batch = daemon[n].batch
              /\ Landed(dm, d, left)[n].flying
                   = IF n = dm THEN daemon[n].flying \ {<<d, left>>} ELSE daemon[n].flying
<1> DEFINE flying == daemon[dm].flying \ {<<d, left>>}
           t == [daemon[dm] EXCEPT !.flying = flying]
<1>1. Shaped(daemon) /\ daemon[dm] \in TickShape(dm)
  BY ShapeIs DEF Shaped
<1>2. flying \in SUBSET (Queue(dm) \X (0..DeliveryTimeout))
  BY <1>1 DEF TickShape
<1>3. Landed(dm, d, left) = [daemon EXCEPT ![dm] = t]
  BY <1>1 DEF Shaped, Landed
<1> HIDE DEF flying
<1>4. /\ t \in TickShape(dm) /\ t.stage = daemon[dm].stage /\ t.ripe = daemon[dm].ripe
      /\ t.batch = daemon[dm].batch /\ t.flying = flying
  BY <1>1, <1>2 DEF TickShape
<1> HIDE DEF t
<1>5. /\ Shaped([daemon EXCEPT ![dm] = t]) /\ [daemon EXCEPT ![dm] = t][dm] = t
      /\ \A n \in Daemon : n # dm => [daemon EXCEPT ![dm] = t][n] = daemon[n]
  BY <1>1, <1>4, ReplaceTick
<1> QED
  BY <1>3, <1>4, <1>5 DEF flying

(* What flies is a delivery of its own queue, and its row is there. *)
LEMMA FlyingIs ==
  ASSUME Sense, NEW dm \in Daemon, NEW d, NEW left, <<d, left>> \in daemon[dm].flying
  PROVE  /\ d \in Delivery /\ d \in Queue(dm) /\ left \in 0..DeliveryTimeout
         /\ row[d].status # "none" /\ row[d].attempts \in Nat \ {0}
<1>1. <<d, left>> \in Queue(dm) \X (0..DeliveryTimeout)
  BY DEF Sense, TypeOK
<1>2. d \in Delivery /\ d \in Queue(dm) /\ left \in 0..DeliveryTimeout
  BY <1>1, QueuesAreDeliveries
<1>3. row[d].status # "none" /\ row[d].attempts > 0 /\ row[d].attempts \in Nat
  BY <1>2 DEF Sense, TickMakesSense, TypeOK
<1> QED
  BY <1>2, <1>3

(* The claim that wins: the attempt is counted, the row held, and no other moment
   finds it due. *)
LEMMA ClaimWon ==
  ASSUME Sense, NEW dm \in Daemon, NEW d \in daemon[dm].batch, Claim(dm, d),
         Pending(d), d \in daemon[dm].ripe
  PROVE  /\ Shaped(daemon') /\ row' \in [Delivery -> RowShape]
         /\ \A n \in Daemon :
              /\ daemon'[n].ripe = daemon[n].ripe \ {d}
              /\ daemon'[n].stage = daemon[n].stage
              /\ daemon'[n].batch = IF n = dm THEN daemon[n].batch \ {d} ELSE daemon[n].batch
              /\ daemon'[n].flying = IF n = dm
                                     THEN daemon[n].flying \cup {<<d, DeliveryTimeout>>}
                                     ELSE daemon[n].flying
         /\ row'[d].status = "pending" /\ row'[d].attempts = row[d].attempts + 1
         /\ row'[d].wait = DeliveryTimeout /\ row[d].attempts \in Nat
         /\ \A e \in Delivery : e # d => row'[e] = row[e]
<1>0. d \in Delivery
  BY ShapeIs, QueuesAreDeliveries DEF Shaped, TickShape
<1> DEFINE state == [daemon EXCEPT ![dm].batch = @ \ {d},
                                   ![dm].flying = @ \cup {<<d, DeliveryTimeout>>}]
<1>1. /\ row' = [row EXCEPT ![d].attempts = @ + 1, ![d].wait = DeliveryTimeout]
      /\ daemon' = Unripe(state, d)
  BY DEF Claim
<1>2. /\ Shaped(state)
      /\ state[dm].stage = daemon[dm].stage /\ state[dm].ripe = daemon[dm].ripe
      /\ state[dm].batch = daemon[dm].batch \ {d}
      /\ state[dm].flying = daemon[dm].flying \cup {<<d, DeliveryTimeout>>}
      /\ \A n \in Daemon : n # dm => state[n] = daemon[n]
  BY SentIs
<1> HIDE DEF state
<1>3. /\ Shaped(daemon')
      /\ \A n \in Daemon :
           /\ daemon'[n].ripe = daemon[n].ripe \ {d}
           /\ daemon'[n].stage = daemon[n].stage
           /\ daemon'[n].batch = IF n = dm THEN daemon[n].batch \ {d} ELSE daemon[n].batch
           /\ daemon'[n].flying = IF n = dm
                                  THEN daemon[n].flying \cup {<<d, DeliveryTimeout>>}
                                  ELSE daemon[n].flying
  <2>1. /\ Shaped(Unripe(state, d))
        /\ \A n \in Daemon :
             /\ Unripe(state, d)[n].ripe = state[n].ripe \ {d}
             /\ Unripe(state, d)[n].stage = state[n].stage
             /\ Unripe(state, d)[n].batch = state[n].batch
             /\ Unripe(state, d)[n].full = state[n].full
             /\ Unripe(state, d)[n].flying = state[n].flying
    BY ONLY <1>2, UnripeIs
  <2>2. daemon' = Unripe(state, d)
    BY <1>1
  <2>3. \A n \in Daemon :
          /\ state[n].ripe = daemon[n].ripe /\ state[n].stage = daemon[n].stage
          /\ state[n].batch = IF n = dm THEN daemon[n].batch \ {d} ELSE daemon[n].batch
          /\ state[n].flying = IF n = dm
                                THEN daemon[n].flying \cup {<<d, DeliveryTimeout>>}
                                ELSE daemon[n].flying
    BY ONLY <1>2
  <2> QED
    BY ONLY <2>1, <2>2, <2>3
<1>4. /\ row \in [Delivery -> RowShape] /\ row[d].status = "pending"
      /\ row[d].attempts \in Nat /\ DeliveryTimeout \in 0..Longest
  BY <1>0, LongestIs, DeliveryAssumption DEF Sense, TypeOK, RowShape, Pending
<1>5. /\ row' \in [Delivery -> RowShape]
      /\ row'[d].status = "pending" /\ row'[d].attempts = row[d].attempts + 1
      /\ row'[d].wait = DeliveryTimeout
      /\ \A e \in Delivery : e # d => row'[e] = row[e]
  <2>1. /\ row'[d] = [row[d] EXCEPT !.attempts = @ + 1, !.wait = DeliveryTimeout]
        /\ \A e \in Delivery : e # d => row'[e] = row[e]
        /\ row' = [e \in Delivery |-> row'[e]]
    BY <1>0, <1>1, <1>4
  <2>2. row[d] \in RowShape
    BY <1>0, <1>4
  <2>3. /\ row'[d] \in RowShape /\ row'[d].status = "pending"
        /\ row'[d].attempts = row[d].attempts + 1 /\ row'[d].wait = DeliveryTimeout
    <3>1. PICK r \in RowShape : r = row[d]
      BY <2>2
    <3>2. PICK n \in Nat : n = row[d].attempts + 1
      BY <1>4
    <3> DEFINE new == [r EXCEPT !.attempts = n, !.wait = DeliveryTimeout]
    <3>3. /\ new \in RowShape /\ new.status = r.status /\ new.attempts = n
          /\ new.wait = DeliveryTimeout
      BY <1>4 DEF RowShape
    <3>4. row'[d] = new
      BY <2>1, <3>1, <3>2
    <3> HIDE DEF new
    <3> QED
      BY <1>4, <3>1, <3>2, <3>3, <3>4
  <2> QED
    BY <1>0, <1>4, <2>1, <2>3
<1> QED
  BY <1>3, <1>4, <1>5

LEMMA ClaimStep ==
  ASSUME Sense, NEW dm \in Daemon, NEW d \in daemon[dm].batch, Claim(dm, d) PROVE Sense'
<1>1. /\ Shaped(daemon) /\ daemon[dm] \in TickShape(dm) /\ d \in Queue(dm) /\ d \in Delivery
      /\ UNCHANGED <<log, subscription, failedLog, crashes>>
  BY ShapeIs, QueuesAreDeliveries DEF Shaped, TickShape, Claim
<1>2. /\ daemon[dm].stage = "attempting"
  BY <1>1 DEF Sense, TickMakesSense
<1>3. CASE ~(Pending(d) /\ d \in daemon[dm].ripe)
  <2> DEFINE batch == daemon[dm].batch \ {d}
             t == [daemon[dm] EXCEPT !.batch = batch]
  <2>1. UNCHANGED row /\ daemon' = [daemon EXCEPT ![dm] = t]
    BY <1>1, <1>3 DEF Claim, Shaped
  <2>2. batch \in SUBSET Queue(dm)
    BY <1>1 DEF TickShape
  <2>3. batch \subseteq daemon[dm].batch
    OBVIOUS
  <2> HIDE DEF batch
  <2>4. /\ t \in TickShape(dm) /\ t.stage = "attempting" /\ t.ripe = daemon[dm].ripe
        /\ t.batch = batch /\ t.flying = daemon[dm].flying
    BY <1>1, <1>2, <2>2 DEF TickShape
  <2> HIDE DEF t
  <2>5. \A e \in Delivery, left \in 0..DeliveryTimeout :
          <<e, left>> \in t.flying => e \notin t.batch /\ <<e, left>> \in daemon[dm].flying
    BY <2>3, <2>4 DEF Sense, TickMakesSense
  <2> QED
    BY <1>1, <2>1, <2>4, <2>5, TickAlone
<1>4. CASE Pending(d) /\ d \in daemon[dm].ripe
  <2>3. /\ Shaped(daemon')
        /\ \A n \in Daemon :
             /\ daemon'[n].ripe = daemon[n].ripe \ {d}
             /\ daemon'[n].stage = daemon[n].stage
             /\ daemon'[n].batch = IF n = dm THEN daemon[n].batch \ {d} ELSE daemon[n].batch
             /\ daemon'[n].flying = IF n = dm
                                    THEN daemon[n].flying \cup {<<d, DeliveryTimeout>>}
                                    ELSE daemon[n].flying
    BY <1>4, ClaimWon, ZenonT(60)
  <2>4. row[d].status = "pending" /\ row[d].attempts \in Nat
    BY <1>4, ClaimWon DEF Pending
  <2>5. /\ row' \in [Delivery -> RowShape]
        /\ row'[d].status = "pending" /\ row'[d].attempts = row[d].attempts + 1
        /\ \A e \in Delivery : e # d => row'[e] = row[e]
    BY <1>4, ClaimWon
  <2>6. \A e \in Delivery :
          \/ row'[e] = row[e]
          \/ /\ row[e].status # "none" /\ row'[e].status # "none"
             /\ row'[e].status = "pending" => Pending(e)
             /\ row[e].attempts <= row'[e].attempts
    BY <1>4, <2>4, <2>5
  <2>7. \A n \in Daemon, e \in Delivery :
          e \in daemon'[n].ripe => e \in daemon[n].ripe /\ row'[e].wait = row[e].wait
    BY <2>3, <2>5
  <2>8. \A n \in Daemon :
          daemon'[n].stage # "attempting" => daemon'[n].batch = {} /\ daemon'[n].flying = {}
    BY <1>2, <2>3 DEF Sense, TickMakesSense
  <2>9. \A n \in Daemon, e \in Delivery, left \in 0..DeliveryTimeout :
          <<e, left>> \in daemon'[n].flying =>
            /\ e \notin daemon'[n].batch
            /\ \/ <<e, left>> \in daemon[n].flying
               \/ row'[e].status # "none" /\ row'[e].attempts > 0
    <3> TAKE n \in Daemon, e \in Delivery, left \in 0..DeliveryTimeout
    <3> HAVE <<e, left>> \in daemon'[n].flying
    <3>1. CASE <<e, left>> \in daemon[n].flying
      BY <2>3, <3>1 DEF Sense, TickMakesSense
    <3>2. CASE <<e, left>> \notin daemon[n].flying
      <4>1. n = dm
        BY <2>3, <3>2
      <4>2. daemon'[dm].flying = daemon[dm].flying \cup {<<d, DeliveryTimeout>>}
            /\ daemon'[dm].batch = daemon[dm].batch \ {d}
        BY <2>3
      <4>3. e = d /\ d \notin daemon'[dm].batch
        BY <3>2, <4>1, <4>2
      <4> QED
        BY <2>4, <2>5, <4>1, <4>3
    <3> QED
      BY <3>1, <3>2
  <2>10. failedLog' \in [Delivery -> Nat] /\ crashes' \in 0..MaxCrash
    BY <1>1 DEF Sense, TypeOK
  <2> QED
    BY <1>1, <2>3, <2>5, <2>6, <2>7, <2>8, <2>9, <2>10, SenseKept
<1> QED
  BY <1>3, <1>4

(* A field of one row changes. *)
LEMMA StatusSet ==
  ASSUME Sense, NEW d \in Delivery,
         NEW status \in {"none", "pending", "delivered", "exhausted"},
         row' = [row EXCEPT ![d].status = status]
  PROVE  /\ row' \in [Delivery -> RowShape]
         /\ row'[d].status = status /\ row'[d].attempts = row[d].attempts
         /\ row'[d].wait = row[d].wait
         /\ \A e \in Delivery : e # d => row'[e] = row[e]
<1>1. row \in [Delivery -> RowShape]
  BY DEF Sense, TypeOK, RowShape
<1>2. PICK r \in RowShape : r = row[d]
  BY <1>1
<1> DEFINE new == [r EXCEPT !.status = status]
<1>3. /\ new \in RowShape /\ new.status = status /\ new.attempts = r.attempts
      /\ new.wait = r.wait
  BY DEF RowShape
<1>4. /\ row'[d] = new /\ row' = [e \in Delivery |-> row'[e]]
      /\ \A e \in Delivery : e # d => row'[e] = row[e]
  BY <1>1, <1>2
<1> HIDE DEF new
<1> QED
  BY <1>1, <1>2, <1>3, <1>4

LEMMA WaitSet ==
  ASSUME Sense, NEW d \in Delivery, NEW wait \in 0..Longest,
         row' = [row EXCEPT ![d].wait = wait]
  PROVE  /\ row' \in [Delivery -> RowShape]
         /\ row'[d].status = row[d].status /\ row'[d].attempts = row[d].attempts
         /\ row'[d].wait = wait
         /\ \A e \in Delivery : e # d => row'[e] = row[e]
<1>1. row \in [Delivery -> RowShape]
  BY DEF Sense, TypeOK, RowShape
<1>2. PICK r \in RowShape : r = row[d]
  BY <1>1
<1> DEFINE new == [r EXCEPT !.wait = wait]
<1>3. /\ new \in RowShape /\ new.wait = wait /\ new.attempts = r.attempts
      /\ new.status = r.status
  BY DEF RowShape
<1>4. /\ row'[d] = new /\ row' = [e \in Delivery |-> row'[e]]
      /\ \A e \in Delivery : e # d => row'[e] = row[e]
  BY <1>1, <1>2
<1> HIDE DEF new
<1> QED
  BY <1>1, <1>2, <1>3, <1>4

(* How an attempt ends for the row it was made for. *)
Ended(d) ==
  \/ ~Pending(d) /\ row'[d] = row[d]
  \/ /\ Pending(d) /\ row'[d].status = "delivered" /\ row'[d].wait = row[d].wait
  \/ /\ Pending(d) /\ row'[d].status = "pending" /\ row[d].attempts \in 1..Len(Backoff)
     /\ row'[d].wait = Backoff[row[d].attempts]
     /\ \A n \in Daemon : d \notin daemon'[n].ripe
  \/ /\ Pending(d) /\ row'[d].status = "exhausted" /\ row'[d].wait = row[d].wait
     /\ row[d].attempts > Len(Backoff)

(* An answer: the attempt is gone from its tick, and only its row may differ. *)
LEMMA AnswerIs ==
  ASSUME Sense, NEW dm \in Daemon, NEW d, NEW left, <<d, left>> \in daemon[dm].flying,
         Succeed(dm, d, left) \/ Fail(dm, d, left)
  PROVE  /\ Shaped(daemon') /\ row' \in [Delivery -> RowShape]
         /\ \A n \in Daemon :
              /\ daemon'[n].ripe \subseteq daemon[n].ripe
              /\ daemon'[n].stage = daemon[n].stage /\ daemon'[n].batch = daemon[n].batch
              /\ daemon'[n].flying
                   = IF n = dm THEN daemon[n].flying \ {<<d, left>>} ELSE daemon[n].flying
         /\ \A e \in Delivery : e # d => row'[e] = row[e]
         /\ row'[d].attempts = row[d].attempts /\ Ended(d)
         /\ failedLog' = IF Pending(d) /\ row'[d].status = "exhausted" /\ d[1] \in Hook
                         THEN [failedLog EXCEPT ![d] = @ + 1] ELSE failedLog
         /\ UNCHANGED <<log, subscription, crashes>>
<1>1. /\ d \in Delivery /\ row[d].status # "none" /\ row[d].attempts \in Nat \ {0}
      /\ row \in [Delivery -> RowShape]
  BY FlyingIs DEF Sense, TypeOK, RowShape
<1>2. /\ Shaped(Landed(dm, d, left))
      /\ \A n \in Daemon :
           /\ Landed(dm, d, left)[n].stage = daemon[n].stage
           /\ Landed(dm, d, left)[n].ripe = daemon[n].ripe
           /\ Landed(dm, d, left)[n].batch = daemon[n].batch
           /\ Landed(dm, d, left)[n].flying
                = IF n = dm THEN daemon[n].flying \ {<<d, left>>} ELSE daemon[n].flying
  BY LandedIs
<1>3. UNCHANGED <<log, subscription, crashes>>
  BY DEF Succeed, Fail
<1>4. ASSUME Succeed(dm, d, left), Pending(d)
      PROVE  /\ row' = [row EXCEPT ![d].status = "delivered"]
             /\ daemon' = Landed(dm, d, left) /\ UNCHANGED failedLog
  BY <1>4 DEF Succeed
<1>5. ASSUME Succeed(dm, d, left), ~Pending(d)
      PROVE  UNCHANGED <<row, failedLog>> /\ daemon' = Landed(dm, d, left)
  <2>1. row' = [row EXCEPT ![d].status = row[d].status] /\ daemon' = Landed(dm, d, left)
        /\ UNCHANGED failedLog
    BY <1>5 DEF Succeed
  <2>2. PICK r \in RowShape : r = row[d]
    BY <1>1
  <2>3. [r EXCEPT !.status = r.status] = r
    BY DEF RowShape
  <2>4. row' = row
    BY <1>1, <2>1, <2>2, <2>3
  <2> QED
    BY <2>1, <2>4
<1>6. ASSUME Fail(dm, d, left)
      PROVE  \/ ~Pending(d) /\ daemon' = Landed(dm, d, left) /\ UNCHANGED <<row, failedLog>>
             \/ /\ Pending(d) /\ row[d].attempts <= Len(Backoff)
                /\ row' = [row EXCEPT ![d].wait = Backoff[row[d].attempts]]
                /\ daemon' = Unripe(Landed(dm, d, left), d)
                /\ UNCHANGED failedLog
             \/ /\ Pending(d) /\ row[d].attempts > Len(Backoff)
                /\ row' = [row EXCEPT ![d].status = "exhausted"]
                /\ daemon' = Landed(dm, d, left)
                /\ failedLog' = IF d[1] \in Hook THEN [failedLog EXCEPT ![d] = @ + 1]
                                ELSE failedLog
  BY <1>6 DEF Fail
<1>7. CASE /\ ~Pending(d) /\ daemon' = Landed(dm, d, left) /\ UNCHANGED <<row, failedLog>>
  BY <1>1, <1>2, <1>3, <1>7 DEF Ended
<1>8. CASE /\ Pending(d) /\ row' = [row EXCEPT ![d].status = "delivered"]
           /\ daemon' = Landed(dm, d, left) /\ UNCHANGED failedLog
  <2>1. /\ row' \in [Delivery -> RowShape]
        /\ row'[d].status = "delivered" /\ row'[d].attempts = row[d].attempts
        /\ row'[d].wait = row[d].wait
        /\ \A e \in Delivery : e # d => row'[e] = row[e]
    BY <1>1, <1>8, StatusSet
  <2> QED
    BY <1>2, <1>3, <1>8, <2>1 DEF Ended
<1>9. CASE /\ Pending(d) /\ row[d].attempts <= Len(Backoff)
           /\ row' = [row EXCEPT ![d].wait = Backoff[row[d].attempts]]
           /\ daemon' = Unripe(Landed(dm, d, left), d)
           /\ UNCHANGED failedLog
  <2>1. row[d].attempts \in 1..Len(Backoff) /\ DOMAIN Backoff = 1..Len(Backoff)
    BY <1>1, <1>9, DeliveryAssumption
  <2>2. Backoff[row[d].attempts] \in 0..Longest
    BY <2>1, LongestIs, DeliveryAssumption
  <2>3. /\ row' \in [Delivery -> RowShape]
        /\ row'[d].status = row[d].status /\ row'[d].attempts = row[d].attempts
        /\ row'[d].wait = Backoff[row[d].attempts]
        /\ \A e \in Delivery : e # d => row'[e] = row[e]
    BY <1>1, <1>9, <2>2, WaitSet
  <2> DEFINE state == Landed(dm, d, left)
  <2> HIDE DEF state
  <2>4. /\ Shaped(Unripe(state, d))
        /\ \A n \in Daemon :
             /\ Unripe(state, d)[n].ripe = state[n].ripe \ {d}
             /\ Unripe(state, d)[n].stage = state[n].stage
             /\ Unripe(state, d)[n].batch = state[n].batch
             /\ Unripe(state, d)[n].full = state[n].full
             /\ Unripe(state, d)[n].flying = state[n].flying
    <3>1. Shaped(state)
      BY <1>2 DEF state
    <3> QED
      BY ONLY <3>1, UnripeIs
  <2>5. /\ Shaped(daemon')
        /\ \A n \in Daemon :
             /\ daemon'[n].ripe = daemon[n].ripe \ {d}
             /\ daemon'[n].stage = daemon[n].stage /\ daemon'[n].batch = daemon[n].batch
             /\ daemon'[n].flying
                  = IF n = dm THEN daemon[n].flying \ {<<d, left>>} ELSE daemon[n].flying
    <3>1. daemon' = Unripe(state, d)
      BY <1>9 DEF state
    <3>2. \A n \in Daemon :
           /\ state[n].stage = daemon[n].stage
           /\ state[n].ripe = daemon[n].ripe
           /\ state[n].batch = daemon[n].batch
           /\ state[n].flying
                = IF n = dm THEN daemon[n].flying \ {<<d, left>>} ELSE daemon[n].flying
      BY <1>2 DEF state
    <3> QED
      BY <2>4, <3>1, <3>2
  <2>6. Ended(d)
    BY <1>9, <2>1, <2>3, <2>5 DEF Ended, Pending
  <2>7. \A n \in Daemon : daemon'[n].ripe \subseteq daemon[n].ripe
    BY <2>5
  <2>8. row'[d].status # "exhausted"
    BY <1>9, <2>3 DEF Pending
  <2> QED
    BY <1>3, <1>9, <2>3, <2>5, <2>6, <2>7, <2>8
<1>10. CASE /\ Pending(d) /\ row[d].attempts > Len(Backoff)
            /\ row' = [row EXCEPT ![d].status = "exhausted"]
            /\ daemon' = Landed(dm, d, left)
            /\ failedLog' = IF d[1] \in Hook THEN [failedLog EXCEPT ![d] = @ + 1]
                            ELSE failedLog
  <2>1. /\ row' \in [Delivery -> RowShape]
        /\ row'[d].status = "exhausted" /\ row'[d].attempts = row[d].attempts
        /\ row'[d].wait = row[d].wait
        /\ \A e \in Delivery : e # d => row'[e] = row[e]
    BY <1>1, <1>10, StatusSet
  <2> QED
    BY <1>2, <1>3, <1>10, <2>1 DEF Ended
<1> QED
  BY <1>4, <1>5, <1>6, <1>7, <1>8, <1>9, <1>10

LEMMA AnswerStep ==
  ASSUME Sense, NEW dm \in Daemon, NEW d, NEW left, <<d, left>> \in daemon[dm].flying,
         Succeed(dm, d, left) \/ Fail(dm, d, left)
  PROVE  Sense'
<1>1. d \in Delivery /\ row[d].status # "none" /\ row[d].attempts \in Nat
  BY FlyingIs
<1>2. /\ Shaped(daemon') /\ row' \in [Delivery -> RowShape]
      /\ \A n \in Daemon :
           /\ daemon'[n].ripe \subseteq daemon[n].ripe
           /\ daemon'[n].stage = daemon[n].stage /\ daemon'[n].batch = daemon[n].batch
           /\ daemon'[n].flying \subseteq daemon[n].flying
      /\ \A e \in Delivery : e # d => row'[e] = row[e]
      /\ row'[d].attempts = row[d].attempts /\ Ended(d)
      /\ UNCHANGED <<log, subscription, crashes>>
  <2>1. /\ Shaped(daemon') /\ row' \in [Delivery -> RowShape]
        /\ \A n \in Daemon :
             /\ daemon'[n].ripe \subseteq daemon[n].ripe
             /\ daemon'[n].stage = daemon[n].stage /\ daemon'[n].batch = daemon[n].batch
             /\ daemon'[n].flying
                  = IF n = dm THEN daemon[n].flying \ {<<d, left>>} ELSE daemon[n].flying
        /\ \A e \in Delivery : e # d => row'[e] = row[e]
        /\ row'[d].attempts = row[d].attempts /\ Ended(d)
        /\ UNCHANGED <<log, subscription, crashes>>
    BY AnswerIs, ZenonT(60)
  <2>2. \A n \in Daemon : daemon'[n].flying \subseteq daemon[n].flying
    BY ONLY <2>1
  <2> QED
    BY <2>1, <2>2
<1>3. \A e \in Delivery :
        \/ row'[e] = row[e]
        \/ /\ row[e].status # "none" /\ row'[e].status # "none"
           /\ row'[e].status = "pending" => Pending(e)
           /\ row[e].attempts <= row'[e].attempts
  BY <1>1, <1>2 DEF Ended
<1>4. ASSUME NEW n \in Daemon, NEW e \in Delivery, e \in daemon'[n].ripe
      PROVE  e \in daemon[n].ripe /\ row'[e].wait = row[e].wait
  <2>1. CASE e = d
    BY <1>2, <1>4, <2>1 DEF Ended
  <2>2. CASE e # d
    BY <1>2, <1>4, <2>2
  <2> QED
    BY <2>1, <2>2
<1>5. \A n \in Daemon :
        daemon'[n].stage # "attempting" => daemon'[n].batch = {} /\ daemon'[n].flying = {}
  BY <1>2 DEF Sense, TickMakesSense
<1>6. \A n \in Daemon, e \in Delivery, l \in 0..DeliveryTimeout :
        <<e, l>> \in daemon'[n].flying =>
          e \notin daemon'[n].batch /\ <<e, l>> \in daemon[n].flying
  BY <1>2 DEF Sense, TickMakesSense
<1>7. failedLog' \in [Delivery -> Nat] /\ crashes' \in 0..MaxCrash
  <2>1. failedLog \in [Delivery -> Nat] /\ crashes \in 0..MaxCrash
    BY DEF Sense, TypeOK
  <2>2. failedLog' = [failedLog EXCEPT ![d] = @ + 1] \/ failedLog' = failedLog
    BY AnswerIs
  <2> QED
    BY <1>2, <2>1, <2>2
<1> QED
  BY <1>2, <1>3, <1>4, <1>5, <1>6, <1>7, SenseKept

LEMMA CrashStep ==
  ASSUME Sense, NEW h \in Host, Crash(h) PROVE Sense'
<1>1. /\ crashes < MaxCrash /\ crashes' = crashes + 1
      /\ daemon' = [dm \in Daemon |-> IF dm[1] = h THEN Idle ELSE daemon[dm]]
      /\ UNCHANGED <<log, subscription, row, failedLog>>
      /\ Shaped(daemon)
  BY ShapeIs DEF Crash
<1>2. \A n \in Daemon : daemon'[n] = IF n[1] = h THEN Idle ELSE daemon[n]
  BY <1>1
<1>3. \A n \in Daemon : Idle \in TickShape(n)
  BY DEF Idle, TickShape
<1>4. Shaped(daemon')
  <2>1. \A n \in Daemon : daemon'[n] \in TickShape(n)
    BY <1>1, <1>2, <1>3 DEF Shaped
  <2>2. DOMAIN daemon' = Daemon /\ daemon' = [n \in Daemon |-> daemon'[n]]
    BY <1>1
  <2> QED
    BY <2>1, <2>2, ShapedIsTyped
<1>5. /\ row' \in [Delivery -> RowShape] /\ failedLog' \in [Delivery -> Nat]
      /\ crashes' \in 0..MaxCrash
  BY <1>1, DeliveryAssumption DEF Sense, TypeOK, RowShape
<1>6. /\ Idle.batch = {} /\ Idle.flying = {} /\ Idle.ripe = {}
  BY DEF Idle
<1>7. \A n \in Daemon, d \in Delivery :
        d \in daemon'[n].ripe => d \in daemon[n].ripe /\ row'[d].wait = row[d].wait
  BY <1>1, <1>2, <1>6
<1>8. \A n \in Daemon :
        daemon'[n].stage # "attempting" => daemon'[n].batch = {} /\ daemon'[n].flying = {}
  BY <1>2, <1>6 DEF Sense, TickMakesSense
<1>9. \A n \in Daemon, d \in Delivery, left \in 0..DeliveryTimeout :
        <<d, left>> \in daemon'[n].flying =>
          d \notin daemon'[n].batch /\ <<d, left>> \in daemon[n].flying
  BY <1>2, <1>6 DEF Sense, TickMakesSense
<1> QED
  BY <1>1, <1>4, <1>5, <1>7, <1>8, <1>9, SenseKept

(* Time: of every row and every attempt only what is left of it changes. *)
LEMMA PassIs ==
  ASSUME Sense, Pass
  PROVE  /\ Shaped(daemon') /\ row' \in [Delivery -> RowShape]
         /\ \A d \in Delivery :
              /\ row'[d].status = row[d].status /\ row'[d].attempts = row[d].attempts
              /\ row'[d].wait = Less(row[d].wait)
         /\ \A n \in Daemon :
              /\ daemon'[n].ripe = daemon[n].ripe /\ daemon'[n].stage = daemon[n].stage
              /\ daemon'[n].batch = daemon[n].batch
              /\ daemon'[n].flying = {<<f[1], Less(f[2])>> : f \in daemon[n].flying}
         /\ UNCHANGED <<log, subscription, failedLog, crashes>>
<1>1. /\ row' = [d \in Delivery |-> [row[d] EXCEPT !.wait = Less(@)]]
      /\ daemon' = [dm \in Daemon |->
                     [daemon[dm] EXCEPT !.flying = {<<f[1], Less(f[2])>> : f \in @}]]
      /\ UNCHANGED <<log, subscription, failedLog, crashes>>
      /\ row \in [Delivery -> RowShape] /\ Shaped(daemon)
  BY ShapeIs DEF Pass, Sense, TypeOK, RowShape
<1>2. \A m \in Nat : \A w \in 0..m : Less(w) \in 0..m
  BY DEF Less
<1>3. ASSUME NEW d \in Delivery
      PROVE  /\ row'[d] \in RowShape
             /\ row'[d].status = row[d].status /\ row'[d].attempts = row[d].attempts
             /\ row'[d].wait = Less(row[d].wait)
  <2>1. PICK r \in RowShape : r = row[d]
    BY <1>1
  <2>2. r.wait \in 0..Longest /\ Less(r.wait) \in 0..Longest
    BY <1>2, LongestIs DEF RowShape
  <2>3. PICK w \in 0..Longest : w = Less(r.wait)
    BY <2>2
  <2> DEFINE new == [r EXCEPT !.wait = w]
  <2>4. /\ new \in RowShape /\ new.status = r.status /\ new.attempts = r.attempts
        /\ new.wait = w
    BY DEF RowShape
  <2>5. row'[d] = new
    BY <1>1, <1>3, <2>1, <2>3
  <2> HIDE DEF new
  <2> QED
    BY <2>1, <2>3, <2>4, <2>5
<1>4. ASSUME NEW n \in Daemon
      PROVE  /\ daemon'[n] \in TickShape(n)
             /\ daemon'[n].ripe = daemon[n].ripe /\ daemon'[n].stage = daemon[n].stage
             /\ daemon'[n].batch = daemon[n].batch
             /\ daemon'[n].flying = {<<f[1], Less(f[2])>> : f \in daemon[n].flying}
  <2>1. PICK t \in TickShape(n) : t = daemon[n]
    BY <1>1, <1>4 DEF Shaped
  <2> DEFINE flying == {<<f[1], Less(f[2])>> : f \in t.flying}
             new == [t EXCEPT !.flying = flying]
  <2>2. flying \in SUBSET (Queue(n) \X (0..DeliveryTimeout))
    <3>1. t.flying \subseteq Queue(n) \X (0..DeliveryTimeout) /\ DeliveryTimeout \in Nat
      BY DeliveryAssumption DEF TickShape
    <3>2. \A f \in t.flying :
            f[1] \in Queue(n) /\ Less(f[2]) \in 0..DeliveryTimeout
      BY <1>2, <3>1
    <3> QED
      BY <3>2
  <2>3. daemon'[n] = new
    BY <1>1, <1>4, <2>1
  <2> HIDE DEF flying
  <2>4. /\ new \in TickShape(n) /\ new.ripe = t.ripe /\ new.stage = t.stage
        /\ new.batch = t.batch /\ new.flying = flying
    BY <2>2 DEF TickShape
  <2> HIDE DEF new
  <2> QED
    BY <2>1, <2>3, <2>4 DEF flying
<1>5. row' \in [Delivery -> RowShape]
  <2>1. row' = [d \in Delivery |-> row'[d]]
    BY <1>1
  <2> QED
    BY <1>3, <2>1
<1>6. Shaped(daemon')
  <2>1. DOMAIN daemon' = Daemon /\ daemon' = [n \in Daemon |-> daemon'[n]]
    BY <1>1
  <2> QED
    BY <1>4, <2>1, ShapedIsTyped
<1> QED
  BY <1>1, <1>3, <1>4, <1>5, <1>6

(* What flies after a moment flew before it. *)
LEMMA PassFlying ==
  ASSUME Sense, Pass, NEW n \in Daemon, NEW d \in Delivery, NEW left \in 0..DeliveryTimeout,
         <<d, left>> \in daemon'[n].flying
  PROVE  \E l \in 0..DeliveryTimeout : <<d, l>> \in daemon[n].flying /\ left = Less(l)
<1>1. <<d, left>> \in {<<f[1], Less(f[2])>> : f \in daemon[n].flying}
  BY PassIs
<1>2. PICK f \in daemon[n].flying : <<d, left>> = <<f[1], Less(f[2])>>
  BY <1>1
<1>3. f \in Queue(n) \X (0..DeliveryTimeout)
  BY DEF Sense, TypeOK
<1>4. f = <<f[1], f[2]>> /\ f[1] = d /\ f[2] \in 0..DeliveryTimeout /\ left = Less(f[2])
  BY <1>2, <1>3
<1> QED
  BY <1>2, <1>4

LEMMA PassStep == ASSUME Sense, Pass PROVE Sense'
<1>1. /\ Shaped(daemon') /\ row' \in [Delivery -> RowShape]
      /\ \A d \in Delivery :
           /\ row'[d].status = row[d].status /\ row'[d].attempts = row[d].attempts
           /\ row'[d].wait = Less(row[d].wait)
      /\ \A n \in Daemon :
           /\ daemon'[n].ripe = daemon[n].ripe /\ daemon'[n].stage = daemon[n].stage
           /\ daemon'[n].batch = daemon[n].batch
           /\ daemon'[n].flying = {<<f[1], Less(f[2])>> : f \in daemon[n].flying}
      /\ UNCHANGED <<log, subscription, failedLog, crashes>>
  BY PassIs
<1>2. \A d \in Delivery : row[d].attempts \in Nat /\ row[d].attempts <= row'[d].attempts
  BY <1>1 DEF Sense, TypeOK
<1>3. \A d \in Delivery :
        \/ row'[d] = row[d]
        \/ /\ row[d].status # "none" /\ row'[d].status # "none"
           /\ row'[d].status = "pending" => Pending(d)
           /\ row[d].attempts <= row'[d].attempts
  <2> TAKE d \in Delivery
  <2>1. CASE row[d].status # "none"
    BY <1>1, <1>2, <2>1 DEF Pending
  <2>2. CASE row[d].status = "none"
    <3>1. row[d].attempts = 0 /\ row[d].wait = 0
      BY <2>2 DEF Sense, RowMakesSense, NoRow
    <3>2. row'[d].status = "none" /\ row'[d].attempts = 0 /\ row'[d].wait = 0
      BY <1>1, <2>2, <3>1 DEF Less
    <3>3. row[d] \in RowShape /\ row'[d] \in RowShape
      BY <1>1 DEF Sense, TypeOK, RowShape
    <3>4. row'[d] = row[d]
      BY <2>2, <3>1, <3>2, <3>3 DEF RowShape
    <3> QED
      BY <3>4
  <2> QED
    BY <2>1, <2>2
<1>4. \A n \in Daemon, d \in Delivery :
        d \in daemon'[n].ripe => d \in daemon[n].ripe /\ row'[d].wait = 0
  BY <1>1 DEF Sense, RipeIsDue, Less
<1>5. \A n \in Daemon :
        daemon'[n].stage # "attempting" => daemon'[n].batch = {} /\ daemon'[n].flying = {}
  BY <1>1 DEF Sense, TickMakesSense
<1>6. ASSUME NEW n \in Daemon, NEW d \in Delivery, NEW left \in 0..DeliveryTimeout,
             <<d, left>> \in daemon'[n].flying
      PROVE  /\ d \notin daemon'[n].batch
             /\ \E l \in 0..DeliveryTimeout : <<d, l>> \in daemon[n].flying
  <2>1. PICK l \in 0..DeliveryTimeout : <<d, l>> \in daemon[n].flying
    BY <1>6, PassFlying
  <2>2. d \notin daemon[n].batch
    BY <2>1 DEF Sense, TickMakesSense
  <2> QED
    BY <1>1, <2>1, <2>2
<1>7. failedLog' \in [Delivery -> Nat] /\ crashes' \in 0..MaxCrash
  BY <1>1 DEF Sense, TypeOK
<1> QED
  BY <1>1, <1>3, <1>4, <1>5, <1>6, <1>7, SenseKept

LEMMA SenseStuttered == ASSUME Sense, UNCHANGED vars PROVE Sense'
<1>1. UNCHANGED <<log, subscription, row, failedLog, daemon, crashes>>
  BY DEF vars
<1> QED
  BY <1>1 DEF Sense, TypeOK, RowMakesSense, TickMakesSense, RipeIsDue, Pending, Listening,
             Queue

LEMMA SenseStep == ASSUME Sense, [Next]_vars PROVE Sense'
<1>1. CASE Record
  BY <1>1, RecordStep
<1>2. CASE \E s \in Subscription : Subscribe(s) \/ Deactivate(s)
  BY <1>2, SubscribeStep, DeactivateStep
<1>3. ASSUME NEW dm \in Daemon, DaemonStep(dm) PROVE Sense'
  <2>1. CASE BeginTick(dm)
    BY <2>1, BeginTickStep
  <2>2. CASE Select(dm)
    BY <2>2, SelectStep
  <2>3. CASE Settle(dm)
    BY <2>3, SettleStep
  <2>4. CASE \E d \in daemon[dm].batch : Claim(dm, d)
    BY <2>4, ClaimStep
  <2>5. ASSUME Answer(dm) PROVE Sense'
    <3>1. PICK f \in daemon[dm].flying : Succeed(dm, f[1], f[2]) \/ Fail(dm, f[1], f[2])
      BY <2>5 DEF Answer
    <3>2. <<f[1], f[2]>> \in daemon[dm].flying
      BY <3>1 DEF Succeed, Fail
    <3> QED
      BY <3>1, <3>2, AnswerStep
  <2> QED
    BY <1>3, <2>1, <2>2, <2>3, <2>4, <2>5 DEF DaemonStep
<1>4. CASE \E h \in Host : Crash(h)
  BY <1>4, CrashStep
<1>5. CASE Pass
  BY <1>5, PassStep
<1>6. CASE UNCHANGED vars
  BY <1>6, SenseStuttered
<1> QED
  BY <1>1, <1>2, <1>3, <1>4, <1>5, <1>6 DEF Next

LEMMA SenseAlways == Spec => []Sense
<1>1. Init => Sense
  BY SenseBegins
<1>2. Sense /\ [Next]_vars => Sense'
  BY SenseStep
<1> QED
  BY <1>1, <1>2, PTL DEF Spec

(* Rows and ticks have their shapes, and a tick holds only what is of its own
   queue, whatever two hosts, the routes and the crashes interleave. *)
THEOREM TypeCorrect == Spec => []TypeOK
<1>1. Sense => TypeOK
  BY DEF Sense
<1> QED
  BY <1>1, SenseAlways, PTL

-----------------------------------------------------------------------------
(* What a step may do to a row and to what is in the air. *)

(* A row nothing was sent for: it stays, is made, or closes with its subscriber. *)
Untried(d) ==
  \/ row'[d] = row[d]
  \/ row[d].status = "none" /\ row'[d] = Born
  \/ /\ Pending(d) /\ row'[d].status = "exhausted" /\ row'[d].attempts = row[d].attempts
     /\ row'[d].wait = row[d].wait /\ d[1] \in Subscription /\ ~Listening(d[1])'

(* A step that neither sends, nor hears, nor loses anything. *)
Quiet ==
  /\ UNCHANGED <<failedLog, crashes>>
  /\ \A d \in Delivery : Untried(d)
  /\ \A n \in Daemon : daemon'[n].flying = daemon[n].flying
  /\ \A d \in Delivery :
       row[d].status # "none" /\ ~Listening(d[1]) => ~Listening(d[1])'

LEMMA RoutesAreQuiet ==
  ASSUME Sense, Record \/ \E s \in Subscription : Subscribe(s) \/ Deactivate(s)
  PROVE  Quiet
<1>1. CASE Record
  <2>1. /\ log' = log + 1 /\ log \in Nat
        /\ UNCHANGED <<subscription, failedLog, daemon, crashes>>
        /\ row' = [d \in Delivery |->
                    IF d[1] \in Hook /\ d[2] = log' /\ d[2] \in Wants[d[1]]
                    THEN Born ELSE row[d]]
    BY <1>1, DeliveryAssumption DEF Record, Sense, TypeOK
  <2>2. \A d \in Delivery : row[d].status # "none" => d[2] <= log /\ d[2] \in Nat
    BY DEF Sense, RowMakesSense, Delivery, Event
  <2>3. \A d \in Delivery : Untried(d)
    BY <2>1, <2>2 DEF Untried
  <2> QED
    BY <2>1, <2>3 DEF Quiet, Listening
<1>2. ASSUME NEW s \in Subscription, Subscribe(s) PROVE Quiet
  <2>1. /\ subscription[s] = Unsubscribed
        /\ \A u \in Subscription : u # s => subscription'[u] = subscription[u]
        /\ UNCHANGED <<row, failedLog, daemon, crashes>>
    BY <1>2 DEF Subscribe, Sense, TypeOK
  <2>2. ASSUME NEW d \in Delivery, row[d].status # "none", ~Listening(d[1])
        PROVE  ~Listening(d[1])'
    <3>1. d[1] \in Subscription /\ subscription[d[1]].state # "none"
          /\ subscription[d[1]].state # "active"
      BY <2>2 DEF Sense, RowMakesSense, Listening
    <3>2. d[1] # s
      BY <2>1, <3>1 DEF Unsubscribed
    <3> QED
      BY <2>1, <3>1, <3>2 DEF Listening
  <2> QED
    BY <2>1, <2>2 DEF Quiet, Untried
<1>3. ASSUME NEW s \in Subscription, Deactivate(s) PROVE Quiet
  <2>1. /\ row' = [d \in Delivery |-> IF d[1] = s /\ Pending(d)
                                      THEN [row[d] EXCEPT !.status = "exhausted"]
                                      ELSE row[d]]
        /\ UNCHANGED <<log, failedLog, daemon, crashes>>
        /\ \A u \in Subscription :
             subscription'[u].state = IF u = s THEN "deactivated" ELSE subscription[u].state
    BY <1>3 DEF Deactivate, Sense, TypeOK
  <2>2. ASSUME NEW d \in Delivery PROVE Untried(d)
    <3>1. CASE d[1] = s /\ Pending(d)
      <4>1. /\ row'[d].status = "exhausted" /\ row'[d].attempts = row[d].attempts
            /\ row'[d].wait = row[d].wait
        BY <2>1, <3>1, RowFields DEF Sense
      <4>2. ~Listening(d[1])'
        BY <2>1, <3>1 DEF Listening
      <4> QED
        BY <3>1, <4>1, <4>2 DEF Untried
    <3>2. CASE ~(d[1] = s /\ Pending(d))
      BY <2>1, <3>2 DEF Untried
    <3> QED
      BY <3>1, <3>2
  <2>3. \A d \in Delivery : ~Listening(d[1]) => ~Listening(d[1])'
    BY <2>1 DEF Listening
  <2> QED
    BY <2>1, <2>2, <2>3 DEF Quiet
<1> QED
  BY <1>1, <1>2, <1>3

LEMMA TicksAreQuiet ==
  ASSUME Sense, NEW dm \in Daemon,
         \/ BeginTick(dm) \/ Select(dm) \/ Settle(dm)
         \/ \E d \in daemon[dm].batch : Claim(dm, d) /\ ~(Pending(d) /\ d \in daemon[dm].ripe)
  PROVE  Quiet
<1>1. /\ daemon \in [Daemon -> DaemonRow] /\ daemon[dm] \in DaemonRow
      /\ UNCHANGED <<log, subscription, failedLog, crashes>>
  BY DEF Sense, BeginTick, Select, Settle, Claim
<1>2. \A d \in Delivery : ~Listening(d[1]) => ~Listening(d[1])'
  BY <1>1 DEF Listening
<1>3. ASSUME NEW t, daemon' = [daemon EXCEPT ![dm] = t], t.flying = daemon[dm].flying
      PROVE  \A n \in Daemon : daemon'[n].flying = daemon[n].flying
  BY <1>1, <1>3
<1>4. Idle.flying = {}
  BY DEF Idle
<1>5. CASE BeginTick(dm)
  <2> DEFINE born == IF dm[2] = "webhook" THEN Fanned ELSE {}
             due  == {d \in Queue(dm) : Pending(d) /\ row[d].wait = 0}
  <2>1. /\ row' = [d \in Delivery |-> IF d \in born THEN Born ELSE row[d]]
        /\ \E ripe : daemon' = [daemon EXCEPT ![dm].stage = "selecting", ![dm].ripe = ripe]
    BY <1>5 DEF BeginTick
  <2>2. \A d \in born : row[d].status = "none"
    BY FannedIsNew DEF Sense
  <2> HIDE DEF born, due
  <2>3. \A d \in Delivery : Untried(d)
    BY <2>1, <2>2 DEF Untried
  <2>4. PICK ripe : daemon' = [daemon EXCEPT ![dm].stage = "selecting", ![dm].ripe = ripe]
    BY <2>1
  <2>5. \A n \in Daemon : daemon'[n].flying = daemon[n].flying
    BY <1>1, <2>4 DEF DaemonRow
  <2> QED
    BY <1>1, <1>2, <2>3, <2>5 DEF Quiet
<1>6. ASSUME UNCHANGED row, \A n \in Daemon : daemon'[n].flying = daemon[n].flying
      PROVE  Quiet
  BY <1>1, <1>2, <1>6 DEF Quiet, Untried
<1>7. CASE Select(dm)
  <2>1. UNCHANGED row /\ daemon[dm].flying = {}
    BY <1>7 DEF Select, Sense, TickMakesSense
  <2>2. CASE daemon' = [daemon EXCEPT ![dm] = Idle]
    BY <1>3, <1>4, <1>6, <2>1, <2>2
  <2>3. ASSUME NEW batch, NEW full,
               daemon' = [daemon EXCEPT ![dm].stage = "attempting", ![dm].batch = batch,
                                        ![dm].full = full]
        PROVE  Quiet
    <3>1. \A n \in Daemon : daemon'[n].flying = daemon[n].flying
      BY <1>1, <2>3 DEF DaemonRow
    <3> QED
      BY <1>6, <2>1, <3>1
  <2> DEFINE size == Min({DeliveryCeiling, Cardinality(Due(dm))})
  <2>4. \/ daemon' = [daemon EXCEPT ![dm] = Idle]
        \/ \E batch \in kSubset(size, Due(dm)) :
             daemon' = [daemon EXCEPT ![dm].stage = "attempting", ![dm].batch = batch,
                                      ![dm].full = (size = DeliveryCeiling)]
    BY <1>7 DEF Select
  <2> HIDE DEF size
  <2> QED
    BY <2>2, <2>3, <2>4
<1>8. CASE Settle(dm)
  <2>1. UNCHANGED row /\ daemon[dm].flying = {}
    BY <1>8 DEF Settle
  <2>2. CASE daemon' = [daemon EXCEPT ![dm] = Idle]
    BY <1>3, <1>4, <1>6, <2>1, <2>2
  <2>3. CASE daemon' = [daemon EXCEPT ![dm].stage = "selecting"]
    <3>1. \A n \in Daemon : daemon'[n].flying = daemon[n].flying
      BY <1>1, <2>3 DEF DaemonRow
    <3> QED
      BY <1>6, <2>1, <3>1
  <2>4. \/ daemon' = [daemon EXCEPT ![dm] = Idle]
        \/ daemon' = [daemon EXCEPT ![dm].stage = "selecting"]
    BY <1>1, <1>8 DEF Settle
  <2> QED
    BY <2>2, <2>3, <2>4
<1>9. ASSUME NEW d \in daemon[dm].batch, Claim(dm, d), ~(Pending(d) /\ d \in daemon[dm].ripe)
      PROVE  Quiet
  <2>1. UNCHANGED row /\ daemon' = [daemon EXCEPT ![dm].batch = @ \ {d}]
    BY <1>9 DEF Claim
  <2>2. \A n \in Daemon : daemon'[n].flying = daemon[n].flying
    BY <1>1, <2>1 DEF DaemonRow
  <2> QED
    BY <1>6, <2>1, <2>2
<1> QED
  BY <1>5, <1>7, <1>8, <1>9

(* A claim that wins. *)
Won(dm, d) ==
  d \in daemon[dm].batch /\ Claim(dm, d) /\ Pending(d) /\ d \in daemon[dm].ripe

(* An attempt that ends. *)
Heard(dm, d, left) ==
  <<d, left>> \in daemon[dm].flying /\ (Succeed(dm, d, left) \/ Fail(dm, d, left))

LEMMA StepIs ==
  ASSUME Sense, [Next]_vars
  PROVE  \/ Quiet
         \/ \E dm \in Daemon, d \in Delivery : Won(dm, d)
         \/ \E dm \in Daemon, d \in Delivery, left \in 0..DeliveryTimeout : Heard(dm, d, left)
         \/ \E h \in Host : Crash(h)
         \/ Pass
<1>1. ASSUME NEW dm \in Daemon, NEW d \in daemon[dm].batch, Claim(dm, d)
      PROVE  Quiet \/ \E n \in Daemon, e \in Delivery : Won(n, e)
  <2>1. d \in Delivery
    BY ShapeIs, QueuesAreDeliveries DEF Shaped, TickShape
  <2>2. CASE Pending(d) /\ d \in daemon[dm].ripe
    BY <1>1, <2>1, <2>2 DEF Won
  <2>3. CASE ~(Pending(d) /\ d \in daemon[dm].ripe)
    BY <1>1, <2>3, TicksAreQuiet
  <2> QED
    BY <2>2, <2>3
<1>2. ASSUME NEW dm \in Daemon, Answer(dm)
      PROVE  \E n \in Daemon, d \in Delivery, left \in 0..DeliveryTimeout : Heard(n, d, left)
  <2>1. PICK f \in daemon[dm].flying : Succeed(dm, f[1], f[2]) \/ Fail(dm, f[1], f[2])
    BY <1>2 DEF Answer
  <2>2. <<f[1], f[2]>> \in daemon[dm].flying
    BY <2>1 DEF Succeed, Fail
  <2>3. f[1] \in Delivery /\ f[2] \in 0..DeliveryTimeout
    BY <2>2, FlyingIs
  <2> QED
    BY <2>1, <2>2, <2>3 DEF Heard
<1>3. CASE UNCHANGED vars
  BY <1>3 DEF vars, Quiet, Untried, Listening
<1>4. CASE Record \/ \E s \in Subscription : Subscribe(s) \/ Deactivate(s)
  BY <1>4, RoutesAreQuiet
<1>5. ASSUME NEW dm \in Daemon, DaemonStep(dm)
      PROVE  \/ Quiet
             \/ \E n \in Daemon, d \in Delivery : Won(n, d)
             \/ \E n \in Daemon, d \in Delivery, left \in 0..DeliveryTimeout :
                  Heard(n, d, left)
  BY <1>1, <1>2, <1>5, TicksAreQuiet DEF DaemonStep
<1> QED
  BY <1>3, <1>4, <1>5 DEF Next

(* A claim that wins, and an attempt that ends, as the rows and the ticks see them. *)
LEMMA WonIs ==
  ASSUME Sense, NEW dm \in Daemon, NEW d \in Delivery, Won(dm, d)
  PROVE  /\ row'[d].status = "pending" /\ row'[d].attempts = row[d].attempts + 1
         /\ row'[d].wait = DeliveryTimeout /\ row[d].attempts \in Nat
         /\ \A e \in Delivery : e # d => row'[e] = row[e]
         /\ \A n \in Daemon :
              daemon'[n].flying = IF n = dm
                                  THEN daemon[n].flying \cup {<<d, DeliveryTimeout>>}
                                  ELSE daemon[n].flying
         /\ Pending(d) /\ Listening(d[1]) /\ row[d].wait = 0 /\ d \in Queue(dm)
         /\ \A left \in 0..DeliveryTimeout : <<d, left>> \notin daemon[dm].flying
         /\ UNCHANGED <<log, subscription, failedLog, crashes>>
<1>1. d \in daemon[dm].batch /\ Claim(dm, d) /\ Pending(d) /\ d \in daemon[dm].ripe
  BY DEF Won
<1>2. /\ Listening(d[1]) /\ row[d].wait = 0 /\ d \in Queue(dm)
      /\ \A left \in 0..DeliveryTimeout : <<d, left>> \notin daemon[dm].flying
  BY <1>1 DEF Sense, RowMakesSense, RipeIsDue, TickMakesSense, TypeOK
<1>3. UNCHANGED <<log, subscription, failedLog, crashes>>
  BY <1>1 DEF Claim
<1>4. /\ \A n \in Daemon :
           daemon'[n].flying = IF n = dm
                               THEN daemon[n].flying \cup {<<d, DeliveryTimeout>>}
                               ELSE daemon[n].flying
      /\ row'[d].status = "pending" /\ row'[d].attempts = row[d].attempts + 1
      /\ row'[d].wait = DeliveryTimeout /\ row[d].attempts \in Nat
      /\ \A e \in Delivery : e # d => row'[e] = row[e]
  <2>1. d \in daemon[dm].batch
    BY <1>1
  <2> QED
    <3>1. /\ Shaped(daemon') /\ row' \in [Delivery -> RowShape]
          /\ \A n \in Daemon :
               /\ daemon'[n].ripe = daemon[n].ripe \ {d}
               /\ daemon'[n].stage = daemon[n].stage
               /\ daemon'[n].batch = IF n = dm THEN daemon[n].batch \ {d} ELSE daemon[n].batch
               /\ daemon'[n].flying = IF n = dm
                                      THEN daemon[n].flying \cup {<<d, DeliveryTimeout>>}
                                      ELSE daemon[n].flying
          /\ row'[d].status = "pending" /\ row'[d].attempts = row[d].attempts + 1
          /\ row'[d].wait = DeliveryTimeout /\ row[d].attempts \in Nat
          /\ \A e \in Delivery : e # d => row'[e] = row[e]
      BY <1>1, <2>1, ClaimWon, Zenon
    <3> QED
      BY <3>1
<1> QED
  BY <1>1, <1>2, <1>3, <1>4

LEMMA HeardIs ==
  ASSUME Sense, NEW dm \in Daemon, NEW d \in Delivery, NEW left \in 0..DeliveryTimeout,
         Heard(dm, d, left)
  PROVE  /\ row[d].status # "none" /\ row[d].attempts \in Nat \ {0}
         /\ \A n \in Daemon :
              daemon'[n].flying
                = IF n = dm THEN daemon[n].flying \ {<<d, left>>} ELSE daemon[n].flying
         /\ \A e \in Delivery : e # d => row'[e] = row[e]
         /\ row'[d].attempts = row[d].attempts /\ Ended(d)
         /\ failedLog' = IF Pending(d) /\ row'[d].status = "exhausted" /\ d[1] \in Hook
                         THEN [failedLog EXCEPT ![d] = @ + 1] ELSE failedLog
         /\ UNCHANGED <<log, subscription, crashes>>
<1>1. <<d, left>> \in daemon[dm].flying /\ (Succeed(dm, d, left) \/ Fail(dm, d, left))
  BY DEF Heard
<1>2. row[d].status # "none" /\ row[d].attempts \in Nat \ {0}
  BY <1>1, FlyingIs
<1>3. /\ \A n \in Daemon :
           daemon'[n].flying
             = IF n = dm THEN daemon[n].flying \ {<<d, left>>} ELSE daemon[n].flying
      /\ \A e \in Delivery : e # d => row'[e] = row[e]
      /\ row'[d].attempts = row[d].attempts /\ Ended(d)
      /\ failedLog' = IF Pending(d) /\ row'[d].status = "exhausted" /\ d[1] \in Hook
                      THEN [failedLog EXCEPT ![d] = @ + 1] ELSE failedLog
      /\ UNCHANGED <<log, subscription, crashes>>
  <2>1. CASE Succeed(dm, d, left)
    BY <1>1, <2>1, AnswerIs
  <2>2. CASE Fail(dm, d, left)
    <3>1. /\ Shaped(daemon') /\ row' \in [Delivery -> RowShape]
          /\ \A n \in Daemon :
               /\ daemon'[n].ripe \subseteq daemon[n].ripe
               /\ daemon'[n].stage = daemon[n].stage /\ daemon'[n].batch = daemon[n].batch
               /\ daemon'[n].flying
                    = IF n = dm THEN daemon[n].flying \ {<<d, left>>} ELSE daemon[n].flying
          /\ \A e \in Delivery : e # d => row'[e] = row[e]
          /\ row'[d].attempts = row[d].attempts /\ Ended(d)
          /\ failedLog' = IF Pending(d) /\ row'[d].status = "exhausted" /\ d[1] \in Hook
                          THEN [failedLog EXCEPT ![d] = @ + 1] ELSE failedLog
          /\ UNCHANGED <<log, subscription, crashes>>
      BY <1>1, <2>2, AnswerIs, Zenon
    <3> QED
      BY <3>1
  <2> QED
    BY <1>1, <2>1, <2>2
<1> QED
  BY <1>2, <1>3

LEMMA CrashIs ==
  ASSUME Sense, NEW h \in Host, Crash(h)
  PROVE  /\ crashes' = crashes + 1 /\ UNCHANGED <<log, subscription, row, failedLog>>
         /\ \A n \in Daemon :
              daemon'[n].flying = IF n[1] = h THEN {} ELSE daemon[n].flying
<1>1. /\ crashes' = crashes + 1 /\ UNCHANGED <<log, subscription, row, failedLog>>
      /\ daemon' = [dm \in Daemon |-> IF dm[1] = h THEN Idle ELSE daemon[dm]]
  BY DEF Crash
<1>2. Idle.flying = {}
  BY DEF Idle
<1> QED
  BY <1>1, <1>2

-----------------------------------------------------------------------------
(* What closed stays closed, and nobody who left is sent anything. *)

LEMMA RowMoves ==
  ASSUME Sense, [Next]_vars, NEW d \in Delivery
  PROVE  /\ row[d].status \in {"delivered", "exhausted"} =>
              row'[d].status = row[d].status /\ row'[d].attempts = row[d].attempts
         /\ row'[d].attempts # row[d].attempts => Listening(d[1])
<1>1. CASE Quiet
  <2>1. Untried(d) /\ (row[d].status = "none" => row[d].attempts = 0)
    BY <1>1 DEF Quiet, Sense, RowMakesSense, NoRow
  <2> QED
    BY <2>1 DEF Untried, Born, Pending
<1>2. ASSUME NEW dm \in Daemon, NEW e \in Delivery, Won(dm, e)
      PROVE  /\ row[d].status \in {"delivered", "exhausted"} =>
                  row'[d].status = row[d].status /\ row'[d].attempts = row[d].attempts
             /\ row'[d].attempts # row[d].attempts => Listening(d[1])
  BY <1>2, WonIs DEF Pending
<1>3. ASSUME NEW dm \in Daemon, NEW e \in Delivery, NEW left \in 0..DeliveryTimeout,
             Heard(dm, e, left)
      PROVE  /\ row[d].status \in {"delivered", "exhausted"} =>
                  row'[d].status = row[d].status
             /\ row'[d].attempts = row[d].attempts
  <2>1. CASE d = e
    BY <1>3, <2>1, HeardIs DEF Ended, Pending
  <2>2. CASE d # e
    BY <1>3, <2>2, HeardIs
  <2> QED
    BY <2>1, <2>2
<1>4. CASE \E h \in Host : Crash(h)
  BY <1>4, CrashIs
<1>5. CASE Pass
  BY <1>5, PassIs
<1> QED
  BY <1>1, <1>2, <1>3, <1>4, <1>5, StepIs

(* A row that closed is not reopened, undone or counted further by an attempt
   still in the air, and a subscriber that left is sent nothing more. *)
THEOREM ClosedForGood == Spec => ClosedIsFinal
<1>1. ASSUME Sense, [Next]_vars
      PROVE  /\ \A d \in Delivery :
                  row[d].status \in {"delivered", "exhausted"}
                    => row'[d].status = row[d].status /\ row'[d].attempts = row[d].attempts
             /\ \A d \in Delivery :
                  row'[d].attempts # row[d].attempts => Listening(d[1])
  BY <1>1, RowMoves
<1>2. Sense /\ [Next]_vars =>
        [\A d \in Delivery :
           row[d].status \in {"delivered", "exhausted"}
             => row'[d].status = row[d].status /\ row'[d].attempts = row[d].attempts]_vars
  BY <1>1
<1>3. Sense /\ [Next]_vars =>
        [\A d \in Delivery :
           row'[d].attempts # row[d].attempts => Listening(d[1])]_vars
  BY <1>1
<1>4. Spec => ClosedStaysClosed
  BY <1>2, SenseAlways, PTL DEF Spec, ClosedStaysClosed
<1>5. Spec => NothingSentAfterLeaving
  BY <1>3, SenseAlways, PTL DEF Spec, NothingSentAfterLeaving
<1> QED
  BY <1>4, <1>5 DEF ClosedIsFinal

-----------------------------------------------------------------------------
(* A claim excludes. *)

(* Of the attempts on one delivery only one can be inside its claim. *)
OneInside ==
  \A m, n \in Daemon, d \in Delivery, l, k \in 0..DeliveryTimeout :
    <<d, l>> \in daemon[m].flying /\ <<d, k>> \in daemon[n].flying /\ 0 < l /\ 0 < k
      => m = n

Excluded == Sense /\ ClaimHolds /\ OneInside

LEMMA TimeoutIs ==
  DeliveryTimeout \in Nat \ {0} /\ DeliveryTimeout \in 0..DeliveryTimeout
BY DeliveryAssumption

LEMMA ExcludedStep ==
  ASSUME RetriesOutlastAttempts, Excluded, [Next]_vars
  PROVE  ClaimHolds' /\ OneInside'
<1> USE DEF Excluded
<1>1. \A d \in Delivery : row[d].wait \in Nat
  BY LongestIs DEF Sense, TypeOK
<1>2. ASSUME \A n \in Daemon : daemon'[n].flying \subseteq daemon[n].flying
      PROVE  OneInside'
  BY <1>2 DEF OneInside
<1>3. CASE Quiet
  <2>1. ASSUME NEW n \in Daemon, NEW d \in Delivery, NEW left \in 0..DeliveryTimeout,
               <<d, left>> \in daemon[n].flying
        PROVE  row'[d].wait = row[d].wait
    <3>1. row[d].status # "none" /\ Untried(d)
      BY <1>3, <2>1 DEF Sense, TickMakesSense, Quiet
    <3> QED
      BY <3>1 DEF Untried
  <2>2. \A n \in Daemon : daemon'[n].flying = daemon[n].flying
    BY <1>3 DEF Quiet
  <2> QED
    BY <1>2, <2>1, <2>2 DEF ClaimHolds
<1>4. ASSUME NEW dm \in Daemon, NEW d \in Delivery, Won(dm, d)
      PROVE  ClaimHolds' /\ OneInside'
  <2>1. /\ row'[d].wait = DeliveryTimeout /\ row[d].wait = 0
        /\ \A e \in Delivery : e # d => row'[e] = row[e]
        /\ \A n \in Daemon :
             daemon'[n].flying = IF n = dm
                                 THEN daemon[n].flying \cup {<<d, DeliveryTimeout>>}
                                 ELSE daemon[n].flying
    BY <1>4, WonIs
  <2>2. \A n \in Daemon, e \in Delivery, l \in 0..DeliveryTimeout :
          <<e, l>> \in daemon'[n].flying =>
            <<e, l>> \in daemon[n].flying \/ (n = dm /\ e = d /\ l = DeliveryTimeout)
    <3> TAKE n \in Daemon, e \in Delivery, l \in 0..DeliveryTimeout
    <3>1. CASE n = dm
      <4>1. daemon'[n].flying = daemon[n].flying \cup {<<d, DeliveryTimeout>>}
        BY <2>1, <3>1
      <4> QED
        BY <3>1, <4>1
    <3>2. CASE n # dm
      BY <2>1, <3>2
    <3> QED
      BY <3>1, <3>2
  <2>3. \A n \in Daemon, l \in 0..DeliveryTimeout :
          <<d, l>> \in daemon[n].flying => l = 0
    BY <2>1 DEF ClaimHolds
  <2>4. ClaimHolds'
    <3> SUFFICES ASSUME NEW n \in Daemon, NEW e \in Delivery, NEW l \in 0..DeliveryTimeout,
                        <<e, l>> \in daemon'[n].flying
                 PROVE  l <= row'[e].wait
      BY DEF ClaimHolds
    <3>1. CASE e = d
      BY <2>1, <3>1, TimeoutIs
    <3>2. CASE e # d
      BY <2>1, <2>2, <3>2 DEF ClaimHolds
    <3> QED
      BY <3>1, <3>2
  <2>5. OneInside'
    <3> SUFFICES ASSUME NEW m \in Daemon, NEW n \in Daemon, NEW e \in Delivery,
                        NEW l \in 0..DeliveryTimeout, NEW k \in 0..DeliveryTimeout,
                        <<e, l>> \in daemon'[m].flying, <<e, k>> \in daemon'[n].flying,
                        0 < l, 0 < k
                 PROVE  m = n
      BY DEF OneInside
    <3>1. CASE e = d
      <4>1. m = dm /\ n = dm
        BY <2>2, <2>3, <3>1
      <4> QED
        BY <4>1
    <3>2. CASE e # d
      BY <2>2, <3>2 DEF OneInside
    <3> QED
      BY <3>1, <3>2
  <2> QED
    BY <2>4, <2>5
<1>5. ASSUME NEW dm \in Daemon, NEW d \in Delivery, NEW left \in 0..DeliveryTimeout,
             Heard(dm, d, left)
      PROVE  ClaimHolds' /\ OneInside'
  <2>1. \A n \in Daemon : daemon'[n].flying
          = IF n = dm THEN daemon[n].flying \ {<<d, left>>} ELSE daemon[n].flying
    BY <1>5, HeardIs
  <2>2. \A n \in Daemon : daemon'[n].flying \subseteq daemon[n].flying
    BY <2>1
  <2>3. /\ \A e \in Delivery : e # d => row'[e] = row[e]
        /\ Ended(d)
    BY <1>5, HeardIs
  <2>4. row'[d].wait = row[d].wait \/ DeliveryTimeout <= row'[d].wait
    <3>1. \/ row'[d].wait = row[d].wait
          \/ /\ row[d].attempts \in 1..Len(Backoff)
             /\ row'[d].wait = Backoff[row[d].attempts]
      BY <2>3 DEF Ended
    <3>2. DOMAIN Backoff = 1..Len(Backoff)
      BY DeliveryAssumption
    <3> QED
      BY <3>1, <3>2 DEF RetriesOutlastAttempts
  <2>5. ClaimHolds'
    <3> SUFFICES ASSUME NEW n \in Daemon, NEW e \in Delivery, NEW l \in 0..DeliveryTimeout,
                        <<e, l>> \in daemon[n].flying
                 PROVE  l <= row'[e].wait
      BY <2>2 DEF ClaimHolds
    <3>1. l <= row[e].wait
      BY DEF ClaimHolds
    <3>2. CASE e # d
      BY <2>3, <3>1, <3>2
    <3>3. CASE e = d /\ row'[d].wait = row[d].wait
      BY <3>1, <3>3
    <3>4. CASE e = d /\ DeliveryTimeout <= row'[d].wait
      <4>1. l \in Nat /\ l <= DeliveryTimeout /\ DeliveryTimeout \in Nat
            /\ row'[d].wait \in Nat
        <5>1. Sense'
          BY SenseStep
        <5> QED
          BY <5>1, TimeoutIs, LongestIs DEF Sense, TypeOK
      <4> QED
        BY <3>4, <4>1
    <3> QED
      BY <2>4, <3>2, <3>3, <3>4
  <2> QED
    BY <1>2, <2>2, <2>5
<1>6. ASSUME NEW h \in Host, Crash(h) PROVE ClaimHolds' /\ OneInside'
  <2>1. /\ UNCHANGED row
        /\ \A n \in Daemon :
             daemon'[n].flying = IF n[1] = h THEN {} ELSE daemon[n].flying
    BY <1>6, CrashIs
  <2>2. \A n \in Daemon : daemon'[n].flying \subseteq daemon[n].flying
    BY <2>1
  <2> QED
    BY <1>2, <2>1, <2>2 DEF ClaimHolds
<1>7. ASSUME Pass PROVE ClaimHolds' /\ OneInside'
  <2>1. \A n \in Daemon, d \in Delivery, l \in 0..DeliveryTimeout :
          <<d, l>> \in daemon'[n].flying =>
            \E k \in 0..DeliveryTimeout : <<d, k>> \in daemon[n].flying /\ l = Less(k)
    BY <1>7, PassFlying
  <2>2. \A d \in Delivery : row'[d].wait = Less(row[d].wait)
    BY <1>7, PassIs
  <2>3. \A k \in 0..DeliveryTimeout : k \in Nat
    OBVIOUS
  <2>4. ClaimHolds'
    <3> SUFFICES ASSUME NEW n \in Daemon, NEW d \in Delivery, NEW l \in 0..DeliveryTimeout,
                        <<d, l>> \in daemon'[n].flying
                 PROVE  l <= row'[d].wait
      BY DEF ClaimHolds
    <3>1. PICK k \in 0..DeliveryTimeout : <<d, k>> \in daemon[n].flying /\ l = Less(k)
      BY <2>1
    <3>2. k <= row[d].wait
      BY <3>1 DEF ClaimHolds
    <3> QED
      BY <1>1, <2>2, <3>1, <3>2 DEF Less
  <2>5. OneInside'
    <3> SUFFICES ASSUME NEW m \in Daemon, NEW n \in Daemon, NEW d \in Delivery,
                        NEW l \in 0..DeliveryTimeout, NEW k \in 0..DeliveryTimeout,
                        <<d, l>> \in daemon'[m].flying, <<d, k>> \in daemon'[n].flying,
                        0 < l, 0 < k
                 PROVE  m = n
      BY DEF OneInside
    <3>1. PICK i \in 0..DeliveryTimeout : <<d, i>> \in daemon[m].flying /\ l = Less(i)
      BY <2>1
    <3>2. PICK j \in 0..DeliveryTimeout : <<d, j>> \in daemon[n].flying /\ k = Less(j)
      BY <2>1
    <3>3. 0 < i /\ 0 < j
      BY <3>1, <3>2 DEF Less
    <3> QED
      BY <3>1, <3>2, <3>3 DEF OneInside
  <2> QED
    BY <2>4, <2>5
<1> QED
  BY <1>3, <1>4, <1>5, <1>6, <1>7, StepIs

(* A set of which any two members are one has at most one. *)
LEMMA AtMostOne ==
  ASSUME NEW T, \A x, y \in T : x = y
  PROVE  Cardinality(T) <= 1
<1>1. CASE T = {}
  BY <1>1, FS_EmptySet
<1>2. ASSUME NEW x \in T PROVE Cardinality(T) <= 1
  <2>1. T = {x}
    OBVIOUS
  <2>2. Cardinality({x}) = 1
    BY FS_Singleton
  <2>3. Cardinality(T) = 1
    BY <2>1, <2>2
  <2> QED
    BY <2>3
<1> QED
  BY <1>1, <1>2

(* Where no retry is due before the attempt it follows is over, of two attempts
   in the air for one delivery at most one is inside its claim: the claim holds
   against a second host, not because there is one process. *)
THEOREM ClaimsExclude ==
  ASSUME RetriesOutlastAttempts PROVE Spec => []ClaimExcludes
<1>1. Init => ClaimHolds /\ OneInside
  BY DEF Init, Idle, ClaimHolds, OneInside
<1>2. Init => Excluded
  BY <1>1, SenseBegins DEF Excluded
<1>3. Excluded /\ [Next]_vars => Excluded'
  BY ExcludedStep, SenseStep DEF Excluded
<1>4. ASSUME Excluded PROVE ClaimExcludes
  <2> SUFFICES ASSUME NEW d \in Delivery
               PROVE  Cardinality({dm \in Daemon : \E f \in daemon[dm].flying :
                                                     f[1] = d /\ f[2] > 0}) <= 1
    BY DEF ClaimExcludes
  <2> DEFINE T == {dm \in Daemon : \E f \in daemon[dm].flying : f[1] = d /\ f[2] > 0}
  <2>1. \A m, n \in T : m = n
    <3> SUFFICES ASSUME NEW m \in T, NEW n \in T PROVE m = n
      OBVIOUS
    <3>1. PICK f \in daemon[m].flying : f[1] = d /\ f[2] > 0
      OBVIOUS
    <3>2. PICK g \in daemon[n].flying : g[1] = d /\ g[2] > 0
      OBVIOUS
    <3>3. /\ f \in Queue(m) \X (0..DeliveryTimeout)
          /\ g \in Queue(n) \X (0..DeliveryTimeout)
      BY <1>4 DEF Excluded, Sense, TypeOK
    <3>4. /\ f = <<d, f[2]>> /\ f[2] \in 0..DeliveryTimeout
          /\ g = <<d, g[2]>> /\ g[2] \in 0..DeliveryTimeout
      BY <3>1, <3>2, <3>3
    <3>5. PICK l \in 0..DeliveryTimeout : <<d, l>> \in daemon[m].flying /\ 0 < l
      BY <3>1, <3>4
    <3>6. PICK k \in 0..DeliveryTimeout : <<d, k>> \in daemon[n].flying /\ 0 < k
      BY <3>2, <3>4
    <3> QED
      BY <1>4, <3>5, <3>6 DEF Excluded, OneInside
  <2> HIDE DEF T
  <2>2. Cardinality(T) <= 1
    BY <2>1, AtMostOne
  <2> QED
    BY <2>2 DEF T
<1> QED
  BY <1>2, <1>3, <1>4, PTL DEF Spec

-----------------------------------------------------------------------------
(* The schedule is kept. *)

Scheduled == Sense /\ GivingUpIsTold /\ \A d \in Delivery : Overtime(d)

LEMMA CarryingIs ==
  ASSUME NEW d \in Delivery
  PROVE  /\ IsFiniteSet(Carrying(d)) /\ Cardinality(Carrying(d)) \in Nat
         /\ Cardinality(Carrying(d)) <= Cardinality(Host) /\ Cardinality(Host) \in Nat
<1>1. Carrying(d) \subseteq Host /\ IsFiniteSet(Host)
  BY DeliveryAssumption DEF Carrying
<1> QED
  BY <1>1, FS_Subset, FS_CardinalityType

LEMMA HookIsNoSubscription ==
  ASSUME NEW t, t \in Hook PROVE t \notin Subscription
BY DeliveryAssumption

LEMMA QuietKeepsSchedule ==
  ASSUME Scheduled, Quiet PROVE GivingUpIsTold' /\ \A d \in Delivery : Overtime(d)'
<1> USE DEF Scheduled
<1>1. UNCHANGED <<failedLog, crashes>>
  BY DEF Quiet
<1>2. ASSUME NEW d \in Delivery
      PROVE  /\ (row[d].status = "exhausted")' =>
                  row'[d].attempts > Len(Backoff) \/ ~Listening(d[1])'
             /\ (d[1] \in Hook /\ (row[d].status = "exhausted")')
                  <=> (d[1] \in Hook /\ row[d].status = "exhausted")
             /\ Overtime(d)'
  <2>1. /\ Untried(d) /\ row[d].attempts \in Nat /\ Len(Backoff) \in Nat /\ crashes \in Nat
        /\ row[d].status # "none" /\ ~Listening(d[1]) => ~Listening(d[1])'
    BY DeliveryAssumption DEF Quiet, Sense, TypeOK
  <2>2. /\ row[d].status = "exhausted" => row[d].attempts > Len(Backoff) \/ ~Listening(d[1])
        /\ Overtime(d)
    BY DEF GivingUpIsTold
  <2>3. Carrying(d)' = Carrying(d)
    BY DEF Quiet, Carrying, Daemon
  <2>4. CASE row'[d] = row[d]
    BY <1>1, <2>1, <2>2, <2>3, <2>4 DEF Overtime, Pending
  <2>5. CASE row[d].status = "none" /\ row'[d] = Born
    BY <1>1, <2>1, <2>5 DEF Overtime, Born
  <2>6. CASE /\ Pending(d) /\ row'[d].status = "exhausted" /\ row'[d].attempts = row[d].attempts
             /\ d[1] \in Subscription /\ ~Listening(d[1])'
    <3>1. Overtime(d)'
      <4>1. CASE row[d].attempts <= Len(Backoff)
        BY <1>1, <2>1, <2>6, <4>1 DEF Overtime
      <4>2. CASE ~(row[d].attempts <= Len(Backoff))
        <5>1. row[d].attempts <= Len(Backoff) + crashes + Cardinality(Carrying(d))
          BY <2>2, <2>6, <4>2 DEF Overtime
        <5>2. row[d].attempts <= Len(Backoff) + crashes + Cardinality(Host)
          BY <2>1, <5>1, CarryingIs
        <5> QED
          BY <1>1, <2>6, <4>2, <5>2 DEF Overtime, Pending
      <4> QED
        BY <4>1, <4>2
    <3> QED
      BY <2>6, <3>1, HookIsNoSubscription DEF Pending
  <2> QED
    BY <2>1, <2>4, <2>5, <2>6 DEF Untried
<1> QED
  BY <1>1, <1>2 DEF GivingUpIsTold

(* The queue a delivery is in is told by who it is for. *)
LEMMA OneQueue ==
  ASSUME NEW m \in Daemon, NEW n \in Daemon, NEW d, d \in Queue(m), d \in Queue(n)
  PROVE  m[2] = n[2]
<1>1. m[2] \in {"webhook", "hook"} /\ n[2] \in {"webhook", "hook"}
  BY DEF Daemon
<1>2. (m[2] = "webhook" <=> d[1] \in Subscription) /\ (n[2] = "webhook" <=> d[1] \in Subscription)
  BY <1>1, DeliveryAssumption DEF Queue
<1> QED
  BY <1>1, <1>2

(* A row claimed beyond its schedule is carried by one host more. *)
LEMMA OneMoreCarries ==
  ASSUME Sense, NEW dm \in Daemon, NEW d \in Delivery, Won(dm, d)
  PROVE  /\ dm[1] \in Host /\ dm[1] \notin Carrying(d)
         /\ Carrying(d)' = Carrying(d) \cup {dm[1]}
<1>1. /\ dm[1] \in Host /\ dm[2] \in {"webhook", "hook"} /\ dm = <<dm[1], dm[2]>>
  BY DEF Daemon
<1>2. /\ \A n \in Daemon :
           daemon'[n].flying = IF n = dm
                               THEN daemon[n].flying \cup {<<d, DeliveryTimeout>>}
                               ELSE daemon[n].flying
      /\ \A left \in 0..DeliveryTimeout : <<d, left>> \notin daemon[dm].flying
      /\ d \in Queue(dm)
  BY WonIs
<1>3. ASSUME NEW n \in Daemon, NEW left \in 0..DeliveryTimeout,
             <<d, left>> \in daemon[n].flying, n[1] = dm[1]
      PROVE  FALSE
  <2>1. d \in Queue(n)
    BY <1>3, FlyingIs
  <2>2. n[2] = dm[2]
    BY <1>2, <2>1, OneQueue
  <2>3. n = <<n[1], n[2]>>
    BY DEF Daemon
  <2>4. n = dm
    BY <1>1, <1>3, <2>2, <2>3
  <2> QED
    BY <1>2, <1>3, <2>4
<1>4. dm[1] \notin Carrying(d)
  <2> SUFFICES ASSUME dm[1] \in Carrying(d) PROVE FALSE
    OBVIOUS
  <2>1. PICK q \in {"webhook", "hook"}, left \in 0..DeliveryTimeout :
          <<d, left>> \in daemon[<<dm[1], q>>].flying
    BY DEF Carrying
  <2>2. <<dm[1], q>> \in Daemon /\ <<dm[1], q>>[1] = dm[1]
    BY <1>1 DEF Daemon
  <2> QED
    BY <1>3, <2>1, <2>2
<1>5. Carrying(d) \cup {dm[1]} \subseteq Carrying(d)'
  <2>1. \A n \in Daemon : daemon[n].flying \subseteq daemon'[n].flying
    BY <1>2
  <2>2. <<d, DeliveryTimeout>> \in daemon'[<<dm[1], dm[2]>>].flying
    BY <1>1, <1>2
  <2>3. dm[1] \in Carrying(d)'
    BY <1>1, <2>2, TimeoutIs DEF Carrying
  <2>4. Carrying(d) \subseteq Carrying(d)'
    BY <2>1 DEF Carrying, Daemon
  <2> QED
    BY <2>3, <2>4
<1>6. ASSUME NEW h \in Carrying(d)', h # dm[1] PROVE h \in Carrying(d)
  <2>1. PICK q \in {"webhook", "hook"}, left \in 0..DeliveryTimeout :
          <<d, left>> \in daemon'[<<h, q>>].flying
    BY DEF Carrying
  <2>2. h \in Host /\ <<h, q>> \in Daemon /\ <<h, q>> # dm
    BY <1>1, <1>6 DEF Carrying, Daemon
  <2>3. <<d, left>> \in daemon[<<h, q>>].flying
    BY <1>2, <2>1, <2>2
  <2> QED
    BY <2>2, <2>3 DEF Carrying
<1> QED
  BY <1>1, <1>4, <1>5, <1>6

LEMMA WonKeepsSchedule ==
  ASSUME Scheduled, NEW dm \in Daemon, NEW d \in Delivery, Won(dm, d)
  PROVE  GivingUpIsTold' /\ \A e \in Delivery : Overtime(e)'
<1> USE DEF Scheduled
<1>1. /\ row'[d].status = "pending" /\ row'[d].attempts = row[d].attempts + 1
      /\ row[d].attempts \in Nat /\ Pending(d)
      /\ \A e \in Delivery : e # d => row'[e] = row[e]
      /\ \A n \in Daemon :
           daemon'[n].flying = IF n = dm
                               THEN daemon[n].flying \cup {<<d, DeliveryTimeout>>}
                               ELSE daemon[n].flying
      /\ UNCHANGED <<log, subscription, failedLog, crashes>>
  BY WonIs
<1>2. Len(Backoff) \in Nat /\ crashes \in Nat
  BY DeliveryAssumption DEF Sense, TypeOK
<1>3. GivingUpIsTold'
  <2> SUFFICES ASSUME NEW e \in Delivery
               PROVE  /\ row'[e].status = "exhausted"
                           => row'[e].attempts > Len(Backoff) \/ ~Listening(e[1])'
                      /\ failedLog'[e] = IF e[1] \in Hook /\ row'[e].status = "exhausted"
                                         THEN 1 ELSE 0
    BY DEF GivingUpIsTold
  <2>1. (Listening(e[1])' <=> Listening(e[1])) /\ failedLog' = failedLog
    BY <1>1 DEF Listening
  <2>2. CASE e = d
    BY <1>1, <2>1, <2>2 DEF GivingUpIsTold, Pending
  <2>3. CASE e # d
    BY <1>1, <2>1, <2>3 DEF GivingUpIsTold
  <2> QED
    BY <2>2, <2>3
<1>4. ASSUME NEW e \in Delivery, e # d PROVE Overtime(e)'
  <2>1. Carrying(e)' = Carrying(e)
    <3>1. \A n \in Daemon, l \in 0..DeliveryTimeout :
            <<e, l>> \in daemon'[n].flying <=> <<e, l>> \in daemon[n].flying
      <4> TAKE n \in Daemon, l \in 0..DeliveryTimeout
      <4>1. CASE n = dm
        <5>1. daemon'[n].flying = daemon[n].flying \cup {<<d, DeliveryTimeout>>}
          BY <1>1, <4>1
        <5> QED
          BY <1>4, <5>1
      <4>2. CASE n # dm
        BY <1>1, <4>2
      <4> QED
        BY <4>1, <4>2
    <3> QED
      BY <3>1 DEF Carrying, Daemon
  <2>2. row'[e] = row[e] /\ crashes' = crashes /\ Overtime(e)
    BY <1>1, <1>4
  <2> QED
    BY <2>1, <2>2 DEF Overtime, Pending
<1>5. Overtime(d)'
  <2>1. CASE row[d].attempts + 1 <= Len(Backoff)
    BY <1>1, <1>2, <2>1 DEF Overtime
  <2>2. CASE ~(row[d].attempts + 1 <= Len(Backoff))
    <3> DEFINE before == Cardinality(Carrying(d))
               after  == Cardinality(Carrying(d)')
    <3>1. after = before + 1 /\ before \in Nat
      <4>1. dm[1] \notin Carrying(d) /\ Carrying(d)' = Carrying(d) \cup {dm[1]}
        BY OneMoreCarries
      <4>2. IsFiniteSet(Carrying(d)) /\ before \in Nat
        BY CarryingIs
      <4>3. Cardinality(Carrying(d) \cup {dm[1]}) = before + 1
        BY <4>1, <4>2, FS_AddElement
      <4> QED
        BY <4>1, <4>2, <4>3
    <3>2. row[d].attempts <= Len(Backoff) + crashes + before
      <4>1. CASE row[d].attempts <= Len(Backoff)
        BY <1>1, <1>2, <3>1, <4>1
      <4>2. CASE ~(row[d].attempts <= Len(Backoff))
        BY <1>1, <4>2 DEF Overtime
      <4> QED
        BY <4>1, <4>2
    <3>3. row'[d].attempts <= Len(Backoff) + crashes' + after
      <4> HIDE DEF before, after
      <4> QED
        BY <1>1, <1>2, <3>1, <3>2
    <3> QED
      BY <1>1, <2>2, <3>3 DEF Overtime, Pending
  <2> QED
    BY <2>1, <2>2
<1> QED
  BY <1>3, <1>4, <1>5

LEMMA HeardKeepsSchedule ==
  ASSUME Scheduled, NEW dm \in Daemon, NEW d \in Delivery, NEW left \in 0..DeliveryTimeout,
         Heard(dm, d, left)
  PROVE  GivingUpIsTold' /\ \A e \in Delivery : Overtime(e)'
<1> USE DEF Scheduled
<1>1. /\ row[d].attempts \in Nat \ {0} /\ row'[d].attempts = row[d].attempts /\ Ended(d)
      /\ \A e \in Delivery : e # d => row'[e] = row[e]
      /\ \A n \in Daemon :
           daemon'[n].flying
             = IF n = dm THEN daemon[n].flying \ {<<d, left>>} ELSE daemon[n].flying
      /\ UNCHANGED <<log, subscription, crashes>>
  BY HeardIs
<1>2. failedLog' = IF Pending(d) /\ row'[d].status = "exhausted" /\ d[1] \in Hook
                   THEN [failedLog EXCEPT ![d] = @ + 1] ELSE failedLog
  BY HeardIs
<1>3. /\ Len(Backoff) \in Nat /\ crashes \in Nat /\ failedLog \in [Delivery -> Nat]
  BY DeliveryAssumption DEF Sense, TypeOK
<1>4. /\ \A e \in Delivery : e # d => failedLog'[e] = failedLog[e]
      /\ failedLog'[d] = IF Pending(d) /\ row'[d].status = "exhausted" /\ d[1] \in Hook
                         THEN failedLog[d] + 1 ELSE failedLog[d]
  BY <1>2, <1>3
<1>5. GivingUpIsTold'
  <2> SUFFICES ASSUME NEW e \in Delivery
               PROVE  /\ row'[e].status = "exhausted"
                           => row'[e].attempts > Len(Backoff) \/ ~Listening(e[1])'
                      /\ failedLog'[e] = IF e[1] \in Hook /\ row'[e].status = "exhausted"
                                         THEN 1 ELSE 0
    BY DEF GivingUpIsTold
  <2>1. (Listening(e[1])' <=> Listening(e[1]))
    BY <1>1 DEF Listening
  <2>2. /\ row[e].status = "exhausted"
             => row[e].attempts > Len(Backoff) \/ ~Listening(e[1])
        /\ failedLog[e] = IF e[1] \in Hook /\ row[e].status = "exhausted" THEN 1 ELSE 0
    BY DEF GivingUpIsTold
  <2>3. CASE e # d
    BY <1>1, <1>4, <2>1, <2>2, <2>3
  <2>4. CASE e = d /\ ~Pending(d) /\ row'[d] = row[d]
    BY <1>4, <2>1, <2>2, <2>4
  <2>5. CASE e = d /\ Pending(d) /\ row'[d].status \in {"delivered", "pending"}
    BY <1>4, <2>2, <2>5 DEF Pending
  <2>6. CASE e = d /\ Pending(d) /\ row'[d].status = "exhausted" /\ row[d].attempts > Len(Backoff)
    BY <1>1, <1>4, <2>2, <2>6 DEF Pending
  <2> QED
    BY <1>1, <2>3, <2>4, <2>5, <2>6 DEF Ended
<1>6. ASSUME NEW e \in Delivery, e # d PROVE Overtime(e)'
  <2>1. Carrying(e)' = Carrying(e)
    <3>1. \A n \in Daemon, l \in 0..DeliveryTimeout :
            <<e, l>> \in daemon'[n].flying <=> <<e, l>> \in daemon[n].flying
      <4> TAKE n \in Daemon, l \in 0..DeliveryTimeout
      <4>1. CASE n = dm
        <5>1. daemon'[n].flying = daemon[n].flying \ {<<d, left>>}
          BY <1>1, <4>1
        <5> QED
          BY <1>6, <5>1
      <4>2. CASE n # dm
        BY <1>1, <4>2
      <4> QED
        BY <4>1, <4>2
    <3> QED
      BY <3>1 DEF Carrying, Daemon
  <2>2. row'[e] = row[e] /\ crashes' = crashes /\ Overtime(e)
    BY <1>1, <1>6
  <2> QED
    BY <2>1, <2>2 DEF Overtime, Pending
<1>7. Overtime(d)'
  <2>1. CASE row[d].attempts <= Len(Backoff)
    BY <1>1, <1>3, <2>1 DEF Overtime
  <2>2. CASE ~(row[d].attempts <= Len(Backoff))
    <3>1. row'[d].status # "pending"
      BY <1>1, <1>3, <2>2 DEF Ended, Pending
    <3>2. row[d].attempts <= Len(Backoff) + crashes + Cardinality(Host)
      <4>1. CASE Pending(d)
        <5>1. row[d].attempts <= Len(Backoff) + crashes + Cardinality(Carrying(d))
          BY <2>2, <4>1 DEF Overtime
        <5> QED
          BY <1>1, <1>3, <5>1, CarryingIs
      <4>2. CASE ~Pending(d)
        BY <2>2, <4>2 DEF Overtime
      <4> QED
        BY <4>1, <4>2
    <3> QED
      BY <1>1, <2>2, <3>1, <3>2 DEF Overtime, Pending
  <2> QED
    BY <2>1, <2>2
<1> QED
  BY <1>5, <1>6, <1>7

LEMMA CrashKeepsSchedule ==
  ASSUME Scheduled, NEW h \in Host, Crash(h)
  PROVE  GivingUpIsTold' /\ \A d \in Delivery : Overtime(d)'
<1> USE DEF Scheduled
<1>1. /\ crashes' = crashes + 1 /\ UNCHANGED <<log, subscription, row, failedLog>>
      /\ \A n \in Daemon :
           daemon'[n].flying = IF n[1] = h THEN {} ELSE daemon[n].flying
  BY CrashIs
<1>2. GivingUpIsTold'
  BY <1>1 DEF GivingUpIsTold, Listening
<1>3. ASSUME NEW d \in Delivery PROVE Overtime(d)'
  <2>1. Carrying(d) \ {h} \subseteq Carrying(d)'
    BY <1>1 DEF Carrying, Daemon
  <2>2. Carrying(d)' \subseteq Host /\ IsFiniteSet(Host)
    BY DeliveryAssumption DEF Carrying
  <2>3. /\ IsFiniteSet(Carrying(d)') /\ Cardinality(Carrying(d)') \in Nat
        /\ Cardinality(Carrying(d) \ {h}) <= Cardinality(Carrying(d)')
    BY <2>1, <2>2, FS_Subset, FS_CardinalityType
  <2>4. /\ Cardinality(Carrying(d)) \in Nat /\ Cardinality(Host) \in Nat
        /\ Cardinality(Carrying(d) \ {h}) \in Nat
        /\ Cardinality(Carrying(d)) <= Cardinality(Carrying(d) \ {h}) + 1
    <3>1. IsFiniteSet(Carrying(d)) /\ Cardinality(Carrying(d)) \in Nat /\ Cardinality(Host) \in Nat
      BY CarryingIs
    <3>2. Cardinality(Carrying(d) \ {h})
            = IF h \in Carrying(d) THEN Cardinality(Carrying(d)) - 1 ELSE Cardinality(Carrying(d))
      BY <3>1, FS_RemoveElement
    <3>3. IsFiniteSet(Carrying(d) \ {h}) /\ Cardinality(Carrying(d) \ {h}) \in Nat
      BY <3>1, FS_Subset, FS_CardinalityType
    <3> QED
      BY <3>1, <3>2, <3>3
  <2>5. row[d].attempts \in Nat /\ Len(Backoff) \in Nat /\ crashes \in Nat
    BY DeliveryAssumption DEF Sense, TypeOK
  <2>6. Overtime(d) /\ row'[d] = row[d]
    BY <1>1
  <2>7. CASE row[d].attempts <= Len(Backoff)
    BY <1>1, <2>5, <2>6, <2>7 DEF Overtime
  <2>8. CASE ~(row[d].attempts <= Len(Backoff)) /\ Pending(d)
    <3>1. row[d].attempts <= Len(Backoff) + crashes + Cardinality(Carrying(d))
      BY <2>6, <2>8 DEF Overtime
    <3>2. row[d].attempts <= Len(Backoff) + crashes' + Cardinality(Carrying(d)')
      BY <1>1, <2>3, <2>4, <2>5, <3>1
    <3> QED
      BY <2>6, <2>8, <3>2 DEF Overtime, Pending
  <2>9. CASE ~(row[d].attempts <= Len(Backoff)) /\ ~Pending(d)
    <3>1. row[d].attempts <= Len(Backoff) + crashes + Cardinality(Host)
      BY <2>6, <2>9 DEF Overtime
    <3>2. row[d].attempts <= Len(Backoff) + crashes' + Cardinality(Host)
      BY <1>1, <2>4, <2>5, <3>1
    <3> QED
      BY <2>6, <2>9, <3>2 DEF Overtime, Pending
  <2> QED
    BY <2>7, <2>8, <2>9
<1> QED
  BY <1>2, <1>3

LEMMA PassKeepsSchedule ==
  ASSUME Scheduled, Pass PROVE GivingUpIsTold' /\ \A d \in Delivery : Overtime(d)'
<1> USE DEF Scheduled
<1>1. /\ \A d \in Delivery :
           row'[d].status = row[d].status /\ row'[d].attempts = row[d].attempts
      /\ \A n \in Daemon : daemon'[n].flying = {<<f[1], Less(f[2])>> : f \in daemon[n].flying}
      /\ UNCHANGED <<log, subscription, failedLog, crashes>>
  BY PassIs
<1>2. GivingUpIsTold'
  BY <1>1 DEF GivingUpIsTold, Listening
<1>3. ASSUME NEW d \in Delivery PROVE Carrying(d)' = Carrying(d)
  <2>1. ASSUME NEW h \in Carrying(d) PROVE h \in Carrying(d)'
    <3>1. PICK q \in {"webhook", "hook"}, l \in 0..DeliveryTimeout :
            <<d, l>> \in daemon[<<h, q>>].flying
      BY DEF Carrying
    <3>2. h \in Host /\ <<h, q>> \in Daemon
      BY DEF Carrying, Daemon
    <3>3. <<d, Less(l)>> \in daemon'[<<h, q>>].flying
      <4>1. <<<<d, l>>[1], Less(<<d, l>>[2])>>
              \in {<<f[1], Less(f[2])>> : f \in daemon[<<h, q>>].flying}
        BY <3>1
      <4> QED
        BY <1>1, <3>2, <4>1
    <3>4. Less(l) \in 0..DeliveryTimeout
      BY TimeoutIs DEF Less
    <3> QED
      BY <3>2, <3>3, <3>4 DEF Carrying
  <2>2. ASSUME NEW h \in Carrying(d)' PROVE h \in Carrying(d)
    <3>1. PICK q \in {"webhook", "hook"}, l \in 0..DeliveryTimeout :
            <<d, l>> \in daemon'[<<h, q>>].flying
      BY DEF Carrying
    <3>2. h \in Host /\ <<h, q>> \in Daemon
      BY DEF Carrying, Daemon
    <3>3. \E k \in 0..DeliveryTimeout : <<d, k>> \in daemon[<<h, q>>].flying
      BY <3>1, <3>2, PassFlying
    <3> QED
      BY <3>2, <3>3 DEF Carrying
  <2> QED
    BY <2>1, <2>2
<1>4. \A d \in Delivery : Overtime(d)'
  BY <1>1, <1>3 DEF Overtime, Pending
<1> QED
  BY <1>2, <1>4

(* A delivery is given up only when its schedule is spent or its subscriber left,
   a hook that gave up is told exactly once, and no row is tried more often than
   the schedule, the crashes and the hosts account for. *)
THEOREM ScheduleKept == Spec => []ScheduleIsKept
<1>1. ASSUME Init PROVE GivingUpIsTold /\ \A d \in Delivery : Overtime(d)
  <2>1. \A d \in Delivery : row[d] = NoRow /\ failedLog[d] = 0
    BY <1>1 DEF Init
  <2>2. Len(Backoff) \in Nat /\ crashes = 0
    BY <1>1, DeliveryAssumption DEF Init
  <2> QED
    BY <2>1, <2>2 DEF GivingUpIsTold, Overtime, NoRow
<1>2. Init => Scheduled
  BY <1>1, SenseBegins DEF Scheduled
<1>3. ASSUME Scheduled, [Next]_vars PROVE Scheduled'
  <2>1. GivingUpIsTold' /\ \A d \in Delivery : Overtime(d)'
    BY <1>3, StepIs, QuietKeepsSchedule, WonKeepsSchedule, HeardKeepsSchedule,
       CrashKeepsSchedule, PassKeepsSchedule DEF Scheduled
  <2>2. Sense'
    BY <1>3, SenseStep DEF Scheduled
  <2> QED
    BY <2>1, <2>2 DEF Scheduled
<1>4. ASSUME Scheduled PROVE ScheduleIsKept
  <2>1. ASSUME NEW d \in Delivery
        PROVE  row[d].attempts <= Len(Backoff) + Cardinality(Host) + crashes
    <3>1. /\ row[d].attempts \in Nat /\ Len(Backoff) \in Nat /\ crashes \in Nat
          /\ Overtime(d)
      BY <1>4, DeliveryAssumption DEF Scheduled, Sense, TypeOK
    <3> DEFINE carried == Cardinality(Carrying(d))
    <3>2. /\ Cardinality(Host) \in Nat /\ carried \in Nat
          /\ carried <= Cardinality(Host)
      BY CarryingIs
    <3>3. \/ row[d].attempts <= Len(Backoff) + crashes
          \/ row[d].attempts <= Len(Backoff) + crashes + carried
          \/ row[d].attempts <= Len(Backoff) + crashes + Cardinality(Host)
      BY <3>1 DEF Overtime
    <3> HIDE DEF carried
    <3> QED
      BY <3>1, <3>2, <3>3
  <2> QED
    BY <1>4, <2>1 DEF Scheduled, ScheduleIsKept, AttemptsAreBounded
<1> QED
  BY <1>2, <1>3, <1>4, PTL DEF Spec

-----------------------------------------------------------------------------
(* The fan-out leaves no gap. *)

LEMMA CursorIs ==
  ASSUME Sense, NEW s \in Subscription
  PROVE  /\ Cursor(s) \in Nat /\ Enqueued(s) \subseteq Nat
         /\ subscription[s].from \in Nat
         /\ Enqueued(s) # {} => Cursor(s) \in Enqueued(s)
         /\ Enqueued(s) = {} => Cursor(s) = subscription[s].from
         /\ \A e \in Enqueued(s) : e <= Cursor(s)
<1>1. /\ Enqueued(s) \subseteq Nat /\ MaxEvent \in Nat
      /\ \A e \in Enqueued(s) : e <= MaxEvent
  BY DeliveryAssumption DEF Enqueued, Event
<1>2. subscription[s].from \in Nat
  BY <1>1 DEF Sense, TypeOK
<1>3. CASE Enqueued(s) = {}
  BY <1>2, <1>3 DEF Cursor
<1>4. CASE Enqueued(s) # {}
  <2>1. Cursor(s) = Max(Enqueued(s))
    BY <1>4 DEF Cursor
  <2>2. Max(Enqueued(s)) \in Enqueued(s) /\ \A e \in Enqueued(s) : e <= Max(Enqueued(s))
    BY <1>1, <1>4, MaxIs
  <2> QED
    BY <1>1, <1>2, <1>4, <2>1, <2>2
<1> QED
  BY <1>3, <1>4

(* The rows of a subscription come from its fan-out alone. *)
LEMMA EnqueuedMoves ==
  ASSUME Sense, [Next]_vars, NEW s \in Subscription
  PROVE  \/ /\ Enqueued(s)' = Enqueued(s) /\ subscription'[s].from = subscription[s].from
         \/ /\ Enqueued(s)' = Enqueued(s) \cup Window(s)
            /\ subscription'[s].from = subscription[s].from
         \/ Enqueued(s)' = {}
<1> DEFINE Same == /\ Enqueued(s)' = Enqueued(s)
                   /\ subscription'[s].from = subscription[s].from
           Grown == /\ Enqueued(s)' = Enqueued(s) \cup Window(s)
                    /\ subscription'[s].from = subscription[s].from
           Anew == Enqueued(s)' = {}
<1>1. \A e \in Event : <<s, e>> \in Delivery /\ <<s, e>>[1] = s /\ s \notin Hook
  BY DeliveryAssumption DEF Delivery, Target
<1>2. ASSUME \A e \in Event : row'[<<s, e>>].status = "none" <=> row[<<s, e>>].status = "none",
             subscription'[s].from = subscription[s].from
      PROVE  Same
  BY <1>2 DEF Enqueued
<1>3. ASSUME Record PROVE Same
  <2>1. /\ UNCHANGED subscription
        /\ row' = [d \in Delivery |->
                    IF d[1] \in Hook /\ d[2] = log' /\ d[2] \in Wants[d[1]]
                    THEN Born ELSE row[d]]
    BY <1>3 DEF Record
  <2>2. \A e \in Event : row'[<<s, e>>] = row[<<s, e>>]
    BY <1>1, <2>1
  <2> QED
    BY <1>2, <2>1, <2>2
<1>4. ASSUME NEW u \in Subscription, Subscribe(u) PROVE Same \/ Anew
  <2>1. /\ subscription[u] = Unsubscribed /\ UNCHANGED row
        /\ u # s => subscription'[s] = subscription[s]
    BY <1>4 DEF Subscribe, Sense, TypeOK
  <2>2. CASE u = s
    <3>1. \A e \in Event : row[<<s, e>>].status = "none"
      BY <1>1, <2>1, <2>2 DEF Sense, RowMakesSense, Unsubscribed
    <3> QED
      BY <2>1, <3>1 DEF Enqueued
  <2>3. CASE u # s
    BY <1>2, <2>1, <2>3
  <2> QED
    BY <2>2, <2>3
<1>5. ASSUME NEW u \in Subscription, Deactivate(u) PROVE Same
  <2>1. /\ row' = [d \in Delivery |-> IF d[1] = u /\ Pending(d)
                                      THEN [row[d] EXCEPT !.status = "exhausted"]
                                      ELSE row[d]]
        /\ subscription'[s].from = subscription[s].from
    BY <1>5 DEF Deactivate, Sense, TypeOK
  <2>2. ASSUME NEW e \in Event
        PROVE  row'[<<s, e>>].status = "none" <=> row[<<s, e>>].status = "none"
    <3> DEFINE d == <<s, e>>
    <3>1. d \in Delivery
      BY <1>1
    <3> HIDE DEF d
    <3>2. CASE d[1] = u /\ Pending(d)
      <4>1. row'[d].status = "exhausted" /\ row[d].status = "pending"
        BY <2>1, <3>1, <3>2, RowFields DEF Sense, Pending
      <4> QED
        BY <4>1 DEF d
    <3>3. CASE ~(d[1] = u /\ Pending(d))
      <4>1. row'[d] = row[d]
        BY <2>1, <3>1, <3>3
      <4> QED
        BY <4>1 DEF d
    <3> QED
      BY <3>2, <3>3
  <2> QED
    BY <1>2, <2>1, <2>2
<1>6. ASSUME NEW dm \in Daemon, BeginTick(dm) PROVE Same \/ Grown
  <2> DEFINE born == IF dm[2] = "webhook" THEN Fanned ELSE {}
  <2>1. /\ row' = [d \in Delivery |-> IF d \in born THEN Born ELSE row[d]]
        /\ UNCHANGED subscription
    BY <1>6 DEF BeginTick
  <2>2. CASE dm[2] = "webhook" /\ Listening(s)
    <3>1. \A e \in Event : <<s, e>> \in born <=> e \in Window(s)
      BY <2>2 DEF Fanned
    <3>2. Window(s) \subseteq Event
      BY DeliveryAssumption DEF Window, Target
    <3> HIDE DEF born
    <3>3. \A e \in Event :
            row'[<<s, e>>].status # "none" <=>
              (row[<<s, e>>].status # "none" \/ e \in Window(s))
      BY <1>1, <2>1, <3>1 DEF Born
    <3> QED
      BY <2>1, <3>2, <3>3 DEF Enqueued
  <2>3. CASE ~(dm[2] = "webhook" /\ Listening(s))
    <3>1. \A e \in Event : <<s, e>> \notin born
      BY <2>3 DEF Fanned
    <3> HIDE DEF born
    <3>2. \A e \in Event : row'[<<s, e>>] = row[<<s, e>>]
      BY <1>1, <2>1, <3>1
    <3> QED
      BY <1>2, <2>1, <3>2
  <2> QED
    BY <2>2, <2>3
<1>7. ASSUME UNCHANGED <<row, subscription>> PROVE Same
  BY <1>2, <1>7
<1>8. ASSUME NEW dm \in Daemon, NEW d \in Delivery, Won(dm, d) PROVE Same
  <2>1. \A e \in Delivery : row'[e].status = row[e].status
    BY <1>8, WonIs DEF Pending
  <2>2. UNCHANGED subscription
    BY <1>8, WonIs
  <2> QED
    BY <1>1, <1>2, <2>1, <2>2
<1>9. ASSUME NEW dm \in Daemon, NEW d \in Delivery, NEW left \in 0..DeliveryTimeout,
             Heard(dm, d, left)
      PROVE  Same
  <2>1. /\ row[d].status # "none" /\ Ended(d)
        /\ \A e \in Delivery : e # d => row'[e] = row[e]
    BY <1>9, HeardIs
  <2>2. row'[d].status # "none"
    BY <2>1 DEF Ended
  <2>3. UNCHANGED subscription
    BY <1>9, HeardIs
  <2> QED
    BY <1>1, <1>2, <2>1, <2>2, <2>3
<1>10. ASSUME Pass PROVE Same
  <2>1. UNCHANGED subscription /\ \A d \in Delivery : row'[d].status = row[d].status
    BY <1>10, PassIs
  <2> QED
    BY <1>1, <1>2, <2>1
<1>11. ASSUME NEW dm \in Daemon, NEW d \in daemon[dm].batch, Claim(dm, d) PROVE Same
  <2>1. d \in Delivery
    BY ShapeIs, QueuesAreDeliveries DEF Shaped, TickShape
  <2>2. CASE Won(dm, d)
    BY <1>8, <2>1, <2>2
  <2>3. CASE ~(Pending(d) /\ d \in daemon[dm].ripe)
    BY <1>7, <1>11, <2>3 DEF Claim
  <2> QED
    BY <1>11, <2>2, <2>3 DEF Won
<1>12. ASSUME NEW dm \in Daemon, Answer(dm) PROVE Same
  <2>1. PICK f \in daemon[dm].flying : Succeed(dm, f[1], f[2]) \/ Fail(dm, f[1], f[2])
    BY <1>12 DEF Answer
  <2>2. <<f[1], f[2]>> \in daemon[dm].flying
    BY <2>1 DEF Succeed, Fail
  <2>3. f[1] \in Delivery /\ f[2] \in 0..DeliveryTimeout
    BY <2>2, FlyingIs
  <2>4. Heard(dm, f[1], f[2])
    BY <2>1, <2>2 DEF Heard
  <2> QED
    BY <1>9, <2>3, <2>4
<1>13. ASSUME NEW dm \in Daemon, Select(dm) \/ Settle(dm) PROVE Same
  BY <1>7, <1>13 DEF Select, Settle
<1>14. ASSUME NEW h \in Host, Crash(h) PROVE Same
  BY <1>7, <1>14 DEF Crash
<1>15. ASSUME NEW dm \in Daemon, DaemonStep(dm) PROVE Same \/ Grown
  BY <1>6, <1>11, <1>12, <1>13, <1>15 DEF DaemonStep
<1>16. ASSUME UNCHANGED vars PROVE Same
  BY <1>7, <1>16 DEF vars
<1> HIDE DEF Same, Grown, Anew
<1>17. Same \/ Grown \/ Anew
  BY <1>3, <1>4, <1>5, <1>10, <1>14, <1>15, <1>16 DEF Next
<1> QED
  BY <1>17 DEF Same, Grown, Anew

LEMMA WindowIs ==
  ASSUME Sense, NEW s \in Subscription
  PROVE  /\ Window(s) \subseteq {e \in Wants[s] : Cursor(s) < e /\ e <= log}
         /\ \A e \in Window(s), f \in Wants[s] :
              Cursor(s) < f /\ f <= e => f \in Window(s)
<1> DEFINE matched == {e \in Wants[s] : Cursor(s) < e /\ e <= log}
           upTo(e) == {f \in matched : f <= e}
<1>1. Window(s) = {e \in matched : Cardinality(upTo(e)) <= FanoutCeiling}
  BY DEF Window
<1>2. /\ Wants[s] \subseteq 1..MaxEvent /\ MaxEvent \in Nat /\ log \in Nat
      /\ FanoutCeiling \in Nat
  BY DeliveryAssumption DEF Target, Event, Sense, TypeOK
<1>3. IsFiniteSet(matched)
  <2>1. IsFiniteSet(1..MaxEvent)
    BY <1>2, FS_Interval
  <2>2. matched \subseteq 1..MaxEvent
    BY <1>2
  <2> HIDE DEF matched
  <2> QED
    BY <2>1, <2>2, FS_Subset
<1>4. ASSUME NEW e \in Window(s), NEW f \in Wants[s], Cursor(s) < f, f <= e
      PROVE  f \in Window(s)
  <2>1. e \in matched /\ Cardinality(upTo(e)) <= FanoutCeiling
    BY <1>1, <1>4
  <2>2. e \in Nat /\ f \in Nat /\ e <= log /\ \A g \in matched : g \in Nat
    BY <1>2, <2>1
  <2>3. f \in matched
    BY <1>2, <1>4, <2>2
  <2>4. upTo(f) \subseteq upTo(e) /\ upTo(e) \subseteq matched
    BY <1>4, <2>2
  <2> HIDE DEF upTo, matched
  <2>5. /\ IsFiniteSet(upTo(e)) /\ IsFiniteSet(upTo(f))
        /\ Cardinality(upTo(f)) <= Cardinality(upTo(e))
    BY <1>3, <2>4, FS_Subset
  <2>6. Cardinality(upTo(f)) \in Nat /\ Cardinality(upTo(e)) \in Nat
    BY <2>5, FS_CardinalityType
  <2>7. Cardinality(upTo(f)) <= FanoutCeiling
    BY <1>2, <2>1, <2>5, <2>6
  <2> QED
    BY <1>1, <2>3, <2>7
<1> QED
  BY <1>1, <1>4

LEMMA GapStep ==
  ASSUME Sense, NoGapBehindCursor, [Next]_vars PROVE NoGapBehindCursor'
<1> SUFFICES ASSUME NEW s \in Subscription
             PROVE  Enqueued(s)' = {e \in Wants[s] : /\ subscription'[s].from < e
                                                     /\ e <= Cursor(s)'}
  BY DEF NoGapBehindCursor
<1>1. /\ Cursor(s) \in Nat /\ Enqueued(s) \subseteq Nat /\ subscription[s].from \in Nat
      /\ Enqueued(s) # {} => Cursor(s) \in Enqueued(s)
      /\ Enqueued(s) = {} => Cursor(s) = subscription[s].from
      /\ \A e \in Enqueued(s) : e <= Cursor(s)
  BY CursorIs
<1>2. Sense'
  BY SenseStep
<1>3. /\ Enqueued(s)' \subseteq Nat /\ MaxEvent \in Nat
      /\ \A e \in Enqueued(s)' : e <= MaxEvent
      /\ subscription'[s].from \in Nat /\ Wants[s] \subseteq Nat
  BY <1>2, DeliveryAssumption DEF Enqueued, Event, Sense, TypeOK, Target
<1>4. /\ Enqueued(s)' = {} => Cursor(s)' = subscription'[s].from
      /\ Enqueued(s)' # {} => Cursor(s)' = Max(Enqueued(s)')
  BY DEF Cursor
<1>5. Enqueued(s) = {e \in Wants[s] : subscription[s].from < e /\ e <= Cursor(s)}
  BY DEF NoGapBehindCursor
<1>6. CASE Enqueued(s)' = {}
  BY <1>3, <1>4, <1>6
<1>7. CASE Enqueued(s)' = Enqueued(s) /\ subscription'[s].from = subscription[s].from
  <2>1. Cursor(s)' = Cursor(s)
    BY <1>4, <1>7 DEF Cursor
  <2> QED
    BY <1>5, <1>7, <2>1
<1>8. CASE /\ Enqueued(s)' = Enqueued(s) \cup Window(s) /\ Window(s) # {}
           /\ subscription'[s].from = subscription[s].from
  <2> DEFINE last == Max(Enqueued(s)')
  <2>1. last \in Enqueued(s)' /\ \A e \in Enqueued(s)' : e <= last
    BY <1>3, <1>8, MaxIs
  <2>2. Cursor(s)' = last
    BY <1>4, <1>8
  <2> HIDE DEF last
  <2>3. \A e \in Window(s) : e \in Wants[s] /\ e \in Nat /\ Cursor(s) < e
    BY <1>3, WindowIs
  <2>4. last \in Window(s)
    <3>1. PICK e \in Window(s) : TRUE
      BY <1>8
    <3>2. Cursor(s) < e /\ e <= last /\ last \in Nat /\ e \in Nat
      BY <1>3, <1>8, <2>1, <2>3, <3>1
    <3>3. last \notin Enqueued(s)
      BY <1>1, <3>2
    <3> QED
      BY <1>8, <2>1, <3>3
  <2>5. \A f \in Wants[s] : Cursor(s) < f /\ f <= last => f \in Window(s)
    BY <2>4, WindowIs
  <2>6. subscription[s].from <= Cursor(s)
    <3>1. CASE Enqueued(s) = {}
      BY <1>1, <3>1
    <3>2. CASE Enqueued(s) # {}
      BY <1>1, <1>5, <3>2
    <3> QED
      BY <3>1, <3>2
  <2>7. ASSUME NEW e \in Enqueued(s)'
        PROVE  e \in Wants[s] /\ subscription[s].from < e /\ e <= last
    <3>1. CASE e \in Enqueued(s)
      BY <1>5, <2>1, <3>1
    <3>2. CASE e \in Window(s)
      BY <1>1, <2>1, <2>3, <2>6, <3>2
    <3> QED
      BY <1>8, <3>1, <3>2
  <2>8. ASSUME NEW e \in Wants[s], subscription[s].from < e, e <= last
        PROVE  e \in Enqueued(s)'
    <3>1. CASE e <= Cursor(s)
      BY <1>5, <1>8, <2>8, <3>1
    <3>2. CASE ~(e <= Cursor(s))
      <4>1. Cursor(s) < e
        BY <1>1, <1>3, <3>2
      <4> QED
        BY <1>8, <2>5, <2>8, <4>1
    <3> QED
      BY <3>1, <3>2
  <2>9. Enqueued(s)' = {e \in Wants[s] : subscription[s].from < e /\ e <= last}
    BY <2>7, <2>8
  <2> QED
    BY <1>8, <2>2, <2>9
<1> QED
  BY <1>6, <1>7, <1>8, EnqueuedMoves

(* Behind a subscription's cursor every event it matches has its row and nothing
   before its anchor has one, however the ticks of two hosts and the crashes
   interleave: the fan-out skips nothing and repeats nothing. *)
THEOREM FanoutLeavesNoGap == Spec => []NoGapBehindCursor
<1>1. ASSUME Init PROVE NoGapBehindCursor
  <2>1. \A s \in Subscription : Enqueued(s) = {} /\ subscription[s].from = 0
    BY <1>1, DeliveryAssumption DEF Init, Enqueued, NoRow, Unsubscribed, Delivery, Target
  <2>2. \A s \in Subscription : Cursor(s) = 0
    BY <2>1 DEF Cursor
  <2>3. \A s \in Subscription : Wants[s] \subseteq Nat
    BY DeliveryAssumption DEF Target, Event
  <2> QED
    BY <2>1, <2>2, <2>3 DEF NoGapBehindCursor
<1>2. Init => Sense /\ NoGapBehindCursor
  BY <1>1, SenseBegins
<1>3. Sense /\ NoGapBehindCursor /\ [Next]_vars => (Sense /\ NoGapBehindCursor)'
  BY SenseStep, GapStep
<1> QED
  BY <1>2, <1>3, PTL DEF Spec

(* The safety half of FanoutIsExact: no step leaves a gap behind the cursor. *)
COROLLARY NoStepLeavesAGap == Spec => [][NoGapBehindCursor']_vars
<1>1. Sense /\ NoGapBehindCursor /\ [Next]_vars => [NoGapBehindCursor']_vars
  BY GapStep
<1> QED
  BY <1>1, SenseAlways, FanoutLeavesNoGap, PTL DEF Spec

=============================================================================
