------------------------------ MODULE JobTenure ------------------------------
(***************************************************************************)
(* What the lease table promises, without rows, sweeps or reasons: at every *)
(* instant a job has at most one owner; an owner keeps it until it yields or *)
(* until its deadline is behind the clock; nobody acquires an owned job.    *)
(***************************************************************************)
EXTENDS Integers

CONSTANTS Runner, Job,
          NoOne,       \* the owner of a job nobody holds
          Ttl          \* how far ahead of the clock a deadline may be set

VARIABLES clock, owner, deadline

vars == <<clock, owner, deadline>>

Init ==
  /\ clock = 0
  /\ owner = [j \in Job |-> NoOne]
  /\ deadline = [j \in Job |-> 0]

Acquire(j, r, ttl) ==
  /\ owner[j] = NoOne
  /\ owner' = [owner EXCEPT ![j] = r]
  /\ deadline' = [deadline EXCEPT ![j] = clock + ttl]
  /\ UNCHANGED clock

Keep(j, ttl) ==
  /\ owner[j] # NoOne
  /\ deadline' = [deadline EXCEPT ![j] = clock + ttl]
  /\ UNCHANGED <<clock, owner>>

Yield(j) ==
  /\ owner[j] # NoOne
  /\ owner' = [owner EXCEPT ![j] = NoOne]
  /\ deadline' = [deadline EXCEPT ![j] = 0]
  /\ UNCHANGED clock

(* Time takes back every job whose deadline it passes, whether or not anybody
   has noticed yet. *)
Lapsed(j) == deadline[j] < clock + 1

Pass ==
  /\ clock' = clock + 1
  /\ owner' = [j \in Job |-> IF Lapsed(j) THEN NoOne ELSE owner[j]]
  /\ deadline' = [j \in Job |-> IF Lapsed(j) THEN 0 ELSE deadline[j]]

Next ==
  \/ \E j \in Job, r \in Runner, ttl \in Ttl : Acquire(j, r, ttl)
  \/ \E j \in Job, ttl \in Ttl : Keep(j, ttl)
  \/ \E j \in Job : Yield(j)
  \/ Pass

Spec == Init /\ [][Next]_vars

=============================================================================
