----------------------------- MODULE MCDelivery -----------------------------
(* A small instance of Delivery: two hosts, a subscription to the first two
   events and a hook on the third. *)
EXTENDS Delivery, TLC

CONSTANTS a, b, s, h

MCWants == [t \in Target |-> IF t = h THEN {3} ELSE {1, 2}]

MCBackoff == <<1>>

(* Subscriptions and hooks share nothing but the log and the death of a host, and
   are looked at one after the other: the hook while nobody has subscribed, and
   the subscription over the events that come before the hook's.  Only what no
   fairness is asked of is cut short: an append, a death, a subscription. *)
Scene ==
  CASE subscription[s].state = "none"        -> TRUE
    [] subscription[s].state = "active"      -> log + crashes <= 2
    [] subscription[s].state = "deactivated" -> log <= 1 /\ log + crashes <= 2

ASSUME MCRetriesOutlastAttempts == RetriesOutlastAttempts
=============================================================================
