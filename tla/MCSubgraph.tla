----------------------------- MODULE MCSubgraph -----------------------------
(* Small instances of Subgraph: one call, a fan-out of two and a chain of two,
   and a fan-out over an empty list. *)
EXTENDS Subgraph

CONSTANTS a, b

MCShape == {[items |-> 0, ordered |-> FALSE], [items |-> 1, ordered |-> FALSE],
            [items |-> 2, ordered |-> FALSE], [items |-> 2, ordered |-> TRUE]}
=============================================================================
