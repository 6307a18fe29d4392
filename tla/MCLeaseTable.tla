---------------------------- MODULE MCLeaseTable ----------------------------
(* Small instances of LeaseTable: two runners race for the jobs of two projects,
   one of the jobs an id the database does not know. *)
EXTENDS LeaseTable, TLC

CONSTANTS r1, r2, known, other, unknown, p1, p2, l1, l2, l3

MCProjectOf == [j \in Job |-> IF j = unknown THEN NoProject ELSE p1]

MCSymmetry == Permutations(LeaseId) \cup Permutations(Runner)
=============================================================================
