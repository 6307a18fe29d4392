---------------------------- MODULE MCWorktrees ----------------------------
(* Two small worlds of Worktrees.  Alone: one job, three directories, one
   commit, prune at any moment.  Beside: two jobs that integrate side by side,
   with one directory each, and nobody pruning. *)
EXTENDS Worktrees

Alone ==
  /\ made <= 1 /\ 2 \notin DOMAIN branch
  /\ \A t \in Tree : tree[t].job # 2

Beside ==
  /\ prune.pc = "idle" /\ tree[3].pc = "idle"
  /\ tree[1].job # 2 /\ tree[2].job # 1

Scene == Alone \/ Beside

=============================================================================
