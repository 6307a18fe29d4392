--------------------------- MODULE MCControlPlane ---------------------------
(* A small instance of ControlPlane: builds that add files to each other, one
   that edits a file that ran and one that renames it. *)
EXTENDS ControlPlane, TLC

CONSTANTS init, column, late, renamed

MCNumber == init :> 1 @@ renamed :> 1 @@ column :> 2 @@ late :> 3

MCBuild ==
  { init :> 1,
    init :> 1 @@ column :> 1 @@ late :> 1,
    init :> 2 @@ column :> 2 @@ late :> 1,
    renamed :> 1 @@ column :> 1,
    init :> 1 @@ renamed :> 1 }

(* Control planes start at once, or one against another, while nothing is
   recorded and nobody watches; under a watcher each comes when the last is gone, or
   finds it still there.  Where two of them own the database the run looks no
   further: that they can is what MCTwoStarts.cfg shows. *)
OneByOne ==
  \A p, q \in Process :
    p < q => at[q] = "unborn" \/ at[p] = "gone"
             \/ (at[p] \in Holding /\ at[q] \in Starting)

Scene ==
  /\ OneOwner
  /\ \/ OneByOne
     \/ watch.at = "off" /\ log = << >>

ASSUME MCAddedBehind == AddedBehind
=============================================================================
