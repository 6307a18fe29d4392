------------------------------ MODULE OwnerLock ------------------------------
(***************************************************************************)
(* The sidecar file that keeps two control planes off one database         *)
(* (acquireLock and the release it returns).  Each file-system call is a   *)
(* step of its own: between two of them another process may run, any number *)
(* of them starting, and any process may die.  Process ids are not reused. *)
(***************************************************************************)
EXTENDS Naturals

CONSTANTS
  Process,       \* process ids that ever start a control plane
  NoOwner        \* what readOwner says of a file that names nobody

ASSUME OwnerLockAssumption == NoOwner \notin Process

VARIABLES
  file,     \* the lock file: absent, or who created it and whether it says so
  at,       \* where each process stands
  round,    \* acquireLock's attempt
  seen      \* the owner it read

vars == <<file, at, round, seen>>

Absent == [maker |-> NoOwner, written |-> FALSE]

File == [maker : Process \cup {NoOwner}, written : BOOLEAN]

Starting == {"taking", "writing", "reading", "judging", "removing"}
Holding  == {"owner", "releasing"}
Stage    == Starting \cup Holding \cup {"unborn", "refused", "gone"}

Alive(p) == at[p] \notin {"unborn", "gone"}

(* readOwner: no file and a file with no pid in it look the same. *)
ReadOwner == IF file.written THEN file.maker ELSE NoOwner

Go(p, stage) == at' = [at EXCEPT ![p] = stage]

(* acquireLock returns or throws, or the process ends: its locals are gone. *)
Leave(p, stage) ==
  /\ Go(p, stage)
  /\ round' = [round EXCEPT ![p] = 1] /\ seen' = [seen EXCEPT ![p] = NoOwner]

-----------------------------------------------------------------------------

Start(p) ==
  /\ at[p] = "unborn"
  /\ Go(p, "taking")
  /\ UNCHANGED <<file, round, seen>>

(* takeFile's openSync with wx: creates the file, or finds one. *)
Take(p) ==
  /\ at[p] = "taking"
  /\ IF file = Absent
     THEN file' = [maker |-> p, written |-> FALSE] /\ Go(p, "writing")
     ELSE UNCHANGED file /\ Go(p, "reading")
  /\ UNCHANGED <<round, seen>>

(* takeFile's writeSync, which lands in the file this process created, whether
   or not the directory still has it. *)
Write(p) ==
  /\ at[p] = "writing"
  /\ file' = IF file.maker = p THEN [file EXCEPT !.written = TRUE] ELSE file
  /\ Leave(p, "owner")

(* A file that names nobody has no one to judge: it is abandoned. *)
Read(p) ==
  /\ at[p] = "reading"
  /\ seen' = [seen EXCEPT ![p] = ReadOwner]
  /\ Go(p, IF ReadOwner = NoOwner THEN "removing" ELSE "judging")
  /\ UNCHANGED <<file, round>>

(* Fault: the file of an owner that lives is taken over too. *)
FaultyJudge(p) ==
  /\ at[p] = "judging"
  /\ Go(p, "removing")
  /\ UNCHANGED <<file, round, seen>>

(* judgeOwner: a live owner refuses the start, a dead one is taken over. *)
Judge(p) ==
  /\ at[p] = "judging"
  /\ IF Alive(seen[p]) THEN Leave(p, "refused") ELSE Go(p, "removing") /\ UNCHANGED <<round, seen>>
  /\ UNCHANGED file

(* removeFile takes whatever stands at the path by now.  After two rounds the
   start is refused, whether or not a last look finds somebody in the file. *)
Remove(p) ==
  /\ at[p] = "removing"
  /\ file' = Absent
  /\ \/ /\ round[p] = 1 /\ Go(p, "taking")
        /\ round' = [round EXCEPT ![p] = 2] /\ seen' = [seen EXCEPT ![p] = NoOwner]
     \/ round[p] = 2 /\ Leave(p, "refused")

(* release: only a file that names this process is removed. *)
Release(p) ==
  /\ at[p] = "owner"
  /\ Go(p, IF ReadOwner = p THEN "releasing" ELSE "gone")
  /\ UNCHANGED <<file, round, seen>>

Unlink(p) ==
  /\ at[p] = "releasing"
  /\ file' = Absent
  /\ Go(p, "gone")
  /\ UNCHANGED <<round, seen>>

(* kill -9, or the exit of a process that was refused. *)
Die(p) ==
  /\ Alive(p)
  /\ Leave(p, "gone")
  /\ UNCHANGED file

Init ==
  /\ file = Absent
  /\ at = [p \in Process |-> "unborn"]
  /\ round = [p \in Process |-> 1]
  /\ seen = [p \in Process |-> NoOwner]

Acquire(p) == Take(p) \/ Write(p) \/ Read(p) \/ Judge(p) \/ Remove(p)

Next == \E p \in Process :
          Start(p) \/ Acquire(p) \/ Release(p) \/ Unlink(p) \/ Die(p)

Spec == Init /\ [][Next]_vars

-----------------------------------------------------------------------------

(* Every process stands somewhere, and the file is absent or somebody's. *)
TypeOK ==
  /\ file \in File
  /\ file.written => file.maker \in Process
  /\ at \in [Process -> Stage]
  /\ round \in [Process -> 1..2]
  /\ seen \in [Process -> Process \cup {NoOwner}]

(* The database has one control plane (acquireLock's whole purpose, D1).  Two
   that start together may both come up: a file that its maker has created and
   not yet written in names nobody, and is taken for abandoned; and what is
   removed is whatever stands at the path by then, not what was judged. *)
OneOwner == \A p, q \in Process : at[p] \in Holding /\ at[q] \in Holding => p = q

(* A control plane the file names, when no start is past judging another file
   and nobody is about to write or to own. *)
Settled(p) ==
  /\ at[p] = "owner" /\ file = [maker |-> p, written |-> TRUE]
  /\ \A q \in Process \ {p} :
       /\ at[q] \notin Holding \cup {"writing", "removing"}
       /\ at[q] = "judging" => seen[q] = p

(* A control plane that has settled stays the only one, and named, until it
   goes itself: whatever number of others starts at the same time, and wherever
   one of them dies. *)
SettledOwnerStays ==
  [][\A p \in Process : Settled(p) => Settled(p)' \/ at'[p] # "owner"]_vars

(* A start is refused only by a control plane that is up: a lock left by a
   process that died, even between creating the file and writing its pid in it,
   stops nobody.  One that has cleared the path twice gives up all the same. *)
OnlyAnOwnerRefuses ==
  [][\A p \in Process :
       at[p] # "refused" /\ at'[p] = "refused"
         => at[p] = "removing" \/ \E q \in Process : at[q] \in Holding]_vars

(* What the lock does keep, however many start at once. *)
LockIsSound == []TypeOK /\ SettledOwnerStays /\ OnlyAnOwnerRefuses

=============================================================================
