-------------------------- MODULE Worktrees_proofs --------------------------
(***************************************************************************)
(* Proofs about the working trees, the bench and prune (Worktrees): that    *)
(* nothing is lost and that the main line is true, for any number of jobs,  *)
(* directories, commits, crashes and people's doings.                       *)
(*                                                                         *)
(* The argument: prune removes the directory its scan found, so what holds  *)
(* the engine's directory safe is that a job found completed after the scan *)
(* has no dispatch still at work in a directory that was there at the scan  *)
(* (AskedAtRest), which rests on a job having one dispatch at a time unless *)
(* a stray one came (OneAtATime).  For the bench, what a dispatch has seen  *)
(* of it stays so because the main line only grows (Carried).               *)
(***************************************************************************)
EXTENDS Worktrees, WellFoundedInduction, TLAPS

-----------------------------------------------------------------------------
Unmade == {"idle", "creating", "adding"}

(* A dispatch under way. *)
Steps == {"creating", "adding", "running", "releasing", "removing", "finishing",
          "blocking", "checking", "merging", "installing", "moving"}

(* Or the engine a dead runner left to itself. *)
Live == Steps \cup {"orphan"}

(* A dispatch that moves its job no more, but to raise its flag; an engine may be at
   work for it, with no runner to hear of it. *)
Ended == {"blocking", "orphan", "over"}

History == SUBSET Nat

Flags == [node : {"build", "gate"}, blocked : BOOLEAN, reported : BOOLEAN,
          stray : BOOLEAN]

Dispatch == [dir : {"unused", "there", "gone"}, pc : Live \cup {"idle", "over"},
             job : Job \cup {NoJob}, node : {"build", "gate"}, dirty : BOOLEAN,
             base : History, ended : {"none", "completed", "failed"},
             kept : BOOLEAN, named : SUBSET History, ran : History, slip : BOOLEAN]

Sweep == [pc : {"idle", "refs", "asking", "sweeping"},
          found : UNION {[D -> Tree] : D \in SUBSET Job},
          refs : SUBSET Job, todo : SUBSET Job, eligible : SUBSET Job]

TypeOK ==
  /\ board \in [Job -> Flags]
  /\ DOMAIN branch \subseteq Job /\ branch \in [DOMAIN branch -> History]
  /\ repo \in History /\ apart \in BOOLEAN
  /\ bench \in [main : History, other : History, on : {"main", "other"}]
  /\ tree \in [Tree -> Dispatch]
  /\ prune \in Sweep /\ (prune.pc = "asking" => prune.todo # {})
  /\ made \in 0 .. MaxCommit /\ events \in 0 .. MaxEvent
  /\ \A t \in Tree : tree[t].pc \in Live => tree[t].job \in Job

(* What a directory and its dispatch are where they stand: a directory that is
   there has its branch, prune deletes no branch that is checked out, and what is
   about to be removed is clean. *)
Sound(r) ==
  /\ r.pc \in Unmade => r.dir = "unused"
  /\ r.dir = "there" => r.job \in DOMAIN branch
  /\ r.pc = "removing" => ~r.dirty
  /\ \A a, b \in r.named : a = b

AllSound == \A t \in Tree : Sound(tree[t])

-----------------------------------------------------------------------------
(* Every nonempty set of numbers has a least one. *)
LEMMA LeastNatural ==
  ASSUME NEW T, T \subseteq Nat, T # {}
  PROVE  \E x \in T : \A y \in T : x <= y
<1> DEFINE R == OpToRel(<, Nat)
<1>1. IsWellFoundedOn(R, Nat)
  BY NatLessThanWellFounded
<1>2. R = {ss \in Nat \X Nat : ss[1] < ss[2]}
  BY DEF OpToRel
<1>3. \A x, y \in Nat : <<y, x>> \in R <=> y < x
  BY <1>2
<1> HIDE DEF R
<1>4. PICK x \in T : \A y \in T : <<y, x>> \notin R
  BY <1>1, WFMin
<1>5. ASSUME NEW y \in T PROVE x <= y
  <2>1. x \in Nat /\ y \in Nat
    OBVIOUS
  <2>2. ~(y < x)
    BY <1>3, <1>4, <2>1
  <2> QED
    BY <2>1, <2>2
<1> QED
  BY <1>5

(* prune takes up one of the jobs it has left. *)
LEMMA LeastIs ==
  ASSUME NEW S, S \subseteq Job, S # {}
  PROVE  Least(S) \in S
<1>1. S \subseteq Nat
  BY WorktreesAssumption
<1>2. \E x \in S : \A y \in S : x <= y
  BY <1>1, LeastNatural
<1> QED
  BY <1>2 DEF Least

(* A ref that is made or moved, and every other one as it was. *)
LEMMA RefIs ==
  ASSUME NEW j, NEW tip
  PROVE  /\ DOMAIN Ref(j, tip) = DOMAIN branch \cup {j}
         /\ Ref(j, tip)[j] = tip
         /\ \A k \in DOMAIN branch : k # j => Ref(j, tip)[k] = branch[k]
  BY DEF Ref

(* The history checked out is one of the two the bench has. *)
LEMMA HereIs ==
  ASSUME TypeOK
  PROVE  /\ Here = IF bench.on = "main" THEN bench.main ELSE bench.other
         /\ Here \in History /\ Head \in History
         /\ Head \subseteq repo \cup bench.main \cup bench.other
  BY DEF TypeOK, Here, Head, History

(* The bench with the branch it is on at a new tip. *)
LEMMA BenchMoves ==
  ASSUME TypeOK, NEW tip, tip \in History
  PROVE  LET b == [bench EXCEPT ![bench.on] = tip]
         IN  /\ b \in [main : History, other : History, on : {"main", "other"}]
             /\ b.on = bench.on
             /\ b.main = IF bench.on = "main" THEN tip ELSE bench.main
             /\ b.other = IF bench.on = "other" THEN tip ELSE bench.other
<1>1. CASE bench.on = "main"
  BY <1>1 DEF TypeOK
<1>2. CASE bench.on = "other"
  BY <1>2 DEF TypeOK
<1> QED
  BY <1>1, <1>2 DEF TypeOK

(* What is left of a dispatch. *)
LEMMA PastIs ==
  ASSUME NEW r \in Dispatch
  PROVE  /\ Past(r) \in Dispatch /\ Past(r).pc = "over"
         /\ Past(r).dir = IF r.dir = "there" THEN "there" ELSE "gone"
         /\ r.dir = "there" => Past(r).job = r.job /\ Past(r).dirty = r.dirty
         /\ Past(r).named = {} /\ ~Past(r).slip
         /\ r.dir # "there" => ~Past(r).dirty
<1>1. CASE r.dir = "there"
  <2>1. Past(r) = [Fresh EXCEPT !.pc = "over", !.dir = "there", !.job = r.job,
                     !.dirty = r.dirty]
    BY <1>1 DEF Past
  <2>2. r.job \in Job \cup {NoJob} /\ r.dirty \in BOOLEAN
    BY DEF Dispatch
  <2>3. Past(r) = [dir |-> "there", pc |-> "over", job |-> r.job, node |-> "build",
                   dirty |-> r.dirty, base |-> {}, ended |-> "none", kept |-> FALSE,
                   named |-> {}, ran |-> {}, slip |-> FALSE]
    BY <2>1 DEF Fresh
  <2> QED
    BY <1>1, <2>2, <2>3 DEF Dispatch, History
<1>2. CASE r.dir # "there"
  BY <1>2 DEF Past, Fresh, Dispatch, History
<1> QED
  BY <1>1, <1>2

(* A dispatch whose directory goes. *)
LEMMA GoneIs ==
  ASSUME NEW r \in Dispatch
  PROVE  /\ Gone(r) \in Dispatch /\ Gone(r).pc = r.pc /\ Gone(r).dir = "gone"
         /\ ~Gone(r).dirty
         /\ r.pc # "over" => /\ Gone(r).job = r.job /\ Gone(r).named = r.named
                             /\ Gone(r).slip = r.slip /\ Gone(r).ran = r.ran
         /\ r.pc = "over" => Gone(r).named = {} /\ ~Gone(r).slip
<1>1. CASE r.pc = "over"
  <2> DEFINE g == [r EXCEPT !.dir = "gone"]
  <2>1. g \in Dispatch /\ g.dir = "gone"
    BY DEF Dispatch
  <2>2. Gone(r) = Past(g)
    BY <1>1 DEF Gone
  <2> QED
    BY <1>1, <2>1, <2>2, PastIs
<1>2. CASE r.pc # "over"
  BY <1>2 DEF Gone, Dispatch
<1> QED
  BY <1>1, <1>2

(* An unused directory. *)
LEMMA FreshIs ==
  Fresh \in Dispatch
  BY DEF Fresh, Dispatch, Steps, History

(* One directory's turn leaves the others as they are. *)
LEMMA TurnIs ==
  ASSUME TypeOK, NEW t \in Tree, NEW r \in Dispatch, Turn(t, r),
         r.pc \in Live => r.job \in Job
  PROVE  /\ tree' \in [Tree -> Dispatch]
         /\ tree'[t] = r
         /\ \A u \in Tree : u # t => tree'[u] = tree[u]
         /\ \A u \in Tree : tree'[u].pc \in Live => tree'[u].job \in Job
  BY DEF TypeOK, Turn

LEMMA GotoIs ==
  ASSUME TypeOK, NEW t \in Tree, NEW pc \in Live, Goto(t, pc), tree[t].pc \in Live
  PROVE  /\ tree' \in [Tree -> Dispatch]
         /\ tree'[t] = [tree[t] EXCEPT !.pc = pc]
         /\ \A u \in Tree : u # t => tree'[u] = tree[u]
         /\ \A u \in Tree : tree'[u].pc \in Live => tree'[u].job \in Job
<1> DEFINE r == [tree[t] EXCEPT !.pc = pc]
<1>1. r \in Dispatch /\ r.job \in Job
  BY DEF TypeOK, Dispatch
<1> QED
  BY <1>1, TurnIs DEF Goto

LEMMA LeaveIs ==
  ASSUME TypeOK, NEW t \in Tree, Leave(t)
  PROVE  /\ tree' \in [Tree -> Dispatch]
         /\ tree'[t] = Past(tree[t])
         /\ \A u \in Tree : u # t => tree'[u] = tree[u]
         /\ \A u \in Tree : tree'[u].pc \in Live => tree'[u].job \in Job
<1>1. Past(tree[t]) \in Dispatch /\ Past(tree[t]).pc \notin Live
  BY PastIs DEF TypeOK, Live, Steps
<1> QED
  BY <1>1, TurnIs DEF Leave

(* A job's flags, and the others' as they are. *)
LEMMA WriteIs ==
  ASSUME TypeOK, NEW j \in Job, NEW how \in Flags, Write(j, how)
  PROVE  /\ board' \in [Job -> Flags] /\ board'[j] = how
         /\ \A k \in Job : k # j => board'[k] = board[k]
  BY DEF TypeOK, Write

LEMMA RefTyped ==
  ASSUME TypeOK, NEW j \in Job, NEW tip \in History
  PROVE  /\ DOMAIN Ref(j, tip) \subseteq Job
         /\ Ref(j, tip) \in [DOMAIN Ref(j, tip) -> History]
  BY DEF TypeOK, Ref

(* prune at rest, and with what its scan found. *)
LEMMA RestingIs ==
  /\ Resting \in Sweep /\ DOMAIN Resting.found = {} /\ Resting.eligible = {}
  /\ Resting.pc = "idle"
<1>1. <<>> \in [{} -> Tree]
  OBVIOUS
<1>2. <<>> \in UNION {[D -> Tree] : D \in SUBSET Job}
  BY <1>1
<1> QED
  BY <1>2 DEF Resting, Sweep

LEMMA FoundTyped ==
  ASSUME NEW p \in Sweep
  PROVE  DOMAIN p.found \subseteq Job /\ p.found \in [DOMAIN p.found -> Tree]
  BY DEF Sweep

-----------------------------------------------------------------------------
(* Types. *)

LEMMA BeginTyped ==
  ASSUME TypeOK, NEW t \in Tree, NEW j \in Job, Begin(t, j)
  PROVE  TypeOK'
<1> DEFINE due == Released(j) /\ ~Busy(j)
           r == [Fresh EXCEPT !.job = j, !.node = board[j].node,
                   !.pc = IF j \in DOMAIN branch THEN "adding" ELSE "creating"]
           b == [board[j] EXCEPT !.stray = @ \/ ~due]
<1> DEFINE pc == IF j \in DOMAIN branch THEN "adding" ELSE "creating"
<1>1. board[j] \in Flags /\ board[j].node \in {"build", "gate"} /\ pc \in Live
  BY DEF TypeOK, Flags, Live, Steps
<1> HIDE DEF pc
<1>2. [Fresh EXCEPT !.job = j, !.node = board[j].node, !.pc = pc] \in Dispatch
  BY <1>1, FreshIs DEF Dispatch
<1>3. r \in Dispatch /\ r.job \in Job
  BY <1>2 DEF pc, Fresh
<1>4. b \in Flags
  BY <1>1 DEF Flags
<1>5. Turn(t, r) /\ Write(j, b) /\ UNCHANGED <<branch, repo, bench, apart, prune, made>>
  BY DEF Begin
<1>6. events' \in 0 .. MaxEvent
  BY WorktreesAssumption DEF Begin, Event, TypeOK
<1> QED
  BY <1>3, <1>4, <1>5, <1>6, TurnIs, WriteIs DEF TypeOK

LEMMA AddTyped ==
  ASSUME TypeOK, NEW t \in Tree, Add(t)
  PROVE  TypeOK'
<1> DEFINE j == tree[t].job
           tip == IF At(t, "adding") THEN branch[j] ELSE Head
           r == [tree[t] EXCEPT !.dir = "there", !.pc = "running", !.base = tip]
<1>1. j \in Job
  BY DEF Add, At, TypeOK, Live, Steps
<1>2. UNCHANGED <<board, repo, bench, apart, prune, counters>>
  BY DEF Add
<1>3. CASE Leave(t) /\ UNCHANGED branch
  BY <1>2, <1>3, LeaveIs DEF TypeOK, counters
<1>4. CASE /\ At(t, "adding") <=> j \in DOMAIN branch
           /\ branch' = Ref(j, tip) /\ Turn(t, r)
  <2>1. tip \in History
    BY <1>4, HereIs DEF TypeOK
  <2>2. tree[t] \in Dispatch
    BY DEF TypeOK
  <2> HIDE DEF tip
  <2>3. r \in Dispatch /\ r.job \in Job
    BY <1>1, <2>1, <2>2 DEF Dispatch, Live, Steps
  <2> QED
    BY <1>1, <1>2, <1>4, <2>1, <2>3, TurnIs, RefTyped DEF TypeOK, counters
<1> QED
  BY <1>3, <1>4 DEF Add

LEMMA CommitTyped ==
  ASSUME TypeOK, AllSound, NEW t \in Tree, Commit(t)
  PROVE  TypeOK'
<1> DEFINE j == tree[t].job
<1>1. PICK merged \in {{}, Head} :
        LET tip == branch[j] \cup merged \cup {made'}
        IN  /\ branch' = Ref(j, tip)
            /\ Turn(t, [tree[t] EXCEPT !.dirty = FALSE, !.base = tip])
  BY DEF Commit
<1> DEFINE tip == branch[j] \cup merged \cup {made'}
           r == [tree[t] EXCEPT !.dirty = FALSE, !.base = tip]
<1>2. made' \in 0 .. MaxCommit /\ UNCHANGED <<board, repo, bench, apart, prune, events>>
  BY WorktreesAssumption DEF Commit, TypeOK
<1>3. j \in DOMAIN branch /\ j \in Job
  BY DEF TypeOK, AllSound, Sound, Commit, Working
<1>4. tip \in History
  <2>1. merged \in History
    BY HereIs DEF History
  <2>2. branch[j] \in History
    BY <1>3 DEF TypeOK
  <2>3. made' \in Nat
    BY <1>2, WorktreesAssumption
  <2>4. \A A, B \in SUBSET Nat, n \in Nat : A \cup B \cup {n} \in SUBSET Nat
    OBVIOUS
  <2> QED
    BY <2>1, <2>2, <2>3, <2>4 DEF History
<1> HIDE DEF tip
<1>5. tree[t] \in Dispatch
  BY DEF TypeOK
<1>6. r \in Dispatch /\ r.job \in Job
  BY <1>3, <1>4, <1>5 DEF Dispatch
<1> QED
  BY <1>1, <1>2, <1>3, <1>4, <1>6, TurnIs, RefTyped DEF TypeOK, tip

LEMMA RestTyped ==
  ASSUME TypeOK, NEW t \in Tree,
         \/ Edit(t) \/ Release(t) \/ Remove(t) \/ Finish(t) \/ Block(t) \/ Move(t)
         \/ \E how \in {"completed", "failed"}, names \in BOOLEAN :
              EngineEnds(t, how, names)
  PROVE  TypeOK'
<1> DEFINE r == tree[t]
<1>1. r \in Dispatch /\ (r.pc \in Live => r.job \in Job)
  BY DEF TypeOK
<1>2. CASE Edit(t)
  <2> DEFINE q == [r EXCEPT !.dirty = TRUE]
  <2>1. q \in Dispatch /\ (q.pc \in Live => q.job \in Job)
    BY <1>1 DEF Dispatch
  <2> QED
    BY <1>2, <2>1, TurnIs DEF TypeOK, Edit, counters
<1>3. CASE Release(t)
  <2> DEFINE ask == r.ended = "completed" /\ ~(r.dir = "gone")
             kept == ask /\ Unclean(t)
             pc == IF ask /\ ~Unclean(t) THEN "removing" ELSE "finishing"
             q == [r EXCEPT !.kept = kept, !.base = {}, !.pc = pc]
  <2>1. kept \in BOOLEAN /\ pc \in Live /\ {} \in History
    BY <1>1 DEF Unclean, Dispatch, Live, Steps, History
  <2> HIDE DEF kept, pc
  <2>2. q \in Dispatch /\ q.job = r.job
    BY <1>1, <2>1 DEF Dispatch
  <2>3. Turn(t, q) /\ r.pc \in Live
    BY <1>3 DEF Release, At, Live, Steps, kept, pc
  <2> QED
    BY <1>1, <1>3, <2>2, <2>3, TurnIs DEF TypeOK, Release, counters
<1>4. CASE Remove(t)
  <2> DEFINE q == [Gone(r) EXCEPT !.pc = "finishing"]
  <2>1. r.pc = "removing" /\ UNCHANGED <<board, branch, repo, bench, apart, prune, made>>
    BY <1>4 DEF Remove, At
  <2>2. events' \in 0 .. MaxEvent
    BY <1>4, WorktreesAssumption DEF Remove, Event, TypeOK
  <2>3. CASE Goto(t, "finishing")
    BY <2>1, <2>2, <2>3, GotoIs DEF TypeOK, Live, Steps
  <2>4. CASE Turn(t, q)
    <3>1. q \in Dispatch /\ q.job = r.job
      BY <1>1, <2>1, GoneIs DEF Dispatch, Live, Steps
    <3> QED
      BY <1>1, <2>1, <2>2, <2>4, <3>1, TurnIs DEF TypeOK, Live, Steps
  <2> QED
    BY <1>4, <2>3, <2>4 DEF Remove
<1>5. CASE Finish(t)
  <2> DEFINE b == [board[r.job] EXCEPT
                    !.reported = @ \/ (r.ended = "completed" /\ r.node = "gate")]
  <2>1. r.pc \in Live /\ r.job \in Job
    BY <1>1, <1>5 DEF Finish, At, Live, Steps
  <2>2. b \in Flags /\ Write(r.job, b)
    BY <1>5, <2>1 DEF Finish, TypeOK, Flags
  <2>3. UNCHANGED <<branch, repo, bench, apart, prune, counters>>
    BY <1>5 DEF Finish
  <2>4. \/ Goto(t, "blocking") \/ Leave(t) \/ Goto(t, "moving") \/ Goto(t, "checking")
    BY <1>5 DEF Finish
  <2>5. {"blocking", "moving", "checking"} \subseteq Live
    BY DEF Live, Steps
  <2>6. /\ tree' \in [Tree -> Dispatch]
        /\ \A u \in Tree : tree'[u].pc \in Live => tree'[u].job \in Job
    BY <2>1, <2>4, <2>5, GotoIs, LeaveIs
  <2> QED
    BY <2>1, <2>2, <2>3, <2>6, WriteIs DEF TypeOK, counters
<1>6. CASE Block(t)
  <2> DEFINE b == [board[r.job] EXCEPT !.blocked = TRUE]
  <2>1. r.job \in Job /\ b \in Flags
    BY <1>1, <1>6 DEF Block, At, Live, Steps, TypeOK, Flags
  <2> QED
    BY <1>6, <2>1, WriteIs, LeaveIs DEF Block, TypeOK, counters
<1>7. CASE Move(t)
  <2> DEFINE b == [board[r.job] EXCEPT !.node = "gate"]
  <2>1. r.job \in Job /\ b \in Flags
    BY <1>1, <1>7 DEF Move, At, Live, Steps, TypeOK, Flags
  <2> QED
    BY <1>7, <2>1, WriteIs, LeaveIs DEF Move, TypeOK, counters
<1>8. ASSUME NEW how \in {"completed", "failed"}, NEW names \in BOOLEAN,
             EngineEnds(t, how, names)
      PROVE  TypeOK'
  <2> DEFINE q == [r EXCEPT !.pc = "releasing", !.ended = how,
                     !.named = IF names THEN {branch[r.job]} ELSE {}]
  <2>1. names => branch[r.job] \in History
    BY <1>8 DEF EngineEnds, TypeOK
  <2>2. q \in Dispatch /\ q.job = r.job
    BY <1>1, <2>1 DEF Dispatch, Live, Steps
  <2>3. Turn(t, q) /\ r.pc \in Live
    BY <1>8 DEF EngineEnds, At, Live, Steps
  <2> QED
    BY <1>1, <1>8, <2>2, <2>3, TurnIs DEF TypeOK, EngineEnds, counters
<1> QED
  BY <1>2, <1>3, <1>4, <1>5, <1>6, <1>7, <1>8

LEMMA BenchTyped ==
  ASSUME TypeOK, NEW t \in Tree, Check(t) \/ Merge(t) \/ Install(t)
  PROVE  TypeOK'
<1> DEFINE r == tree[t]
<1>1. r \in Dispatch /\ r.pc \in Live /\ r.job \in Job
  BY DEF TypeOK, Check, Merge, Install, At, Live, Steps
<1>2. {"blocking", "moving", "merging", "installing"} \subseteq Live
  BY DEF Live, Steps
<1>3. CASE Check(t)
  BY <1>1, <1>2, <1>3, GotoIs DEF Check, TypeOK, counters
<1>4. CASE Merge(t)
  <2>1. PICK tip \in r.named :
          \/ bench' = [bench EXCEPT ![bench.on] = tip] /\ Goto(t, "installing")
          \/ bench' = bench /\ (Goto(t, "installing") \/ Goto(t, "blocking"))
    BY <1>4 DEF Merge
  <2>2. tip \in History
    BY <1>1 DEF Dispatch
  <2>3. bench' \in [main : History, other : History, on : {"main", "other"}]
    BY <2>1, <2>2, BenchMoves DEF TypeOK
  <2> QED
    BY <1>1, <1>2, <1>4, <2>1, <2>3, GotoIs DEF Merge, TypeOK, counters
<1>5. CASE Install(t)
  <2> DEFINE q == [r EXCEPT !.pc = "moving", !.ran = Here]
  <2>1. q \in Dispatch /\ q.job \in Job
    BY <1>1, HereIs DEF Dispatch, Live, Steps
  <2>2. CASE Turn(t, q)
    BY <1>5, <2>1, <2>2, TurnIs DEF Install, TypeOK, counters
  <2>3. CASE Goto(t, "blocking")
    BY <1>1, <1>2, <1>5, <2>3, GotoIs DEF Install, TypeOK, counters
  <2> QED
    BY <1>5, <2>2, <2>3 DEF Install
<1> QED
  BY <1>3, <1>4, <1>5

LEMMA PruneTyped ==
  ASSUME TypeOK, PruneStep
  PROVE  TypeOK'
<1> DEFINE Fn(f) == f \in UNION {[D -> Tree] : D \in SUBSET Job}
<1>1. prune \in Sweep /\ Resting \in Sweep
  BY RestingIs DEF TypeOK
<1>2. DOMAIN prune.found \subseteq Job /\ prune.found \in [DOMAIN prune.found -> Tree]
  BY <1>1, FoundTyped
<1>3. CASE ScanDirectories
  <2> DEFINE jobs == {j \in Job : TreesOf(j) # {}}
  <2>1. PICK dir \in [jobs -> Tree] :
          prune' = [Resting EXCEPT !.pc = "refs", !.found = dir]
    BY <1>3 DEF ScanDirectories
  <2>2. Fn(dir)
    BY <2>1
  <2>3. prune' \in Sweep /\ prune'.pc # "asking"
    BY <1>1, <2>1, <2>2 DEF Sweep
  <2> QED
    BY <1>3, <2>3 DEF ScanDirectories, TypeOK, counters
<1>4. CASE ScanBranches
  <2> DEFINE all == DOMAIN prune.found \cup Refs
  <2>1. Refs \subseteq Job /\ all \subseteq Job
    BY <1>2 DEF Refs, TypeOK
  <2>2. prune' \in Sweep /\ (prune'.pc = "asking" => prune'.todo # {})
    BY <1>1, <1>4, <2>1, RestingIs DEF ScanBranches, Sweep
  <2> QED
    BY <1>4, <2>2 DEF ScanBranches, TypeOK, counters
<1>5. CASE Ask
  <2> DEFINE j == Least(prune.todo)
             rest == prune.todo \ {j}
  <2>1. prune.todo \subseteq Job /\ prune.eligible \subseteq Job
    BY <1>1 DEF Sweep
  <2>2. PICK finished \in {{}, {j}} :
          prune' = IF rest = {} /\ prune.eligible \cup finished = {} THEN Resting
                   ELSE [prune EXCEPT !.pc = IF rest = {} THEN "sweeping" ELSE "asking",
                           !.todo = rest, !.eligible = prune.eligible \cup finished]
    BY <1>5 DEF Ask
  <2>3. finished \subseteq Job
    BY <1>5, <2>1, <2>2, LeastIs DEF Ask, TypeOK
  <2>4. prune' \in Sweep /\ (prune'.pc = "asking" => prune'.todo # {})
    BY <1>1, <2>1, <2>2, <2>3, RestingIs DEF Sweep
  <2>5. events' \in 0 .. MaxEvent
    BY <1>5, WorktreesAssumption DEF Ask, Event, TypeOK
  <2> QED
    BY <1>5, <2>4, <2>5 DEF Ask, TypeOK
<1>6. ASSUME NEW j, Done(j), prune.pc = "sweeping"
      PROVE  prune' \in Sweep /\ prune'.pc # "asking"
  BY <1>1, <1>6, RestingIs DEF Done, Sweep
<1>7. CASE RemoveDirectory
  <2> DEFINE j == Least(prune.eligible)
  <2>1. PICK t \in Directory(j) :
          \/ /\ Turn(t, Gone(tree[t])) /\ UNCHANGED events
             /\ prune' = [prune EXCEPT !.found = [k \in DOMAIN @ \ {j} |-> @[k]]]
          \/ Done(j) /\ UNCHANGED tree /\ (UNCHANGED events \/ Event)
    BY <1>7 DEF RemoveDirectory
  <2>2. t \in Tree
    BY <1>2, <2>1 DEF Directory
  <2>3. UNCHANGED <<board, branch, repo, bench, apart, made>> /\ prune.pc = "sweeping"
    BY <1>7 DEF RemoveDirectory
  <2>4. CASE Done(j) /\ UNCHANGED tree /\ (UNCHANGED events \/ Event)
    <3>1. events' \in 0 .. MaxEvent
      BY <2>4, WorktreesAssumption DEF Event, TypeOK
    <3> QED
      BY <1>6, <2>3, <2>4, <3>1 DEF TypeOK
  <2>5. CASE /\ Turn(t, Gone(tree[t])) /\ UNCHANGED events
             /\ prune' = [prune EXCEPT !.found = [k \in DOMAIN @ \ {j} |-> @[k]]]
    <3> DEFINE D == DOMAIN prune.found \ {j}
               f == [k \in D |-> prune.found[k]]
    <3>1. f \in [D -> Tree] /\ D \in SUBSET Job
      BY <1>2
    <3>2. Fn(f)
      BY <3>1
    <3>3. prune' = [prune EXCEPT !.found = f]
      BY <2>5
    <3> HIDE DEF f
    <3>4. prune' \in Sweep /\ prune'.pc # "asking"
      BY <1>1, <2>3, <3>2, <3>3 DEF Sweep
    <3>5. tree[t] \in Dispatch /\ (tree[t].pc \in Live => tree[t].job \in Job)
      BY <2>2 DEF TypeOK
    <3>6. Gone(tree[t]) \in Dispatch
          /\ (Gone(tree[t]).pc \in Live => Gone(tree[t]).job \in Job)
      BY <3>5, GoneIs DEF Live, Steps
    <3> QED
      BY <2>2, <2>3, <2>5, <3>4, <3>6, TurnIs DEF TypeOK
  <2> QED
    BY <2>1, <2>4, <2>5
<1>8. CASE DeleteBranch
  <2> DEFINE j == Least(prune.eligible)
             b == [k \in DOMAIN branch \ {j} |-> branch[k]]
  <2>1. branch' \in {b, branch} /\ Done(j) /\ prune.pc = "sweeping"
    BY <1>8 DEF DeleteBranch
  <2>2. DOMAIN b \subseteq Job /\ b \in [DOMAIN b -> History]
    BY DEF TypeOK
  <2>3. DOMAIN branch' \subseteq Job /\ branch' \in [DOMAIN branch' -> History]
    BY <2>1, <2>2 DEF TypeOK
  <2> QED
    BY <1>6, <1>8, <2>1, <2>3 DEF DeleteBranch, TypeOK, counters
<1> QED
  BY <1>3, <1>4, <1>5, <1>7, <1>8 DEF PruneStep

LEMMA PeopleTyped ==
  ASSUME TypeOK,
         \/ \E t \in Tree : Crash(t) \/ OrphanEnds(t)
         \/ PruneIsKilled \/ Switch \/ CommitInBench \/ Pull
         \/ \E j \in Job : Unblock(j) \/ Reopen(j)
  PROVE  TypeOK'
<1>1. Event => events' \in 0 .. MaxEvent
  BY WorktreesAssumption DEF Event, TypeOK
<1>2. ASSUME NEW t \in Tree, Crash(t) \/ OrphanEnds(t) PROVE TypeOK'
  <2>1. CASE Leave(t)
    BY <1>1, <1>2, <2>1, LeaveIs DEF Crash, OrphanEnds, TypeOK, counters
  <2>2. CASE ~Leave(t)
    <3>1. "running" \in Live /\ "orphan" \in Live
      BY DEF Live, Steps
    <3>2. Goto(t, "orphan") /\ tree[t].pc = "running"
      BY <1>2, <2>2 DEF Crash, OrphanEnds, At
    <3> QED
      BY <1>1, <1>2, <2>2, <3>1, <3>2, GotoIs DEF Crash, OrphanEnds, TypeOK
  <2> QED
    BY <2>1, <2>2
<1>3. CASE PruneIsKilled
  BY <1>1, <1>3, RestingIs DEF PruneIsKilled, TypeOK
<1>4. CASE Switch
  <2>1. bench' \in [main : History, other : History, on : {"main", "other"}]
    BY <1>4 DEF Switch, TypeOK
  <2>2. ASSUME NEW t \in Tree
        PROVE  /\ tree'[t] \in Dispatch /\ tree'[t].pc = tree[t].pc
               /\ tree'[t].job = tree[t].job
    <3>1. tree[t] \in Dispatch
      BY DEF TypeOK
    <3>2. tree'[t] = [tree[t] EXCEPT !.slip = @ \/ At(t, "merging") \/ At(t, "installing")]
      BY <1>4 DEF Switch
    <3> QED
      BY <3>1, <3>2 DEF Dispatch
  <2>3. tree' \in [Tree -> Dispatch]
    BY <1>4, <2>2 DEF Switch
  <2> QED
    BY <1>1, <1>4, <2>1, <2>2, <2>3 DEF Switch, TypeOK
<1>5. CASE CommitInBench
  <2>1. made' \in 0 .. MaxCommit /\ made' \in Nat
    BY <1>5, WorktreesAssumption DEF CommitInBench, TypeOK
  <2> DEFINE tip == bench[bench.on] \cup {made'}
  <2>2. tip \in History
    BY <2>1 DEF TypeOK, History
  <2>3. bench' = [bench EXCEPT ![bench.on] = tip]
    BY <1>5 DEF CommitInBench
  <2> HIDE DEF tip
  <2>4. bench' \in [main : History, other : History, on : {"main", "other"}]
    BY <2>2, <2>3, BenchMoves
  <2> QED
    BY <1>1, <1>5, <2>1, <2>4 DEF CommitInBench, TypeOK
<1>6. CASE Pull
  <2>1. bench.main \in SUBSET Nat /\ repo \in SUBSET Nat
    BY DEF TypeOK, History
  <2>2. repo' = bench.main \cup repo
    BY <1>6 DEF Pull
  <2>3. repo' \in History
    BY <2>1, <2>2, Zenon DEF History
  <2>4. UNCHANGED <<board, branch, bench, apart, tree, prune, made, events>>
    BY <1>6 DEF Pull, counters
  <2> QED
    BY <2>3, <2>4 DEF TypeOK
<1>7. ASSUME NEW j \in Job, Unblock(j) PROVE TypeOK'
  <2> DEFINE b == [board[j] EXCEPT !.blocked = FALSE]
  <2>1. board[j] \in Flags
    BY DEF TypeOK
  <2>2. b \in Flags
    BY <2>1 DEF Flags
  <2> QED
    BY <1>7, <2>2, WriteIs DEF Unblock, TypeOK, counters
<1>8. ASSUME NEW j \in Job, Reopen(j) PROVE TypeOK'
  <2> DEFINE b == [board[j] EXCEPT !.node = "build"]
  <2>1. board[j] \in Flags
    BY DEF TypeOK
  <2>2. b \in Flags
    BY <2>1 DEF Flags
  <2> QED
    BY <1>1, <1>8, <2>2, WriteIs DEF Reopen, TypeOK
<1> QED
  BY <1>2, <1>3, <1>4, <1>5, <1>6, <1>7, <1>8

LEMMA TypeStep ==
  ASSUME TypeOK, AllSound, [Next]_vars
  PROVE  TypeOK'
<1>1. ASSUME NEW t \in Tree, DispatchStep(t) PROVE TypeOK'
  BY <1>1, AddTyped, CommitTyped, RestTyped, BenchTyped DEF DispatchStep
<1>2. CASE PruneStep
  BY <1>2, PruneTyped
<1>3. CASE UNCHANGED vars
  BY <1>3 DEF vars, counters, TypeOK
<1> QED
  BY <1>1, <1>2, <1>3, BeginTyped, PeopleTyped DEF Next

-----------------------------------------------------------------------------
(* Each directory where it stands. *)

(* A dispatch's step is its own: the other directories stay as they are. *)
LEMMA OthersStay ==
  ASSUME TypeOK, NEW t \in Tree,
         DispatchStep(t) \/ Crash(t) \/ OrphanEnds(t) \/ \E j \in Job : Begin(t, j)
  PROVE  \A u \in Tree : u # t => tree'[u] = tree[u]
<1>1. \E r : Turn(t, r)
  BY DEF DispatchStep, Begin, Add, Edit, Commit, EngineEnds, Release, Remove, Finish,
         Block, Move, Check, Merge, Install, Crash, OrphanEnds, Goto, Leave
<1> QED
  BY <1>1 DEF Turn, TypeOK

(* It deletes no branch. *)
LEMMA BranchesStay ==
  ASSUME TypeOK, NEW t \in Tree,
         DispatchStep(t) \/ Crash(t) \/ OrphanEnds(t) \/ \E j \in Job : Begin(t, j)
  PROVE  DOMAIN branch \subseteq DOMAIN branch'
<1>1. ASSUME NEW j, NEW tip, branch' = Ref(j, tip)
      PROVE  DOMAIN branch \subseteq DOMAIN branch'
  BY <1>1, RefIs
<1>2. (\E j, tip : branch' = Ref(j, tip)) \/ branch' = branch
  BY DEF DispatchStep, Begin, Add, Edit, Commit, EngineEnds, Release, Remove, Finish,
         Block, Move, Check, Merge, Install, Crash, OrphanEnds
<1> QED
  BY <1>1, <1>2

(* So it keeps every directory sound that keeps its own so. *)
LEMMA SoundAt ==
  ASSUME TypeOK, AllSound, NEW t \in Tree,
         DispatchStep(t) \/ Crash(t) \/ OrphanEnds(t) \/ \E j \in Job : Begin(t, j),
         Sound(tree[t])'
  PROVE  AllSound'
<1>1. ASSUME NEW u \in Tree, u # t PROVE Sound(tree[u])'
  <2>1. tree'[u] = tree[u] /\ DOMAIN branch \subseteq DOMAIN branch'
    BY <1>1, OthersStay, BranchesStay
  <2>2. Sound(tree[u])
    BY DEF AllSound
  <2> QED
    BY <2>1, <2>2 DEF Sound
<1> QED
  BY <1>1 DEF AllSound

LEMMA SoundLeave ==
  ASSUME TypeOK, AllSound, NEW t \in Tree, Leave(t),
         DOMAIN branch \subseteq DOMAIN branch'
  PROVE  Sound(tree[t])'
<1>1. tree'[t] = Past(tree[t]) /\ tree[t] \in Dispatch
  BY LeaveIs DEF TypeOK
<1>2. Sound(tree[t])
  BY DEF AllSound
<1> QED
  BY <1>1, <1>2, PastIs DEF Sound, Unmade

LEMMA SoundGoto ==
  ASSUME TypeOK, AllSound, NEW t \in Tree, NEW pc \in Live \ (Unmade \cup {"removing"}),
         Goto(t, pc), tree[t].pc \in Live \ Unmade,
         DOMAIN branch \subseteq DOMAIN branch'
  PROVE  Sound(tree[t])'
<1>1. tree'[t] = [tree[t] EXCEPT !.pc = pc] /\ tree[t] \in Dispatch
  BY GotoIs DEF TypeOK
<1>2. Sound(tree[t])
  BY DEF AllSound
<1>3. /\ tree'[t].pc = pc /\ tree'[t].dir = tree[t].dir /\ tree'[t].job = tree[t].job
      /\ tree'[t].named = tree[t].named
  BY <1>1 DEF Dispatch
<1> QED
  BY <1>2, <1>3 DEF Sound, Unmade

LEMMA SoundDispatch ==
  ASSUME TypeOK, AllSound, NEW t \in Tree,
         DispatchStep(t) \/ Crash(t) \/ OrphanEnds(t) \/ \E j \in Job : Begin(t, j)
  PROVE  AllSound'
<1> DEFINE r == tree[t]
<1> SUFFICES Sound(tree[t])'
  BY SoundAt
<1>1. r \in Dispatch /\ Sound(r) /\ DOMAIN branch \subseteq DOMAIN branch'
  BY BranchesStay DEF TypeOK, AllSound
<1>2. {"finishing", "blocking", "moving", "checking", "merging", "installing"}
        \subseteq Live \ (Unmade \cup {"removing"})
  BY DEF Live, Steps, Unmade
<1>3. CASE Crash(t) \/ OrphanEnds(t) \/ Block(t) \/ Move(t)
  BY <1>1, <1>3, SoundLeave, SoundGoto
     DEF Crash, OrphanEnds, Block, Move, At, Live, Steps, Unmade
<1>4. CASE Check(t) \/ Merge(t)
  BY <1>1, <1>2, <1>4, SoundGoto DEF Check, Merge, At, Live, Steps, Unmade
<1>5. CASE Finish(t)
  BY <1>1, <1>2, <1>5, SoundGoto, SoundLeave DEF Finish, At, Live, Steps, Unmade
<1>6. ASSUME NEW j \in Job, Begin(t, j) PROVE Sound(tree[t])'
  <2>1. tree'[t] = [Fresh EXCEPT !.job = j, !.node = board[j].node,
                      !.pc = IF j \in DOMAIN branch THEN "adding" ELSE "creating"]
    BY <1>6 DEF Begin, Turn, TypeOK
  <2> QED
    BY <2>1 DEF Fresh, Sound, Unmade
<1>7. CASE Add(t)
  <2>1. CASE Leave(t)
    BY <1>1, <2>1, SoundLeave
  <2>2. ASSUME NEW tip, Turn(t, [r EXCEPT !.dir = "there", !.pc = "running", !.base = tip]),
               branch' = Ref(r.job, tip)
        PROVE  Sound(tree[t])'
    <3>1. r.job \in DOMAIN branch'
      BY <2>2, RefIs
    <3>2. tree'[t] = [r EXCEPT !.dir = "there", !.pc = "running", !.base = tip]
      BY <2>2 DEF Turn, TypeOK
    <3>3. /\ tree'[t].pc = "running" /\ tree'[t].job = r.job
          /\ tree'[t].named = r.named
      BY <1>1, <3>2 DEF Dispatch
    <3> QED
      BY <1>1, <3>1, <3>3 DEF Sound, Unmade
  <2> QED
    BY <1>7, <2>1, <2>2 DEF Add
<1>8. CASE Edit(t)
  <2>1. tree'[t] = [r EXCEPT !.dirty = TRUE] /\ r.pc \in {"running", "orphan"}
    BY <1>8 DEF Edit, Working, At, Turn, TypeOK
  <2>2. /\ tree'[t].pc = r.pc /\ tree'[t].dir = r.dir /\ tree'[t].job = r.job
        /\ tree'[t].named = r.named
    BY <1>1, <2>1 DEF Dispatch
  <2> QED
    BY <1>1, <2>1, <2>2 DEF Sound, Unmade
<1>9. CASE Commit(t)
  <2>1. PICK tip : tree'[t] = [r EXCEPT !.dirty = FALSE, !.base = tip]
    BY <1>9 DEF Commit, Turn, TypeOK
  <2>2. r.pc \in {"running", "orphan"}
    BY <1>9 DEF Commit, Working, At
  <2>3. /\ tree'[t].pc = r.pc /\ tree'[t].dir = r.dir /\ tree'[t].job = r.job
        /\ tree'[t].named = r.named
    BY <1>1, <2>1, <2>2 DEF Dispatch
  <2> QED
    BY <1>1, <2>2, <2>3 DEF Sound, Unmade
<1>10. ASSUME NEW how, NEW names, EngineEnds(t, how, names) PROVE Sound(tree[t])'
  <2>1. tree'[t] = [r EXCEPT !.pc = "releasing", !.ended = how,
                      !.named = IF names THEN {branch[r.job]} ELSE {}]
    BY <1>10 DEF EngineEnds, Turn, TypeOK
  <2>2. /\ tree'[t].pc = "releasing" /\ tree'[t].dir = r.dir /\ tree'[t].job = r.job
        /\ tree'[t].named = IF names THEN {branch[r.job]} ELSE {}
    BY <1>1, <2>1 DEF Dispatch
  <2> QED
    BY <1>1, <2>2 DEF Sound, Unmade
<1>11. CASE Release(t)
  <2> DEFINE ask == r.ended = "completed" /\ ~(r.dir = "gone")
  <2>1. tree'[t] = [r EXCEPT !.kept = ask /\ Unclean(t), !.base = {},
                      !.pc = IF ask /\ ~Unclean(t) THEN "removing" ELSE "finishing"]
    BY <1>11 DEF Release, Turn, TypeOK
  <2>2. /\ tree'[t].dir = r.dir /\ tree'[t].job = r.job
        /\ tree'[t].named = r.named /\ tree'[t].dirty = r.dirty
        /\ tree'[t].pc = IF ask /\ ~Unclean(t) THEN "removing" ELSE "finishing"
    BY <1>1, <2>1 DEF Dispatch
  <2>3. tree'[t].pc = "removing" => ~r.dirty
    BY <2>2 DEF Unclean
  <2> QED
    BY <1>1, <2>2, <2>3 DEF Sound, Unmade
<1>12. CASE Remove(t)
  <2>1. r.pc = "removing"
    BY <1>12 DEF Remove, At
  <2>2. CASE Goto(t, "finishing")
    BY <1>1, <1>2, <2>1, <2>2, SoundGoto DEF Live, Steps, Unmade
  <2>3. CASE Turn(t, [Gone(r) EXCEPT !.pc = "finishing"])
    <3>1. tree'[t] = [Gone(r) EXCEPT !.pc = "finishing"]
      BY <2>3 DEF Turn, TypeOK
    <3>2. Gone(r) \in Dispatch /\ Gone(r).dir = "gone" /\ Gone(r).named = r.named
      BY <1>1, <2>1, GoneIs
    <3>3. tree'[t].pc = "finishing" /\ tree'[t].dir = "gone" /\ tree'[t].named = r.named
      BY <3>1, <3>2 DEF Dispatch
    <3> QED
      BY <1>1, <3>3 DEF Sound, Unmade
  <2> QED
    BY <1>12, <2>2, <2>3 DEF Remove
<1>13. CASE Install(t)
  <2>1. r.pc = "installing"
    BY <1>13 DEF Install, At
  <2>2. CASE Goto(t, "blocking")
    BY <1>1, <1>2, <2>1, <2>2, SoundGoto DEF Live, Steps, Unmade
  <2>3. CASE Turn(t, [r EXCEPT !.pc = "moving", !.ran = Here])
    <3>1. tree'[t] = [r EXCEPT !.pc = "moving", !.ran = Here]
      BY <2>3 DEF Turn, TypeOK
    <3>2. /\ tree'[t].pc = "moving" /\ tree'[t].dir = r.dir /\ tree'[t].job = r.job
          /\ tree'[t].named = r.named
      BY <1>1, <3>1 DEF Dispatch
    <3> QED
      BY <1>1, <3>2 DEF Sound, Unmade
  <2> QED
    BY <1>13, <2>2, <2>3 DEF Install
<1> QED
  BY <1>3, <1>4, <1>5, <1>6, <1>7, <1>8, <1>9, <1>10, <1>11, <1>12, <1>13
     DEF DispatchStep

(* What prune does to the directories: at most one goes, of those it found. *)
LEMMA PruneTakes ==
  ASSUME TypeOK, PruneStep
  PROVE  \/ tree' = tree
         \/ \E j \in prune.eligible \cap DOMAIN prune.found :
              /\ prune.pc = "sweeping" /\ RemoveDirectory
              /\ prune.found[j] \in Tree /\ tree[prune.found[j]].dir = "there"
              /\ tree' = [tree EXCEPT ![prune.found[j]] = Gone(tree[prune.found[j]])]
              /\ prune' = [prune EXCEPT !.found = [k \in DOMAIN @ \ {j} |-> @[k]]]
              /\ UNCHANGED <<board, branch, repo, bench, made>>
<1> DEFINE j == Least(prune.eligible)
<1>1. CASE ~RemoveDirectory
  BY <1>1 DEF PruneStep, ScanDirectories, ScanBranches, Ask, DeleteBranch
<1>2. CASE RemoveDirectory
  <2>1. prune \in Sweep /\ prune.eligible \subseteq Job /\ prune.eligible # {}
        /\ prune.pc = "sweeping"
    BY <1>2 DEF RemoveDirectory, TypeOK, Sweep
  <2>2. j \in prune.eligible
    BY <2>1, LeastIs
  <2>3. PICK t \in Directory(j) :
          \/ /\ tree[t].dir = "there" /\ Turn(t, Gone(tree[t]))
             /\ prune' = [prune EXCEPT !.found = [k \in DOMAIN @ \ {j} |-> @[k]]]
          \/ tree' = tree
    BY <1>2 DEF RemoveDirectory
  <2>4. j \in DOMAIN prune.found /\ t = prune.found[j]
    BY <2>3 DEF Directory
  <2>5. t \in Tree
    BY <2>1, <2>4, FoundTyped
  <2> HIDE DEF j
  <2> QED
    BY <1>2, <2>1, <2>2, <2>3, <2>4, <2>5 DEF Turn, RemoveDirectory
<1> QED
  BY <1>1, <1>2

LEMMA SoundOthers ==
  ASSUME TypeOK, AllSound,
         \/ PruneStep \/ PruneIsKilled \/ Switch \/ CommitInBench \/ Pull
         \/ \E j \in Job : Unblock(j) \/ Reopen(j)
         \/ UNCHANGED vars
  PROVE  AllSound'
<1>1. CASE DOMAIN branch \subseteq DOMAIN branch' /\ tree' = tree
  BY <1>1 DEF AllSound, Sound
<1>2. CASE Switch
  <2>1. ASSUME NEW t \in Tree PROVE Sound(tree[t])'
    <3>1. tree'[t] = [tree[t] EXCEPT !.slip = @ \/ At(t, "merging") \/ At(t, "installing")]
          /\ branch' = branch /\ tree[t] \in Dispatch /\ Sound(tree[t])
      BY <1>2 DEF Switch, TypeOK, AllSound
    <3>2. /\ tree'[t].pc = tree[t].pc /\ tree'[t].dir = tree[t].dir
          /\ tree'[t].job = tree[t].job /\ tree'[t].dirty = tree[t].dirty
          /\ tree'[t].named = tree[t].named
      BY <3>1 DEF Dispatch
    <3> QED
      BY <3>1, <3>2 DEF Sound
  <2> QED
    BY <2>1 DEF AllSound
<1>3. CASE RemoveDirectory
  <2>1. CASE tree' = tree
    BY <1>1, <1>3, <2>1 DEF RemoveDirectory
  <2>2. ASSUME NEW t \in Tree, tree[t].dir = "there", UNCHANGED branch,
               tree' = [tree EXCEPT ![t] = Gone(tree[t])]
        PROVE  AllSound'
    <3>1. tree[t] \in Dispatch /\ Sound(tree[t]) /\ tree'[t] = Gone(tree[t])
      BY <2>2 DEF TypeOK, AllSound
    <3>2. tree[t].pc \notin Unmade
      BY <2>2, <3>1 DEF Sound
    <3>3. Sound(tree[t])'
      BY <3>1, <3>2, GoneIs DEF Sound
    <3>4. ASSUME NEW u \in Tree, u # t PROVE Sound(tree[u])'
      <4>1. tree'[u] = tree[u]
        BY <2>2, <3>4 DEF TypeOK
      <4> QED
        BY <2>2, <4>1 DEF AllSound, Sound
    <3> QED
      BY <3>3, <3>4 DEF AllSound
  <2> QED
    BY <1>3, <2>1, <2>2, PruneTakes DEF PruneStep
<1>4. CASE DeleteBranch
  <2> DEFINE j == Least(prune.eligible)
  <2>1. tree' = tree
    BY <1>4 DEF DeleteBranch
  <2>2. CASE branch' = branch
    BY <1>1, <2>1, <2>2
  <2>3. CASE TreesOf(j) = {} /\ branch' = [k \in DOMAIN branch \ {j} |-> branch[k]]
    <3>1. \A t \in Tree : tree[t].dir = "there" => tree[t].job # j
      BY <2>3 DEF TreesOf
    <3>2. DOMAIN branch' = DOMAIN branch \ {j}
      BY <2>3
    <3> QED
      BY <2>1, <3>1, <3>2 DEF AllSound, Sound
  <2> QED
    BY <1>4, <2>2, <2>3 DEF DeleteBranch
<1> QED
  BY <1>1, <1>2, <1>3, <1>4
     DEF PruneStep, ScanDirectories, ScanBranches, Ask, PruneIsKilled, CommitInBench,
         Pull, Unblock, Reopen, vars

LEMMA SoundStep ==
  ASSUME TypeOK, AllSound, [Next]_vars
  PROVE  AllSound'
  BY SoundDispatch, SoundOthers DEF Next

-----------------------------------------------------------------------------
(* Commits. *)

OnSomeBranch == 1 .. made \subseteq UNION Histories

(* What the branches have between them. *)
LEMMA Has ==
  ASSUME NEW c
  PROVE  c \in UNION Histories <=>
           \/ c \in repo \/ c \in bench.main \/ c \in bench.other
           \/ \E k \in DOMAIN branch : c \in branch[k]
  BY DEF Histories

LEMMA HasNext ==
  ASSUME NEW c
  PROVE  c \in (UNION Histories)' <=>
           \/ c \in repo' \/ c \in bench'.main \/ c \in bench'.other
           \/ \E k \in DOMAIN branch' : c \in branch'[k]
  BY DEF Histories

(* A step that shortens no history loses no commit. *)
LEMMA Grows ==
  ASSUME repo \subseteq repo', bench.main \subseteq bench'.main,
         bench.other \subseteq bench'.other,
         \A k \in DOMAIN branch : k \in DOMAIN branch' /\ branch[k] \subseteq branch'[k]
  PROVE  UNION Histories \subseteq (UNION Histories)'
<1>1. ASSUME NEW c \in UNION Histories PROVE c \in (UNION Histories)'
  BY <1>1, Has, HasNext
<1> QED
  BY <1>1

(* The branch HEAD has already is the only one that goes. *)
LEMMA NoCommitGoes ==
  ASSUME TypeOK, AllSound, [Next]_vars
  PROVE  UNION Histories \subseteq (UNION Histories)'
<1>1. CASE UNCHANGED <<branch, repo, bench>>
  BY <1>1, Grows
<1>2. ASSUME NEW t \in Tree, Add(t)
      PROVE  UNION Histories \subseteq (UNION Histories)'
  <2> DEFINE j == tree[t].job
             tip == IF At(t, "adding") THEN branch[j] ELSE Head
  <2>1. CASE /\ At(t, "adding") <=> j \in DOMAIN branch
             /\ branch' = Ref(j, tip)
    <3>1. \A k \in DOMAIN branch : k \in DOMAIN branch' /\ branch[k] = branch'[k]
      BY <2>1 DEF Ref
    <3> QED
      BY <1>2, <3>1, Grows DEF Add
  <2> QED
    BY <1>1, <1>2, <2>1 DEF Add
<1>3. ASSUME NEW t \in Tree, Commit(t)
      PROVE  UNION Histories \subseteq (UNION Histories)'
  <2> DEFINE j == tree[t].job
  <2>1. PICK merged : branch' = Ref(j, branch[j] \cup merged \cup {made'})
    BY <1>3 DEF Commit
  <2>2. \A k \in DOMAIN branch : k \in DOMAIN branch' /\ branch[k] \subseteq branch'[k]
    BY <2>1 DEF Ref
  <2> QED
    BY <1>3, <2>2, Grows DEF Commit
<1>4. ASSUME NEW tip \in History, Here \subseteq tip,
             bench' = [bench EXCEPT ![bench.on] = tip], UNCHANGED <<branch, repo>>
      PROVE  UNION Histories \subseteq (UNION Histories)'
  <2>1. bench.main \subseteq bench'.main /\ bench.other \subseteq bench'.other
    BY <1>4, BenchMoves, HereIs DEF TypeOK
  <2> QED
    BY <1>4, <2>1, Grows
<1>5. ASSUME NEW t \in Tree, Merge(t)
      PROVE  UNION Histories \subseteq (UNION Histories)'
  <2>1. tree[t].named \subseteq History
    BY DEF TypeOK, Dispatch
  <2>2. PICK tip \in tree[t].named :
          \/ Here \subseteq tip /\ bench' = [bench EXCEPT ![bench.on] = tip]
          \/ bench' = bench
    BY <1>5 DEF Merge
  <2> QED
    BY <1>1, <1>4, <1>5, <2>1, <2>2 DEF Merge
<1>6. CASE CommitInBench
  <2> DEFINE tip == Here \cup {made'}
  <2>1. bench' = [bench EXCEPT ![bench.on] = tip]
    BY <1>6 DEF CommitInBench, Here
  <2>2. made' \in Nat
    BY <1>6, WorktreesAssumption DEF CommitInBench, TypeOK
  <2>3. tip \in History
    BY <2>2, HereIs DEF History
  <2> HIDE DEF tip
  <2>4. Here \subseteq tip
    BY DEF tip
  <2> QED
    BY <1>4, <1>6, <2>1, <2>3, <2>4 DEF CommitInBench
<1>7. CASE Switch
  <2>1. bench'.main = bench.main /\ bench'.other = bench.other
    BY <1>7 DEF Switch, TypeOK
  <2> QED
    BY <1>7, <2>1, Grows DEF Switch
<1>8. CASE Pull
  BY <1>8, Grows DEF Pull
<1>9. CASE DeleteBranch
  <2> DEFINE j == Least(prune.eligible)
  <2>1. CASE j \in DOMAIN branch /\ branch[j] \subseteq Head
             /\ branch' = [k \in DOMAIN branch \ {j} |-> branch[k]]
    <3>1. repo' = repo /\ bench' = bench
      BY <1>9 DEF DeleteBranch
    <3>2. \A k \in DOMAIN branch : k # j => k \in DOMAIN branch' /\ branch'[k] = branch[k]
      BY <2>1
    <3>3. branch[j] \subseteq repo \cup bench.main \cup bench.other
      BY <2>1, HereIs
    <3>4. ASSUME NEW c \in UNION Histories PROVE c \in (UNION Histories)'
      BY <3>1, <3>2, <3>3, <3>4, Has, HasNext
    <3> QED
      BY <3>4
  <2> QED
    BY <1>1, <1>9, <2>1 DEF DeleteBranch
<1> QED
  BY <1>1, <1>2, <1>3, <1>5, <1>6, <1>7, <1>8, <1>9
     DEF Next, vars, DispatchStep, Crash, OrphanEnds,
         Begin, Edit, EngineEnds, Release, Remove,
         Finish, Block, Move, Check, Install, PruneStep, ScanDirectories, ScanBranches,
         Ask, RemoveDirectory, PruneIsKilled, Unblock, Reopen

(* A commit that is made is on the branch it was made on. *)
LEMMA NewCommitIsThere ==
  ASSUME TypeOK, AllSound, [Next]_vars
  PROVE  made' = made \/ (made' = made + 1 /\ made' \in (UNION Histories)')
<1>1. ASSUME NEW t \in Tree, Commit(t)
      PROVE  made' = made + 1 /\ made' \in (UNION Histories)'
  <2>1. PICK tip : branch' = Ref(tree[t].job, tip) /\ made' \in tip
    BY <1>1 DEF Commit
  <2>2. tree[t].job \in DOMAIN branch' /\ made' \in branch'[tree[t].job]
    BY <2>1 DEF Ref
  <2> QED
    BY <1>1, <2>2, HasNext DEF Commit
<1>2. CASE CommitInBench
  <2> DEFINE tip == Here \cup {made'}
  <2>1. bench' = [bench EXCEPT ![bench.on] = tip] /\ made' = made + 1
    BY <1>2 DEF CommitInBench, Here
  <2>2. made' \in Nat
    BY <1>2, WorktreesAssumption DEF CommitInBench, TypeOK
  <2>3. tip \in History
    BY <2>2, HereIs DEF History
  <2>4. made' \in tip
    OBVIOUS
  <2> HIDE DEF tip
  <2>5. made' \in bench'.main \/ made' \in bench'.other
    BY <2>1, <2>3, <2>4, BenchMoves DEF TypeOK
  <2> QED
    BY <2>1, <2>5, HasNext
<1> QED
  BY <1>1, <1>2
     DEF Next, vars, counters, DispatchStep, Crash, OrphanEnds,
         Begin, Add, Edit, EngineEnds, Release,
         Remove, Finish, Block, Move, Check, Merge, Install, PruneStep, ScanDirectories,
         ScanBranches, Ask, RemoveDirectory, DeleteBranch, PruneIsKilled, Unblock, Reopen,
         Switch, Pull

LEMMA CommitsStep ==
  ASSUME TypeOK, AllSound, OnSomeBranch, [Next]_vars
  PROVE  OnSomeBranch'
<1>1. made \in Nat
  BY WorktreesAssumption DEF TypeOK
<1>2. ASSUME NEW c \in 1 .. made' PROVE c \in (UNION Histories)'
  BY <1>1, <1>2, NoCommitGoes, NewCommitIsThere DEF OnSomeBranch
<1> QED
  BY <1>2 DEF OnSomeBranch

-----------------------------------------------------------------------------
(* How a dispatch goes on. *)

(* A dispatch's own step ends it, or leaves it on the same job; the directory it
   has made stays or goes, and only a blocked job's dispatch is over.  An orphaned
   engine does not come back to its runner. *)
LEMMA GoesOn ==
  ASSUME TypeOK, AllSound, NEW t \in Tree,
         DispatchStep(t) \/ Crash(t) \/ OrphanEnds(t)
  PROVE  /\ tree[t].pc \in Live
         /\ \/ tree'[t] = Past(tree[t])
            \/ /\ tree[t].pc # "blocking"
               /\ tree'[t].pc \in Live /\ tree'[t].job = tree[t].job
               /\ tree[t].pc = "orphan" => tree'[t].pc = "orphan"
               /\ \/ tree'[t].dir = tree[t].dir
                  \/ tree'[t].dir = "gone"
                  \/ tree[t].dir = "unused" /\ tree'[t].dir = "there"
<1> DEFINE r == tree[t]
           q == tree'[t]
           On == /\ r.pc # "blocking" /\ q.pc \in Live /\ q.job = r.job
                 /\ r.pc = "orphan" => q.pc = "orphan"
                 /\ \/ q.dir = r.dir
                    \/ q.dir = "gone"
                    \/ r.dir = "unused" /\ q.dir = "there"
<1>1. r \in Dispatch /\ Sound(r)
  BY DEF TypeOK, AllSound
<1>2. r.pc \in Live
  <2>1. r.pc \in Live \cup {"idle", "over"}
    BY <1>1 DEF Dispatch
  <2>2. r.pc \notin {"idle", "over"}
    BY DEF DispatchStep, Add, Edit, Commit, EngineEnds, Release, Remove, Finish, Block,
           Move, Check, Merge, Install, Crash, OrphanEnds, At, Working
  <2> QED
    BY <2>1, <2>2
<1>3. CASE Leave(t)
  BY <1>2, <1>3, LeaveIs
<1>4. ASSUME NEW pc \in Live, Goto(t, pc), r.pc \notin {"blocking", "orphan"} PROVE On
  <2>1. q = [r EXCEPT !.pc = pc]
    BY <1>2, <1>4, GotoIs
  <2> QED
    BY <1>1, <1>4, <2>1 DEF Dispatch
<1>5. {"finishing", "blocking", "moving", "checking", "merging", "installing"} \subseteq Live
  BY DEF Live, Steps
<1>6. CASE Crash(t) \/ OrphanEnds(t) \/ Block(t) \/ Move(t)
  BY <1>2, <1>3, <1>4, <1>6 DEF Crash, OrphanEnds, Block, Move, At, Live
<1>7. CASE Check(t) \/ Merge(t)
  BY <1>2, <1>4, <1>5, <1>7 DEF Check, Merge, At
<1>8. CASE Finish(t)
  BY <1>2, <1>3, <1>4, <1>5, <1>8 DEF Finish, At
<1>9. CASE Add(t)
  <2>1. ASSUME NEW tip, Turn(t, [r EXCEPT !.dir = "there", !.pc = "running", !.base = tip])
        PROVE  On
    <3>1. q = [r EXCEPT !.dir = "there", !.pc = "running", !.base = tip]
      BY <2>1 DEF Turn, TypeOK
    <3>2. q.pc = "running" /\ q.job = r.job /\ q.dir = "there"
      BY <1>1, <3>1 DEF Dispatch
    <3> QED
      BY <1>1, <1>9, <3>2 DEF Add, At, Sound, Unmade, Live, Steps
  <2> QED
    BY <1>2, <1>3, <1>9, <2>1 DEF Add
<1>10. CASE Edit(t)
  <2>1. q = [r EXCEPT !.dirty = TRUE] /\ r.pc \in {"running", "orphan"}
    BY <1>10 DEF Edit, Turn, TypeOK, Working, At
  <2> QED
    BY <1>1, <1>2, <2>1 DEF Dispatch
<1>11. CASE Commit(t)
  <2>1. PICK tip : q = [r EXCEPT !.dirty = FALSE, !.base = tip]
    BY <1>11 DEF Commit, Turn, TypeOK
  <2>2. r.pc \in {"running", "orphan"}
    BY <1>11 DEF Commit, Working, At
  <2> QED
    BY <1>1, <1>2, <2>1, <2>2 DEF Dispatch
<1>12. ASSUME NEW how, NEW names, EngineEnds(t, how, names) PROVE On
  <2>1. r.pc = "running" /\ "releasing" \in Live
    BY <1>12 DEF EngineEnds, At, Live, Steps
  <2>2. q = [r EXCEPT !.pc = "releasing", !.ended = how,
               !.named = IF names THEN {branch[r.job]} ELSE {}]
    BY <1>12 DEF EngineEnds, Turn, TypeOK
  <2>3. q.pc = "releasing" /\ q.job = r.job /\ q.dir = r.dir
    BY <1>1, <2>2 DEF Dispatch
  <2> QED
    BY <2>1, <2>3
<1>13. CASE Release(t)
  <2> DEFINE ask == r.ended = "completed" /\ ~(r.dir = "gone")
  <2>1. q = [r EXCEPT !.kept = ask /\ Unclean(t), !.base = {},
               !.pc = IF ask /\ ~Unclean(t) THEN "removing" ELSE "finishing"]
    BY <1>13 DEF Release, Turn, TypeOK
  <2>2. r.pc = "releasing"
    BY <1>13 DEF Release, At
  <2>3. q.pc \in {"removing", "finishing"} /\ q.job = r.job /\ q.dir = r.dir
    BY <1>1, <2>1 DEF Dispatch
  <2> QED
    BY <2>2, <2>3 DEF Live, Steps
<1>14. CASE Remove(t)
  <2>1. r.pc = "removing"
    BY <1>14 DEF Remove, At
  <2>2. CASE Turn(t, [Gone(r) EXCEPT !.pc = "finishing"])
    <3>1. q = [Gone(r) EXCEPT !.pc = "finishing"]
      BY <2>2 DEF Turn, TypeOK
    <3>2. Gone(r) \in Dispatch /\ Gone(r).dir = "gone" /\ Gone(r).job = r.job
      BY <1>1, <2>1, GoneIs
    <3> QED
      BY <1>2, <1>5, <2>1, <3>1, <3>2 DEF Dispatch
  <2> QED
    BY <1>2, <1>4, <1>5, <1>14, <2>1, <2>2 DEF Remove
<1>15. CASE Install(t)
  <2>1. r.pc = "installing"
    BY <1>15 DEF Install, At
  <2>2. CASE Turn(t, [r EXCEPT !.pc = "moving", !.ran = Here])
    <3>1. q = [r EXCEPT !.pc = "moving", !.ran = Here]
      BY <2>2 DEF Turn, TypeOK
    <3> QED
      BY <1>1, <1>2, <1>5, <2>1, <3>1 DEF Dispatch
  <2> QED
    BY <1>2, <1>4, <1>5, <1>15, <2>1, <2>2 DEF Install
<1> QED
  BY <1>2, <1>6, <1>7, <1>8, <1>9, <1>10, <1>11, <1>12, <1>13, <1>14, <1>15
     DEF DispatchStep

(* What is not a dispatch's own step leaves where every dispatch stands, and its
   job; prune may take a directory. *)
LEMMA StandsStill ==
  ASSUME TypeOK, AllSound, NEW t \in Tree,
         \/ PruneStep \/ PruneIsKilled \/ Switch \/ CommitInBench \/ Pull
         \/ \E j \in Job : Unblock(j) \/ Reopen(j)
         \/ UNCHANGED vars
  PROVE  /\ tree'[t].pc = tree[t].pc
         /\ tree[t].pc \in Live => tree'[t].job = tree[t].job
         /\ \/ tree'[t].dir = tree[t].dir /\ tree'[t].job = tree[t].job
            \/ tree[t].dir = "there" /\ tree'[t].dir = "gone"
<1>1. tree[t] \in Dispatch
  BY DEF TypeOK
<1>2. CASE tree' = tree
  BY <1>2
<1>3. CASE Switch
  <2>1. tree'[t] = [tree[t] EXCEPT !.slip = @ \/ At(t, "merging") \/ At(t, "installing")]
    BY <1>3 DEF Switch
  <2> QED
    BY <1>1, <2>1 DEF Dispatch
<1>4. CASE PruneStep
  <2>1. CASE tree' = tree
    BY <1>2, <2>1
  <2>2. ASSUME NEW u \in Tree, tree[u].dir = "there",
               tree' = [tree EXCEPT ![u] = Gone(tree[u])]
        PROVE  /\ tree'[t].pc = tree[t].pc
               /\ tree[t].pc \in Live => tree'[t].job = tree[t].job
               /\ \/ tree'[t].dir = tree[t].dir /\ tree'[t].job = tree[t].job
                  \/ tree[t].dir = "there" /\ tree'[t].dir = "gone"
    <3>1. CASE u = t
      <4>1. tree'[t] = Gone(tree[t])
        BY <2>2, <3>1 DEF TypeOK
      <4> QED
        BY <1>1, <2>2, <3>1, <4>1, GoneIs DEF Live, Steps
    <3>2. CASE u # t
      BY <2>2, <3>2 DEF TypeOK
    <3> QED
      BY <3>1, <3>2
  <2> QED
    BY <1>4, <2>1, <2>2, PruneTakes
<1> QED
  BY <1>2, <1>3, <1>4 DEF PruneIsKilled, CommitInBench, Pull, Unblock, Reopen, vars

(* The life of a directory, step by step. *)
LEMMA DirectoryKeeps ==
  ASSUME TypeOK, AllSound, [Next]_vars, NEW t \in Tree
  PROVE  /\ tree[t].dir # "unused" =>
              /\ tree'[t].dir # "unused"
              /\ tree'[t].dir = "there" =>
                   tree[t].dir = "there" /\ tree'[t].job = tree[t].job
         /\ tree[t].pc \in Ended => tree'[t].pc \in Ended
<1> DEFINE Good == /\ tree[t].dir # "unused" =>
                        /\ tree'[t].dir # "unused"
                        /\ tree'[t].dir = "there" =>
                             tree[t].dir = "there" /\ tree'[t].job = tree[t].job
                   /\ tree[t].pc \in Ended => tree'[t].pc \in Ended
<1>1. tree[t] \in Dispatch /\ Sound(tree[t])
  BY DEF TypeOK, AllSound
<1>2. CASE DispatchStep(t) \/ Crash(t) \/ OrphanEnds(t)
  <2>1. CASE tree'[t] = Past(tree[t])
    BY <1>1, <2>1, PastIs DEF Ended
  <2>2. CASE tree'[t] # Past(tree[t])
    BY <1>1, <1>2, <2>2, GoesOn DEF Dispatch, Live, Steps, Ended
  <2> QED
    BY <2>1, <2>2
<1>3. ASSUME NEW j \in Job, Begin(t, j) PROVE Good
  <2>1. tree[t].pc = "idle"
    BY <1>3 DEF Begin, At
  <2> QED
    BY <1>1, <2>1 DEF Sound, Unmade, Ended
<1>4. ASSUME NEW u \in Tree, u # t,
             DispatchStep(u) \/ Crash(u) \/ OrphanEnds(u) \/ \E j \in Job : Begin(u, j)
      PROVE  Good
  <2>1. tree'[t] = tree[t]
    BY <1>4, OthersStay
  <2> QED
    BY <2>1
<1>5. CASE \/ PruneStep \/ PruneIsKilled \/ Switch \/ CommitInBench \/ Pull
           \/ \E j \in Job : Unblock(j) \/ Reopen(j)
           \/ UNCHANGED vars
  BY <1>5, StandsStill
<1> QED
  BY <1>2, <1>3, <1>4, <1>5 DEF Next

(* A dispatch at work on j. *)
AtWork(t, j) == tree[t].pc \in Steps /\ tree[t].job = j

(* Whoever is at work on a job was so before, unless this is its beginning. *)
LEMMA WorkGoesOn ==
  ASSUME TypeOK, AllSound, [Next]_vars, NEW t \in Tree, NEW j \in Job, AtWork(t, j)',
         ~Begin(t, j)
  PROVE  AtWork(t, j) /\ (At(t, "blocking") => At(t, "blocking")')
<1>1. tree[t] \in Dispatch
  BY DEF TypeOK
<1>2. CASE DispatchStep(t) \/ Crash(t) \/ OrphanEnds(t)
  <2>1. tree'[t] # Past(tree[t])
    BY <1>1, PastIs DEF AtWork, Steps
  <2> QED
    BY <1>2, <2>1, GoesOn DEF AtWork, At, Live
<1>3. ASSUME NEW k \in Job, Begin(t, k) PROVE FALSE
  <2>1. tree'[t] = [Fresh EXCEPT !.job = k, !.node = board[k].node,
                      !.pc = IF k \in DOMAIN branch THEN "adding" ELSE "creating"]
    BY <1>3 DEF Begin, Turn, TypeOK
  <2>2. tree'[t].job = k
    BY <2>1 DEF Fresh
  <2> QED
    BY <1>3, <2>2 DEF AtWork
<1>4. ASSUME NEW u \in Tree, u # t,
             DispatchStep(u) \/ Crash(u) \/ OrphanEnds(u) \/ \E k \in Job : Begin(u, k)
      PROVE  tree'[t] = tree[t]
  BY <1>4, OthersStay
<1>5. CASE \/ PruneStep \/ PruneIsKilled \/ Switch \/ CommitInBench \/ Pull
           \/ \E k \in Job : Unblock(k) \/ Reopen(k)
           \/ UNCHANGED vars
  BY <1>5, StandsStill DEF AtWork, At, Live
<1> QED
  BY <1>2, <1>3, <1>4, <1>5 DEF Next, AtWork, At

-----------------------------------------------------------------------------
(* One dispatch at a time. *)

(* A job that no stray dispatch ever had has one at a time, none while its flag is
   up, and one that is completed has none but to raise it. *)
Alone(j) ==
  \A t \in Tree : AtWork(t, j) =>
    /\ \A u \in Tree : AtWork(u, j) => u = t
    /\ ~board[j].blocked
    /\ Completed(j) => At(t, "blocking")

OneAtATime == \A j \in Job : ~board[j].stray => Alone(j)

(* A step that no dispatch begins, and that raises no flag and completes no job,
   but of one it ends. *)
LEMMA AloneStays ==
  ASSUME TypeOK, AllSound, [Next]_vars, NEW j \in Job, Alone(j),
         \A t \in Tree : ~Begin(t, j),
         \A t \in Tree : AtWork(t, j)' =>
            /\ board'[j].blocked => board[j].blocked
            /\ Completed(j)' => Completed(j) \/ At(t, "blocking")'
  PROVE  Alone(j)'
<1>1. ASSUME NEW t \in Tree, AtWork(t, j)'
      PROVE  /\ \A u \in Tree : AtWork(u, j)' => u = t
             /\ ~board'[j].blocked
             /\ Completed(j)' => At(t, "blocking")'
  BY <1>1, WorkGoesOn DEF Alone
<1> QED
  BY <1>1 DEF Alone

LEMMA OneAtATimeStep ==
  ASSUME TypeOK, AllSound, OneAtATime, [Next]_vars
  PROVE  OneAtATime'
<1> SUFFICES ASSUME NEW j \in Job, ~board'[j].stray PROVE Alone(j)'
  BY DEF OneAtATime
<1>1. board[j] \in Flags
  BY DEF TypeOK
<1>2. ASSUME NEW t \in Tree, NEW k \in Job, Begin(t, k) PROVE Alone(j)'
  <2> DEFINE due == Released(k) /\ ~Busy(k)
  <2>1. board' = [board EXCEPT ![k] = [board[k] EXCEPT !.stray = @ \/ ~due]]
    BY <1>2 DEF Begin, Write
  <2>2. /\ board'[j].blocked = board[j].blocked /\ board'[j].node = board[j].node
        /\ board'[j].reported = board[j].reported
        /\ ~board[j].stray
        /\ k = j => due
    BY <1>1, <2>1 DEF TypeOK, Flags
  <2>3. Completed(j)' = Completed(j)
    BY <2>2 DEF Completed
  <2>4. \A u \in Tree : u # t => tree'[u] = tree[u]
    BY <1>2, OthersStay
  <2>5. CASE k # j
    <3>1. ~AtWork(t, j)'
      <4>1. tree'[t].job = k
        BY <1>2 DEF Begin, Turn, TypeOK, Fresh
      <4> QED
        BY <2>5, <4>1 DEF AtWork
    <3>2. Alone(j)
      BY <2>2 DEF OneAtATime
    <3>3. \A u \in Tree : AtWork(u, j)' => u # t /\ AtWork(u, j)
      BY <2>4, <3>1 DEF AtWork
    <3> QED
      BY <2>2, <2>3, <2>4, <3>2, <3>3 DEF Alone, At
  <2>6. CASE k = j
    <3>1. \A u \in Tree : ~AtWork(u, j)
      BY <2>2, <2>6 DEF Busy, AtWork, Steps
    <3>2. \A u \in Tree : AtWork(u, j)' => u = t
      BY <2>4, <3>1 DEF AtWork
    <3>3. ~board[j].blocked /\ ~Completed(j)
      BY <2>2, <2>6 DEF Released
    <3> QED
      BY <2>2, <2>3, <3>2, <3>3 DEF Alone
  <2> QED
    BY <2>5, <2>6
<1>3. ASSUME \A t \in Tree, k \in Job : ~Begin(t, k) PROVE Alone(j)'
  <2> DEFINE Same == /\ board'[j].blocked => board[j].blocked
                     /\ Completed(j)' => Completed(j)
  <2>1. CASE UNCHANGED board
    <3>1. Alone(j)
      BY <2>1 DEF OneAtATime
    <3>2. Completed(j)' = Completed(j)
      BY <2>1 DEF Completed
    <3> QED
      BY <1>3, <2>1, <3>1, <3>2, AloneStays
  <2>2. ASSUME NEW t \in Tree, Finish(t) PROVE Alone(j)'
    <3> DEFINE r == tree[t]
    <3>1. r \in Dispatch /\ r.pc = "finishing" /\ r.job \in Job
      BY <2>2 DEF TypeOK, Finish, At, Live, Steps
    <3>2. board' = [board EXCEPT ![r.job] = [board[r.job] EXCEPT
                      !.reported = @ \/ (r.ended = "completed" /\ r.node = "gate")]]
      BY <2>2 DEF Finish, Write
    <3>3. /\ board'[j].blocked = board[j].blocked /\ board'[j].node = board[j].node
          /\ board'[j].stray = board[j].stray
          /\ board'[j].reported # board[j].reported =>
               r.job = j /\ r.ended = "completed" /\ r.node = "gate"
      BY <1>1, <3>1, <3>2 DEF TypeOK, Flags
    <3>4. Alone(j)
      BY <3>3 DEF OneAtATime
    <3>5. ASSUME NEW u \in Tree, AtWork(u, j)'
          PROVE  Completed(j)' => Completed(j) \/ At(u, "blocking")'
      <4>1. SUFFICES ASSUME board'[j].reported # board[j].reported
                     PROVE  At(u, "blocking")'
        BY <3>3 DEF Completed
      <4>2. AtWork(t, j) /\ AtWork(u, j)
        BY <1>3, <3>1, <3>3, <3>5, <4>1, WorkGoesOn DEF AtWork, Steps
      <4>3. u = t
        BY <3>4, <4>2 DEF Alone
      <4>4. ~Leave(t)
        BY <3>1, <3>5, <4>3, LeaveIs, PastIs DEF AtWork, Steps
      <4>5. Goto(t, "blocking")
        BY <2>2, <3>3, <4>1, <4>4 DEF Finish
      <4>6. tree'[t].pc = "blocking"
        <5>1. tree'[t] = [tree[t] EXCEPT !.pc = "blocking"]
          BY <4>5 DEF Goto, Turn, TypeOK
        <5> QED
          BY <3>1, <5>1 DEF Dispatch
      <4> QED
        BY <4>3, <4>6 DEF At
    <3> QED
      BY <1>3, <3>3, <3>4, <3>5, AloneStays
  <2>3. ASSUME NEW t \in Tree, Block(t) \/ Move(t) PROVE Alone(j)'
    <3> DEFINE k == tree[t].job
    <3>1. tree[t] \in Dispatch /\ k \in Job /\ tree[t].pc \in Steps
      BY <2>3 DEF TypeOK, Block, Move, At, Live, Steps
    <3>2. \/ board' = [board EXCEPT ![k] = [board[k] EXCEPT !.blocked = TRUE]]
          \/ board' = [board EXCEPT ![k] = [board[k] EXCEPT !.node = "gate"]]
      BY <2>3 DEF Block, Move, Write
    <3>3. board'[j].stray = board[j].stray
      BY <1>1, <3>1, <3>2 DEF TypeOK, Flags
    <3>4. Alone(j)
      BY <3>3 DEF OneAtATime
    <3>5. CASE k # j
      <4>1. board'[j] = board[j]
        BY <3>1, <3>2, <3>5 DEF TypeOK
      <4>2. Completed(j)' = Completed(j)
        BY <4>1 DEF Completed
      <4> QED
        BY <1>3, <3>4, <4>1, <4>2, AloneStays
    <3>6. CASE k = j
      <4>1. ~AtWork(t, j)'
        BY <2>3, <3>1, LeaveIs, PastIs DEF Block, Move, AtWork, Steps
      <4>2. \A u \in Tree : ~AtWork(u, j)'
        <5>1. ASSUME NEW u \in Tree, AtWork(u, j)' PROVE FALSE
          <6>1. AtWork(u, j) /\ AtWork(t, j)
            BY <1>3, <3>1, <3>6, <5>1, WorkGoesOn DEF AtWork
          <6> QED
            BY <3>4, <4>1, <5>1, <6>1 DEF Alone
        <5> QED
          BY <5>1
      <4> QED
        BY <4>2 DEF Alone
    <3> QED
      BY <3>5, <3>6
  <2>4. ASSUME NEW k \in Job, Unblock(k) \/ Reopen(k) PROVE Alone(j)'
    <3>1. \/ /\ board[k].blocked
             /\ board' = [board EXCEPT ![k] = [board[k] EXCEPT !.blocked = FALSE]]
          \/ board' = [board EXCEPT ![k] = [board[k] EXCEPT !.node = "build"]]
      BY <2>4 DEF Unblock, Reopen, Write
    <3>2. /\ board'[j].stray = board[j].stray
          /\ board'[j].blocked => board[j].blocked
          /\ board'[j].reported = board[j].reported
          /\ board'[j].node = "gate" => board[j].node = "gate"
          /\ board'[j].blocked # board[j].blocked => board[j].blocked
      BY <1>1, <3>1 DEF TypeOK, Flags
    <3>3. Alone(j)
      BY <3>2 DEF OneAtATime
    <3>4. ASSUME NEW t \in Tree, AtWork(t, j)' PROVE Completed(j)' => Completed(j)
      <4>1. ~board[j].blocked
        BY <1>3, <3>3, <3>4, WorkGoesOn DEF Alone
      <4> QED
        BY <3>2, <4>1 DEF Completed
    <3> QED
      BY <1>3, <3>2, <3>3, <3>4, AloneStays
  <2> QED
    BY <1>3, <2>1, <2>2, <2>3, <2>4
       DEF Next, vars, DispatchStep, Crash, OrphanEnds,
           Add, Edit, Commit, EngineEnds, Release, Remove,
           Check, Merge, Install, PruneStep, ScanDirectories, ScanBranches, Ask,
           RemoveDirectory, DeleteBranch, PruneIsKilled, Switch, CommitInBench, Pull
<1> QED
  BY <1>2, <1>3

-----------------------------------------------------------------------------
(* What prune found, and what it heard. *)

(* The directory prune found for a job is that job's for as long as it is there. *)
FoundIsTheirs ==
  \A j \in DOMAIN prune.found :
    LET r == tree[prune.found[j]]
    IN  r.dir # "unused" /\ (r.dir = "there" => r.job = j)

(* And in one of a job prune heard to be completed nobody is at work any more, but
   to raise the flag, unless a stray dispatch came. *)
AskedAtRest ==
  \A j \in prune.eligible \cap DOMAIN prune.found :
    LET r == tree[prune.found[j]]
    IN  r.dir = "there" => board[j].stray \/ r.pc \in Ended

(* What a step may do to what prune has in hand. *)
LEMMA InHand ==
  ASSUME TypeOK, [Next]_vars
  PROVE  \/ ScanDirectories
         \/ /\ DOMAIN prune'.found \subseteq DOMAIN prune.found
            /\ \A j \in DOMAIN prune'.found : prune'.found[j] = prune.found[j]
            /\ \/ prune'.eligible \subseteq prune.eligible
               \/ /\ tree' = tree /\ board' = board
                  /\ \E j : Completed(j) /\ prune'.eligible \subseteq prune.eligible \cup {j}
<1> DEFINE Same == /\ DOMAIN prune'.found \subseteq DOMAIN prune.found
                   /\ \A j \in DOMAIN prune'.found : prune'.found[j] = prune.found[j]
<1>1. prune \in Sweep
  BY DEF TypeOK
<1>2. CASE prune' = prune
  BY <1>2
<1>3. CASE prune' = Resting
  BY <1>3, RestingIs
<1>4. CASE ScanBranches
  BY <1>1, <1>3, <1>4 DEF ScanBranches, Sweep
<1>5. CASE Ask
  <2> DEFINE j == Least(prune.todo)
             rest == prune.todo \ {j}
  <2>1. PICK finished : /\ finished = {} \/ (Completed(j) /\ finished = {j})
                        /\ \/ prune' = Resting
                           \/ prune' = [prune EXCEPT
                                !.pc = IF rest = {} THEN "sweeping" ELSE "asking",
                                !.todo = rest, !.eligible = prune.eligible \cup finished]
    BY <1>5 DEF Ask
  <2>2. tree' = tree /\ board' = board
    BY <1>5 DEF Ask
  <2> HIDE DEF j
  <2>3. CASE prune' # Resting
    <3>1. prune'.found = prune.found /\ prune'.eligible = prune.eligible \cup finished
      BY <1>1, <2>1, <2>3 DEF Sweep
    <3> QED
      BY <2>1, <2>2, <3>1
  <2> QED
    BY <1>3, <2>3
<1>6. ASSUME NEW j, Done(j)
      PROVE  Same /\ prune'.eligible \subseteq prune.eligible
  BY <1>1, <1>6, RestingIs DEF Done, Sweep
<1>7. CASE RemoveDirectory
  <2>1. ASSUME NEW j, prune' = [prune EXCEPT !.found = [k \in DOMAIN @ \ {j} |-> @[k]]]
        PROVE  Same /\ prune'.eligible \subseteq prune.eligible
    <3>1. prune'.found = [k \in DOMAIN prune.found \ {j} |-> prune.found[k]]
          /\ prune'.eligible = prune.eligible
      BY <1>1, <2>1 DEF Sweep
    <3> QED
      BY <3>1
  <2> QED
    BY <1>6, <1>7, <2>1 DEF RemoveDirectory
<1>8. CASE DeleteBranch
  BY <1>6, <1>8 DEF DeleteBranch
<1> QED
  BY <1>2, <1>3, <1>4, <1>5, <1>7, <1>8
     DEF Next, vars, PruneStep, PruneIsKilled, DispatchStep, Crash, OrphanEnds,
         Begin, Add, Edit,
         Commit, EngineEnds, Release, Remove, Finish, Block, Move, Check, Merge, Install,
         Unblock, Reopen, Switch, CommitInBench, Pull

LEMMA FoundStep ==
  ASSUME TypeOK, AllSound, FoundIsTheirs, [Next]_vars
  PROVE  FoundIsTheirs'
<1>1. prune \in Sweep
  BY DEF TypeOK
<1>2. CASE ScanDirectories
  <2> DEFINE jobs == {j \in Job : TreesOf(j) # {}}
  <2>1. PICK dir \in [jobs -> Tree] :
          /\ \A j \in jobs : dir[j] \in TreesOf(j)
          /\ prune' = [Resting EXCEPT !.pc = "refs", !.found = dir]
    BY <1>2 DEF ScanDirectories
  <2>2. prune'.found = dir /\ tree' = tree
    BY <1>2, <2>1 DEF Resting, ScanDirectories
  <2>3. ASSUME NEW j \in DOMAIN prune'.found
        PROVE  LET r == tree'[prune'.found[j]]
               IN  r.dir # "unused" /\ (r.dir = "there" => r.job = j)
    BY <2>1, <2>2 DEF TreesOf
  <2> QED
    BY <2>3 DEF FoundIsTheirs
<1>3. CASE ~ScanDirectories
  <2>1. ASSUME NEW j \in DOMAIN prune'.found
        PROVE  LET r == tree'[prune'.found[j]]
               IN  r.dir # "unused" /\ (r.dir = "there" => r.job = j)
    <3>1. j \in DOMAIN prune.found /\ prune'.found[j] = prune.found[j]
      BY <1>3, InHand
    <3>2. prune.found[j] \in Tree
      BY <1>1, <3>1, FoundTyped
    <3> QED
      BY <3>1, <3>2, DirectoryKeeps DEF FoundIsTheirs
  <2> QED
    BY <2>1 DEF FoundIsTheirs
<1> QED
  BY <1>2, <1>3

(* A stray dispatch is not forgotten. *)
LEMMA StrayStays ==
  ASSUME TypeOK, [Next]_vars, NEW j \in Job, board[j].stray
  PROVE  board'[j].stray
<1>1. board[j] \in Flags
  BY DEF TypeOK
<1>2. ASSUME NEW k \in Job, NEW t \in Tree, Begin(t, k) PROVE board'[j].stray
  BY <1>1, <1>2 DEF Begin, Write, TypeOK, Flags
<1>3. ASSUME NEW k, NEW t, Finish(t) \/ Block(t) \/ Move(t) \/ Unblock(k) \/ Reopen(k)
      PROVE  board'[j].stray
  BY <1>1, <1>3 DEF Finish, Block, Move, Unblock, Reopen, Write, TypeOK, Flags
<1>4. CASE board' = board
  BY <1>4
<1> QED
  BY <1>2, <1>3, <1>4
     DEF Next, vars, DispatchStep, Crash, OrphanEnds,
         Add, Edit, Commit, EngineEnds, Release, Remove,
         Check, Merge, Install, PruneStep, ScanDirectories, ScanBranches, Ask,
         RemoveDirectory, DeleteBranch, PruneIsKilled, Switch, CommitInBench, Pull

LEMMA AskedStep ==
  ASSUME TypeOK, AllSound, OneAtATime, FoundIsTheirs, AskedAtRest, [Next]_vars
  PROVE  AskedAtRest'
<1>1. prune \in Sweep
  BY DEF TypeOK
<1>2. CASE ScanDirectories
  <2>1. prune'.eligible = {}
    BY <1>2 DEF ScanDirectories, Resting
  <2> QED
    BY <2>1 DEF AskedAtRest
<1>3. CASE ~ScanDirectories
  <2> SUFFICES ASSUME NEW j \in prune'.eligible, j \in DOMAIN prune'.found,
                      tree'[prune'.found[j]].dir = "there"
               PROVE  board'[j].stray \/ tree'[prune'.found[j]].pc \in Ended
    BY DEF AskedAtRest
  <2> DEFINE t == prune.found[j]
  <2>1. j \in DOMAIN prune.found /\ prune'.found[j] = t
    BY <1>3, InHand
  <2>2. t \in Tree /\ j \in Job
    BY <1>1, <2>1, FoundTyped
  <2>3. tree[t].dir = "there" /\ tree[t].job = j
    BY <2>1, <2>2, DirectoryKeeps DEF FoundIsTheirs
  <2>4. SUFFICES board[j].stray \/ tree[t].pc \in Ended
    BY <2>1, <2>2, <2>4, DirectoryKeeps, StrayStays
  <2>5. CASE j \in prune.eligible
    BY <2>1, <2>3, <2>5 DEF AskedAtRest
  <2>6. CASE Completed(j)
    <3>1. tree[t] \in Dispatch /\ Sound(tree[t])
      BY <2>2 DEF TypeOK, AllSound
    <3>2. tree[t].pc \in Steps \/ tree[t].pc \in {"orphan", "over"}
      BY <2>3, <3>1 DEF Dispatch, Sound, Unmade, Live
    <3> QED
      BY <2>2, <2>3, <2>6, <3>2 DEF OneAtATime, Alone, AtWork, At, Ended
  <2> QED
    BY <1>3, <2>5, <2>6, InHand
<1> QED
  BY <1>2, <1>3

-----------------------------------------------------------------------------
(* The bench. *)

(* What a dispatch has seen of the bench is so, unless somebody switched it. *)
Carried(r) ==
  ~r.slip =>
    /\ r.pc \in {"merging", "installing"} => bench.on = "main"
    /\ r.pc = "installing" => \A tip \in r.named : tip \subseteq bench.main
    /\ r.pc = "moving" => \A tip \in r.named : tip \subseteq bench.main \cap r.ran

AllCarried == \A t \in Tree : Carried(tree[t])

(* The main line loses no commit, and only a person switches the bench. *)
LEMMA MainGrows ==
  ASSUME TypeOK, [Next]_vars
  PROVE  bench.main \subseteq bench'.main /\ (bench'.on = bench.on \/ Switch)
<1>1. ASSUME NEW tip \in History, Here \subseteq tip,
             bench' = [bench EXCEPT ![bench.on] = tip]
      PROVE  bench.main \subseteq bench'.main /\ bench'.on = bench.on
  BY <1>1, BenchMoves, HereIs
<1>2. ASSUME NEW t \in Tree, Merge(t)
      PROVE  bench.main \subseteq bench'.main /\ bench'.on = bench.on
  <2>1. tree[t].named \subseteq History
    BY DEF TypeOK, Dispatch
  <2> QED
    BY <1>1, <1>2, <2>1 DEF Merge
<1>3. CASE CommitInBench
  <2> DEFINE tip == Here \cup {made'}
  <2>1. bench' = [bench EXCEPT ![bench.on] = tip]
    BY <1>3 DEF CommitInBench, Here
  <2>2. made' \in Nat
    BY <1>3, WorktreesAssumption DEF CommitInBench, TypeOK
  <2>3. tip \in History
    BY <2>2, HereIs DEF History
  <2>4. Here \subseteq tip
    OBVIOUS
  <2> HIDE DEF tip
  <2> QED
    BY <1>1, <2>1, <2>3, <2>4
<1>4. CASE Switch
  BY <1>4 DEF Switch, TypeOK
<1>5. CASE bench' = bench
  BY <1>5
<1> QED
  BY <1>2, <1>3, <1>4, <1>5
     DEF Next, vars, DispatchStep, Crash, OrphanEnds,
         Begin, Add, Edit, Commit, EngineEnds, Release,
         Remove, Finish, Block, Move, Check, Install, PruneStep, ScanDirectories,
         ScanBranches, Ask, RemoveDirectory, DeleteBranch, PruneIsKilled, Unblock, Reopen,
         Pull

(* What a dispatch's own step has seen of the bench. *)
LEMMA CarriedOwn ==
  ASSUME TypeOK, AllSound, AllCarried, [Next]_vars, NEW t \in Tree,
         DispatchStep(t) \/ Crash(t) \/ OrphanEnds(t)
  PROVE  Carried(tree[t])'
<1> DEFINE r == tree[t]
           q == tree'[t]
<1>1. r \in Dispatch /\ Sound(r) /\ Carried(r)
  BY DEF TypeOK, AllSound, AllCarried
<1>2. bench.main \subseteq bench'.main
  BY MainGrows
<1>3. CASE q.pc \notin {"merging", "installing", "moving"}
  BY <1>3 DEF Carried
<1>4. CASE q = Past(r)
  BY <1>1, <1>3, <1>4, PastIs
<1>5. ASSUME NEW pc \in Live, Goto(t, pc), r.pc \in Live
      PROVE  /\ q \in Dispatch
             /\ q.pc = pc /\ q.named = r.named /\ q.slip = r.slip /\ q.ran = r.ran
  <2>1. q = [r EXCEPT !.pc = pc]
    BY <1>5, GotoIs
  <2> QED
    BY <1>1, <1>5, <2>1 DEF Dispatch
<1>6. {"moving", "checking", "blocking", "merging", "installing", "finishing"} \subseteq Live
  BY DEF Live, Steps
<1>7. CASE Finish(t)
  <2>1. r.pc \in Live
    BY <1>7 DEF Finish, At, Live, Steps
  <2>2. CASE Leave(t)
    BY <1>4, <2>2, LeaveIs
  <2>3. CASE Goto(t, "blocking") \/ Goto(t, "checking")
    BY <1>3, <1>5, <1>6, <2>1, <2>3
  <2>4. CASE Goto(t, "moving") /\ r.named = {}
    BY <1>5, <1>6, <2>1, <2>4 DEF Carried
  <2> QED
    BY <1>7, <2>2, <2>3, <2>4 DEF Finish
<1>8. CASE Check(t)
  <2>1. r.pc \in Live /\ bench' = bench
    BY <1>8 DEF Check, At, Live, Steps
  <2>2. CASE Goto(t, "merging") /\ bench.on = "main"
    BY <1>5, <1>6, <2>1, <2>2 DEF Carried
  <2>3. CASE Goto(t, "blocking")
    BY <1>3, <1>5, <1>6, <2>1, <2>3
  <2> QED
    BY <1>8, <2>2, <2>3 DEF Check
<1>9. CASE Merge(t)
  <2>1. r.pc = "merging" /\ r.pc \in Live
    BY <1>9 DEF Merge, At, Live, Steps
  <2>2. PICK tip \in r.named :
          IF Here \subseteq tip
          THEN bench' = [bench EXCEPT ![bench.on] = tip] /\ Goto(t, "installing")
          ELSE /\ Goto(t, IF tip \subseteq Here THEN "installing" ELSE "blocking")
               /\ UNCHANGED bench
    BY <1>9 DEF Merge
  <2>3. CASE Goto(t, "blocking")
    BY <1>3, <1>5, <1>6, <2>1, <2>3
  <2>4. CASE Goto(t, "installing")
    <3>1. q.pc = "installing" /\ q.named = r.named /\ q.slip = r.slip
      BY <1>5, <1>6, <2>1, <2>4
    <3>2. SUFFICES ASSUME ~r.slip
                   PROVE  bench'.on = "main" /\ \A a \in r.named : a \subseteq bench'.main
      BY <3>1 DEF Carried
    <3>3. bench.on = "main" /\ Here = bench.main /\ tip \in History
      BY <1>1, <2>1, <3>2, HereIs DEF Carried, Dispatch
    <3>4. ~Goto(t, "blocking")
      BY <1>5, <1>6, <2>1, <3>1
    <3>5. tip \subseteq bench'.main /\ bench'.on = "main"
      BY <2>2, <3>3, <3>4, BenchMoves
    <3> QED
      BY <1>1, <3>5 DEF Sound
  <2> QED
    BY <2>2, <2>3, <2>4
<1>10. CASE Install(t)
  <2>1. r.pc = "installing" /\ r.pc \in Live /\ bench' = bench
    BY <1>10 DEF Install, At, Live, Steps
  <2>2. CASE Goto(t, "blocking")
    BY <1>3, <1>5, <1>6, <2>1, <2>2
  <2>3. CASE Turn(t, [r EXCEPT !.pc = "moving", !.ran = Here])
    <3>1. q = [r EXCEPT !.pc = "moving", !.ran = Here]
      BY <2>3 DEF Turn, TypeOK
    <3>2. q.pc = "moving" /\ q.named = r.named /\ q.slip = r.slip /\ q.ran = Here
      BY <1>1, <3>1 DEF Dispatch
    <3>3. ~r.slip => Here = bench.main
      BY <1>1, <2>1, HereIs DEF Carried
    <3> QED
      BY <1>1, <2>1, <3>2, <3>3 DEF Carried
  <2> QED
    BY <1>10, <2>2, <2>3 DEF Install
<1>11. CASE Add(t) \/ Edit(t) \/ Commit(t)
            \/ (\E how \in {"completed", "failed"}, names \in BOOLEAN :
                  EngineEnds(t, how, names))
            \/ Release(t) \/ Remove(t) \/ Crash(t) \/ OrphanEnds(t) \/ Block(t) \/ Move(t)
  <2>1. CASE Leave(t)
    BY <1>4, <2>1, LeaveIs
  <2>2. CASE ~Leave(t)
    <3>1. CASE Add(t)
      <4>1. PICK tip : q = [r EXCEPT !.dir = "there", !.pc = "running", !.base = tip]
        BY <2>2, <3>1 DEF Add, Turn, TypeOK
      <4> QED
        BY <1>1, <1>3, <4>1 DEF Dispatch
    <3>2. CASE Edit(t)
      <4>1. q = [r EXCEPT !.dirty = TRUE] /\ r.pc \in {"running", "orphan"}
        BY <3>2 DEF Edit, Turn, TypeOK, Working, At
      <4> QED
        BY <1>1, <1>3, <4>1 DEF Dispatch
    <3>3. CASE Commit(t)
      <4>1. PICK tip : /\ q = [r EXCEPT !.dirty = FALSE, !.base = tip]
                      /\ r.pc \in {"running", "orphan"}
        BY <3>3 DEF Commit, Turn, TypeOK, Working, At
      <4> QED
        BY <1>1, <1>3, <4>1 DEF Dispatch
    <3>4. ASSUME NEW how, NEW names, EngineEnds(t, how, names) PROVE Carried(tree[t])'
      <4>1. q = [r EXCEPT !.pc = "releasing", !.ended = how,
                   !.named = IF names THEN {branch[r.job]} ELSE {}]
        BY <3>4 DEF EngineEnds, Turn, TypeOK
      <4>2. q.pc = "releasing"
        BY <1>1, <4>1 DEF Dispatch
      <4> QED
        BY <1>3, <4>2
    <3>5. CASE Release(t)
      <4> DEFINE ask == r.ended = "completed" /\ ~(r.dir = "gone")
      <4>1. q = [r EXCEPT !.kept = ask /\ Unclean(t), !.base = {},
                   !.pc = IF ask /\ ~Unclean(t) THEN "removing" ELSE "finishing"]
        BY <3>5 DEF Release, Turn, TypeOK
      <4>2. q.pc \in {"removing", "finishing"}
        BY <1>1, <4>1 DEF Dispatch
      <4> QED
        BY <1>3, <4>2
    <3>6. CASE Remove(t)
      <4>1. r.pc = "removing" /\ r.pc \in Live
        BY <3>6 DEF Remove, At, Live, Steps
      <4>2. CASE Goto(t, "finishing")
        BY <1>3, <1>5, <1>6, <4>1, <4>2
      <4>3. CASE Turn(t, [Gone(r) EXCEPT !.pc = "finishing"])
        <5>1. q = [Gone(r) EXCEPT !.pc = "finishing"] /\ Gone(r) \in Dispatch
          BY <1>1, <4>3, GoneIs DEF Turn, TypeOK
        <5> QED
          BY <1>3, <5>1 DEF Dispatch
      <4> QED
        BY <3>6, <4>2, <4>3 DEF Remove
    <3>7. CASE At(t, "running") /\ Goto(t, "orphan")
      <4>1. q = [r EXCEPT !.pc = "orphan"]
        BY <3>7 DEF Goto, Turn, TypeOK
      <4> QED
        BY <1>1, <1>3, <4>1 DEF Dispatch
    <3> QED
      BY <1>11, <2>2, <3>1, <3>2, <3>3, <3>4, <3>5, <3>6, <3>7
         DEF Crash, OrphanEnds, Block, Move
  <2> QED
    BY <2>1, <2>2
<1> QED
  BY <1>7, <1>8, <1>9, <1>10, <1>11 DEF DispatchStep

LEMMA CarriedStep ==
  ASSUME TypeOK, AllSound, AllCarried, [Next]_vars
  PROVE  AllCarried'
<1> SUFFICES ASSUME NEW t \in Tree PROVE Carried(tree[t])'
  BY DEF AllCarried
<1>1. tree[t] \in Dispatch /\ Carried(tree[t])
  BY DEF TypeOK, AllCarried
<1>2. bench.main \subseteq bench'.main
  BY MainGrows
<1>3. CASE tree'[t] = tree[t] /\ ~Switch
  BY <1>1, <1>2, <1>3, MainGrows DEF Carried
<1>4. CASE DispatchStep(t) \/ Crash(t) \/ OrphanEnds(t)
  BY <1>4, CarriedOwn
<1>5. ASSUME NEW j \in Job, Begin(t, j) PROVE Carried(tree[t])'
  <2>1. tree'[t].pc \in {"adding", "creating"}
    BY <1>5 DEF Begin, Turn, TypeOK, Fresh
  <2> QED
    BY <2>1 DEF Carried
<1>6. ASSUME NEW u \in Tree, u # t,
             DispatchStep(u) \/ Crash(u) \/ OrphanEnds(u) \/ \E j \in Job : Begin(u, j)
      PROVE  Carried(tree[t])'
  <2>1. tree'[t] = tree[t]
    BY <1>6, OthersStay
  <2>2. bench'.on = bench.on
    BY <1>6 DEF DispatchStep, Begin, Add, Edit, Commit, EngineEnds, Release, Remove,
           Finish, Block, Move, Check, Merge, Install, Crash, OrphanEnds, TypeOK
  <2> QED
    BY <1>1, <1>2, <2>1, <2>2 DEF Carried
<1>7. CASE Switch
  <2>1. tree'[t] = [tree[t] EXCEPT !.slip = @ \/ At(t, "merging") \/ At(t, "installing")]
    BY <1>7 DEF Switch
  <2>2. /\ tree'[t].pc = tree[t].pc /\ tree'[t].named = tree[t].named
        /\ tree'[t].ran = tree[t].ran
        /\ ~tree'[t].slip => ~tree[t].slip /\ tree[t].pc \notin {"merging", "installing"}
    BY <1>1, <2>1 DEF Dispatch, At
  <2> QED
    BY <1>1, <1>2, <2>2 DEF Carried
<1>8. CASE PruneStep
  <2>1. bench' = bench
    BY <1>8 DEF PruneStep, ScanDirectories, ScanBranches, Ask, RemoveDirectory, DeleteBranch
  <2>2. CASE tree' = tree
    BY <1>1, <2>1, <2>2 DEF Carried
  <2>3. ASSUME NEW u \in Tree, tree' = [tree EXCEPT ![u] = Gone(tree[u])]
        PROVE  Carried(tree[t])'
    <3>1. CASE u = t
      <4>1. tree'[t] = Gone(tree[t])
        BY <2>3, <3>1 DEF TypeOK
      <4> QED
        BY <1>1, <2>1, <4>1, GoneIs DEF Carried
    <3>2. CASE u # t
      <4>1. tree'[t] = tree[t]
        BY <2>3, <3>2 DEF TypeOK
      <4> QED
        BY <1>1, <2>1, <4>1 DEF Carried
    <3> QED
      BY <3>1, <3>2
  <2> QED
    BY <1>8, <2>2, <2>3, PruneTakes
<1>9. CASE \/ PruneIsKilled \/ CommitInBench \/ Pull
           \/ \E j \in Job : Unblock(j) \/ Reopen(j)
           \/ UNCHANGED vars
  <2>1. tree' = tree
    BY <1>9 DEF PruneIsKilled, CommitInBench, Pull, Unblock, Reopen, vars
  <2> QED
    BY <1>3, <1>7, <2>1
<1> QED
  BY <1>4, <1>5, <1>6, <1>7, <1>8, <1>9 DEF Next

-----------------------------------------------------------------------------
(* The inductive invariant. *)

IInv == /\ TypeOK /\ AllSound /\ OnSomeBranch
        /\ OneAtATime /\ FoundIsTheirs /\ AskedAtRest
        /\ AllCarried

LEMMA InvInit == Init => IInv
<1> SUFFICES ASSUME Init PROVE IInv
  OBVIOUS
<1>1. TypeOK
  <2>1. branch = <<>> /\ DOMAIN branch = {} /\ branch \in [DOMAIN branch -> History]
    BY DEF Init
  <2>2. board \in [Job -> Flags] /\ tree \in [Tree -> Dispatch]
    BY FreshIs DEF Init, Flags
  <2>3. prune \in Sweep /\ prune.pc = "idle"
    BY RestingIs DEF Init
  <2>4. /\ repo \in History /\ apart \in BOOLEAN
        /\ bench \in [main : History, other : History, on : {"main", "other"}]
    BY WorktreesAssumption DEF Init, History
  <2>5. made \in 0 .. MaxCommit /\ events \in 0 .. MaxEvent
    BY WorktreesAssumption DEF Init
  <2>6. \A t \in Tree : tree[t].pc = "idle"
    BY DEF Init, Fresh
  <2> QED
    BY <2>1, <2>2, <2>3, <2>4, <2>5, <2>6 DEF TypeOK, Live, Steps
<1>2. \A t \in Tree : tree[t] = Fresh
  BY DEF Init
<1>3. AllSound /\ AllCarried
  BY <1>2 DEF AllSound, Sound, AllCarried, Carried, Fresh, Unmade
<1>4. OneAtATime
  BY <1>2 DEF OneAtATime, Alone, AtWork, Fresh, Steps
<1>5. FoundIsTheirs /\ AskedAtRest
  BY RestingIs DEF Init, FoundIsTheirs, AskedAtRest
<1>6. OnSomeBranch
  BY DEF Init, OnSomeBranch
<1> QED
  BY <1>1, <1>3, <1>4, <1>5, <1>6 DEF IInv

LEMMA InvStep == IInv /\ [Next]_vars => IInv'
  BY TypeStep, SoundStep, CommitsStep, OneAtATimeStep, FoundStep, AskedStep, CarriedStep
     DEF IInv

LEMMA Invariance == Spec => []IInv
  BY InvInit, InvStep, PTL DEF Spec

(* Every variable keeps its type, a dispatch under way has a job, and prune asks
   only while it has somebody left to ask about. *)
THEOREM TypeCorrect == Spec => []TypeOK
<1>1. IInv => TypeOK
  BY DEF IInv
<1> QED
  BY <1>1, Invariance, PTL

-----------------------------------------------------------------------------
(* Nothing is lost. *)

(* A dispatch's own step takes a directory only once git called it clean. *)
LEMMA OwnRemoval ==
  ASSUME TypeOK, AllSound, NEW t \in Tree, Vanishes(t),
         DispatchStep(t) \/ Crash(t) \/ OrphanEnds(t)
  PROVE  ~At(t, "running") /\ ~At(t, "orphan") /\ ~tree[t].dirty
<1>1. tree[t] \in Dispatch /\ Sound(tree[t])
  BY DEF TypeOK, AllSound
<1>2. CASE Remove(t)
  BY <1>1, <1>2 DEF Remove, At, Sound
<1>3. CASE Leave(t)
  BY <1>1, <1>3, LeaveIs, PastIs DEF Vanishes
<1>4. tree'[t].dir # tree[t].dir
  BY DEF Vanishes
<1>5. ASSUME NEW pc \in Live, Goto(t, pc) PROVE tree'[t].dir = tree[t].dir
  BY <1>1, <1>5 DEF Goto, Turn, TypeOK, Dispatch
<1>6. {"moving", "checking", "blocking", "merging", "installing", "finishing"} \subseteq Live
  BY DEF Live, Steps
<1>7. CASE \/ Finish(t) \/ Check(t) \/ Merge(t) \/ Block(t) \/ Move(t)
           \/ Crash(t) \/ OrphanEnds(t)
  BY <1>3, <1>4, <1>5, <1>6, <1>7
     DEF Finish, Check, Merge, Block, Move, Crash, OrphanEnds, Live
<1>8. CASE Add(t)
  <2>1. tree[t].dir = "unused"
    BY <1>1, <1>8 DEF Add, At, Sound, Unmade
  <2> QED
    BY <2>1 DEF Vanishes
<1>9. CASE Edit(t) \/ Commit(t) \/ Release(t)
            \/ (\E how \in {"completed", "failed"}, names \in BOOLEAN :
                  EngineEnds(t, how, names))
  <2>1. CASE Edit(t)
    BY <1>1, <1>4, <2>1 DEF Edit, Turn, TypeOK, Dispatch
  <2>2. CASE Commit(t)
    <3>1. PICK tip : Turn(t, [tree[t] EXCEPT !.dirty = FALSE, !.base = tip])
      BY <2>2 DEF Commit
    <3> QED
      BY <1>1, <1>4, <3>1 DEF Turn, TypeOK, Dispatch
  <2>3. CASE Release(t)
    <3> DEFINE ask == tree[t].ended = "completed" /\ ~(tree[t].dir = "gone")
    <3>1. tree'[t] = [tree[t] EXCEPT !.kept = ask /\ Unclean(t), !.base = {},
                        !.pc = IF ask /\ ~Unclean(t) THEN "removing" ELSE "finishing"]
      BY <2>3 DEF Release, Turn, TypeOK
    <3> QED
      BY <1>1, <1>4, <3>1 DEF Dispatch
  <2>4. ASSUME NEW how, NEW names, EngineEnds(t, how, names) PROVE FALSE
    <3>1. tree'[t] = [tree[t] EXCEPT !.pc = "releasing", !.ended = how,
                        !.named = IF names THEN {branch[tree[t].job]} ELSE {}]
      BY <2>4 DEF EngineEnds, Turn, TypeOK
    <3> QED
      BY <1>1, <1>4, <3>1 DEF Dispatch
  <2> QED
    BY <1>9, <2>1, <2>2, <2>3, <2>4
<1>10. CASE Install(t)
  <2>1. CASE Turn(t, [tree[t] EXCEPT !.pc = "moving", !.ran = Here])
    <3>1. tree'[t] = [tree[t] EXCEPT !.pc = "moving", !.ran = Here]
      BY <2>1 DEF Turn, TypeOK
    <3> QED
      BY <1>1, <1>4, <3>1 DEF Dispatch
  <2> QED
    BY <1>4, <1>5, <1>6, <1>10, <2>1 DEF Install
<1> QED
  BY <1>2, <1>7, <1>8, <1>9, <1>10 DEF DispatchStep

(* Whoever takes it, no engine is at work in it, and what was not committed goes
   only of a job prune heard to be completed. *)
LEMMA RemovalIsSafe ==
  ASSUME IInv, [Next]_vars, NEW t \in Tree, Vanishes(t)
  PROVE  /\ At(t, "running") => board[tree[t].job].stray
         /\ tree[t].dirty \/ At(t, "orphan") => tree[t].job \in prune.eligible
<1>1. TypeOK /\ AllSound
  BY DEF IInv
<1>2. CASE DispatchStep(t) \/ Crash(t) \/ OrphanEnds(t)
  BY <1>1, <1>2, OwnRemoval
<1>3. ASSUME NEW j \in Job, Begin(t, j) PROVE FALSE
  <2>1. tree[t].dir = "unused"
    BY <1>1, <1>3 DEF Begin, At, AllSound, Sound, Unmade
  <2> QED
    BY <2>1 DEF Vanishes
<1>4. ASSUME NEW u \in Tree, u # t,
             DispatchStep(u) \/ Crash(u) \/ OrphanEnds(u) \/ \E j \in Job : Begin(u, j)
      PROVE  FALSE
  BY <1>1, <1>4, OthersStay DEF Vanishes
<1>5. CASE PruneStep
  <2>1. PICK j \in prune.eligible \cap DOMAIN prune.found :
          tree' = [tree EXCEPT ![prune.found[j]] = Gone(tree[prune.found[j]])]
    BY <1>1, <1>5, PruneTakes DEF Vanishes
  <2>2. t = prune.found[j]
    BY <1>1, <2>1 DEF Vanishes, TypeOK
  <2>3. tree[t].dir = "there"
    BY DEF Vanishes
  <2>4. tree[t].job = j
    BY <2>1, <2>2, <2>3 DEF IInv, FoundIsTheirs
  <2>5. board[j].stray \/ tree[t].pc \in Ended
    BY <2>1, <2>2, <2>3 DEF IInv, AskedAtRest
  <2> QED
    BY <2>1, <2>4, <2>5 DEF At, Ended
<1>6. CASE \/ PruneIsKilled \/ Switch \/ CommitInBench \/ Pull
           \/ \E j \in Job : Unblock(j) \/ Reopen(j)
           \/ UNCHANGED vars
  <2>1. CASE Switch
    <3>1. tree'[t] = [tree[t] EXCEPT !.slip = @ \/ At(t, "merging") \/ At(t, "installing")]
      BY <2>1 DEF Switch
    <3>2. tree'[t].dir = tree[t].dir
      BY <1>1, <3>1 DEF TypeOK, Dispatch
    <3> QED
      BY <3>2 DEF Vanishes
  <2>2. CASE ~Switch
    <3>1. tree' = tree
      BY <1>6, <2>2 DEF PruneIsKilled, CommitInBench, Pull, Unblock, Reopen, vars
    <3> QED
      BY <3>1 DEF Vanishes
  <2> QED
    BY <2>1, <2>2
<1> QED
  BY <1>2, <1>3, <1>4, <1>5, <1>6 DEF Next

(* "Nothing that is still in flight is touched, and a branch nobody merged is
   never discarded" (release, runPrune): whatever dispatches, prunes, crashes and
   people do beside one another. *)
THEOREM NothingIsLostAlways == Spec => NothingIsLost
<1>1. IInv /\ IInv' /\ [Next]_vars =>
        [/\ \A t \in Tree : Vanishes(t) =>
              /\ At(t, "running") => board[tree[t].job].stray
              /\ tree[t].dirty \/ At(t, "orphan") => tree[t].job \in prune.eligible
         /\ 1 .. made' \subseteq (UNION Histories)']_vars
  BY RemovalIsSafe DEF IInv, OnSomeBranch
<1> QED
  BY <1>1, Invariance, PTL DEF Spec, NothingIsLost

-----------------------------------------------------------------------------
(* The main line. *)

(* The main line never loses a commit, and work that a report named leaves its node
   only when the main line has it and an install ran over it
   (createMainLineAdvancer, advanceMainLineForReport), whoever integrates beside
   it, unless somebody switched the bench in the middle of that. *)
THEOREM MainLineAlways == Spec => MainLineIsTrue
<1>1. IInv /\ [Next]_vars =>
        [/\ bench.main \subseteq bench'.main
         /\ \A t \in Tree : At(t, "moving") /\ tree'[t].pc = "over" /\ ~tree[t].slip
              /\ board'[tree[t].job].node = "gate"
              => \A tip \in tree[t].named : tip \subseteq bench.main \cap tree[t].ran]_vars
  BY MainGrows DEF IInv, AllCarried, Carried, At
<1> QED
  BY <1>1, Invariance, PTL DEF Spec, MainLineIsTrue

=============================================================================
