------------------------------ MODULE Worktrees ------------------------------
(***************************************************************************)
(* The working trees of a runner's sessions and the test bench: the one     *)
(* directory a session may write in (dispatch/session-worktree.ts), the     *)
(* checkout a gate observes (dispatch/advance-main-line.ts) and what        *)
(* collects the directories and branches left behind (cli/prune.ts).        *)
(*                                                                         *)
(* git is external: a history is the set of commits in it, and each git     *)
(* command is one step.  A job is worked on at `build`, whose report may    *)
(* name a commit, and completes at `gate`, a final node with a session of   *)
(* its own.  The age window and the dry run of prune collect less, and are  *)
(* left out; so is a directory prune does not recognise.                    *)
(***************************************************************************)
EXTENDS Naturals, FiniteSets

CONSTANTS
  Job,        \* job ids, which prune goes through in ascending order
  NoJob,
  Tree,       \* bound: directories ever minted, in the order they are
  Apart,      \* may the bench be a clone apart from the repository?
  MaxCommit,  \* bound: commits ever made
  MaxEvent    \* bound: crashes, lost leases, failures and people's doings

ASSUME WorktreesAssumption ==
  /\ Job \subseteq Nat /\ NoJob \notin Job
  /\ Tree \subseteq Nat
  /\ Apart \subseteq BOOLEAN
  /\ MaxCommit \in Nat /\ MaxEvent \in Nat

VARIABLES
  board,      \* per job: its node, its flag, and a completed session on `gate`
  branch,     \* refs/heads/ticket-<id>: the job's history, while the ref exists
  repo,       \* the main line of a repository the bench is a clone of
  bench,      \* the bench: its two branches, and the one it is on
  apart,      \* whether the bench is a directory of its own
  tree,       \* the directories, each with the dispatch it was minted for
  prune,      \* the prune under way
  made, events

counters == <<made, events>>
vars == <<board, branch, repo, bench, apart, tree, prune, counters>>

-----------------------------------------------------------------------------

Fresh == [dir |-> "unused", pc |-> "idle", job |-> NoJob, node |-> "build",
          dirty |-> FALSE, base |-> {}, ended |-> "none", kept |-> FALSE,
          named |-> {}, ran |-> {}, slip |-> FALSE]

Least(S) == CHOOSE x \in S : \A y \in S : x <= y

Completed(j) == board[j].node = "gate" /\ board[j].reported /\ ~board[j].blocked
Released(j)  == ~board[j].blocked /\ ~Completed(j)

\* The history checked out in the bench, and in the repository.
Here == bench[bench.on]
Head == IF apart THEN repo ELSE Here

\* The branches with ticket-<j> at tip, minted now or moved.
Ref(j, tip) == [k \in DOMAIN branch \cup {j} |-> IF k = j THEN tip ELSE branch[k]]

TreesOf(j) == {t \in Tree : tree[t].dir = "there" /\ tree[t].job = j}
Busy(j)    == \E t \in Tree : tree[t].job = j /\ tree[t].pc \notin {"idle", "orphan", "over"}

At(t, pc)   == tree[t].pc = pc
Turn(t, to) == tree' = [tree EXCEPT ![t] = to]
Goto(t, pc) == Turn(t, [tree[t] EXCEPT !.pc = pc])

\* A dispatch that is over: its directory is all that is left of it.
Past(r) == IF r.dir = "there" THEN [Fresh EXCEPT !.pc = "over", !.dir = "there",
                                                 !.job = r.job, !.dirty = r.dirty]
           ELSE [Fresh EXCEPT !.pc = "over", !.dir = "gone"]
Gone(r)  == IF r.pc = "over" THEN Past([r EXCEPT !.dir = "gone"])
            ELSE [r EXCEPT !.dir = "gone", !.dirty = FALSE]
Leave(t) == Turn(t, Past(tree[t]))

\* One more of the things that are not the ordinary course.
Event == events < MaxEvent /\ events' = events + 1

Write(j, how) == board' = [board EXCEPT ![j] = how]

-----------------------------------------------------------------------------
(* The tree of one session. *)

\* acquire, up to show-ref's answer.  A stray dispatch has a lease that was lost
\* to another one, or a job that went on after the board was read.
Begin(t, j) ==
  /\ At(t, "idle") /\ \A u \in Tree : u < t => ~At(u, "idle")
  /\ LET due == Released(j) /\ ~Busy(j)
     IN  /\ IF due THEN UNCHANGED events ELSE Event
         /\ Write(j, [board[j] EXCEPT !.stray = @ \/ ~due])
         /\ Turn(t, [Fresh EXCEPT !.job = j, !.node = board[j].node,
                       !.pc = IF j \in DOMAIN branch THEN "adding" ELSE "creating"])
  /\ UNCHANGED <<branch, repo, bench, apart, prune, made>>

\* git worktree add, which refuses when the ref came or went since show-ref; the
\* directory of a failed one is removed.
Add(t) ==
  LET j == tree[t].job
      tip == IF At(t, "adding") THEN branch[j] ELSE Head
  IN  /\ At(t, "adding") \/ At(t, "creating")
      /\ \/ /\ At(t, "adding") <=> j \in DOMAIN branch
            /\ branch' = Ref(j, tip)
            /\ Turn(t, [tree[t] EXCEPT !.dir = "there", !.pc = "running", !.base = tip])
         \/ /\ ~(At(t, "adding") <=> j \in DOMAIN branch)
            /\ Leave(t)
            /\ UNCHANGED branch
      /\ UNCHANGED <<board, repo, bench, apart, prune, counters>>

Working(t) == tree[t].pc \in {"running", "orphan"} /\ tree[t].dir = "there"

\* What an engine, orphaned or not, does in its directory: it writes, and commits
\* on the branch, with the repository's main line merged in or without.
Edit(t) ==
  /\ Working(t) /\ ~tree[t].dirty
  /\ Turn(t, [tree[t] EXCEPT !.dirty = TRUE])
  /\ UNCHANGED <<board, branch, repo, bench, apart, prune, counters>>

Commit(t) ==
  /\ Working(t) /\ tree[t].dirty
  /\ made < MaxCommit /\ made' = made + 1
  /\ \E merged \in {{}, Head} :
       LET tip == branch[tree[t].job] \cup merged \cup {made'}
       IN  /\ branch' = Ref(tree[t].job, tip)
           /\ Turn(t, [tree[t] EXCEPT !.dirty = FALSE, !.base = tip])
  /\ UNCHANGED <<board, repo, bench, apart, prune, events>>

\* The session is over; a completed one of `build` may name its branch's tip.
EngineEnds(t, how, names) ==
  /\ At(t, "running")
  /\ names => how = "completed" /\ tree[t].node = "build" /\ tree[t].job \in DOMAIN branch
  /\ Turn(t, [tree[t] EXCEPT !.pc = "releasing", !.ended = how,
                !.named = IF names THEN {branch[tree[t].job]} ELSE {}])
  /\ UNCHANGED <<board, branch, repo, bench, apart, prune, counters>>

\* What git status sees: what was written, and a branch another tree moved.
Unclean(t) == tree[t].dirty \/ tree[t].base # branch[tree[t].job]

\* release: the tree of a session that did not complete stays, and so does an
\* unclean one; a git that cannot answer leaves it too, and says nothing of dirt.
Release(t) ==
  LET gone == tree[t].dir = "gone"
      ask  == tree[t].ended = "completed" /\ ~gone
  IN  /\ At(t, "releasing")
      /\ Turn(t, [tree[t] EXCEPT !.kept = ask /\ Unclean(t), !.base = {},
                    !.pc = IF ask /\ ~Unclean(t) THEN "removing" ELSE "finishing"])
      /\ UNCHANGED <<board, branch, repo, bench, apart, prune, counters>>

\* git worktree remove --force; refused, the dispatch goes on.
Remove(t) ==
  /\ At(t, "removing")
  /\ \/ /\ Turn(t, [Gone(tree[t]) EXCEPT !.pc = "finishing"])
        /\ UNCHANGED events
     \/ Event /\ Goto(t, "finishing")
  /\ UNCHANGED <<board, branch, repo, bench, apart, prune, made>>

\* The closure; what was left behind unclean stops the work only after it.
Finish(t) ==
  LET r == tree[t]
      completed == r.ended = "completed"
  IN  /\ At(t, "finishing")
      /\ Write(r.job, [board[r.job] EXCEPT !.reported = @ \/ (completed /\ r.node = "gate")])
      /\ \/ r.kept /\ Goto(t, "blocking")
         \/ ~r.kept /\ (~completed \/ r.node = "gate") /\ Leave(t)
         \/ /\ ~r.kept /\ completed /\ r.node = "build"
            /\ Goto(t, IF r.named = {} THEN "moving" ELSE "checking")
      /\ UNCHANGED <<branch, repo, bench, apart, prune, counters>>

\* blockForUncommittedWork, blockForMainLineAdvanceFailure.
Block(t) ==
  /\ At(t, "blocking")
  /\ Write(tree[t].job, [board[tree[t].job] EXCEPT !.blocked = TRUE])
  /\ Leave(t)
  /\ UNCHANGED <<branch, repo, bench, apart, prune, counters>>

\* The transition, once the bench carries what the report named.
Move(t) ==
  /\ At(t, "moving")
  /\ Write(tree[t].job, [board[tree[t].job] EXCEPT !.node = "gate"])
  /\ Leave(t)
  /\ UNCHANGED <<branch, repo, bench, apart, prune, counters>>

-----------------------------------------------------------------------------
(* The bench (createMainLineAdvancer, advanceMainLineForReport). *)

\* Fault: whatever the bench is on is fast-forwarded.
CarelessCheck(t) ==
  /\ At(t, "checking") /\ Goto(t, "merging")
  /\ UNCHANGED <<board, branch, repo, bench, apart, prune, counters>>

\* rev-parse --abbrev-ref, and the fetch of a clone, which may fail.
Check(t) ==
  /\ At(t, "checking")
  /\ \/ bench.on = "main" /\ Goto(t, "merging")
     \/ (bench.on # "main" \/ apart) /\ Goto(t, "blocking")
  /\ UNCHANGED <<board, branch, repo, bench, apart, prune, counters>>

\* merge --ff-only, on whatever branch the bench is on by now; a commit that is
\* on it already is no refusal.
Merge(t) ==
  /\ At(t, "merging")
  /\ \E tip \in tree[t].named :
       IF Here \subseteq tip
       THEN bench' = [bench EXCEPT ![bench.on] = tip] /\ Goto(t, "installing")
       ELSE /\ Goto(t, IF tip \subseteq Here THEN "installing" ELSE "blocking")
            /\ UNCHANGED bench
  /\ UNCHANGED <<board, branch, repo, apart, prune, counters>>

\* The install command, over the bench as it stands.
Install(t) ==
  /\ At(t, "installing")
  /\ \/ Turn(t, [tree[t] EXCEPT !.pc = "moving", !.ran = Here])
     \/ Goto(t, "blocking")
  /\ UNCHANGED <<board, branch, repo, bench, apart, prune, counters>>

-----------------------------------------------------------------------------
(* prune (runPrune). *)

Resting == [pc |-> "idle", found |-> <<>>, refs |-> {}, todo |-> {}, eligible |-> {}]

\* scanDirectories: one directory per job, of those a job may have several of.
ScanDirectories ==
  LET jobs == {j \in Job : TreesOf(j) # {}}
  IN  /\ prune.pc = "idle"
      /\ \E dir \in [jobs -> Tree] :
           /\ \A j \in jobs : dir[j] \in TreesOf(j)
           /\ prune' = [Resting EXCEPT !.pc = "refs", !.found = dir]
      /\ UNCHANGED <<board, branch, repo, bench, apart, tree, counters>>

\* Fault: the directories are the only source of candidates.
Dirless == {}

Refs == DOMAIN branch

ScanBranches ==
  LET all == DOMAIN prune.found \cup Refs
  IN  /\ prune.pc = "refs"
      /\ prune' = IF all = {} THEN Resting
                  ELSE [prune EXCEPT !.pc = "asking", !.refs = Refs, !.todo = all]
      /\ UNCHANGED <<board, branch, repo, bench, apart, tree, counters>>

\* GET /jobs/:id of each candidate in turn, before anything is touched.
Ask ==
  LET j == Least(prune.todo)
      rest == prune.todo \ {j}
      Hear(finished) ==
        LET them == prune.eligible \cup finished
        IN  prune' = IF rest = {} /\ them = {} THEN Resting
                     ELSE [prune EXCEPT !.pc = IF rest = {} THEN "sweeping" ELSE "asking",
                                        !.todo = rest, !.eligible = them]
  IN  /\ prune.pc = "asking"
      /\ \/ Hear(IF Completed(j) THEN {j} ELSE {}) /\ UNCHANGED events
         \/ Event /\ Hear({})
      /\ UNCHANGED <<board, branch, repo, bench, apart, tree, made>>

Done(j) == prune' = IF prune.eligible = {j} THEN Resting
                    ELSE [prune EXCEPT !.eligible = @ \ {j}]

\* Fault: the directory is looked up when it is about to be removed.
LateDirectory(j) == TreesOf(j)

Directory(j) == IF j \in DOMAIN prune.found THEN {prune.found[j]} ELSE {}

\* worktree remove --force, the directory first; one that fails takes the branch
\* off the list too.
RemoveDirectory ==
  LET j == Least(prune.eligible)
  IN  /\ prune.pc = "sweeping" /\ prune.eligible # {}
      /\ \E t \in Directory(j) :
           \/ /\ tree[t].dir = "there"
              /\ Turn(t, Gone(tree[t]))
              /\ prune' = [prune EXCEPT !.found = [k \in DOMAIN @ \ {j} |-> @[k]]]
              /\ UNCHANGED events
           \/ tree[t].dir # "there" /\ Done(j) /\ UNCHANGED <<tree, events>>
           \/ Event /\ Done(j) /\ UNCHANGED tree
      /\ UNCHANGED <<board, branch, repo, bench, apart, made>>

\* branch -d: only what HEAD has, and only what no tree has checked out.
DeleteBranch ==
  LET j == Least(prune.eligible)
      deleted == /\ j \in prune.refs \cap DOMAIN branch
                 /\ branch[j] \subseteq Head /\ TreesOf(j) = {}
  IN  /\ prune.pc = "sweeping" /\ prune.eligible # {}
      /\ Directory(j) = {}
      /\ branch' = IF deleted THEN [k \in DOMAIN branch \ {j} |-> branch[k]] ELSE branch
      /\ Done(j)
      /\ UNCHANGED <<board, repo, bench, apart, tree, counters>>

PruneStep ==
  ScanDirectories \/ ScanBranches \/ Ask \/ RemoveDirectory \/ DeleteBranch

-----------------------------------------------------------------------------
(* What else happens. *)

\* A runner dies, and the job is dispatched again once its lease ran out.  The
\* engine is told to stop by the exit hook, which a SIGKILL does not run: then the
\* engine, in a process group of its own, goes on in its directory.
Crash(t) ==
  /\ tree[t].pc \notin {"idle", "orphan", "over"}
  /\ Event
  /\ Leave(t) \/ (At(t, "running") /\ Goto(t, "orphan"))
  /\ UNCHANGED <<board, branch, repo, bench, apart, prune, made>>

OrphanEnds(t) ==
  /\ At(t, "orphan") /\ Leave(t)
  /\ UNCHANGED <<board, branch, repo, bench, apart, prune, counters>>

\* A prune is killed.
PruneIsKilled ==
  /\ prune.pc # "idle" /\ Event /\ prune' = Resting
  /\ UNCHANGED <<board, branch, repo, bench, apart, tree, made>>

\* A person lowers a flag, moves a job back, switches the bench's branch, commits
\* in the bench, or brings the repository up to the bench.
Unblock(j) ==
  /\ board[j].blocked /\ Write(j, [board[j] EXCEPT !.blocked = FALSE])
  /\ UNCHANGED <<branch, repo, bench, apart, tree, prune, counters>>

Reopen(j) ==
  /\ board[j].node = "gate"
  /\ Event /\ Write(j, [board[j] EXCEPT !.node = "build"])
  /\ UNCHANGED <<branch, repo, bench, apart, tree, prune, made>>

Switch ==
  /\ Event
  /\ bench' = [bench EXCEPT !.on = IF @ = "main" THEN "other" ELSE "main"]
  /\ tree' = [t \in Tree |-> [tree[t] EXCEPT
                !.slip = @ \/ At(t, "merging") \/ At(t, "installing")]]
  /\ UNCHANGED <<board, branch, repo, apart, prune, made>>

CommitInBench ==
  /\ Event /\ made < MaxCommit /\ made' = made + 1
  /\ bench' = [bench EXCEPT ![bench.on] = @ \cup {made'}]
  /\ UNCHANGED <<board, branch, repo, apart, tree, prune>>

Pull ==
  /\ apart /\ repo # bench.main \cup repo
  /\ repo' = bench.main \cup repo
  /\ UNCHANGED <<board, branch, bench, apart, tree, prune, counters>>

-----------------------------------------------------------------------------
Init ==
  /\ board = [j \in Job |-> [node |-> "build", blocked |-> FALSE, reported |-> FALSE,
                            stray |-> FALSE]]
  /\ branch = <<>> /\ repo = {} /\ apart \in Apart
  /\ bench = [main |-> {}, other |-> {}, on |-> "main"]
  /\ tree = [t \in Tree |-> Fresh] /\ prune = Resting
  /\ made = 0 /\ events = 0

DispatchStep(t) ==
  \/ Add(t) \/ Edit(t) \/ Commit(t)
  \/ \E how \in {"completed", "failed"}, names \in BOOLEAN : EngineEnds(t, how, names)
  \/ Release(t) \/ Remove(t) \/ Finish(t) \/ Block(t) \/ Move(t)
  \/ Check(t) \/ Merge(t) \/ Install(t)

Next ==
  \/ \E t \in Tree : DispatchStep(t) \/ Crash(t) \/ OrphanEnds(t) \/ \E j \in Job : Begin(t, j)
  \/ PruneStep \/ PruneIsKilled
  \/ \E j \in Job : Unblock(j) \/ Reopen(j)
  \/ Switch \/ CommitInBench \/ Pull

Spec == Init /\ [][Next]_vars

\* prune is run again and again, as a cron does; nobody else has to move.
FairSpec == Spec /\ WF_vars(PruneStep)

-----------------------------------------------------------------------------
(* Correctness. *)

Vanishes(t) == tree[t].dir = "there" /\ tree'[t].dir = "gone"

Histories == {repo, bench.main, bench.other} \cup {branch[j] : j \in DOMAIN branch}

\* "Nothing that is still in flight is touched, and a branch nobody merged is
\* never discarded": no directory is taken from under the engine of a dispatch, of
\* a job that no stray dispatch ever had; what was not committed, and what an
\* engine orphaned by its runner is at work on, goes only where the control plane
\* called the job completed; every commit stays on some branch.
NothingIsLost ==
  [][/\ \A t \in Tree : Vanishes(t) =>
          /\ At(t, "running") => board[tree[t].job].stray
          /\ tree[t].dirty \/ At(t, "orphan") => tree[t].job \in prune.eligible
     /\ 1 .. made' \subseteq (UNION Histories)']_vars

\* The work does not leave a node whose bench did not move: whoever integrates
\* beside it, its commit is on the main line, which never loses one, and an
\* install ran over it; unless somebody switches the bench in the middle of that.
MainLineIsTrue ==
  [][/\ bench.main \subseteq bench'.main
     /\ \A t \in Tree : At(t, "moving") /\ tree'[t].pc = "over" /\ ~tree[t].slip
          /\ board'[tree[t].job].node = "gate"
          => \A tip \in tree[t].named : tip \subseteq bench.main \cap tree[t].ran]_vars

Leftover(j)    == TreesOf(j) # {} \/ j \in DOMAIN branch
Collectable(j) == Completed(j) /\ ~Busy(j) /\ (j \in DOMAIN branch => branch[j] \subseteq Head)

\* What finished work leaves behind goes in the end: every directory, however
\* many, and the branch, of a job that stays completed and is merged.
LeftoversAreCollected ==
  \A j \in Job : <>[]Collectable(j) => <>[]~Leftover(j)
=============================================================================
