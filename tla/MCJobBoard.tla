----------------------------- MODULE MCJobBoard -----------------------------
(* Small instances of JobBoard: a graph of three nodes, one to work on, a final
   one that pins a skill and a final one that pins none. *)
EXTENDS JobBoard, TLC

CONSTANTS j1, j2, j3, work, report, done, round

MCDeps   == {{}, {j1}}
MCNoDeps == {{}}

(* Four scenes the run on the board looks at, which share their beginnings: a
   round of two jobs with a session each; the overlapping sessions of one job,
   whose last node has work to do; two jobs asked about; a family of three,
   cancelled. *)
Stand(nodes)   == \A j \in Born(row) : row[j].node \in nodes
Endings(kinds) == \A s \in DOMAIN session : session[s].status \in kinds \cup {"open"}
NoParents      == \A j \in Born(row) : row[j].parent = NoJob
NoDeps         == \A j \in Born(row) : row[j].deps = {}
Drafts         == {s \in DOMAIN session : session[s].draft}
NoRounds       == \A j \in Born(row) : row[j].round = NoRound

Rounds ==
  /\ Cardinality(Born(row)) <= 2 /\ NoParents /\ Stand({work, report})
  /\ Len(session) <= 2 /\ Endings({"completed", "no_output", "failed"})
  /\ \A s, t \in DOMAIN session : s # t => session[s].job # session[t].job
  /\ \A s \in DOMAIN session : session[s].node # done
  /\ question = << >> /\ finishing = {} /\ Drafts = {} /\ Cardinality(cancelled) <= 1
  /\ Len(session) = 2 => NoDeps /\ cancelled = {}

Overlap ==
  /\ Cardinality(Born(row)) <= 1 /\ Stand({work, report})
  /\ Endings({"completed", "failed", "refused"})
  /\ \A s \in DOMAIN session : session[s].node # done
  /\ (\A j \in Job : lease[j] = "free") /\ question = << >> /\ cancelled = {}
  /\ \/ NoRounds /\ Stand({work}) /\ Cardinality(Drafts) <= 1
     \/ finishing = {} /\ Drafts = {}

Asked  == /\ Cardinality(Born(row)) <= 2 /\ session = << >> /\ Stand({work, done})
          /\ NoRounds /\ NoDeps
Family == /\ session = << >> /\ question = << >> /\ Stand({work, done})
          /\ NoRounds /\ NoDeps

(* Ids are given out in order. *)
InTurn == Born(row) \in {{}, {j1}, {j1, j2}, {j1, j2, j3}}

Scene == InTurn /\ (Rounds \/ Overlap \/ Asked \/ Family)

=============================================================================
