--------------------------- MODULE JobBoard_proofs ---------------------------
(* Theorems about JobBoard, for any jobs, rounds, graph, ceiling and bounds. *)
EXTENDS JobBoard, FiniteSetTheorems, FunctionTheorems, SequenceTheorems, TLAPS

(* A row of the table is a job, or was never written. *)
LEMMA BornRow ==
  ASSUME TypeOK, NEW j \in Born(row)
  PROVE  j \in Job /\ row[j] \in JobRow
  BY DEF TypeOK, Born, NoRow

(* Written or not, a row names a round or none. *)
LEMMA RoundOfRow ==
  ASSUME TypeOK, NEW j \in Job
  PROVE  row[j].round \in Round \cup {NoRound}
  <1>1. row[j] \in JobRow \/ row[j] = NoRow
    BY DEF TypeOK
  <1>2. CASE row[j] \in JobRow
    BY <1>2 DEF JobRow
  <1>3. CASE row[j] = NoRow
    BY <1>3 DEF NoRow
  <1> QED
    BY <1>1, <1>2, <1>3

(* Whoever looks at a round, and over whatever tables, writes at most its first
   event. *)
LEMMA AnnounceCounts ==
  ASSUME announced \in [Round -> Nat], NEW r \in Round \cup {NoRound},
         NEW tab, NEW ses, NEW held, Announce(r, tab, ses, held)
  PROVE  /\ announced' \in [Round -> Nat]
         /\ RoundEndsOnce => RoundEndsOnce'
  BY JobBoardAssumption DEF Announce, RoundEndsOnce

(* The flag of a job is all that Block, Unblock, Ask and Answer write. *)
LEMMA FlagType ==
  ASSUME TypeOK, NEW j \in Born(row), NEW flag \in BOOLEAN
  PROVE  /\ [row EXCEPT ![j].blocked = flag] \in [Job -> JobRow \cup {NoRow}]
         /\ Born([row EXCEPT ![j].blocked = flag]) = Born(row)
  <1>1. j \in Job /\ row[j] \in JobRow
    BY BornRow
  <1>2. [row[j] EXCEPT !.blocked = flag] \in JobRow
    BY <1>1 DEF JobRow
  <1> QED
    BY <1>1, <1>2 DEF TypeOK, Born, JobRow

(* A session that closes or takes a draft keeps the type of its row. *)
LEMMA SessionWritten ==
  ASSUME TypeOK, NEW s \in DOMAIN session, NEW new \in SessionRow
  PROVE  /\ [session EXCEPT ![s] = new] \in Seq(SessionRow)
         /\ DOMAIN [session EXCEPT ![s] = new] = DOMAIN session
         /\ \A t \in DOMAIN session :
              [session EXCEPT ![s] = new][t] = IF t = s THEN new ELSE session[t]
  BY LenProperties, ExceptSeq DEF TypeOK

(* A question keeps the type of its row, and every other one is left alone. *)
LEMMA QuestionWritten ==
  ASSUME TypeOK, NEW q \in DOMAIN question, NEW new \in QuestionRow
  PROVE  /\ [question EXCEPT ![q] = new] \in Seq(QuestionRow)
         /\ DOMAIN [question EXCEPT ![q] = new] = DOMAIN question
         /\ \A t \in DOMAIN question :
              [question EXCEPT ![q] = new][t] = IF t = q THEN new ELSE question[t]
  BY LenProperties, ExceptSeq DEF TypeOK

(* A table that only grows keeps what it had. *)
LEMMA Appended ==
  ASSUME NEW S, NEW seq \in Seq(S), NEW new \in S
  PROVE  /\ Append(seq, new) \in Seq(S)
         /\ DOMAIN Append(seq, new) = 1..(Len(seq) + 1)
         /\ DOMAIN seq = 1..Len(seq) /\ Len(seq) \in Nat
         /\ Append(seq, new)[Len(seq) + 1] = new
         /\ \A t \in DOMAIN seq : Append(seq, new)[t] = seq[t]
  BY LenProperties

-----------------------------------------------------------------------------
(* Type correctness.  TypeOK is not inductive: the streak and the answer write
   the row of a job they read off a session or a question, which has to be a
   row that exists. *)

SessionsHaveJobs == \A s \in DOMAIN session : session[s].job \in Born(row)

QuestionsHaveJobs == \A q \in DOMAIN question : question[q].job \in Born(row)

BoardInv == TypeOK /\ SessionsHaveJobs /\ QuestionsHaveJobs

(* What a step owes the invariant: the tables it writes keep their type, and no
   row is ever taken away. *)
LEMMA BoardFromTables ==
  ASSUME BoardInv, Born(row) \subseteq Born(row'),
         row' \in [Job -> JobRow \cup {NoRow}],
         cancelled' \subseteq Born(row'), lease' \in [Job -> LeaseState],
         announced' \in [Round -> Nat],
         session' \in Seq(SessionRow),
         \A s \in DOMAIN session' : session'[s].job \in Born(row'),
         finishing' \subseteq (DOMAIN session') \X Verdict,
         question' \in Seq(QuestionRow),
         \A q \in DOMAIN question' : question'[q].job \in Born(row')
  PROVE  BoardInv'
  BY DEF BoardInv, TypeOK, SessionsHaveJobs, QuestionsHaveJobs

(* The actions over jobs. *)
LEMMA JobInductive ==
  ASSUME BoardInv, NEW j \in Job, JobStep(j)
  PROVE  BoardInv'
  <1>1. TypeOK /\ SessionsHaveJobs /\ QuestionsHaveJobs
    BY DEF BoardInv
  <1>2. ASSUME NEW r \in Round \cup {NoRound}, NEW n \in Node, NEW p \in Parent,
               NEW deps \in DependsOn, CreateJob(j, r, n, p, deps)
        PROVE  BoardInv'
    <2>1. [round |-> r, node |-> n, blocked |-> FALSE, parent |-> p,
           deps |-> deps, born |-> TRUE] \in JobRow
      BY <1>2, JobBoardAssumption DEF JobRow
    <2>2. row' \in [Job -> JobRow \cup {NoRow}] /\ Born(row) \subseteq Born(row')
      BY <1>1, <1>2, <2>1 DEF CreateJob, TypeOK, Born
    <2>3. announced' \in [Round -> Nat]
      BY <1>1, <1>2, AnnounceCounts DEF CreateJob, TypeOK
    <2> QED
      BY <1>1, <1>2, <2>2, <2>3, BoardFromTables
         DEF CreateJob, TypeOK, SessionsHaveJobs, QuestionsHaveJobs
  <1>3. ASSUME NEW n \in Node, Transition(j, n) PROVE BoardInv'
    <2>1. row[j] \in JobRow
      BY <1>1, <1>3, BornRow DEF Transition
    <2>2. [row[j] EXCEPT !.node = n] \in JobRow
      BY <2>1 DEF JobRow
    <2>3. row' \in [Job -> JobRow \cup {NoRow}] /\ Born(row') = Born(row)
      BY <1>1, <1>3, <2>1, <2>2 DEF Transition, TypeOK, Born, JobRow
    <2>4. row[j].round \in Round \cup {NoRound}
      BY <1>1, RoundOfRow
    <2>5. announced' \in [Round -> Nat]
      BY <1>1, <1>3, <2>4, AnnounceCounts DEF Transition, TypeOK
    <2> QED
      BY <1>1, <1>3, <2>3, <2>5, BoardFromTables
         DEF Transition, TypeOK, SessionsHaveJobs, QuestionsHaveJobs
  <1>4. ASSUME NEW n \in Node, OpenSession(j, n) PROVE BoardInv'
    <2> DEFINE new == [job |-> j, node |-> n, status |-> "open", draft |-> FALSE]
    <2>1. new \in SessionRow
      BY DEF SessionRow
    <2>2. /\ session' \in Seq(SessionRow)
          /\ DOMAIN session \subseteq DOMAIN session'
          /\ \A s \in DOMAIN session' : session'[s].job \in Born(row)
      BY <1>1, <1>4, <2>1, Appended DEF OpenSession, TypeOK, SessionsHaveJobs
    <2>3. finishing' \subseteq (DOMAIN session') \X Verdict
      BY <1>1, <1>4, <2>2 DEF OpenSession, TypeOK
    <2> QED
      BY <1>1, <1>4, <2>2, <2>3, BoardFromTables
         DEF OpenSession, TypeOK, SessionsHaveJobs, QuestionsHaveJobs
  <1>5. CASE Block(j)
    BY <1>1, <1>5, FlagType, BoardFromTables
       DEF Block, TypeOK, SessionsHaveJobs, QuestionsHaveJobs
  <1>6. CASE Unblock(j)
    BY <1>1, <1>6, FlagType, BoardFromTables
       DEF Unblock, TypeOK, SessionsHaveJobs, QuestionsHaveJobs
  <1>7. CASE Cancel(j)
    <2>1. Cascade(j) \subseteq Born(row)
      BY DEF Cascade
    <2> QED
      BY <1>1, <1>7, <2>1, BoardFromTables
         DEF Cancel, TypeOK, SessionsHaveJobs, QuestionsHaveJobs
  <1>8. CASE Ask(j)
    <2> DEFINE new == [job |-> j, status |-> "pending", answers |-> 0]
    <2>1. new \in QuestionRow
      BY DEF QuestionRow
    <2>2. row' \in [Job -> JobRow \cup {NoRow}] /\ Born(row') = Born(row)
      BY <1>1, <1>8, FlagType DEF Ask
    <2>3. /\ question' \in Seq(QuestionRow)
          /\ \A q \in DOMAIN question' : question'[q].job \in Born(row)
      BY <1>1, <1>8, <2>1, Appended DEF Ask, TypeOK, QuestionsHaveJobs
    <2> QED
      BY <1>1, <1>8, <2>2, <2>3, BoardFromTables
         DEF Ask, TypeOK, SessionsHaveJobs, QuestionsHaveJobs
  <1>9. CASE GrantLease(j)
    <2>1. lease' \in [Job -> LeaseState]
      BY <1>1, <1>9 DEF GrantLease, TypeOK, LeaseState
    <2> QED
      BY <1>1, <1>9, <2>1, BoardFromTables
         DEF GrantLease, TypeOK, SessionsHaveJobs, QuestionsHaveJobs
  <1>10. CASE ExpireLease(j)
    <2>1. lease' \in [Job -> LeaseState]
      BY <1>1, <1>10 DEF ExpireLease, TypeOK, LeaseState
    <2> QED
      BY <1>1, <1>10, <2>1, BoardFromTables
         DEF ExpireLease, TypeOK, SessionsHaveJobs, QuestionsHaveJobs
  <1>11. CASE ReleaseLease(j)
    <2>1. lease' \in [Job -> LeaseState]
      BY <1>1, <1>11 DEF ReleaseLease, TypeOK, LeaseState
    <2>2. row[j].round \in Round \cup {NoRound}
      BY <1>1, RoundOfRow
    <2>3. announced' \in [Round -> Nat]
      BY <1>1, <1>11, <2>2, AnnounceCounts DEF ReleaseLease, TypeOK
    <2> QED
      BY <1>1, <1>11, <2>1, <2>3, BoardFromTables
         DEF ReleaseLease, TypeOK, SessionsHaveJobs, QuestionsHaveJobs
  <1> QED
    BY <1>2, <1>3, <1>4, <1>5, <1>6, <1>7, <1>8, <1>9, <1>10,
       <1>11 DEF JobStep

(* What a close writes: one session of the same job, the job's flag perhaps, and
   the round's event perhaps. *)
LEMMA CloseWrites ==
  ASSUME BoardInv, NEW s \in DOMAIN session, NEW verdict \in Outcome,
         Close(s, verdict)
  PROVE  /\ session' \in Seq(SessionRow)
         /\ DOMAIN session' = DOMAIN session
         /\ \A t \in DOMAIN session :
              /\ session'[t].job = session[t].job
              /\ t # s => session'[t] = session[t]
         /\ ~session'[s].draft
         /\ row' \in [Job -> JobRow \cup {NoRow}]
         /\ Born(row') = Born(row)
         /\ announced' \in [Round -> Nat]
         /\ RoundEndsOnce => RoundEndsOnce'
  <1> DEFINE new == [session[s] EXCEPT !.status = verdict, !.draft = FALSE]
             j   == session[s].job
  <1>1. TypeOK /\ j \in Born(row)
    BY DEF BoardInv, SessionsHaveJobs
  <1>2. session[s] \in SessionRow
    BY <1>1, LenProperties DEF TypeOK
  <1>3. new \in SessionRow /\ new.job = j /\ new.draft = FALSE
    BY <1>2, OutcomeAssumption DEF SessionRow
  <1>4. session' = [session EXCEPT ![s] = new]
    BY DEF Close
  <1>5. /\ session' \in Seq(SessionRow)
        /\ DOMAIN session' = DOMAIN session
        /\ \A t \in DOMAIN session :
             session'[t] = IF t = s THEN new ELSE session[t]
    <2> HIDE DEF new
    <2> QED
      BY <1>1, <1>3, <1>4, SessionWritten
  <1>6. row' \in [Job -> JobRow \cup {NoRow}] /\ Born(row') = Born(row)
    <2>1. row' = row \/ row' = [row EXCEPT ![j].blocked = TRUE]
      BY DEF Close, BlockOnStreak
    <2>2. CASE row' = row
      BY <1>1, <2>2 DEF TypeOK, Born
    <2>3. CASE row' = [row EXCEPT ![j].blocked = TRUE]
      <3> HIDE DEF j
      <3> QED
        BY <1>1, <2>3, FlagType
    <2> QED
      BY <2>1, <2>2, <2>3
  <1>7. row[j].round \in Round \cup {NoRound}
    BY <1>1, RoundOfRow, BornRow
  <1>8. announced' \in [Round -> Nat] /\ (RoundEndsOnce => RoundEndsOnce')
    BY <1>1, <1>7, AnnounceCounts DEF Close, TypeOK
  <1> QED
    BY <1>3, <1>5, <1>6, <1>8

(* The actions over sessions. *)
LEMMA SessionInductive ==
  ASSUME BoardInv, NEW s \in DOMAIN session, SessionStep(s)
  PROVE  BoardInv'
  <1>1. TypeOK /\ SessionsHaveJobs /\ QuestionsHaveJobs
    BY DEF BoardInv
  <1>2. CASE WriteDraft(s)
    <2> DEFINE new == [session[s] EXCEPT !.draft = TRUE]
    <2>1. session[s] \in SessionRow
      BY <1>1, LenProperties DEF TypeOK
    <2>2. new \in SessionRow /\ new.job = session[s].job
      BY <2>1 DEF SessionRow
    <2>3. session' = [session EXCEPT ![s] = new]
      BY <1>2 DEF WriteDraft
    <2>4. /\ session' \in Seq(SessionRow)
          /\ DOMAIN session' = DOMAIN session
          /\ \A t \in DOMAIN session : session'[t].job = session[t].job
      <3> HIDE DEF new
      <3> QED
        BY <1>1, <2>2, <2>3, SessionWritten
    <2> QED
      BY <1>1, <1>2, <2>4, BoardFromTables
         DEF WriteDraft, TypeOK, SessionsHaveJobs, QuestionsHaveJobs
  <1>3. ASSUME NEW verdict \in Outcome, Close(s, verdict), finishing' \subseteq finishing
        PROVE  BoardInv'
    <2>1. finishing' \subseteq (DOMAIN session') \X Verdict
      BY <1>1, <1>3, CloseWrites DEF TypeOK
    <2> QED
      BY <1>1, <1>3, <2>1, CloseWrites, BoardFromTables
         DEF Close, TypeOK, SessionsHaveJobs, QuestionsHaveJobs
  <1>4. ASSUME NEW verdict \in Outcome, Finish(s, verdict) PROVE BoardInv'
    BY <1>3, <1>4 DEF Finish
  <1>5. ASSUME NEW verdict \in Outcome, BeginFinish(s, verdict) PROVE BoardInv'
    <2>1. finishing' \subseteq (DOMAIN session) \X Verdict
      BY <1>1, <1>5, OutcomeAssumption DEF BeginFinish, TypeOK
    <2> QED
      BY <1>1, <1>5, <2>1, BoardFromTables
         DEF BeginFinish, TypeOK, SessionsHaveJobs, QuestionsHaveJobs
  <1>6. ASSUME NEW verdict \in Outcome, ResumeFinish(s, verdict) PROVE BoardInv'
    <2>1. finishing' \subseteq finishing
      BY <1>6 DEF ResumeFinish
    <2>2. CASE Close(s, verdict)
      BY <1>3, <2>1, <2>2
    <2>3. CASE UNCHANGED <<row, cancelled, lease, session, question, announced>>
      BY <1>1, <2>1, <2>3, BoardFromTables
         DEF TypeOK, SessionsHaveJobs, QuestionsHaveJobs
    <2> QED
      BY <1>6, <2>2, <2>3 DEF ResumeFinish
  <1> QED
    BY <1>2, <1>4, <1>5, <1>6 DEF SessionStep

(* An answer. *)
LEMMA AnswerInductive ==
  ASSUME BoardInv, NEW q \in DOMAIN question, Answer(q)
  PROVE  BoardInv'
  <1> DEFINE new == [question[q] EXCEPT !.status = "answered", !.answers = @ + 1]
             j   == question[q].job
  <1>1. TypeOK /\ SessionsHaveJobs /\ QuestionsHaveJobs /\ j \in Born(row)
    BY DEF BoardInv, QuestionsHaveJobs
  <1>2. question[q] \in QuestionRow
    BY <1>1, LenProperties DEF TypeOK
  <1>3. new \in QuestionRow /\ new.job = j
    <2>1. question[q].answers \in Nat /\ question[q].answers + 1 \in Nat
      BY <1>2 DEF QuestionRow
    <2> DEFINE n == question[q].answers + 1
    <2> HIDE DEF n
    <2>2. [question[q] EXCEPT !.status = "answered", !.answers = n] \in QuestionRow
      BY <1>2, <2>1 DEF QuestionRow, n
    <2>3. [question[q] EXCEPT !.status = "answered", !.answers = n].job = j
      BY <1>2 DEF QuestionRow
    <2> QED
      BY <2>2, <2>3 DEF n
  <1>4. question' = [question EXCEPT ![q] = new]
    BY DEF Answer
  <1>5. /\ question' \in Seq(QuestionRow)
        /\ DOMAIN question' = DOMAIN question
        /\ \A t \in DOMAIN question : question'[t].job = question[t].job
    <2> HIDE DEF new
    <2> QED
      BY <1>1, <1>3, <1>4, QuestionWritten
  <1>6. row' = [row EXCEPT ![j].blocked = FALSE]
    BY DEF Answer
  <1>7. row' \in [Job -> JobRow \cup {NoRow}] /\ Born(row') = Born(row)
    <2> HIDE DEF j
    <2> QED
      BY <1>1, <1>6, FlagType
  <1> QED
    BY <1>1, <1>5, <1>7, BoardFromTables
       DEF Answer, TypeOK, SessionsHaveJobs, QuestionsHaveJobs

(* Every handler keeps the invariant. *)
LEMMA BoardInductive == BoardInv /\ [Next]_vars => BoardInv'
  <1> SUFFICES ASSUME BoardInv, [Next]_vars PROVE BoardInv'
    OBVIOUS
  <1>1. CASE \E j \in Job : JobStep(j)
    BY <1>1, JobInductive
  <1>2. CASE \E s \in DOMAIN session : SessionStep(s)
    BY <1>2, SessionInductive
  <1>3. CASE \E q \in DOMAIN question : Answer(q)
    BY <1>3, AnswerInductive
  <1>4. CASE Restart
    BY <1>4 DEF Restart, BoardInv, TypeOK, SessionsHaveJobs, QuestionsHaveJobs
  <1>5. CASE UNCHANGED vars
    BY <1>5 DEF vars, BoardInv, TypeOK, SessionsHaveJobs, QuestionsHaveJobs
  <1> QED
    BY <1>1, <1>2, <1>3, <1>4, <1>5 DEF Next

LEMMA BoardInvariant == Spec => []BoardInv
  <1>1. Init => BoardInv
    <2> SUFFICES ASSUME Init PROVE BoardInv
      OBVIOUS
    <2>1. session \in Seq(SessionRow) /\ DOMAIN session = {}
      BY EmptySeq DEF Init
    <2>2. question \in Seq(QuestionRow) /\ DOMAIN question = {}
      BY EmptySeq DEF Init
    <2> QED
      BY <2>1, <2>2
         DEF Init, BoardInv, TypeOK, LeaseState, SessionsHaveJobs, QuestionsHaveJobs
  <1>2. BoardInv /\ [Next]_vars => BoardInv'
    BY BoardInductive
  <1> QED
    BY <1>1, <1>2, PTL DEF Spec

(* Every table of the board holds rows of its own shape, whatever the handlers'
   order. *)
THEOREM BoardTypeCorrect == Spec => []TypeOK
  <1>1. BoardInv => TypeOK
    BY DEF BoardInv
  <1> QED
    BY <1>1, BoardInvariant, PTL

-----------------------------------------------------------------------------
(* The end of a round. *)

(* Every handler that looks at a round keeps its event unique; the others do not
   write the log. *)
LEMMA RoundEndInductive == BoardInv /\ RoundEndsOnce /\ [Next]_vars => RoundEndsOnce'
  <1> SUFFICES ASSUME BoardInv, RoundEndsOnce, [Next]_vars PROVE RoundEndsOnce'
    OBVIOUS
  <1>1. TypeOK /\ announced \in [Round -> Nat]
    BY DEF BoardInv, TypeOK
  <1>2. CASE UNCHANGED announced
    BY <1>2 DEF RoundEndsOnce
  <1>3. ASSUME NEW j \in Job, NEW r \in Round \cup {NoRound}, NEW n \in Node,
               NEW p \in Parent, NEW deps \in DependsOn, CreateJob(j, r, n, p, deps)
        PROVE  RoundEndsOnce'
    BY <1>1, <1>3, AnnounceCounts DEF CreateJob
  <1>4. ASSUME NEW j \in Job, NEW n \in Node, Transition(j, n) PROVE RoundEndsOnce'
    BY <1>1, <1>4, RoundOfRow, AnnounceCounts DEF Transition
  <1>5. ASSUME NEW j \in Job, ReleaseLease(j) PROVE RoundEndsOnce'
    BY <1>1, <1>5, RoundOfRow, AnnounceCounts DEF ReleaseLease
  <1>6. ASSUME NEW s \in DOMAIN session, NEW verdict \in Outcome, Close(s, verdict)
        PROVE  RoundEndsOnce'
    BY <1>6, CloseWrites
  <1>7. ASSUME NEW j \in Job, JobStep(j) PROVE RoundEndsOnce'
    BY <1>2, <1>3, <1>4, <1>5, <1>7
       DEF JobStep, OpenSession, Block, Unblock, Cancel, Ask, GrantLease, ExpireLease
  <1>8. ASSUME NEW s \in DOMAIN session, SessionStep(s) PROVE RoundEndsOnce'
    BY <1>2, <1>6, <1>8 DEF SessionStep, WriteDraft, Finish, BeginFinish, ResumeFinish
  <1> QED
    BY <1>2, <1>7, <1>8 DEF Next, Answer, Restart, vars

(* However often a round comes to its end, the log says so at most once. *)
THEOREM RoundEnds == Spec => []RoundEndsOnce
  <1>1. Init => RoundEndsOnce
    BY DEF Init, RoundEndsOnce
  <1>2. BoardInv /\ RoundEndsOnce /\ [Next]_vars => RoundEndsOnce'
    BY RoundEndInductive
  <1> QED
    BY <1>1, <1>2, BoardInvariant, PTL DEF Spec

-----------------------------------------------------------------------------
(* Sessions. *)

(* What a step may do to the sessions there are: nothing, or write one that was
   open, leaving it a draft only if it stays open. *)
SessionsKept ==
  \A s \in DOMAIN session :
    /\ s \in DOMAIN session'
    /\ session'[s] # session[s] =>
         /\ session[s].status = "open"
         /\ session'[s].draft => session'[s].status = "open"

(* Sessions that appear are open and have no draft. *)
SessionsBorn ==
  \A s \in DOMAIN session' \ DOMAIN session : ~session'[s].draft

LEMMA SessionsMove == BoardInv /\ [Next]_vars => SessionsKept /\ SessionsBorn
  <1> SUFFICES ASSUME BoardInv, [Next]_vars PROVE SessionsKept /\ SessionsBorn
    OBVIOUS
  <1>1. TypeOK
    BY DEF BoardInv
  <1>2. CASE UNCHANGED session
    BY <1>2 DEF SessionsKept, SessionsBorn
  <1>3. ASSUME NEW j \in Job, NEW n \in Node, OpenSession(j, n)
        PROVE  SessionsKept /\ SessionsBorn
    <2> DEFINE new == [job |-> j, node |-> n, status |-> "open", draft |-> FALSE]
    <2>1. new \in SessionRow /\ ~new.draft
      BY DEF SessionRow
    <2>2. session' = Append(session, new) /\ session \in Seq(SessionRow)
      BY <1>1, <1>3 DEF OpenSession, TypeOK
    <2> HIDE DEF new
    <2>3. /\ DOMAIN session' = 1..(Len(session) + 1)
          /\ DOMAIN session = 1..Len(session) /\ Len(session) \in Nat
          /\ session'[Len(session) + 1] = new
          /\ \A t \in DOMAIN session : session'[t] = session[t]
      BY <2>1, <2>2, Appended
    <2> QED
      BY <2>1, <2>3 DEF SessionsKept, SessionsBorn
  <1>4. ASSUME NEW s \in DOMAIN session, WriteDraft(s)
        PROVE  SessionsKept /\ SessionsBorn
    <2> DEFINE new == [session[s] EXCEPT !.draft = TRUE]
    <2>1. session[s] \in SessionRow /\ session[s].status = "open"
      BY <1>1, <1>4, LenProperties DEF TypeOK, WriteDraft
    <2>2. new \in SessionRow /\ new.status = "open"
      BY <2>1 DEF SessionRow
    <2>3. session' = [session EXCEPT ![s] = new]
      BY <1>4 DEF WriteDraft
    <2> HIDE DEF new
    <2> QED
      BY <1>1, <2>1, <2>2, <2>3, SessionWritten DEF SessionsKept, SessionsBorn
  <1>5. ASSUME NEW s \in DOMAIN session, NEW verdict \in Outcome, Close(s, verdict)
        PROVE  SessionsKept /\ SessionsBorn
    BY <1>5, CloseWrites DEF Close, SessionsKept, SessionsBorn
  <1>6. ASSUME NEW j \in Job, JobStep(j) PROVE SessionsKept /\ SessionsBorn
    BY <1>2, <1>3, <1>6
       DEF JobStep, CreateJob, Transition, Block, Unblock, Cancel, Ask, GrantLease,
           ReleaseLease, ExpireLease
  <1>7. ASSUME NEW s \in DOMAIN session, SessionStep(s)
        PROVE  SessionsKept /\ SessionsBorn
    BY <1>2, <1>4, <1>5, <1>7 DEF SessionStep, Finish, BeginFinish, ResumeFinish
  <1> QED
    BY <1>2, <1>6, <1>7 DEF Next, Answer, Restart, vars

(* A draft never outlives the end of its session. *)
THEOREM DraftsDie == Spec => []DraftOnlyWhileOpen
  <1>1. Init => DraftOnlyWhileOpen
    BY EmptySeq DEF Init, DraftOnlyWhileOpen
  <1>2. BoardInv /\ DraftOnlyWhileOpen /\ [Next]_vars => DraftOnlyWhileOpen'
    BY SessionsMove DEF SessionsKept, SessionsBorn, DraftOnlyWhileOpen
  <1> QED
    BY <1>1, <1>2, BoardInvariant, PTL DEF Spec

(* No interleaving of finishes, awaited or not, ends a session twice or changes
   it after its end. *)
THEOREM SessionEnds == Spec => SessionEndsOnce
  <1>1. BoardInv /\ DraftOnlyWhileOpen /\ [Next]_vars =>
          [\A s \in DOMAIN session :
             session[s].status # "open" =>
               session'[s] = session[s] /\ ~session[s].draft]_vars
    BY SessionsMove DEF SessionsKept, DraftOnlyWhileOpen
  <1> QED
    BY <1>1, BoardInvariant, DraftsDie, PTL DEF Spec, SessionEndsOnce

-----------------------------------------------------------------------------
(* Questions. *)

(* An answer writes a pending question; a question appears with no answer; no
   other step writes the table. *)
LEMMA AnswersInductive ==
  BoardInv /\ OneAnswerPerQuestion /\ [Next]_vars => OneAnswerPerQuestion'
  <1> SUFFICES ASSUME BoardInv, OneAnswerPerQuestion, [Next]_vars
               PROVE  OneAnswerPerQuestion'
    OBVIOUS
  <1>1. TypeOK
    BY DEF BoardInv
  <1>2. CASE UNCHANGED question
    BY <1>2 DEF OneAnswerPerQuestion
  <1>3. ASSUME NEW j \in Job, Ask(j) PROVE OneAnswerPerQuestion'
    <2> DEFINE new == [job |-> j, status |-> "pending", answers |-> 0]
    <2>1. /\ new \in QuestionRow
          /\ new.answers = IF new.status = "answered" THEN 1 ELSE 0
      BY DEF QuestionRow
    <2>2. question' = Append(question, new) /\ question \in Seq(QuestionRow)
      BY <1>1, <1>3 DEF Ask, TypeOK
    <2> HIDE DEF new
    <2>3. /\ DOMAIN question' = 1..(Len(question) + 1)
          /\ DOMAIN question = 1..Len(question) /\ Len(question) \in Nat
          /\ question'[Len(question) + 1] = new
          /\ \A t \in DOMAIN question : question'[t] = question[t]
      BY <2>1, <2>2, Appended
    <2> QED
      BY <2>1, <2>3 DEF OneAnswerPerQuestion
  <1>4. ASSUME NEW q \in DOMAIN question, Answer(q) PROVE OneAnswerPerQuestion'
    <2> DEFINE new == [question[q] EXCEPT !.status = "answered", !.answers = @ + 1]
    <2>1. question[q] \in QuestionRow /\ question[q].status = "pending"
      BY <1>1, <1>4, LenProperties DEF TypeOK, Answer, Answerable
    <2>2. question[q].answers = 0
      BY <2>1 DEF OneAnswerPerQuestion
    <2>3. new \in QuestionRow /\ new.status = "answered" /\ new.answers = 1
      <3>1. new = [question[q] EXCEPT !.status = "answered", !.answers = 1]
        BY <2>1, <2>2 DEF QuestionRow
      <3> HIDE DEF new
      <3> QED
        BY <2>1, <3>1 DEF QuestionRow
    <2>4. question' = [question EXCEPT ![q] = new]
      BY <1>4 DEF Answer
    <2> HIDE DEF new
    <2> QED
      BY <1>1, <2>3, <2>4, QuestionWritten DEF OneAnswerPerQuestion
  <1>5. ASSUME NEW j \in Job, JobStep(j) PROVE OneAnswerPerQuestion'
    BY <1>2, <1>3, <1>5
       DEF JobStep, CreateJob, Transition, OpenSession, Block, Unblock, Cancel,
           GrantLease, ReleaseLease, ExpireLease
  <1>6. ASSUME NEW s \in DOMAIN session, SessionStep(s) PROVE OneAnswerPerQuestion'
    BY <1>2, <1>6
       DEF SessionStep, WriteDraft, Finish, BeginFinish, ResumeFinish, Close
  <1> QED
    BY <1>2, <1>4, <1>5, <1>6 DEF Next, Restart, vars

(* A person and the gate never both answer a question. *)
THEOREM AnsweredOnce == Spec => []OneAnswerPerQuestion
  <1>1. Init => OneAnswerPerQuestion
    BY EmptySeq DEF Init, OneAnswerPerQuestion
  <1>2. BoardInv /\ OneAnswerPerQuestion /\ [Next]_vars => OneAnswerPerQuestion'
    BY AnswersInductive
  <1> QED
    BY <1>1, <1>2, BoardInvariant, PTL DEF Spec

-----------------------------------------------------------------------------
(* What the event of a round's end says. *)

(* The announcement writes only what it found ended. *)
LEMMA AnnounceIsTrue ==
  ASSUME announced \in [Round -> Nat], NEW r \in Round, NEW q \in Round \cup {NoRound},
         NEW tab, NEW ses, NEW held, Announce(q, tab, ses, held)
  PROVE  /\ announced'[r] # announced[r] => q = r /\ Ended(tab, ses, held, r)
         /\ q = r /\ Ended(tab, ses, held, r) => announced'[r] # 0
  BY JobBoardAssumption DEF Announce

(* A close leaves the job's row as it was or raises its flag. *)
LEMMA CloseFlag ==
  ASSUME BoardInv, NEW s \in DOMAIN session, NEW verdict \in Outcome,
         Close(s, verdict)
  PROVE  LET j == session[s].job IN
         /\ j \in Born(row)
         /\ \A k \in Job : k # j => row'[k] = row[k]
         /\ row'[j].round = row[j].round /\ row'[j].node = row[j].node
         /\ row' = row \/ (row'[j].blocked /\ ~row[j].blocked)
  <1> DEFINE j == session[s].job
  <1>1. TypeOK /\ j \in Born(row)
    BY DEF BoardInv, SessionsHaveJobs
  <1>2. j \in Job /\ row[j] \in JobRow
    BY <1>1, BornRow
  <1>3. row' = row \/ row' = [row EXCEPT ![j].blocked = TRUE]
    BY DEF Close, BlockOnStreak
  <1>4. CASE row' = [row EXCEPT ![j].blocked = TRUE] /\ row[j].blocked
    <2>1. [row[j] EXCEPT !.blocked = TRUE] = row[j]
      BY <1>2, <1>4 DEF JobRow
    <2>2. row' = row
      <3> HIDE DEF j
      <3> QED
        BY <1>1, <1>2, <1>4, <2>1 DEF TypeOK
    <2> QED
      BY <1>1, <2>2
  <1>5. CASE row' = [row EXCEPT ![j].blocked = TRUE] /\ ~row[j].blocked
    <2> HIDE DEF j
    <2>1. /\ row'[j] = [row[j] EXCEPT !.blocked = TRUE]
          /\ \A k \in Job : k # j => row'[k] = row[k]
      BY <1>1, <1>2, <1>5 DEF TypeOK
    <2>2. /\ row'[j].round = row[j].round /\ row'[j].node = row[j].node
          /\ row'[j].blocked = TRUE
      BY <1>2, <2>1 DEF JobRow
    <2> QED
      BY <1>1, <1>5, <2>1, <2>2 DEF j
  <1>6. CASE row' = row
    BY <1>1, <1>6
  <1> QED
    BY <1>3, <1>4, <1>5, <1>6

(* The log never says of a round that it ended while a job of it was on its way,
   but for the flag a finish raises right after it has looked. *)
THEOREM EndTrue == Spec => EndIsTrue
  <1>1. BoardInv /\ [Next]_vars =>
          [\A r \in Round : announced'[r] # announced[r] =>
             RaisesAFlag \/ Ended(row', session', lease', r)]_vars
    <2> SUFFICES ASSUME BoardInv, [Next]_vars, NEW r \in Round,
                        announced'[r] # announced[r]
                 PROVE  RaisesAFlag \/ Ended(row', session', lease', r)
      OBVIOUS
    <2>1. TypeOK /\ announced \in [Round -> Nat]
      BY DEF BoardInv, TypeOK
    <2>2. ASSUME NEW j \in Job, NEW q \in Round \cup {NoRound}, NEW n \in Node,
                 NEW p \in Parent, NEW deps \in DependsOn, CreateJob(j, q, n, p, deps)
          PROVE  Ended(row', session', lease', r)
      BY <2>1, <2>2, AnnounceIsTrue DEF CreateJob
    <2>3. ASSUME NEW j \in Job, NEW n \in Node, Transition(j, n)
          PROVE  Ended(row', session', lease', r)
      BY <2>1, <2>3, RoundOfRow, AnnounceIsTrue DEF Transition
    <2>4. ASSUME NEW j \in Job, ReleaseLease(j)
          PROVE  Ended(row', session', lease', r)
      BY <2>1, <2>4, RoundOfRow, AnnounceIsTrue DEF ReleaseLease
    <2>5. ASSUME NEW s \in DOMAIN session, NEW verdict \in Outcome, Close(s, verdict)
          PROVE  RaisesAFlag \/ Ended(row', session', lease', r)
      <3>1. /\ session[s].job \in Job
            /\ row[session[s].job].round \in Round \cup {NoRound}
        BY <2>1, <2>5, CloseFlag, BornRow, RoundOfRow
      <3>2. Ended(row, session', lease, r)
        BY <2>1, <2>5, <3>1, AnnounceIsTrue DEF Close
      <3> QED
        BY <2>5, <3>1, <3>2, CloseFlag DEF Close, RaisesAFlag
    <2>6. ASSUME NEW j \in Job, JobStep(j)
          PROVE  Ended(row', session', lease', r)
      BY <2>2, <2>3, <2>4, <2>6
         DEF JobStep, OpenSession, Block, Unblock, Cancel, Ask, GrantLease, ExpireLease
    <2>7. ASSUME NEW s \in DOMAIN session, SessionStep(s)
          PROVE  RaisesAFlag \/ Ended(row', session', lease', r)
      BY <2>5, <2>7 DEF SessionStep, WriteDraft, Finish, BeginFinish, ResumeFinish
    <2> QED
      BY <2>6, <2>7 DEF Next, Answer, Restart, vars
  <1> QED
    BY <1>1, BoardInvariant, PTL DEF Spec, EndIsTrue

-----------------------------------------------------------------------------
(* No round ends in silence.  Whether a round has ended is a matter of the rows,
   the sessions and the leases of its own jobs. *)

(* Some session completed job k on node n. *)
Worked(ses, k, n) ==
  \E s \in DOMAIN ses : /\ ses[s].job = k /\ ses[s].node = n
                        /\ ses[s].status = "completed"

LEMMA CompletedByWorked ==
  ASSUME NEW tab, NEW ses, NEW k
  PROVE  Completed(tab, ses, k) <=>
           /\ ~tab[k].blocked /\ tab[k].node \in Final
           /\ tab[k].node \in Working => Worked(ses, k, tab[k].node)
  BY DEF Completed, Worked

(* A step about job j moves no round that j is not of. *)
LEMMA RoundUnmoved ==
  ASSUME NEW j, NEW r \in Round,
         \A k \in Job : k # j => row'[k] = row[k] /\ lease'[k] = lease[k],
         j \notin JobsOf(row, r), j \notin JobsOf(row', r),
         \A k \in Job : \A n : k # j => (Worked(session', k, n) <=> Worked(session, k, n))
  PROVE  Ended(row', session', lease', r) <=> Ended(row, session, lease, r)
  <1>1. JobsOf(row', r) = JobsOf(row, r)
    BY DEF JobsOf, Born
  <1>2. ASSUME NEW k \in JobsOf(row, r)
        PROVE  /\ Completed(row', session', k) <=> Completed(row, session, k)
               /\ lease'[k] = lease[k]
    <2>1. k \in Job /\ k # j
      BY DEF JobsOf, Born
    <2> QED
      BY <2>1, CompletedByWorked
  <1> QED
    BY <1>1, <1>2 DEF Ended

(* Rows, sessions that completed and leases as they were: no round moves. *)
LEMMA NothingMoves ==
  ASSUME NEW r \in Round, row' = row, lease' = lease,
         \A k \in Job : \A n : Worked(session', k, n) <=> Worked(session, k, n)
  PROVE  Ended(row', session', lease', r) <=> Ended(row, session, lease, r)
  <1>1. ASSUME NEW k \in Job
        PROVE  Completed(row', session', k) <=> Completed(row, session, k)
    BY <1>1, CompletedByWorked
  <1> QED
    BY <1>1 DEF Ended, JobsOf, Born

(* A raised flag ends no round ... *)
LEMMA FlagRaised ==
  ASSUME TypeOK, NEW r \in Round, NEW j \in Born(row), UNCHANGED <<session, lease>>,
         row' = [row EXCEPT ![j].blocked = TRUE],
         Ended(row', session', lease', r)
  PROVE  Ended(row, session, lease, r)
  <1>1. j \in Job /\ row[j] \in JobRow
    BY BornRow
  <1>2. /\ row'[j] = [row[j] EXCEPT !.blocked = TRUE]
        /\ \A k \in Job : k # j => row'[k] = row[k]
    BY <1>1 DEF TypeOK
  <1>3. row'[j].blocked = TRUE /\ row'[j].round = row[j].round
    <2>1. PICK x \in JobRow : x = row[j]
      BY <1>1
    <2>2. PICK y : y = [x EXCEPT !.blocked = TRUE]
      OBVIOUS
    <2>3. y.blocked = TRUE /\ y.round = x.round
      BY <2>2 DEF JobRow
    <2> QED
      BY <1>2, <2>1, <2>2, <2>3
  <1>4. j \notin JobsOf(row', r)
    BY <1>3 DEF Ended, Completed
  <1>5. j \notin JobsOf(row, r)
    <2>1. j \in Born(row')
      BY FlagType DEF Born
    <2> QED
      BY <1>3, <1>4, <2>1 DEF JobsOf
  <1>6. session' = session /\ lease' = lease
    OBVIOUS
  <1> QED
    BY <1>2, <1>4, <1>5, <1>6, RoundUnmoved

(* ... and a lowered one that was not up changes nothing. *)
LEMMA FlagLowered ==
  ASSUME TypeOK, NEW j \in Born(row), row' = [row EXCEPT ![j].blocked = FALSE],
         ~LowersAFlag
  PROVE  row' = row
  <1>1. j \in Job /\ row[j] \in JobRow
    BY BornRow
  <1>2. row'[j] = [row[j] EXCEPT !.blocked = FALSE]
    BY <1>1 DEF TypeOK
  <1>3. row'[j].blocked = FALSE
    BY <1>1, <1>2 DEF JobRow
  <1>4. row[j].blocked = FALSE
    <2>1. row[j].blocked \in BOOLEAN
      BY <1>1 DEF JobRow
    <2> QED
      BY <1>1, <1>3, <2>1 DEF LowersAFlag
  <1>5. [row[j] EXCEPT !.blocked = FALSE] = row[j]
    BY <1>1, <1>4 DEF JobRow
  <1> QED
    BY <1>1, <1>5 DEF TypeOK

(* A session that opens or takes a draft completes nobody's work. *)
LEMMA OpenWorks ==
  ASSUME TypeOK, NEW j \in Job, NEW m \in Node, OpenSession(j, m)
  PROVE  \A k \in Job : \A n : Worked(session', k, n) <=> Worked(session, k, n)
  <1> DEFINE new == [job |-> j, node |-> m, status |-> "open", draft |-> FALSE]
  <1>1. new \in SessionRow /\ new.status = "open"
    BY DEF SessionRow
  <1>2. session' = Append(session, new) /\ session \in Seq(SessionRow)
    BY DEF OpenSession, TypeOK
  <1> HIDE DEF new
  <1>3. /\ DOMAIN session' = 1..(Len(session) + 1)
        /\ DOMAIN session = 1..Len(session) /\ Len(session) \in Nat
        /\ session'[Len(session) + 1] = new
        /\ \A t \in DOMAIN session : session'[t] = session[t]
    BY <1>1, <1>2, Appended
  <1>4. /\ DOMAIN session \subseteq DOMAIN session'
        /\ \A t \in DOMAIN session' : t \notin DOMAIN session => session'[t] = new
    BY <1>3
  <1> QED
    BY <1>1, <1>3, <1>4 DEF Worked

LEMMA DraftWorks ==
  ASSUME TypeOK, NEW s \in DOMAIN session, WriteDraft(s)
  PROVE  \A k \in Job : \A n : Worked(session', k, n) <=> Worked(session, k, n)
  <1> DEFINE new == [session[s] EXCEPT !.draft = TRUE]
  <1>1. session[s] \in SessionRow
    BY LenProperties DEF TypeOK
  <1>2. /\ new \in SessionRow /\ new.status = session[s].status
        /\ new.job = session[s].job /\ new.node = session[s].node
    BY <1>1 DEF SessionRow
  <1>3. session' = [session EXCEPT ![s] = new]
    BY DEF WriteDraft
  <1> HIDE DEF new
  <1>4. /\ DOMAIN session' = DOMAIN session
        /\ \A t \in DOMAIN session : session'[t] = IF t = s THEN new ELSE session[t]
    BY <1>2, <1>3, SessionWritten
  <1> QED
    BY <1>2, <1>4 DEF Worked

(* One that closes completes only the work of its own job. *)
LEMMA CloseWorks ==
  ASSUME BoardInv, NEW s \in DOMAIN session, NEW verdict \in Outcome,
         Close(s, verdict)
  PROVE  \A k \in Job : \A n : k # session[s].job =>
           (Worked(session', k, n) <=> Worked(session, k, n))
  <1>1. /\ DOMAIN session' = DOMAIN session
        /\ \A t \in DOMAIN session : /\ session'[t].job = session[t].job
                                     /\ t # s => session'[t] = session[t]
    BY CloseWrites
  <1> QED
    BY <1>1 DEF Worked

(* The steps about jobs. *)
LEMMA JobEndsAloud ==
  ASSUME BoardInv, NEW j \in Job, JobStep(j), NEW r \in Round, EndsNow(r)
  PROVE  announced'[r] # 0 \/ LosesALease \/ LowersAFlag
  <1> DEFINE Aloud == announced'[r] # 0 \/ LosesALease \/ LowersAFlag
  <1>1. TypeOK /\ announced \in [Round -> Nat]
    BY DEF BoardInv, TypeOK
  <1>2. ~Ended(row, session, lease, r) /\ Ended(row', session', lease', r)
    BY DEF EndsNow
  <1>3. ASSUME NEW q \in Round \cup {NoRound}, NEW n \in Node, NEW p \in Parent,
               NEW deps \in DependsOn, CreateJob(j, q, n, p, deps)
        PROVE  Aloud
    <2> DEFINE new == [round |-> q, node |-> n, blocked |-> FALSE, parent |-> p,
                       deps |-> deps, born |-> TRUE]
    <2>1. /\ row' = [row EXCEPT ![j] = new] /\ j \notin Born(row)
          /\ session' = session /\ lease' = lease
          /\ Announce(q, row', session, lease)
      BY <1>3 DEF CreateJob
    <2>2. new.round = q
      OBVIOUS
    <2> HIDE DEF new
    <2>3. row'[j] = new /\ \A k \in Job : k # j => row'[k] = row[k]
      BY <1>1, <2>1 DEF TypeOK
    <2>4. CASE q = r
      BY <1>1, <1>2, <2>1, <2>4, AnnounceIsTrue
    <2>5. CASE q # r
      <3>1. j \notin JobsOf(row, r) /\ j \notin JobsOf(row', r)
        BY <2>1, <2>2, <2>3, <2>5 DEF JobsOf
      <3> QED
        BY <1>2, <2>1, <2>3, <3>1, RoundUnmoved
    <2> QED
      BY <2>4, <2>5
  <1>4. ASSUME NEW n \in Node, Transition(j, n)
        PROVE  Aloud
    <2>1. /\ row' = [row EXCEPT ![j].node = n] /\ row[j] \in JobRow
          /\ session' = session /\ lease' = lease
          /\ Announce(row[j].round, row', session, lease)
          /\ row[j].round \in Round \cup {NoRound}
      BY <1>1, <1>4, BornRow, RoundOfRow DEF Transition
    <2>2. /\ row'[j] = [row[j] EXCEPT !.node = n]
          /\ \A k \in Job : k # j => row'[k] = row[k]
      BY <1>1, <2>1 DEF TypeOK
    <2>3. row'[j].round = row[j].round
      BY <2>1, <2>2 DEF JobRow
    <2>4. CASE row[j].round = r
      BY <1>1, <1>2, <2>1, <2>4, AnnounceIsTrue
    <2>5. CASE row[j].round # r
      <3>1. j \notin JobsOf(row, r) /\ j \notin JobsOf(row', r)
        BY <2>3, <2>5 DEF JobsOf
      <3> QED
        BY <1>2, <2>1, <2>2, <3>1, RoundUnmoved
    <2> QED
      BY <2>4, <2>5
  <1>5. ASSUME NEW n \in Node, OpenSession(j, n) PROVE Aloud
    BY <1>1, <1>2, <1>5, OpenWorks, NothingMoves DEF OpenSession
  <1>6. ASSUME Block(j) \/ Ask(j) PROVE Aloud
    BY <1>1, <1>2, <1>6, FlagRaised DEF Block, Ask
  <1>7. CASE Unblock(j)
    BY <1>1, <1>2, <1>7, FlagLowered DEF Unblock
  <1>8. CASE Cancel(j)
    BY <1>2, <1>8 DEF Cancel
  <1>9. CASE GrantLease(j)
    <2>1. /\ row' = row /\ session' = session
          /\ lease'[j] = "active" /\ \A k \in Job : k # j => lease'[k] = lease[k]
      BY <1>1, <1>9 DEF GrantLease, TypeOK
    <2>2. j \notin JobsOf(row', r)
      BY <1>2, <2>1 DEF Ended
    <2>3. j \notin JobsOf(row, r)
      BY <2>1, <2>2
    <2> QED
      BY <1>2, <2>1, <2>2, <2>3, RoundUnmoved
  <1>10. CASE ReleaseLease(j)
    <2>1. /\ row' = row /\ session' = session
          /\ Announce(row[j].round, row, session, lease')
          /\ row[j].round \in Round \cup {NoRound}
          /\ \A k \in Job : k # j => lease'[k] = lease[k]
      BY <1>1, <1>10, RoundOfRow DEF ReleaseLease, TypeOK
    <2>2. CASE row[j].round = r
      BY <1>1, <1>2, <2>1, <2>2, AnnounceIsTrue
    <2>3. CASE row[j].round # r
      <3>1. j \notin JobsOf(row, r) /\ j \notin JobsOf(row', r)
        BY <2>1, <2>3 DEF JobsOf
      <3> QED
        BY <1>2, <2>1, <3>1, RoundUnmoved
    <2> QED
      BY <2>2, <2>3
  <1>11. CASE ExpireLease(j)
    BY <1>1, <1>11 DEF ExpireLease, LosesALease, TypeOK
  <1> QED
    BY <1>3, <1>4, <1>5, <1>6, <1>7, <1>8, <1>9, <1>10, <1>11 DEF JobStep

(* A session's end looks at its job's round, whatever the streak then does. *)
LEMMA CloseEndsAloud ==
  ASSUME BoardInv, NEW s \in DOMAIN session, NEW verdict \in Outcome,
         Close(s, verdict), NEW r \in Round, EndsNow(r)
  PROVE  announced'[r] # 0
  <1> DEFINE j == session[s].job
  <1>1. TypeOK /\ announced \in [Round -> Nat] /\ lease' = lease
    BY DEF BoardInv, TypeOK, Close
  <1>2. ~Ended(row, session, lease, r) /\ Ended(row', session', lease', r)
    BY DEF EndsNow
  <1>3. /\ j \in Born(row) /\ j \in Job
        /\ \A k \in Job : k # j => row'[k] = row[k]
        /\ row'[j].round = row[j].round
        /\ row' = row \/ row'[j].blocked
        /\ row[j].round \in Round \cup {NoRound}
    BY <1>1, CloseFlag, BornRow, RoundOfRow
  <1>4. j \in Born(row')
    BY <1>3, CloseWrites
  <1>5. \A k \in Job : \A n : k # j => (Worked(session', k, n) <=> Worked(session, k, n))
    BY CloseWorks
  <1>6. Announce(row[j].round, row, session', lease)
    BY DEF Close
  <1> HIDE DEF j
  <1>7. CASE row[j].round = r
    <2>1. row' = row
      BY <1>2, <1>3, <1>4, <1>7 DEF Ended, Completed, JobsOf
    <2> QED
      BY <1>1, <1>2, <1>3, <1>6, <1>7, <2>1, AnnounceIsTrue
  <1>8. CASE row[j].round # r
    <2>1. j \notin JobsOf(row, r) /\ j \notin JobsOf(row', r)
      BY <1>3, <1>8 DEF JobsOf
    <2> QED
      BY <1>1, <1>2, <1>3, <1>5, <2>1, RoundUnmoved
  <1> QED
    BY <1>7, <1>8

(* Whatever completes the last condition of a round says so in its own
   transaction, but for a lease that expires and a flag that is lowered. *)
THEOREM EndAnnounced == Spec => EndIsAnnounced
  <1>1. BoardInv /\ [Next]_vars =>
          [\A r \in Round : EndsNow(r) =>
             announced'[r] # 0 \/ LosesALease \/ LowersAFlag]_vars
    <2> SUFFICES ASSUME BoardInv, [Next]_vars, NEW r \in Round, EndsNow(r)
                 PROVE  announced'[r] # 0 \/ LosesALease \/ LowersAFlag
      OBVIOUS
    <2>1. TypeOK
      BY DEF BoardInv
    <2>2. ASSUME NEW s \in DOMAIN session, WriteDraft(s) PROVE FALSE
      BY <2>1, <2>2, DraftWorks, NothingMoves DEF WriteDraft, EndsNow
    <2>3. CASE UNCHANGED <<row, session, lease>>
      BY <2>3 DEF EndsNow
    <2>4. ASSUME NEW s \in DOMAIN session, SessionStep(s)
          PROVE  announced'[r] # 0
      BY <2>2, <2>3, <2>4, CloseEndsAloud
         DEF SessionStep, Finish, BeginFinish, ResumeFinish, EndsNow
    <2>5. ASSUME NEW q \in DOMAIN question, Answer(q)
          PROVE  LowersAFlag
      <3>1. /\ question[q].job \in Born(row) /\ UNCHANGED <<session, lease>>
            /\ row' = [row EXCEPT ![question[q].job].blocked = FALSE]
        BY <2>5 DEF Answer, BoardInv, QuestionsHaveJobs
      <3> QED
        BY <2>1, <3>1, FlagLowered DEF EndsNow
    <2> QED
      BY <2>3, <2>4, <2>5, JobEndsAloud DEF Next, Restart, vars
  <1> QED
    BY <1>1, BoardInvariant, PTL DEF Spec, EndIsAnnounced

-----------------------------------------------------------------------------
(* Cancellation.  Cascade(j) is a least closed set, so it is reasoned about by
   showing sets closed. *)

ClosedUnder(j, S) == j \in S /\ OpenChildren(S) \subseteq S

LEMMA CascadeLeast ==
  ASSUME NEW j \in Born(row), NEW S \in SUBSET Born(row), ClosedUnder(j, S)
  PROVE  Cascade(j) \subseteq S
  BY DEF Cascade, ClosedUnder

LEMMA CascadeClosed ==
  ASSUME NEW j \in Born(row)
  PROVE  ClosedUnder(j, Cascade(j)) /\ Cascade(j) \subseteq Born(row)
  <1>1. Cascade(j) \subseteq Born(row) /\ j \in Cascade(j)
    BY DEF Cascade
  <1>2. ASSUME NEW c \in OpenChildren(Cascade(j)), NEW S \in SUBSET Born(row),
               j \in S, OpenChildren(S) \subseteq S
        PROVE  c \in S
    <2>1. row[c].parent \in S /\ c \in Born(row) /\ Open(c)
      BY <1>2, CascadeLeast DEF OpenChildren, ClosedUnder
    <2> QED
      BY <1>2, <2>1 DEF OpenChildren
  <1>3. OpenChildren(Cascade(j)) \subseteq Born(row)
    BY DEF OpenChildren
  <1> QED
    BY <1>1, <1>2, <1>3 DEF ClosedUnder, Cascade

(* Nobody in it is completed or cancelled already ... *)
LEMMA CascadeOpen ==
  ASSUME NEW j \in Born(row), Open(j), NEW c \in Cascade(j)
  PROVE  Open(c)
  <1> DEFINE S == {j} \cup {k \in Born(row) : Open(k)}
  <1>1. S \in SUBSET Born(row) /\ ClosedUnder(j, S)
    BY DEF ClosedUnder, OpenChildren
  <1> HIDE DEF S
  <1>2. c \in S
    BY <1>1, CascadeLeast
  <1> QED
    BY <1>2 DEF S

(* ... and nobody but j hangs from outside it. *)
LEMMA CascadeBelow ==
  ASSUME NEW j \in Born(row), NEW c \in Cascade(j), row[c].parent \notin Cascade(j)
  PROVE  c = j
  <1> SUFFICES ASSUME c # j PROVE FALSE
    OBVIOUS
  <1> DEFINE S == Cascade(j) \ {c}
  <1>1. ClosedUnder(j, Cascade(j)) /\ Cascade(j) \subseteq Born(row)
    BY CascadeClosed
  <1>2. S \in SUBSET Born(row) /\ ClosedUnder(j, S)
    BY <1>1 DEF ClosedUnder, OpenChildren
  <1> HIDE DEF S
  <1>3. c \in S
    BY <1>2, CascadeLeast
  <1> QED
    BY <1>3 DEF S

(* Which steps touch the set of the cancelled, and the births. *)
LEMMA CancelMoves ==
  BoardInv /\ [Next]_vars =>
    \/ cancelled' = cancelled /\ Born(row') = Born(row)
    \/ \E j \in Job : Cancel(j)
    \/ \E j \in Job, r \in Round \cup {NoRound}, n \in Node, p \in Parent,
          deps \in DependsOn : CreateJob(j, r, n, p, deps)
  <1> SUFFICES ASSUME BoardInv, [Next]_vars,
                      ~(\E j \in Job : Cancel(j)),
                      ~(\E j \in Job, r \in Round \cup {NoRound}, n \in Node,
                           p \in Parent, deps \in DependsOn :
                             CreateJob(j, r, n, p, deps))
               PROVE  cancelled' = cancelled /\ Born(row') = Born(row)
    OBVIOUS
  <1>1. TypeOK
    BY DEF BoardInv
  <1>2. CASE UNCHANGED <<row, cancelled>>
    BY <1>2 DEF Born
  <1>3. ASSUME NEW j \in Job, NEW n \in Node, Transition(j, n)
        PROVE  cancelled' = cancelled /\ Born(row') = Born(row)
    <2>1. row[j] \in JobRow /\ row' = [row EXCEPT ![j].node = n]
      BY <1>1, <1>3, BornRow DEF Transition
    <2>2. row'[j] = [row[j] EXCEPT !.node = n] /\ \A k \in Job : k # j => row'[k] = row[k]
      BY <1>1, <2>1 DEF TypeOK
    <2>3. row'[j].born = row[j].born
      BY <2>1, <2>2 DEF JobRow
    <2> QED
      BY <1>3, <2>2, <2>3 DEF Transition, Born
  <1>4. ASSUME NEW j \in Job, JobStep(j)
        PROVE  cancelled' = cancelled /\ Born(row') = Born(row)
    <2>1. ASSUME Block(j) \/ Unblock(j) \/ Ask(j)
          PROVE  cancelled' = cancelled /\ Born(row') = Born(row)
      <3>1. /\ cancelled' = cancelled /\ j \in Born(row)
            /\ \/ row' = [row EXCEPT ![j].blocked = TRUE]
               \/ row' = [row EXCEPT ![j].blocked = FALSE]
        BY <2>1 DEF Block, Unblock, Ask
      <3>2. \A flag \in BOOLEAN : Born([row EXCEPT ![j].blocked = flag]) = Born(row)
        BY <1>1, <3>1, FlagType
      <3> QED
        BY <3>1, <3>2
    <2> QED
      BY <1>2, <1>3, <1>4, <2>1
         DEF JobStep, OpenSession, GrantLease, ReleaseLease, ExpireLease
  <1>5. ASSUME NEW s \in DOMAIN session, SessionStep(s)
        PROVE  cancelled' = cancelled /\ Born(row') = Born(row)
    BY <1>2, <1>5, CloseWrites
       DEF SessionStep, WriteDraft, Finish, BeginFinish, ResumeFinish, Close
  <1>6. ASSUME NEW q \in DOMAIN question, Answer(q)
        PROVE  cancelled' = cancelled /\ Born(row') = Born(row)
    <2> DEFINE j == question[q].job
    <2>1. /\ j \in Born(row) /\ row' = [row EXCEPT ![j].blocked = FALSE]
          /\ cancelled' = cancelled
      BY <1>6 DEF Answer, BoardInv, QuestionsHaveJobs
    <2> HIDE DEF j
    <2> QED
      BY <1>1, <2>1, FlagType
  <1> QED
    BY <1>2, <1>4, <1>5, <1>6 DEF Next, Restart, vars

(* A cancel takes the whole open family below the job named ... *)
LEMMA WholeFamily ==
  ASSUME BoardInv, [Next]_vars, NEW c \in Born(row'),
         row'[c].parent \in cancelled',
         row'[c].parent \notin cancelled \/ c \notin Born(row)
  PROVE  Completed(row', session', c) \/ c \in cancelled'
  <1>1. TypeOK
    BY DEF BoardInv
  <1>2. ASSUME NEW j \in Job, Cancel(j)
        PROVE  Completed(row', session', c) \/ c \in cancelled'
    <2>1. /\ j \in Born(row) /\ row' = row /\ session' = session
          /\ cancelled' = cancelled \cup Cascade(j)
      BY <1>2 DEF Cancel
    <2>2. row[c].parent \in Cascade(j)
      BY <2>1
    <2>3. Open(c) => c \in Cascade(j)
      BY <2>1, <2>2, CascadeClosed DEF ClosedUnder, OpenChildren
    <2> QED
      BY <2>1, <2>3 DEF Open
  <1>3. ASSUME NEW j \in Job, NEW r \in Round \cup {NoRound}, NEW n \in Node,
               NEW p \in Parent, NEW deps \in DependsOn, CreateJob(j, r, n, p, deps)
        PROVE  FALSE
    <2> DEFINE new == [round |-> r, node |-> n, blocked |-> FALSE, parent |-> p,
                       deps |-> deps, born |-> TRUE]
    <2>1. /\ row' = [row EXCEPT ![j] = new] /\ cancelled' = cancelled
          /\ p # NoJob => p \notin cancelled
      BY <1>3 DEF CreateJob
    <2>2. new.parent = p
      OBVIOUS
    <2> HIDE DEF new
    <2>3. row'[j] = new /\ \A k \in Job : k # j => row'[k] = row[k]
      BY <1>1, <2>1 DEF TypeOK
    <2>4. c = j
      BY <2>1, <2>3 DEF Born
    <2>5. NoJob \notin cancelled
      BY <1>1, JobBoardAssumption DEF TypeOK, Born
    <2> QED
      BY <2>1, <2>2, <2>3, <2>4, <2>5
  <1> QED
    BY <1>2, <1>3, CancelMoves

(* ... and spares whoever is completed, above it, or behind one who is. *)
LEMMA OnlyFamily ==
  ASSUME BoardInv, [Next]_vars
  PROVE  LET hit == cancelled' \ cancelled IN
         /\ \A c \in hit : ~Completed(row, session, c)
         /\ Cardinality({c \in hit : row[c].parent \notin hit}) <= 1
  <1> DEFINE hit == cancelled' \ cancelled
             top == {c \in hit : row[c].parent \notin hit}
  <1>1. ASSUME NEW j \in Job, Cancel(j)
        PROVE  /\ \A c \in hit : ~Completed(row, session, c)
               /\ Cardinality(top) <= 1
    <2>1. j \in Born(row) /\ Open(j) /\ cancelled' = cancelled \cup Cascade(j)
      BY <1>1 DEF Cancel
    <2>2. hit = Cascade(j)
      BY <2>1, CascadeOpen DEF Open
    <2>3. \A c \in hit : ~Completed(row, session, c)
      BY <2>1, <2>2, CascadeOpen DEF Open
    <2>4. top \subseteq {j}
      BY <2>1, <2>2, CascadeBelow
    <2> HIDE DEF top
    <2>5. Cardinality(top) <= Cardinality({j})
      BY <2>4, FS_Singleton, FS_Subset
    <2> QED
      BY <2>3, <2>5, FS_Singleton
  <1>2. ASSUME cancelled' = cancelled
        PROVE  /\ \A c \in hit : ~Completed(row, session, c)
               /\ Cardinality(top) <= 1
    <2>1. hit = {} /\ top = {}
      BY <1>2
    <2> QED
      BY <2>1, FS_EmptySet
  <1> QED
    BY <1>1, <1>2, CancelMoves DEF CreateJob

(* A cancel reaches the open family below its job, whole and alone, whatever
   the tree of parents. *)
THEOREM CancelExact == Spec => CancelIsExact
  <1>1. BoardInv /\ [Next]_vars =>
          [\A c \in Born(row') :
             (row'[c].parent \in cancelled' /\
                (row'[c].parent \notin cancelled \/ c \notin Born(row)))
               => Completed(row', session', c) \/ c \in cancelled']_vars
    BY WholeFamily
  <1>2. BoardInv /\ [Next]_vars =>
          [LET hit == cancelled' \ cancelled IN
             /\ \A c \in hit : ~Completed(row, session, c)
             /\ Cardinality({c \in hit : row[c].parent \notin hit}) <= 1]_vars
    BY OnlyFamily
  <1> QED
    BY <1>1, <1>2, BoardInvariant, PTL
       DEF Spec, CancelIsExact, NoOpenChildOfCancelled, CancelStaysBelow

-----------------------------------------------------------------------------
(* The failure ceiling.  The code asks for the newest Ceiling sessions of a pair;
   the property speaks of the unbroken tail of failures.  They meet in the rank
   of a session, the number of its pair's sessions from it on. *)

Since(run, s) == {t \in run : t >= s}

Newest(run, count) == {s \in run : Cardinality(Since(run, s)) <= count}

LEMMA SinceCounts ==
  ASSUME NEW run \in SUBSET Nat, IsFiniteSet(run), NEW s \in run
  PROVE  /\ IsFiniteSet(Since(run, s))
         /\ Cardinality(run) \in Nat
         /\ Cardinality(Since(run, s)) \in 1..Cardinality(run)
  <1>1. Since(run, s) \in SUBSET run /\ s \in Since(run, s)
    BY DEF Since
  <1>2. /\ IsFiniteSet(Since(run, s))
        /\ Cardinality(Since(run, s)) <= Cardinality(run)
        /\ Cardinality(Since(run, s)) \in Nat /\ Cardinality(run) \in Nat
    BY <1>1, FS_Subset, FS_CardinalityType
  <1>3. Cardinality(Since(run, s)) # 0
    BY <1>1, <1>2, FS_EmptySet
  <1> QED
    BY <1>2, <1>3

(* A newer session has the smaller rank. *)
LEMMA RankFalls ==
  ASSUME NEW run \in SUBSET Nat, IsFiniteSet(run), NEW s \in run, NEW t \in run, s < t
  PROVE  Cardinality(Since(run, t)) < Cardinality(Since(run, s))
  <1>1. Since(run, t) \in SUBSET Since(run, s) /\ s \notin Since(run, t)
        /\ s \in Since(run, s)
    <2>1. s \in Nat /\ t \in Nat /\ \A u \in run : u \in Nat
      OBVIOUS
    <2>2. \A u \in run : u >= t => u >= s
      BY <2>1
    <2>3. s >= s /\ ~(s >= t)
      BY <2>1
    <2> QED
      BY <2>2, <2>3 DEF Since
  <1>2. /\ IsFiniteSet(Since(run, s))
        /\ Cardinality(Since(run, s)) \in Nat /\ Cardinality(Since(run, t)) \in Nat
    BY SinceCounts
  <1>3. /\ Cardinality(Since(run, t)) <= Cardinality(Since(run, s))
        /\ Cardinality(Since(run, t)) # Cardinality(Since(run, s))
    BY <1>1, <1>2, FS_Subset
  <1> QED
    BY <1>2, <1>3

(* When there are that many sessions, the newest `count` are `count`. *)
LEMMA NewestCount ==
  ASSUME NEW run \in SUBSET Nat, IsFiniteSet(run), NEW count \in Nat,
         count <= Cardinality(run)
  PROVE  Cardinality(Newest(run, count)) = count
  <1> DEFINE N == Cardinality(run)
             rank == [s \in run |-> Cardinality(Since(run, s))]
             few == [s \in Newest(run, count) |-> Cardinality(Since(run, s))]
  <1>1. N \in Nat
    BY FS_CardinalityType
  <1>2. rank \in [run -> 1..N]
    BY SinceCounts
  <1>3. ASSUME NEW s \in run, NEW t \in run, rank[s] = rank[t]
        PROVE  s = t
    <2>1. /\ ~(s < t) /\ ~(t < s)
      BY <1>3, SinceCounts, RankFalls
    <2> QED
      BY <2>1
  <1>4. rank \in Injection(run, 1..N)
    <2> HIDE DEF rank
    <2> QED
      BY <1>2, <1>3, Fun_IsInj
  <1>5. IsFiniteSet(1..N) /\ Cardinality(1..N) = N
    BY <1>1, FS_Interval
  <1>6. rank \in Surjection(run, 1..N)
    <2> HIDE DEF rank
    <2> QED
      BY <1>4, <1>5, FS_Injection
  <1>7. \A k \in 1..N : \E s \in run : rank[s] = k
    <2> HIDE DEF rank
    <2> QED
      BY <1>6, Fun_SurjectionProperties
  <1>8. Newest(run, count) \subseteq run /\ 1..count \subseteq 1..N
    BY <1>1 DEF Newest
  <1>9. few \in [Newest(run, count) -> 1..count]
    <2>1. ASSUME NEW s \in Newest(run, count)
          PROVE  Cardinality(Since(run, s)) \in 1..count
      <3>1. s \in run /\ Cardinality(Since(run, s)) <= count
        BY DEF Newest
      <3>2. Cardinality(Since(run, s)) \in 1..N
        BY <3>1, SinceCounts
      <3> QED
        BY <1>1, <3>1, <3>2
    <2> QED
      BY <2>1
  <1>10. \A s, t \in Newest(run, count) : few[s] = few[t] => s = t
    BY <1>3, <1>8
  <1>11. \A k \in 1..count : \E s \in Newest(run, count) : few[s] = k
    <2> TAKE k \in 1..count
    <2>1. PICK s \in run : Cardinality(Since(run, s)) = k
      BY <1>7, <1>8
    <2>2. s \in Newest(run, count)
      BY <2>1 DEF Newest
    <2> QED
      BY <2>1, <2>2
  <1>12. few \in Bijection(Newest(run, count), 1..count)
    <2> HIDE DEF few
    <2> QED
      BY <1>9, <1>10, <1>11, Fun_IsBij
  <1>13. ExistsBijection(Newest(run, count), 1..count)
    <2> HIDE DEF few
    <2> QED
      BY <1>12 DEF ExistsBijection
  <1>14. IsFiniteSet(Newest(run, count)) /\ IsFiniteSet(1..count)
         /\ Cardinality(1..count) = count
    BY <1>8, FS_Subset, FS_Interval
  <1> QED
    BY <1>13, <1>14, FS_Bijection

(* The code's question and the property's are one: the newest Ceiling sessions
   exist and all failed exactly when the tail of failures is that long. *)
LEMMA StreakIsTail ==
  ASSUME NEW ses \in Seq(SessionRow), NEW j, NEW n
  PROVE  Streak(ses, j, n) <=> Cardinality(FailedTail(ses, j, n)) >= Ceiling
  <1> DEFINE run == RunsOn(ses, j, n)
             new == Newest(run, Ceiling)
             tail == FailedTail(ses, j, n)
  <1>1. Ceiling \in Nat
    BY JobBoardAssumption
  <1>2. run \in SUBSET Nat /\ IsFiniteSet(run)
    <2>1. Len(ses) \in Nat /\ DOMAIN ses = 1..Len(ses)
      BY LenProperties
    <2>2. run \in SUBSET (1..Len(ses)) /\ IsFiniteSet(1..Len(ses))
      BY <2>1, FS_Interval DEF RunsOn
    <2> QED
      BY <2>2, FS_Subset
  <1>3. Streak(ses, j, n) <=>
          Cardinality(new) = Ceiling /\ \A s \in new : Failed(ses[s])
    BY DEF Streak, Newest, Since
  <1>4. tail = {s \in run : \A t \in run : t >= s => Failed(ses[t])}
    BY DEF FailedTail
  <1> HIDE DEF run, tail
  <1>5. /\ tail \in SUBSET run /\ new \in SUBSET run
        /\ IsFiniteSet(tail) /\ IsFiniteSet(new)
        /\ Cardinality(tail) \in Nat /\ Cardinality(new) \in Nat
        /\ Cardinality(tail) <= Cardinality(run) /\ Cardinality(run) \in Nat
    <2>1. tail \in SUBSET run /\ new \in SUBSET run
      BY <1>4 DEF Newest
    <2> HIDE DEF new
    <2> QED
      BY <1>2, <2>1, FS_Subset, FS_CardinalityType
  <1>6. ASSUME Streak(ses, j, n)
        PROVE  Cardinality(tail) >= Ceiling
    <2>1. ASSUME NEW s \in new, NEW t \in run, t >= s
          PROVE  Failed(ses[t])
      <3>1. t = s \/ s < t
        <4>1. s \in run /\ t \in run
          BY <1>5
        <4>2. s \in Nat /\ t \in Nat
          BY <1>2, <4>1
        <4> QED
          BY <2>1, <4>2
      <3>2. Cardinality(Since(run, s)) <= Ceiling /\ s \in run
        BY DEF Newest
      <3>3. t \in new
        <4>1. CASE t = s
          BY <4>1
        <4>2. CASE s < t
          <5>1. Cardinality(Since(run, t)) < Cardinality(Since(run, s))
            BY <1>2, <3>2, <4>2, RankFalls
          <5>2. /\ Cardinality(Since(run, t)) \in Nat
                /\ Cardinality(Since(run, s)) \in Nat
            BY <1>2, <3>2, SinceCounts
          <5> QED
            BY <1>1, <3>2, <5>1, <5>2 DEF Newest
        <4> QED
          BY <3>1, <4>1, <4>2
      <3> QED
        BY <1>3, <1>6, <3>3
    <2> HIDE DEF new
    <2>2. new \in SUBSET tail
      BY <1>4, <1>5, <2>1
    <2>3. Cardinality(new) <= Cardinality(tail)
      BY <1>5, <2>2, FS_Subset
    <2> QED
      BY <1>3, <1>6, <2>3
  <1>7. ASSUME Cardinality(tail) >= Ceiling
        PROVE  Streak(ses, j, n)
    <2>1. Cardinality(new) = Ceiling
      BY <1>1, <1>2, <1>5, <1>7, NewestCount
    <2>2. ASSUME NEW s \in new, s \notin tail
          PROVE  FALSE
      <3>1. s \in run /\ Cardinality(Since(run, s)) <= Ceiling
        BY DEF Newest
      <3>2. tail \in SUBSET Since(run, s)
        <4>1. ASSUME NEW u \in tail, ~(u >= s) PROVE FALSE
          <5>1. u \in run /\ \A t \in run : t >= u => Failed(ses[t])
            BY <1>4
          <5>2. u \in Nat /\ s \in Nat /\ \A t \in run : t \in Nat
            BY <1>2, <3>1, <5>1
          <5>3. \A t \in run : t >= s => t >= u
            BY <4>1, <5>2
          <5> QED
            BY <1>4, <2>2, <3>1, <5>1, <5>3
        <4> QED
          BY <1>5, <4>1 DEF Since
      <3>3. s \in Since(run, s)
        BY <1>2, <3>1 DEF Since
      <3>4. IsFiniteSet(Since(run, s)) /\ Cardinality(Since(run, s)) \in Nat
        BY <1>2, <3>1, SinceCounts
      <3>5. /\ Cardinality(tail) <= Cardinality(Since(run, s))
            /\ Cardinality(tail) = Cardinality(Since(run, s)) => tail = Since(run, s)
        BY <3>2, <3>4, FS_Subset
      <3> HIDE DEF new
      <3> QED
        BY <1>1, <1>5, <1>7, <2>2, <3>1, <3>3, <3>4, <3>5
    <2>3. ASSUME NEW s \in new PROVE Failed(ses[s])
      <3>1. s \in tail /\ s \in run
        BY <1>5, <2>2
      <3>2. s >= s
        BY <1>2, <3>1
      <3> QED
        BY <1>4, <3>1, <3>2
    <2> HIDE DEF new
    <2> QED
      BY <1>3, <2>1, <2>3
  <1> QED
    BY <1>6, <1>7 DEF tail

(* The step that closes a session is a Close of it. *)
LEMMA ClosingIsClose ==
  ASSUME BoardInv, [Next]_vars, NEW s \in Closing
  PROVE  \E verdict \in Outcome : Close(s, verdict) /\ session'[s].status = verdict
  <1>1. TypeOK
    BY DEF BoardInv
  <1>2. s \in DOMAIN session /\ session[s] # session'[s] /\ session'[s].status # "open"
    BY DEF Closing
  <1>3. ASSUME NEW j \in Job, NEW n \in Node, OpenSession(j, n) PROVE FALSE
    <2> DEFINE new == [job |-> j, node |-> n, status |-> "open", draft |-> FALSE]
    <2>1. new \in SessionRow
      BY DEF SessionRow
    <2>2. session' = Append(session, new) /\ session \in Seq(SessionRow)
      BY <1>1, <1>3 DEF OpenSession, TypeOK
    <2> HIDE DEF new
    <2> QED
      BY <1>2, <2>1, <2>2, Appended
  <1>4. ASSUME NEW t \in DOMAIN session, WriteDraft(t) PROVE FALSE
    <2> DEFINE new == [session[t] EXCEPT !.draft = TRUE]
    <2>1. session[t] \in SessionRow /\ session[t].status = "open"
      BY <1>1, <1>4, LenProperties DEF TypeOK, WriteDraft
    <2>2. new \in SessionRow /\ new.status = "open"
      BY <2>1 DEF SessionRow
    <2>3. session' = [session EXCEPT ![t] = new]
      BY <1>4 DEF WriteDraft
    <2> HIDE DEF new
    <2> QED
      BY <1>1, <1>2, <2>2, <2>3, SessionWritten
  <1>5. ASSUME NEW t \in DOMAIN session, NEW verdict \in Outcome, Close(t, verdict)
        PROVE  t = s /\ session'[s].status = verdict
    <2>1. t = s
      BY <1>2, <1>5, CloseWrites
    <2> DEFINE new == [session[s] EXCEPT !.status = verdict, !.draft = FALSE]
    <2>2. session[s] \in SessionRow
      BY <1>1, <1>2, LenProperties DEF TypeOK
    <2>3. new \in SessionRow /\ new.status = verdict
      BY <2>2, OutcomeAssumption DEF SessionRow
    <2>4. session' = [session EXCEPT ![s] = new]
      BY <1>5, <2>1 DEF Close
    <2> HIDE DEF new
    <2> QED
      BY <1>1, <1>2, <2>1, <2>3, <2>4, SessionWritten
  <1>6. CASE UNCHANGED session
    BY <1>2, <1>6
  <1>7. ASSUME NEW j \in Job, JobStep(j) PROVE FALSE
    BY <1>3, <1>6, <1>7, <1>2
       DEF JobStep, CreateJob, Transition, Block, Unblock, Cancel, Ask, GrantLease,
           ReleaseLease, ExpireLease
  <1>8. ASSUME NEW t \in DOMAIN session, SessionStep(t)
        PROVE  \E verdict \in Outcome : Close(s, verdict) /\ session'[s].status = verdict
    BY <1>2, <1>4, <1>5, <1>6, <1>8 DEF SessionStep, Finish, BeginFinish, ResumeFinish
  <1> QED
    BY <1>2, <1>7, <1>8 DEF Next, Answer, Restart, vars

(* The plain failures of a tail are some of it, and so no more. *)
LEMMA PlainOfTail ==
  ASSUME NEW ses \in Seq(SessionRow), NEW j, NEW n
  PROVE  /\ Cardinality(PlainTail(ses, j, n)) <= Cardinality(FailedTail(ses, j, n))
         /\ Cardinality(PlainTail(ses, j, n)) \in Nat
         /\ Cardinality(FailedTail(ses, j, n)) \in Nat
  <1>1. /\ FailedTail(ses, j, n) \in SUBSET (1..Len(ses))
        /\ PlainTail(ses, j, n) \in SUBSET FailedTail(ses, j, n)
    BY LenProperties DEF FailedTail, PlainTail, RunsOn
  <1>2. IsFiniteSet(1..Len(ses))
    BY LenProperties, FS_Interval
  <1>3. IsFiniteSet(FailedTail(ses, j, n))
    BY <1>1, <1>2, FS_Subset
  <1>4. IsFiniteSet(PlainTail(ses, j, n))
    BY <1>1, <1>3, FS_Subset
  <1> QED
    BY <1>1, <1>3, <1>4, FS_Subset, FS_CardinalityType

(* A node that keeps failing blocks its job in the step that brings the plain
   failures of its tail to the ceiling, and nothing else that closes a session
   blocks one, but a tail that reaches the ceiling with refusals in it
   (blockOnRepeatedFailure). *)
THEOREM CeilingExact == Spec => CeilingIsExact
  <1>1. ASSUME BoardInv, [Next]_vars, NEW s \in Closing
        PROVE  LET j     == session[s].job
                   tail  == FailedTail(session', j, session[s].node)
                   plain == PlainTail(session', j, session[s].node) IN
               /\ session'[s].status = "failed" /\ Cardinality(plain) >= Ceiling
                     => row'[j].blocked
               /\ row'[j].blocked /\ ~row[j].blocked
                     => \/ Cardinality(plain) >= Ceiling
                        \/ Cardinality(tail) >= Ceiling /\ plain # tail
    <2> DEFINE j == session[s].job
               n == session[s].node
               tail == FailedTail(session', j, n)
               plain == PlainTail(session', j, n)
    <2>1. s \in DOMAIN session /\ TypeOK
      BY <1>1 DEF Closing, BoardInv
    <2>2. PICK verdict \in Outcome : Close(s, verdict) /\ session'[s].status = verdict
      BY <1>1, ClosingIsClose
    <2>3. session' \in Seq(SessionRow)
      BY <1>1, <2>1, <2>2, CloseWrites
    <2>4. Streak(session', j, n) <=> Cardinality(tail) >= Ceiling
      BY <2>3, StreakIsTail
    <2>5. row' = IF verdict = "failed" /\ Streak(session', j, n)
                 THEN [row EXCEPT ![j].blocked = TRUE] ELSE row
      BY <2>2 DEF Close, BlockOnStreak
    <2>6. j \in Job /\ row[j] \in JobRow
      BY <1>1, <2>1, BornRow DEF BoardInv, SessionsHaveJobs
    <2>7. /\ Cardinality(plain) <= Cardinality(tail)
          /\ Cardinality(plain) \in Nat /\ Cardinality(tail) \in Nat
          /\ Ceiling \in Nat
      BY <2>3, PlainOfTail, JobBoardAssumption
    <2> HIDE DEF j, n, tail, plain
    <2>8. verdict = "failed" /\ Streak(session', j, n) => row'[j].blocked
      <3> HAVE verdict = "failed" /\ Streak(session', j, n)
      <3>1. row'[j] = [row[j] EXCEPT !.blocked = TRUE]
        BY <2>1, <2>5, <2>6 DEF TypeOK
      <3>2. row'[j].blocked = TRUE
        BY <2>6, <3>1 DEF JobRow
      <3> QED
        BY <3>2
    <2>9. verdict = "failed" /\ Cardinality(plain) >= Ceiling => row'[j].blocked
      BY <2>4, <2>7, <2>8
    <2>10. row'[j].blocked /\ ~row[j].blocked => Cardinality(tail) >= Ceiling
      BY <2>4, <2>5
    <2>11. plain = tail => Cardinality(plain) = Cardinality(tail)
      OBVIOUS
    <2> QED
      BY <2>2, <2>9, <2>10, <2>11 DEF j, n, tail, plain
  <1>2. BoardInv /\ [Next]_vars =>
          [\A s \in Closing :
             (/\ session'[s].status = "failed"
              /\ Cardinality(PlainTail(session', session[s].job, session[s].node))
                   >= Ceiling)
                => row'[session[s].job].blocked]_vars
    BY <1>1
  <1>3. BoardInv /\ [Next]_vars =>
          [\A s \in Closing :
             LET tail  == FailedTail(session', session[s].job, session[s].node)
                 plain == PlainTail(session', session[s].job, session[s].node) IN
             StreakBlocks(s)
               => \/ Cardinality(plain) >= Ceiling
                  \/ Cardinality(tail) >= Ceiling /\ plain # tail]_vars
    BY <1>1 DEF StreakBlocks
  <1> QED
    BY <1>2, <1>3, BoardInvariant, PTL
       DEF Spec, CeilingIsExact, FailingNodeStops, StreakIsUnbroken

==============================================================================
