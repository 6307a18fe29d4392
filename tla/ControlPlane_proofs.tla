------------------------- MODULE ControlPlane_proofs -------------------------
(***************************************************************************)
(* Proofs about the control planes of one database, for any number of      *)
(* starts at once: the lock (OwnerLock); what a start finds and leaves      *)
(* (Startup), as long as the lock has let one in; and what reaches the      *)
(* watcher (EventStream); all under the steps of ControlPlane.              *)
(***************************************************************************)
EXTENDS ControlPlane, FiniteSetTheorems, SequenceTheorems, WellFoundedInduction, TLAPS

-----------------------------------------------------------------------------
(* The lock. *)

(* A file that names somebody was written by an owner. *)
NamedHasOwned == file.written => at[file.maker] \in Holding \cup {"gone"}

(* So an owner that a start judges got as far as owning. *)
JudgedHasOwned ==
  \A p \in Process :
    at[p] = "judging" => seen[p] \in Process /\ at[seen[p]] \in Holding \cup {"gone"}

LockInv == TypeOK /\ NamedHasOwned /\ JudgedHasOwned

LEMMA LockInit == ASSUME Init PROVE LockInv /\ OneOwner
<1> USE OwnerLockAssumption DEF Init, Stage, Starting, Holding, Absent, File
<1>1. TypeOK
  BY DEF TypeOK
<1>2. NamedHasOwned /\ JudgedHasOwned /\ OneOwner
  BY DEF NamedHasOwned, JudgedHasOwned, OneOwner
<1> QED
  BY <1>1, <1>2 DEF LockInv

(* No step of the lock breaks what it rests on. *)
LEMMA LockStep == ASSUME LockInv, [Next]_vars PROVE LockInv'
<1> USE OwnerLockAssumption
    DEF Stage, Starting, Holding, Absent, File, Go, Leave, LockInv, TypeOK,
        NamedHasOwned, JudgedHasOwned
<1>1. CASE UNCHANGED vars
  BY <1>1 DEF vars
<1>2. ASSUME NEW p \in Process, Start(p) PROVE LockInv'
  BY <1>2 DEF Start
<1>3. ASSUME NEW p \in Process, Take(p) PROVE LockInv'
  <2>1. CASE file = Absent
    <3>1. /\ file' = [maker |-> p, written |-> FALSE] /\ at' = [at EXCEPT ![p] = "writing"]
          /\ at[p] = "taking" /\ UNCHANGED <<round, seen>>
      BY <1>3, <2>1 DEF Take
    <3> QED
      BY <3>1
  <2>2. CASE file # Absent
    BY <1>3, <2>2 DEF Take
  <2> QED
    BY <2>1, <2>2
<1>4. ASSUME NEW p \in Process, Write(p) PROVE LockInv'
  <2>1. CASE file.maker = p
    <3>1. file' = [maker |-> p, written |-> TRUE]
      BY <1>4, <2>1 DEF Write
    <3>2. /\ at[p] = "writing" /\ at' = [at EXCEPT ![p] = "owner"]
          /\ round' = [round EXCEPT ![p] = 1] /\ seen' = [seen EXCEPT ![p] = NoOwner]
      BY <1>4 DEF Write
    <3> QED
      BY <3>1, <3>2
  <2>2. CASE file.maker # p
    BY <1>4, <2>2 DEF Write
  <2> QED
    BY <2>1, <2>2
<1>5. ASSUME NEW p \in Process, Read(p) PROVE LockInv'
  BY <1>5 DEF Read, ReadOwner
<1>6. ASSUME NEW p \in Process, Judge(p) PROVE LockInv'
  BY <1>6 DEF Judge, Alive
<1>7. ASSUME NEW p \in Process, Remove(p) PROVE LockInv'
  BY <1>7 DEF Remove
<1>8. ASSUME NEW p \in Process, Release(p) PROVE LockInv'
  BY <1>8 DEF Release
<1>9. ASSUME NEW p \in Process, Unlink(p) PROVE LockInv'
  BY <1>9 DEF Unlink
<1>10. ASSUME NEW p \in Process, Die(p) PROVE LockInv'
  BY <1>10 DEF Die, Alive
<1> QED
  BY <1>1, <1>2, <1>3, <1>4, <1>5, <1>6, <1>7, <1>8, <1>9, <1>10 DEF Next, Acquire

(* Only the settled control plane itself ends its tenure. *)
LEMMA SettledStep ==
  ASSUME LockInv, [Next]_vars, NEW p \in Process, Settled(p)
  PROVE  Settled(p)' \/ at'[p] # "owner"
<1> USE OwnerLockAssumption DEF Go, Leave, LockInv, TypeOK, Settled, Holding
<1>1. CASE UNCHANGED vars
  BY <1>1 DEF vars
<1>2. ASSUME NEW q \in Process, Start(q) PROVE Settled(p)'
  BY <1>2 DEF Start
<1>3. ASSUME NEW q \in Process, Take(q) PROVE Settled(p)'
  BY <1>3 DEF Take, Absent
<1>4. ASSUME NEW q \in Process, Read(q) PROVE Settled(p)'
  BY <1>4 DEF Read, ReadOwner
<1>5. ASSUME NEW q \in Process, Judge(q) PROVE Settled(p)'
  BY <1>5 DEF Judge, Alive
<1>6. ASSUME NEW q \in Process, Write(q) \/ Remove(q) PROVE FALSE
  BY <1>6 DEF Write, Remove
<1>7. ASSUME NEW q \in Process, Release(q) \/ Unlink(q) PROVE at'[p] # "owner"
  BY <1>7 DEF Release, Unlink
<1>8. ASSUME NEW q \in Process, Die(q) PROVE Settled(p)' \/ at'[p] # "owner"
  BY <1>8 DEF Die
<1> QED
  BY <1>1, <1>2, <1>3, <1>4, <1>5, <1>6, <1>7, <1>8 DEF Next, Acquire

(* A step refuses a start while somebody owns the lock, or after two removals. *)
LEMMA RefusalStep ==
  ASSUME LockInv, [Next]_vars,
         NEW p \in Process, at[p] # "refused", at'[p] = "refused"
  PROVE  at[p] = "removing" \/ \E q \in Process : at[q] \in Holding
<1> USE DEF LockInv, TypeOK, Go, Leave
<1>1. PICK q \in Process : \/ Start(q) \/ Acquire(q) \/ Release(q)
                           \/ Unlink(q) \/ Die(q)
  BY DEF Next, vars
<1>2. Judge(q) \/ Remove(q)
  BY <1>1 DEF Acquire, Start, Take, Write, Read, Release, Unlink, Die
<1>3. q = p
  BY <1>2 DEF Judge, Remove
<1>4. CASE Judge(p)
  BY <1>4 DEF Judge, Alive, JudgedHasOwned, Holding
<1>5. CASE Remove(p)
  BY <1>5 DEF Remove
<1> QED
  BY <1>2, <1>3, <1>4, <1>5

(* A control plane that has settled behind its lock is never joined, and a start
   is never refused by a dead one, however many start at once and between which
   two file-system calls any of them dies (acquireLock): of the lock by itself. *)
THEOREM LockAlone == Spec => LockIsSound
<1>1. Init => LockInv
  BY LockInit
<1>2. LockInv /\ [Next]_vars => LockInv'
  BY LockStep
<1>3. LockInv => TypeOK
  BY DEF LockInv
<1>4. LockInv /\ [Next]_vars =>
        [\A p \in Process : Settled(p) => Settled(p)' \/ at'[p] # "owner"]_vars
  BY SettledStep
<1>5. LockInv /\ [Next]_vars =>
        [\A p \in Process : at[p] # "refused" /\ at'[p] = "refused"
           => at[p] = "removing" \/ \E q \in Process : at[q] \in Holding]_vars
  BY RefusalStep
<1> QED
  BY <1>1, <1>2, <1>3, <1>4, <1>5, PTL
     DEF Spec, LockIsSound, SettledOwnerStays, OnlyAnOwnerRefuses

(* Whatever a control plane and its watcher do, the lock takes a step of its own
   or none. *)
LEMMA LockOfControlPlane == [ControlPlaneNext]_allVars => [Next]_vars
<1>1. CASE UNCHANGED allVars
  BY <1>1 DEF allVars
<1>2. CASE StreamStep
  BY <1>2 DEF StreamStep, Served, Alone
<1>3. ASSUME NEW p \in Process, Host(p) PROVE [Next]_vars
  BY <1>3 DEF Host, HostStep, LetGo, Killed, Next
<1> QED
  BY <1>1, <1>2, <1>3 DEF ControlPlaneNext

(* The same for control planes that start, serve, shut down and are killed
   (start, main, acquireLock). *)
THEOREM LockSound == ControlPlaneSpec => LockIsSound
<1>1. ControlPlaneInit => Init
  BY DEF ControlPlaneInit, StartupInit
<1>2. ControlPlaneSpec => Spec
  BY <1>1, LockOfControlPlane, PTL DEF ControlPlaneSpec, Spec
<1> QED
  BY <1>2, LockAlone

-----------------------------------------------------------------------------
(* What a start finds and leaves. *)

(* Every nonempty set of numbers has a least one. *)
LEMMA LeastNatural ==
  ASSUME NEW T, T \subseteq Nat, T # {}
  PROVE  \E x \in T : \A y \in T : x <= y
<1> DEFINE R == OpToRel(<, Nat)
<1>1. IsWellFoundedOn(R, Nat)
  BY NatLessThanWellFounded
<1>2. R = {ss \in Nat \X Nat : ss[1] < ss[2]}
  BY DEF OpToRel
<1>4. \A x, y \in Nat : <<y, x>> \in R <=> y < x
  BY <1>2
<1> HIDE DEF R
<1>3. \E x \in T : \A y \in T : <<y, x>> \notin R
  BY <1>1, WFMin
<1>5. PICK x \in T : \A y \in T : <<y, x>> \notin R
  BY <1>3
<1>6. ASSUME NEW y \in T PROVE x <= y
  <2>1. x \in Nat /\ y \in Nat
    OBVIOUS
  <2>2. ~(y < x)
    BY <1>4, <1>5, <2>1
  <2> QED
    BY <2>1, <2>2
<1> QED
  BY <1>6

(* The file a start takes up next is one of those left, of the lowest number. *)
LEMMA EarliestIs ==
  ASSUME NEW files, files \subseteq MigrationFile, files # {}
  PROVE  /\ Earliest(files) \in files
         /\ \A g \in files : NumberOf[Earliest(files)] <= NumberOf[g]
<1> DEFINE T == {NumberOf[f] : f \in files}
<1>1. T \subseteq Nat /\ T # {}
  BY StartupAssumption
<1> HIDE DEF T
<1>2. PICK n \in T : \A k \in T : n <= k
  BY <1>1, LeastNatural
<1>3. \E f \in files : \A g \in files : NumberOf[f] <= NumberOf[g]
  BY <1>2 DEF T
<1> QED
  BY <1>3 DEF Earliest

(* What a build's files hold. *)
LEMMA BuildFiles ==
  ASSUME NEW files \in Build
  PROVE  /\ DOMAIN files \subseteq MigrationFile
         /\ \A f \in DOMAIN files : files[f] \in Content
BY DEF MigrationFile, Content

Booting == {"reconciling", "applying", "listening", "minting", "announcing", "serving"}

(* A process on its way up, or there, runs a build that still has every file the
   ledger names.  Of the files it has gone through, the ledger says what they
   hold: all of them when it is through, and when it applies them what it knew
   already. *)
Standing(p) ==
  LET b == boot[p]
      Matches(f) == ledger[f] = b.files[f]
  IN  b.step \in Booting =>
        /\ b.files \in Build /\ ~Ambiguous(b.files)
        /\ DOMAIN ledger \subseteq DOMAIN b.files
        /\ b.had => HasChecksumColumn
        /\ b.step = "reconciling" =>
             /\ b.left \subseteq DOMAIN ledger
             /\ ~HasChecksumColumn => b.left = {}
             /\ IF b.had THEN b.before = DOMAIN ledger
                         ELSE DOMAIN ledger = DOMAIN b.files
             /\ HasChecksumColumn => \A f \in DOMAIN ledger \ b.left : Matches(f)
        /\ b.step = "applying" =>
             /\ b.left = DOMAIN b.files \ DOMAIN ledger
             /\ \A f \in DOMAIN ledger : Matches(f) \/ (ledger[f] = Null /\ ~b.had)
        /\ b.step \notin {"reconciling", "applying"} =>
             /\ DOMAIN ledger = DOMAIN b.files
             /\ HasChecksumColumn => \A f \in DOMAIN ledger : Matches(f)

(* The ledger tells the files that ran, each once, with the content it ran with
   unless it ran before the ledger had a place for that. *)
LedgerIsTrue ==
  /\ ledger \in [Ran -> Content \cup {Null}]
  /\ ~HasChecksumColumn => \A f \in Ran : ledger[f] = Null
  /\ \A i \in DOMAIN schema :
       ledger[schema[i].file] = schema[i].content \/ RanUnrecorded(i)
  /\ \A i, j \in DOMAIN schema : schema[i].file = schema[j].file => i = j

BootRow == [step : Booting \cup {"out", "closed"}, files : Build \cup {<< >>},
            before : SUBSET MigrationFile, had : BOOLEAN, left : SUBSET MigrationFile]

StartupInv ==
  /\ boot \in [Process -> BootRow]
  /\ LockInv /\ OneOwner /\ StartupTypeOK /\ TokenIsTold /\ LedgerIsTrue
  /\ \A p \in Process : Standing(p)

LEMMA StartupBegins == ASSUME StartupInit PROVE StartupInv
<1> USE DEF StartupInit, Out
<1>1. LockInv /\ OneOwner
  BY LockInit
<1>2. Ran = {} /\ DOMAIN ledger = {}
  BY DEF Ran
<1>3. schema \in Seq([file : MigrationFile, content : Content])
  OBVIOUS
<1>4. \A p \in Process : boot[p] = Out
  OBVIOUS
<1>5. StartupTypeOK
  BY <1>1, <1>2, <1>3 DEF StartupTypeOK, LockInv
<1>6. LedgerIsTrue
  BY <1>2 DEF LedgerIsTrue
<1>7. TokenIsTold /\ \A p \in Process : Standing(p)
  BY DEF TokenIsTold, Standing, Booting
<1>8. boot \in [Process -> BootRow]
  BY DEF BootRow
<1> QED
  BY <1>1, <1>5, <1>6, <1>7, <1>8 DEF StartupInv

(* Who holds the lock is the only one in start(). *)
LEMMA OnlyOwnerStarts ==
  ASSUME OneOwner, StartupTypeOK, NEW p \in Process, at[p] = "owner",
         NEW q \in Process, boot[q].step # "out"
  PROVE  q = p
BY DEF OneOwner, StartupTypeOK, Holding

(* A step that leaves the tables alone and moves only its own process. *)
LEMMA TablesKept ==
  ASSUME StartupInv, UNCHANGED <<schema, ledger>>, TypeOK',
         token' \in {"none", "minted", "told", "lost"},
         NEW p \in Process, NEW b \in BootRow, boot' = [boot EXCEPT ![p] = b],
         \A q \in Process : q # p => at'[q] = at[q],
         b.step # "out" => at'[p] = "owner"
  PROVE  /\ boot' \in [Process -> BootRow]
         /\ StartupTypeOK' /\ LedgerIsTrue'
         /\ \A q \in Process : q # p => Standing(q)'
<1>1. \A q \in Process : boot'[q] = IF q = p THEN b ELSE boot[q]
  BY DEF StartupInv
<1>2. Ran' = Ran /\ (HasChecksumColumn' <=> HasChecksumColumn)
  BY DEF Ran, HasChecksumColumn
<1>3. boot' \in [Process -> BootRow]
  BY DEF StartupInv
<1>4. StartupTypeOK'
  BY <1>1, <1>2, <1>3 DEF StartupInv, StartupTypeOK, BootRow, Booting
<1>5. LedgerIsTrue'
  BY <1>2 DEF StartupInv, LedgerIsTrue, RanUnrecorded
<1>6. \A q \in Process : q # p => Standing(q)'
  BY <1>1, <1>2 DEF StartupInv, Standing
<1> QED
  BY <1>3, <1>4, <1>5, <1>6

LEMMA TokenKept ==
  ASSUME StartupInv, NEW p \in Process, NEW b, boot' = [boot EXCEPT ![p] = b],
         token' = token, boot[p].step # "announcing"
  PROVE  TokenIsTold'
<1>1. \A q \in Process : q # p => boot'[q] = boot[q]
  BY DEF StartupInv
<1> QED
  BY <1>1 DEF StartupInv, TokenIsTold

(* Opening, going on and closing: the tables stand. *)
LEMMA QuietStep ==
  ASSUME StartupInv, LockInv', OneOwner', NEW p \in Process,
         \/ Open(p) /\ UNCHANGED vars
         \/ Reconciled(p) /\ UNCHANGED vars
         \/ Applied(p) /\ UNCHANGED vars
         \/ Fail(p) /\ at[p] = "owner" /\ boot[p].step # "announcing" /\ UNCHANGED vars
         \/ Listen(p) /\ UNCHANGED vars
         \/ Mint(p) /\ UNCHANGED vars
         \/ Announce(p) /\ UNCHANGED vars
         \/ LetGo(p) \/ Killed(p)
  PROVE  StartupInv'
<1> DEFINE d == boot[p]
<1>1. /\ TypeOK' /\ d \in BootRow /\ boot \in [Process -> BootRow]
      /\ UNCHANGED <<schema, ledger>>
  BY DEF StartupInv, LockInv, Open, Reconciled, Applied, Listen, Mint, Announce,
         LetGo, Killed, Fail
<1>2. Ran' = Ran /\ (HasChecksumColumn' <=> HasChecksumColumn)
  BY <1>1 DEF Ran, HasChecksumColumn
<1>3. ASSUME NEW b \in BootRow, boot' = [boot EXCEPT ![p] = b],
             token' \in {"none", "minted", "told", "lost"},
             \A q \in Process : q # p => at'[q] = at[q],
             b.step # "out" => at'[p] = "owner", TokenIsTold',
             b.step \notin Booting \/ Standing(p)'
      PROVE  StartupInv'
  <2>1. Standing(p)'
    <3>1. boot'[p] = b
      BY <1>1, <1>3
    <3> QED
      BY <1>3, <3>1 DEF Standing
  <2> QED
    BY <1>1, <1>3, <2>1, TablesKept DEF StartupInv
<1>4. CASE Open(p) /\ UNCHANGED vars
  <2>1. PICK files \in Build :
          boot' = [boot EXCEPT ![p] =
            IF Ambiguous(files) \/ ~(DOMAIN ledger \subseteq DOMAIN files)
            THEN Closed
            ELSE [step   |-> IF HasChecksumColumn THEN "reconciling" ELSE "applying",
                  files  |-> files,
                  before |-> DOMAIN ledger,
                  had    |-> HasChecksumColumn,
                  left   |-> IF HasChecksumColumn THEN DOMAIN ledger
                                                  ELSE DOMAIN files \ DOMAIN ledger]]
    BY <1>4 DEF Open
  <2>2. at[p] = "owner" /\ d.step = "out" /\ UNCHANGED <<at, token>>
    BY <1>4 DEF Open, At, vars
  <2>3. TokenIsTold'
    BY <2>1, <2>2, TokenKept
  <2>4. CASE Ambiguous(files) \/ ~(DOMAIN ledger \subseteq DOMAIN files)
    <3>1. Closed \in BootRow /\ Closed.step = "closed"
      BY DEF Closed, Out, BootRow
    <3> QED
      BY <1>3, <2>1, <2>2, <2>3, <2>4, <3>1 DEF Booting, StartupInv, StartupTypeOK
  <2>5. CASE ~(Ambiguous(files) \/ ~(DOMAIN ledger \subseteq DOMAIN files))
    <3> DEFINE b == [step   |-> IF HasChecksumColumn THEN "reconciling" ELSE "applying",
                  files  |-> files,
                  before |-> DOMAIN ledger,
                  had    |-> HasChecksumColumn,
                  left   |-> IF HasChecksumColumn THEN DOMAIN ledger
                                                  ELSE DOMAIN files \ DOMAIN ledger]
    <3>1. b \in BootRow
      BY <2>5, BuildFiles DEF BootRow, Booting, HasChecksumColumn
    <3>2. boot' = [boot EXCEPT ![p] = b]
      BY <2>1, <2>5
    <3>3. boot'[p] = b
      BY <1>1, <3>2
    <3>4. Standing(p)'
      BY <1>1, <1>2, <2>5, <3>3 DEF Standing, StartupInv, LedgerIsTrue, StartupTypeOK
    <3> HIDE DEF b
    <3> QED
      BY <1>3, <2>2, <2>3, <3>1, <3>2, <3>4 DEF StartupInv, StartupTypeOK
  <2> QED
    BY <2>4, <2>5

<1>5. CASE Reconciled(p) /\ UNCHANGED vars
  <2> DEFINE b == [d EXCEPT !.step = IF d.had THEN "applying" ELSE "listening",
                            !.left = IF d.had THEN DOMAIN d.files \ d.before ELSE {}]
  <2>1. /\ at[p] = "owner" /\ d.step = "reconciling" /\ d.left = {}
        /\ boot' = [boot EXCEPT ![p] = b] /\ UNCHANGED <<at, token>>
    BY <1>1, <1>5 DEF Reconciled, At, vars
  <2>2. Standing(p)
    BY DEF StartupInv
  <2>3. d.files \in Build
    BY <2>1, <2>2 DEF Standing, Booting
  <2>4. /\ b \in BootRow /\ b.files = d.files /\ b.had = d.had
        /\ b.step = IF d.had THEN "applying" ELSE "listening"
        /\ b.left = IF d.had THEN DOMAIN d.files \ d.before ELSE {}
    BY <1>1, <2>3, BuildFiles DEF BootRow, Booting
  <2> HIDE DEF b
  <2>5. boot'[p] = b
    BY <1>1, <2>1
  <2>6. Standing(p)'
    BY <1>1, <1>2, <2>1, <2>2, <2>4, <2>5 DEF Standing, Booting
  <2>7. TokenIsTold'
    BY <2>1, TokenKept
  <2> QED
    BY <1>3, <2>1, <2>4, <2>6, <2>7 DEF StartupInv, StartupTypeOK
<1>6. CASE Applied(p) /\ UNCHANGED vars
  <2> DEFINE b == [d EXCEPT !.step = IF d.had THEN "listening" ELSE "reconciling",
                            !.left = IF ~d.had /\ HasChecksumColumn
                                     THEN DOMAIN ledger ELSE {}]
  <2>1. /\ at[p] = "owner" /\ d.step = "applying" /\ d.left = {}
        /\ boot' = [boot EXCEPT ![p] = b] /\ UNCHANGED <<at, token>>
    BY <1>1, <1>6 DEF Applied, At, vars
  <2>2. Standing(p)
    BY DEF StartupInv
  <2>3. DOMAIN ledger = DOMAIN d.files /\ d.files \in Build
    BY <2>1, <2>2 DEF Standing, Booting
  <2>4. /\ b \in BootRow /\ b.files = d.files /\ b.had = d.had
        /\ b.step = IF d.had THEN "listening" ELSE "reconciling"
        /\ b.left = IF ~d.had /\ HasChecksumColumn THEN DOMAIN ledger ELSE {}
    BY <1>1, <2>3, BuildFiles DEF BootRow, Booting
  <2> HIDE DEF b
  <2>5. boot'[p] = b
    BY <1>1, <2>1
  <2>6. Standing(p)'
    BY <1>1, <1>2, <2>1, <2>2, <2>3, <2>4, <2>5 DEF Standing, Booting
  <2>7. TokenIsTold'
    BY <2>1, TokenKept
  <2> QED
    BY <1>3, <2>1, <2>4, <2>6, <2>7 DEF StartupInv, StartupTypeOK
<1>7. CASE Fail(p) /\ at[p] = "owner" /\ d.step # "announcing" /\ UNCHANGED vars
  <2>1. boot' = [boot EXCEPT ![p] = Closed] /\ UNCHANGED <<at, token>>
    BY <1>7 DEF Fail, vars
  <2>2. Closed \in BootRow /\ Closed.step = "closed"
    BY DEF Closed, Out, BootRow
  <2>3. TokenIsTold'
    BY <1>7, <2>1, TokenKept
  <2> QED
    BY <1>3, <1>7, <2>1, <2>2, <2>3 DEF Booting, StartupInv, StartupTypeOK
<1>8. CASE Listen(p) /\ UNCHANGED vars
  <2> DEFINE b == [d EXCEPT !.step = "minting"]
  <2>1. /\ at[p] = "owner" /\ d.step = "listening"
        /\ boot' = [boot EXCEPT ![p] = b] /\ UNCHANGED <<at, token>>
    BY <1>1, <1>8 DEF Listen, At, Step, vars
  <2>2. Standing(p)
    BY DEF StartupInv
  <2>4. /\ b \in BootRow /\ b.files = d.files /\ b.had = d.had /\ b.step = "minting"
    BY <1>1 DEF BootRow, Booting
  <2> HIDE DEF b
  <2>5. boot'[p] = b
    BY <1>1, <2>1
  <2>6. Standing(p)'
    BY <1>1, <1>2, <2>1, <2>2, <2>4, <2>5 DEF Standing, Booting
  <2>7. TokenIsTold'
    BY <2>1, TokenKept
  <2> QED
    BY <1>3, <2>1, <2>4, <2>6, <2>7 DEF StartupInv, StartupTypeOK
<1>9. CASE (Mint(p) \/ Announce(p)) /\ UNCHANGED vars
  <2>1. PICK step \in {"announcing", "serving"} :
          /\ boot' = [boot EXCEPT ![p].step = step]
          /\ \/ token' = "minted" /\ step = "announcing"
             \/ token' = token /\ d.step = "minting"
             \/ token' = "told"
    BY <1>9 DEF Mint, Announce, Step, At
  <2>2. at[p] = "owner" /\ d.step \in {"minting", "announcing"} /\ UNCHANGED at
    BY <1>9 DEF Mint, Announce, At, vars
  <2> DEFINE b == [d EXCEPT !.step = step]
  <2>3. Standing(p) /\ token \in {"none", "minted", "told", "lost"}
    BY DEF StartupInv, StartupTypeOK
  <2>4. /\ b \in BootRow /\ b.files = d.files /\ b.had = d.had /\ b.step = step
        /\ boot' = [boot EXCEPT ![p] = b]
    BY <1>1, <2>1 DEF BootRow, Booting
  <2> HIDE DEF b
  <2>5. boot'[p] = b
    BY <1>1, <2>4
  <2>6. Standing(p)'
    BY <1>1, <1>2, <2>2, <2>3, <2>4, <2>5 DEF Standing, Booting
  <2>7. TokenIsTold'
    <3>1. CASE token' = "minted" /\ step = "announcing"
      BY <2>4, <2>5, <3>1 DEF TokenIsTold
    <3>2. CASE token' = token /\ d.step = "minting"
      BY <2>4, <3>2, TokenKept
    <3>3. CASE token' = "told"
      BY <3>3 DEF TokenIsTold
    <3> QED
      BY <2>1, <3>1, <3>2, <3>3
  <2>8. token' \in {"none", "minted", "told", "lost"} /\ at'[p] = "owner"
    BY <2>1, <2>2, <2>3
  <2> QED
    BY <1>3, <2>2, <2>4, <2>6, <2>7, <2>8
<1>10. CASE LetGo(p) \/ Killed(p)
  <2>1. Out \in BootRow /\ Out.step = "out"
    BY DEF Out, BootRow
  <2>2. boot' = [boot EXCEPT ![p] = Out] /\ \A q \in Process : q # p => at'[q] = at[q]
    BY <1>10 DEF LetGo, Killed, Release, Die, Go, Leave, StartupInv, LockInv, TypeOK
  <2>3. TokenIsTold' /\ token' \in {"none", "minted", "told", "lost"}
    <3>1. CASE token' = token /\ d.step # "announcing"
      BY <2>2, <3>1, TokenKept DEF StartupInv, StartupTypeOK
    <3>2. CASE token' = "lost"
      BY <3>2 DEF TokenIsTold
    <3> QED
      BY <1>10, <3>1, <3>2 DEF LetGo, Killed, At
  <2> QED
    BY <1>3, <2>1, <2>2, <2>3 DEF Booting
<1> QED
  BY <1>4, <1>5, <1>6, <1>7, <1>8, <1>9, <1>10

(* One row of the ledger gone through. *)
LEMMA ReconcileStep ==
  ASSUME StartupInv, LockInv', OneOwner', NEW p \in Process, Reconcile(p), UNCHANGED vars
  PROVE  StartupInv'
<1> DEFINE d == boot[p]
           f == Earliest(d.left)
           current == d.files[f]
<1>1. /\ at[p] = "owner" /\ d.step = "reconciling" /\ d.left # {}
      /\ d \in BootRow /\ boot \in [Process -> BootRow] /\ Standing(p)
  BY DEF Reconcile, At, StartupInv
<1>2. /\ d.files \in Build /\ DOMAIN ledger \subseteq DOMAIN d.files
      /\ d.left \subseteq DOMAIN ledger /\ HasChecksumColumn
      /\ \A g \in DOMAIN ledger \ d.left : ledger[g] = d.files[g]
      /\ IF d.had THEN d.before = DOMAIN ledger ELSE DOMAIN ledger = DOMAIN d.files
      /\ ~Ambiguous(d.files)
  BY <1>1 DEF Standing, Booting
<1>3. f \in d.left /\ current \in Content
  BY <1>1, <1>2, EarliestIs, BuildFiles DEF BootRow
<1> HIDE DEF f
<1>4. CASE Fail(p)
  BY <1>1, <1>4, QuietStep
<1>5. CASE /\ ledger[f] \in {Null, current}
           /\ ledger' = [ledger EXCEPT ![f] = current]
           /\ boot' = [boot EXCEPT ![p].left = @ \ {f}]
           /\ UNCHANGED <<schema, token>>
  <2> DEFINE b == [d EXCEPT !.left = @ \ {f}]
  <2>1. /\ b \in BootRow /\ boot' = [boot EXCEPT ![p] = b]
        /\ b.step = d.step /\ b.files = d.files /\ b.had = d.had /\ b.before = d.before
        /\ b.left = d.left \ {f}
    BY <1>1, <1>5 DEF BootRow
  <2> HIDE DEF b
  <2>2. \A q \in Process : boot'[q] = IF q = p THEN b ELSE boot[q]
    BY <1>1, <2>1
  <2>3. \A q \in Process : q # p => boot[q].step = "out"
    BY <1>1, OnlyOwnerStarts DEF StartupInv
  <2>4. /\ ledger \in [Ran -> Content \cup {Null}] /\ DOMAIN ledger = Ran
        /\ Ran' = Ran /\ f \in Ran
    BY <1>2, <1>3, <1>5 DEF StartupInv, LedgerIsTrue, Ran
  <2>5. /\ ledger' \in [Ran -> Content \cup {Null}] /\ DOMAIN ledger' = Ran
        /\ \A g \in Ran : ledger'[g] = IF g = f THEN current ELSE ledger[g]
    BY <1>3, <1>5, <2>4
  <2>6. HasChecksumColumn'
    BY <1>2, <2>4, <2>5 DEF HasChecksumColumn
  <2>7. boot' \in [Process -> BootRow] /\ at' = at /\ TypeOK'
    BY <1>1, <2>1 DEF vars, LockInv
  <2>8. StartupTypeOK'
    BY <1>1, <1>5, <2>2, <2>4, <2>5, <2>7
       DEF StartupInv, StartupTypeOK, BootRow, Booting
  <2>9. LedgerIsTrue'
    <3>1. ASSUME NEW i \in DOMAIN schema, ~RanUnrecorded(i)
          PROVE  ledger'[schema[i].file] = schema[i].content
      <4>1. schema[i].file \in Ran /\ ledger[schema[i].file] = schema[i].content
        BY <3>1 DEF StartupInv, LedgerIsTrue, Ran
      <4>2. schema[i].content \in Content
        <5>1. schema \in Seq([file : MigrationFile, content : Content])
          BY DEF StartupInv, StartupTypeOK
        <5>2. DOMAIN schema = 1 .. Len(schema)
          BY <5>1
        <5>3. schema[i] \in [file : MigrationFile, content : Content]
          BY <3>1, <5>1, <5>2, ElementOfSeq
        <5> QED
          BY <5>3
      <4> QED
        BY <1>5, <2>5, <4>1, <4>2, StartupAssumption
    <3>2. \A i : RanUnrecorded(i)' <=> RanUnrecorded(i)
      BY <1>5 DEF RanUnrecorded
    <3> QED
      BY <1>5, <2>4, <2>5, <2>6, <3>1, <3>2 DEF LedgerIsTrue, StartupInv
  <2>10. Standing(p)'
    BY <1>1, <1>2, <2>1, <2>2, <2>4, <2>5, <2>6 DEF Standing
  <2>11. \A q \in Process : Standing(q)'
    BY <2>2, <2>3, <2>10 DEF Standing, Booting
  <2>12. TokenIsTold'
    BY <1>1, <1>5, <2>1, TokenKept
  <2> QED
    BY <2>7, <2>8, <2>9, <2>11, <2>12 DEF StartupInv
<1> QED
  BY <1>4, <1>5 DEF Reconcile, f

(* One file that had never run, and its row. *)
LEMMA ApplyStep ==
  ASSUME StartupInv, LockInv', OneOwner', NEW p \in Process, Apply(p), UNCHANGED vars
  PROVE  StartupInv'
<1> DEFINE d == boot[p]
           f == Earliest(d.left)
           n == Len(schema) + 1
           new == [file |-> f, content |-> d.files[f]]
<1>1. /\ at[p] = "owner" /\ d.step = "applying" /\ d.left # {}
      /\ d \in BootRow /\ boot \in [Process -> BootRow] /\ Standing(p)
  BY DEF Apply, At, StartupInv
<1>2. /\ d.files \in Build /\ DOMAIN ledger \subseteq DOMAIN d.files
      /\ d.left = DOMAIN d.files \ DOMAIN ledger /\ (d.had => HasChecksumColumn)
      /\ \A g \in DOMAIN ledger : ledger[g] = d.files[g] \/ (ledger[g] = Null /\ ~d.had)
      /\ ~Ambiguous(d.files)
  BY <1>1 DEF Standing, Booting
<1>3. f \in d.left /\ d.files[f] \in Content /\ f \in MigrationFile
  BY <1>1, <1>2, EarliestIs, BuildFiles DEF BootRow
<1>4. /\ schema' = Append(schema, new)
      /\ ledger' = [g \in DOMAIN ledger \cup {f} |->
                      IF g # f THEN ledger[g]
                      ELSE IF HasChecksumColumn \/ f = ColumnFile
                           THEN d.files[f] ELSE Null]
      /\ boot' = [boot EXCEPT ![p].left = @ \ {f}] /\ token' = token
  BY DEF Apply
<1> HIDE DEF f
<1> DEFINE b == [d EXCEPT !.left = @ \ {f}]
<1>5. /\ b \in BootRow /\ boot' = [boot EXCEPT ![p] = b]
      /\ b.step = d.step /\ b.files = d.files /\ b.had = d.had
      /\ b.left = d.left \ {f}
  BY <1>1, <1>4 DEF BootRow
<1> HIDE DEF b
<1>6. \A q \in Process : boot'[q] = IF q = p THEN b ELSE boot[q]
  BY <1>1, <1>5
<1>7. \A q \in Process : q # p => boot[q].step = "out"
  BY <1>1, OnlyOwnerStarts DEF StartupInv
<1>8. /\ schema \in Seq([file : MigrationFile, content : Content])
      /\ ledger \in [Ran -> Content \cup {Null}] /\ DOMAIN ledger = Ran
  BY DEF StartupInv, StartupTypeOK, LedgerIsTrue
<1>9. /\ new \in [file : MigrationFile, content : Content]
      /\ new.file = f /\ new.content = d.files[f]
  BY <1>3
<1> HIDE DEF new
<1>10. /\ schema' \in Seq([file : MigrationFile, content : Content])
       /\ DOMAIN schema = 1 .. Len(schema) /\ DOMAIN schema' = 1 .. n /\ n \in Nat
       /\ \A i \in DOMAIN schema : schema'[i] = schema[i]
       /\ schema'[n] = new
  BY <1>4, <1>8, <1>9
<1>11. Ran' = Ran \cup {f} /\ f \notin Ran
  <2>1. \A i \in DOMAIN schema' : i = n \/ i \in DOMAIN schema
    BY <1>10
  <2>2. DOMAIN schema \subseteq DOMAIN schema' /\ n \in DOMAIN schema'
    BY <1>10
  <2> HIDE DEF n
  <2> QED
    BY <1>2, <1>3, <1>8, <1>9, <1>10, <2>1, <2>2 DEF Ran
<1>12. HasChecksumColumn' <=> HasChecksumColumn \/ f = ColumnFile
  BY <1>4 DEF HasChecksumColumn
<1>13. boot' \in [Process -> BootRow] /\ at' = at /\ TypeOK'
  BY <1>1, <1>5 DEF vars, LockInv
<1>14. /\ ledger' \in [Ran' -> Content \cup {Null}] /\ DOMAIN ledger' = Ran'
       /\ \A g \in Ran : ledger'[g] = ledger[g]
       /\ ledger'[f] = IF HasChecksumColumn \/ f = ColumnFile THEN d.files[f] ELSE Null
  BY <1>3, <1>4, <1>8, <1>11
<1>15. StartupTypeOK'
  BY <1>1, <1>4, <1>6, <1>10, <1>13, <1>14
     DEF StartupInv, StartupTypeOK, BootRow, Booting
<1>16. LedgerIsTrue'
  <2>1. \A i \in DOMAIN schema : schema[i].file \in Ran
    BY DEF Ran
  <2>2. ASSUME ~HasChecksumColumn', NEW g \in Ran' PROVE ledger'[g] = Null
    BY <1>11, <1>12, <1>14, <2>2 DEF StartupInv, LedgerIsTrue
  <2>3. ASSUME NEW i \in DOMAIN schema'
        PROVE  ledger'[schema'[i].file] = schema'[i].content \/ RanUnrecorded(i)'
    <3>1. CASE i \in DOMAIN schema
      <4>1. RanUnrecorded(i) => RanUnrecorded(i)'
        BY <1>10, <3>1 DEF RanUnrecorded
      <4> QED
        BY <1>10, <1>14, <2>1, <3>1, <4>1 DEF StartupInv, LedgerIsTrue
    <3>2. CASE i = n
      <4>1. CASE HasChecksumColumn \/ f = ColumnFile
        BY <1>9, <1>10, <1>14, <3>2, <4>1
      <4>2. CASE ~(HasChecksumColumn \/ f = ColumnFile)
        BY <1>8, <1>9, <1>10, <2>1, <4>2 DEF RanUnrecorded, HasChecksumColumn
      <4> QED
        BY <4>1, <4>2
    <3> QED
      BY <1>10, <2>3, <3>1, <3>2
  <2>4. ASSUME NEW i \in DOMAIN schema', NEW j \in DOMAIN schema',
               schema'[i].file = schema'[j].file
        PROVE  i = j
    <3>1. \A k \in DOMAIN schema' : k \in DOMAIN schema \/ k = n
      BY <1>10
    <3>2. \A k \in DOMAIN schema : schema'[k].file \in Ran
      BY <1>10, <2>1
    <3> HIDE DEF n
    <3> QED
      BY <1>9, <1>10, <1>11, <2>4, <3>1, <3>2 DEF StartupInv, LedgerIsTrue
  <2> QED
    BY <1>14, <2>2, <2>3, <2>4 DEF LedgerIsTrue
<1>17. Standing(p)'
  BY <1>1, <1>2, <1>3, <1>5, <1>6, <1>8, <1>11, <1>12, <1>14 DEF Standing
<1>18. \A q \in Process : Standing(q)'
  BY <1>6, <1>7, <1>17 DEF Standing, Booting
<1>19. TokenIsTold'
  BY <1>1, <1>4, <1>5, TokenKept
<1> QED
  BY <1>13, <1>15, <1>16, <1>18, <1>19 DEF StartupInv

-----------------------------------------------------------------------------
(* The order of what ran, while builds follow each other as they are meant to. *)

(* What ran is all that a build has up to some number. *)
RanFirst(files) ==
  /\ Ran \subseteq DOMAIN files
  /\ \A f \in DOMAIN files \ Ran, g \in Ran : NumberOf[g] < NumberOf[f]

InOrder ==
  /\ \A i, j \in DOMAIN schema :
       i < j => NumberOf[schema[i].file] < NumberOf[schema[j].file]
  /\ Ran = {} \/ \E files \in Build : ~Ambiguous(files) /\ RanFirst(files)

(* What another build ran is the beginning of any that can take it up. *)
LEMMA RanFirstOfBoth ==
  ASSUME AddedBehind, InOrder, NEW b \in Build, ~Ambiguous(b), Ran \subseteq DOMAIN b
  PROVE  RanFirst(b)
<1>1. CASE Ran = {}
  BY <1>1 DEF RanFirst
<1>2. CASE Ran # {}
  <2>1. PICK a \in Build : ~Ambiguous(a) /\ RanFirst(a)
    BY <1>2 DEF InOrder
  <2>2. \A x \in DOMAIN a \cup DOMAIN b : NumberOf[x] \in Nat
    BY BuildFiles, StartupAssumption
  <2>3. ASSUME NEW f \in DOMAIN b \ Ran, NEW g \in Ran PROVE NumberOf[g] < NumberOf[f]
    <3>1. CASE f \in DOMAIN a
      BY <2>1, <2>3, <3>1 DEF RanFirst
    <3>2. CASE f \notin DOMAIN a
      <4>1. g \in DOMAIN a
        BY <2>1 DEF RanFirst
      <4>2. ASSUME NEW x \in DOMAIN a, NumberOf[x] <= NumberOf[g] PROVE x \in Ran
        BY <2>1, <2>2, <4>1, <4>2 DEF RanFirst
      <4>3. {x \in DOMAIN a : NumberOf[x] <= NumberOf[g]} \subseteq DOMAIN b
        BY <4>2
      <4> QED
        BY <2>1, <3>2, <4>1, <4>3 DEF AddedBehind
    <3> QED
      BY <3>1, <3>2
  <2> QED
    BY <2>3 DEF RanFirst
<1> QED
  BY <1>1, <1>2

LEMMA ApplyInOrder ==
  ASSUME AddedBehind, StartupInv, InOrder, NEW p \in Process, Apply(p)
  PROVE  InOrder'
<1> DEFINE d == boot[p]
           f == Earliest(d.left)
           n == Len(schema) + 1
           new == [file |-> f, content |-> d.files[f]]
<1>1. /\ d.step = "applying" /\ d.left # {} /\ d \in BootRow /\ Standing(p)
      /\ schema' = Append(schema, new)
  BY DEF Apply, At, StartupInv
<1>2. /\ d.files \in Build /\ d.left = DOMAIN d.files \ Ran /\ Ran \subseteq DOMAIN d.files
      /\ ~Ambiguous(d.files) /\ d.left \subseteq MigrationFile
  BY <1>1 DEF Standing, Booting, BootRow, StartupInv, StartupTypeOK
<1>3. f \in d.left /\ \A h \in d.left : NumberOf[f] <= NumberOf[h]
  BY <1>1, <1>2, EarliestIs
<1> HIDE DEF f
<1>4. RanFirst(d.files)
  BY <1>2, RanFirstOfBoth
<1>5. new.file = f
  OBVIOUS
<1> HIDE DEF new
<1>6. schema \in Seq([file : MigrationFile, content : Content])
  BY DEF StartupInv, StartupTypeOK
<1>7. /\ DOMAIN schema = 1 .. Len(schema) /\ DOMAIN schema' = 1 .. n /\ n \in Nat
      /\ \A i \in DOMAIN schema : schema'[i] = schema[i]
      /\ schema'[n] = new
  BY <1>1, <1>6
<1>8. Ran' = Ran \cup {f}
  <2>1. \A i \in DOMAIN schema' : i = n \/ i \in DOMAIN schema
    BY <1>7
  <2>2. DOMAIN schema \subseteq DOMAIN schema' /\ n \in DOMAIN schema'
    BY <1>7
  <2> HIDE DEF n
  <2> QED
    BY <1>5, <1>7, <2>1, <2>2 DEF Ran
<1>9. ASSUME NEW i \in DOMAIN schema', NEW j \in DOMAIN schema', i < j
      PROVE  NumberOf[schema'[i].file] < NumberOf[schema'[j].file]
  <2>1. i \in DOMAIN schema /\ (j \in DOMAIN schema \/ j = n)
    BY <1>7, <1>9
  <2>2. schema[i].file \in Ran
    BY <2>1 DEF Ran
  <2>3. CASE j \in DOMAIN schema
    BY <1>7, <1>9, <2>1, <2>3 DEF InOrder
  <2>4. CASE j = n
    BY <1>2, <1>3, <1>4, <1>5, <1>7, <2>1, <2>2, <2>4 DEF RanFirst
  <2> QED
    BY <2>1, <2>3, <2>4
<1>10. PICK files \in Build : files = d.files
  BY <1>2
<1>11. RanFirst(files)'
  <2>1. \A x \in DOMAIN d.files : NumberOf[x] \in Nat
    BY <1>2, BuildFiles, StartupAssumption
  <2>2. ASSUME NEW h \in DOMAIN d.files \ Ran', NEW g \in Ran'
        PROVE  NumberOf[g] < NumberOf[h]
    <3>1. h \in d.left /\ h # f
      BY <1>2, <1>8, <2>2
    <3>2. CASE g \in Ran
      BY <1>2, <1>4, <3>1, <3>2 DEF RanFirst
    <3>3. CASE g = f
      BY <1>2, <1>3, <2>1, <3>1, <3>3 DEF Ambiguous
    <3> QED
      BY <1>8, <2>2, <3>2, <3>3
  <2> QED
    BY <1>2, <1>3, <1>8, <1>10, <2>2 DEF RanFirst
<1> QED
  BY <1>2, <1>9, <1>10, <1>11 DEF InOrder

-----------------------------------------------------------------------------
(* What a start promises. *)

(* As many rows as files that ran, when none ran twice. *)
LEMMA RowsAreFiles ==
  ASSUME StartupTypeOK, LedgerIsTrue PROVE Len(schema) = Cardinality(Ran)
<1> DEFINE at0 == [i \in 1 .. Len(schema) |-> schema[i].file]
<1>1. DOMAIN schema = 1 .. Len(schema) /\ Len(schema) \in Nat
  BY DEF StartupTypeOK
<1>2. at0 \in Bijection(1 .. Len(schema), Ran)
  BY <1>1 DEF Bijection, Injection, Surjection, IsInjective, Ran, LedgerIsTrue
<1>3. ExistsBijection(1 .. Len(schema), Ran)
  BY <1>2 DEF ExistsBijection
<1> QED
  BY <1>1, <1>3, FS_CountingElements

LEMMA ShippedWhenServing ==
  ASSUME StartupInv, InOrder PROVE SchemaIsShipped
<1> SUFFICES ASSUME NEW p \in Process, Serving(p)
             PROVE  /\ Ran = DOMAIN boot[p].files /\ Len(schema) = Cardinality(Ran)
                    /\ HasChecksumColumn => ledger = boot[p].files
                    /\ \A i \in DOMAIN schema :
                         \/ schema[i].content = boot[p].files[schema[i].file]
                         \/ RanUnrecorded(i)
  BY DEF SchemaIsShipped, InOrder
<1>1. /\ boot[p].files \in Build /\ DOMAIN ledger = DOMAIN boot[p].files
      /\ HasChecksumColumn => \A f \in DOMAIN ledger : ledger[f] = boot[p].files[f]
  BY DEF StartupInv, Standing, Serving, Booting
<1>2. /\ ledger \in [Ran -> Content \cup {Null}]
      /\ \A i \in DOMAIN schema :
           ledger[schema[i].file] = schema[i].content \/ RanUnrecorded(i)
  BY DEF StartupInv, LedgerIsTrue
<1>3. boot[p].files \in [DOMAIN boot[p].files -> Content]
  BY <1>1, StartupAssumption
<1>4. Ran = DOMAIN boot[p].files
  BY <1>1, <1>2
<1>5. HasChecksumColumn => ledger = boot[p].files
  BY <1>1, <1>2, <1>3, <1>4
<1>6. ASSUME NEW i \in DOMAIN schema, ~RanUnrecorded(i)
      PROVE  schema[i].content = boot[p].files[schema[i].file]
  <2>1. HasChecksumColumn
    BY <1>1, <1>4, <1>6 DEF RanUnrecorded, HasChecksumColumn, Ran
  <2> QED
    BY <1>2, <1>5, <1>6, <2>1
<1> QED
  BY <1>4, <1>5, <1>6, RowsAreFiles DEF StartupInv

LEMMA OrderKept == ASSUME InOrder, UNCHANGED schema PROVE InOrder'
<1>1. Ran' = Ran
  BY DEF Ran
<1>2. \A files \in Build : RanFirst(files) => RanFirst(files)'
  BY <1>1 DEF RanFirst
<1> QED
  BY <1>1, <1>2 DEF InOrder

(* A step of a control plane, or of its watcher, or none. *)
LEMMA StartupStep ==
  ASSUME StartupInv, OneOwner', [ControlPlaneNext]_allVars
  PROVE  StartupInv' /\ (AddedBehind /\ InOrder => InOrder')
<1>1. LockInv'
  BY LockOfControlPlane, LockStep DEF StartupInv
<1>2. ASSUME UNCHANGED startupVars, LockInv',
             \A p \in Process : at[p] = "owner" /\ boot[p].step # "out" => at'[p] = "owner"
      PROVE  StartupInv' /\ (InOrder => InOrder')
  <2>1. StartupTypeOK'
    BY <1>2 DEF startupVars, StartupInv, StartupTypeOK, Ran, LockInv
  <2>2. LedgerIsTrue' /\ TokenIsTold' /\ \A p \in Process : Standing(p)'
    BY <1>2 DEF startupVars, StartupInv, LedgerIsTrue, TokenIsTold, Standing, Ran,
       HasChecksumColumn, RanUnrecorded
  <2>3. InOrder => InOrder'
    BY <1>2, OrderKept DEF startupVars
  <2> QED
    BY <1>2, <2>1, <2>2, <2>3 DEF StartupInv, startupVars
<1>3. CASE UNCHANGED allVars \/ StreamStep
  <2>1. UNCHANGED <<vars, startupVars>>
    BY <1>3 DEF allVars, StreamStep, Served, Alone
  <2> QED
    BY <1>1, <1>2, <2>1 DEF vars
<1>4. ASSUME NEW p \in Process, Host(p) PROVE StartupInv' /\ (AddedBehind /\ InOrder => InOrder')
  <2>1. CASE (Start(p) \/ Acquire(p) \/ Unlink(p)) /\ UNCHANGED startupVars
    <3>1. at[p] # "owner" /\ \A q \in Process : q # p => at'[q] = at[q]
      BY <2>1 DEF Start, Acquire, Take, Write, Read, Judge, Remove, Unlink, Go,
         Leave, StartupInv, LockInv, TypeOK
    <3> QED
      BY <1>1, <1>2, <2>1, <3>1
  <2>2. CASE Reconcile(p) /\ UNCHANGED vars
    <3>1. StartupInv'
      BY <1>1, <2>2, ReconcileStep
    <3>2. UNCHANGED schema
      BY <2>2 DEF Reconcile, Fail
    <3> QED
      BY <3>1, <3>2, OrderKept
  <2>3. CASE Apply(p) /\ UNCHANGED vars
    BY <1>1, <2>3, ApplyStep, ApplyInOrder
  <2>4. CASE \/ (Open(p) \/ Reconciled(p) \/ Applied(p) \/ Listen(p) \/ Mint(p)
                   \/ Announce(p)) /\ UNCHANGED vars
             \/ Fail(p) /\ at[p] = "owner" /\ boot[p].step # "announcing" /\ UNCHANGED vars
             \/ LetGo(p) \/ Killed(p)
    <3>1. StartupInv'
      BY <1>1, <2>4, QuietStep
    <3>2. UNCHANGED schema
      BY <2>4 DEF Open, Reconciled, Applied, Listen, Mint, Announce, Fail, LetGo, Killed
    <3> QED
      BY <3>1, <3>2, OrderKept
  <2>5. ApplyFails(p) \/ ListenFails(p) \/ MintFails(p) \/ Shutdown(p)
          => Fail(p) /\ at[p] = "owner" /\ boot[p].step # "announcing"
    BY DEF ApplyFails, ListenFails, MintFails, Shutdown, At
  <2> QED
    BY <1>4, <2>1, <2>2, <2>3, <2>4, <2>5 DEF Host, HostStep, StartStep
<1> QED
  BY <1>3, <1>4 DEF ControlPlaneNext

(* When the schema grows, somebody applies over a ledger that agrees with the
   build it runs. *)
LEMMA GrowthStep ==
  ASSUME StartupInv, [ControlPlaneNext]_allVars, schema' # schema
  PROVE  \E p \in Process :
           /\ boot[p].step = "applying"
           /\ \A f \in DOMAIN ledger :
                f \in DOMAIN boot[p].files /\ ledger[f] \in {Null, boot[p].files[f]}
<1>1. PICK p \in Process : Apply(p)
  <2>1. ~UNCHANGED allVars /\ ~StreamStep
    BY DEF allVars, startupVars, StreamStep, Served, Alone
  <2>2. PICK p \in Process : HostStep(p)
    BY <2>1 DEF ControlPlaneNext, Host
  <2> QED
    BY <2>2 DEF HostStep, StartStep, Open, Reconcile, Reconciled, ApplyFails, Applied,
       Listen, ListenFails, Mint, MintFails, Announce, Shutdown, LetGo, Killed, Fail,
       startupVars
<1> QED
  BY <1>1 DEF Apply, At, StartupInv, Standing, Booting

(* Whatever fails or is killed on the way up, a control plane that answers stands
   on exactly its build's schema, the schema only grows over a ledger that agrees
   with the build, and no first token is spent without somebody to tell it (start,
   migrate): for any builds that follow each other as they are meant to, and any
   number of starts of which the lock never lets two up. *)
THEOREM StartsSound ==
  ASSUME AddedBehind PROVE ControlPlaneSpec /\ []OneOwner => StartsAreSound
<1> DEFINE Inv == StartupInv /\ InOrder
<1>1. ControlPlaneInit => Inv
  BY StartupBegins DEF ControlPlaneInit, StartupInit, InOrder, Ran
<1>2. Inv /\ OneOwner' /\ [ControlPlaneNext]_allVars => Inv'
  BY StartupStep
<1>3. Inv => StartupTypeOK /\ SchemaIsShipped /\ TokenIsTold
  BY ShippedWhenServing DEF StartupInv
<1>4. Inv /\ [ControlPlaneNext]_allVars =>
        [schema' # schema =>
           \E p \in Process :
             /\ boot[p].step = "applying"
             /\ \A f \in DOMAIN ledger :
                  f \in DOMAIN boot[p].files
                    /\ ledger[f] \in {Null, boot[p].files[f]}]_startupVars
  BY GrowthStep
<1> HIDE DEF Inv
<1> QED
  BY <1>1, <1>2, <1>3, <1>4, PTL DEF ControlPlaneSpec, StartsAreSound, GrowsOnKnownGround

-----------------------------------------------------------------------------
(* What the watcher hears. *)

(* Nothing finishes after one event and up to another. *)
Quiet(low, high) == \A e \in 1..Len(log) : low < e /\ e <= high => ~log[e]

(* The first round that finishes after an event. *)
Follows(low, e) ==
  e \in 1..Len(log) /\ log[e] /\ low < e /\ Quiet(low, e - 1)

(* Rounds one after the other, none left out. *)
Consecutive(s) ==
  /\ \A k \in DOMAIN s : s[k] \in 1..Len(log) /\ log[s[k]]
  /\ \A k \in DOMAIN s : k > 1 => Follows(s[k - 1], s[k])

(* All that finishes after one event and up to another, in order. *)
Lists(s, low, high) ==
  /\ s \in Seq(1..Len(log)) /\ Consecutive(s)
  /\ IF s = << >> THEN Quiet(low, high)
     ELSE Follows(low, s[1]) /\ low < s[Len(s)] /\ s[Len(s)] <= high /\ Quiet(s[Len(s)], high)

(* One event more. *)
LEMMA ListsOneMore ==
  ASSUME log \in Seq(BOOLEAN), NEW low \in Nat, NEW n \in 1..Len(log),
         NEW s, Lists(s, low, n - 1)
  PROVE  Lists(IF log[n] /\ n > low THEN Append(s, n) ELSE s, low, n)
<1> DEFINE t == Append(s, n)
<1>0. n \in Nat /\ n >= 1 /\ n <= Len(log) /\ Len(log) \in Nat /\ log[n] \in BOOLEAN
  OBVIOUS
<1>1. CASE ~(log[n] /\ n > low)
  <2>1. Quiet(n - 1, n) \/ n <= low
    BY <1>0, <1>1 DEF Quiet
  <2>2. CASE s = << >>
    <3>1. Quiet(low, n)
      BY <1>0, <1>1, <2>2 DEF Lists, Quiet
    <3> QED
      BY <1>1, <2>2, <3>1 DEF Lists
  <2>3. CASE s # << >>
    <3>1. s[1] \in Nat /\ s[Len(s)] \in Nat /\ low < s[1] /\ Len(s) \in Nat /\ Len(s) >= 1
      BY <2>3 DEF Lists, Follows
    <3>2. n > low
      BY <2>3, <3>1, <1>0 DEF Lists, Follows, Quiet
    <3>3. Quiet(s[Len(s)], n) /\ s[Len(s)] <= n
      BY <1>0, <1>1, <2>3, <3>1, <3>2 DEF Lists, Quiet
    <3> QED
      BY <1>1, <2>3, <3>3 DEF Lists
  <2> QED
    BY <2>2, <2>3, <1>1
<1>2. CASE log[n] /\ n > low
  <2>0. s \in Seq(1..Len(log)) /\ Consecutive(s)
    BY DEF Lists
  <2>1. /\ t \in Seq(1..Len(log)) /\ t # << >> /\ Len(t) = Len(s) + 1 /\ t[Len(t)] = n
        /\ \A k \in 1..Len(s) : t[k] = s[k]
        /\ Len(s) \in Nat
    BY <2>0
  <2>2. s # << >> => Follows(s[Len(s)], n) /\ t[1] = s[1]
    BY <1>2, <2>0, <2>1 DEF Lists, Follows, Quiet
  <2>3. s = << >> => Follows(low, n) /\ t[1] = n
    BY <1>2, <2>0, <2>1 DEF Lists, Follows, Quiet
  <2>4. Consecutive(t)
    <3>1. ASSUME NEW k \in DOMAIN t PROVE t[k] \in 1..Len(log) /\ log[t[k]]
      BY <1>2, <2>0, <2>1 DEF Consecutive
    <3>2. ASSUME NEW k \in DOMAIN t, k > 1 PROVE Follows(t[k - 1], t[k])
      <4>1. CASE k = Len(t)
        BY <2>1, <2>2, <3>2, <4>1
      <4>2. CASE k # Len(t)
        <5>1. k \in 1..Len(s) /\ k - 1 \in 1..Len(s) /\ DOMAIN s = 1..Len(s)
          BY <2>0, <2>1, <3>2, <4>2
        <5>2. t[k] = s[k] /\ t[k - 1] = s[k - 1]
          BY <2>1, <5>1
        <5>3. Follows(s[k - 1], s[k])
          BY <2>0, <3>2, <5>1 DEF Consecutive
        <5> QED
          BY <5>2, <5>3
      <4> QED
        BY <4>1, <4>2
    <3> QED
      BY <3>1, <3>2 DEF Consecutive
  <2>5. Quiet(n, n)
    BY DEF Quiet
  <2>6. Follows(low, t[1])
    BY <2>2, <2>3 DEF Lists
  <2> HIDE DEF t
  <2>7. Lists(t, low, n)
    BY <2>1, <2>4, <2>5, <2>6, <1>0, <1>2 DEF Lists
  <2> QED
    BY <2>7, <1>2 DEF t
<1> QED
  BY <1>1, <1>2

(* The query behind the stream lists what it says. *)
LEMMA SinceLists ==
  ASSUME log \in Seq(BOOLEAN), NEW low \in Nat
  PROVE  Lists(FinishedSince(low), low, Len(log))
<1> DEFINE N == Len(log)
           Next1(f, n) == IF n = 0 THEN << >>
                          ELSE IF log[n] /\ n > low THEN Append(f[n - 1], n) ELSE f[n - 1]
           Runs(f, m) == DOMAIN f = 0..m /\ \A n \in 0..m : f[n] = Next1(f, n)
           upto == CHOOSE f : f = [n \in 0..N |-> Next1(f, n)]
<1>0. N \in Nat
  OBVIOUS
<1>1. FinishedSince(low) = upto[N]
  BY DEF FinishedSince
<1>2. \E f : Runs(f, N)
  <2> DEFINE T == {m \in 0..N : ~\E f : Runs(f, m)}
  <2>1. CASE T # {}
    <3>1. PICK m \in T : \A y \in T : m <= y
      <4>1. T \subseteq Nat
        OBVIOUS
      <4> QED
        BY <2>1, <4>1, LeastNatural
    <3>2. m # 0
      <4>1. Runs([n \in 0..0 |-> << >>], 0)
        BY DEF Next1
      <4> QED
        BY <4>1, <3>1
    <3>3. m - 1 \in 0..N /\ m - 1 \notin T /\ m \in 0..N
      BY <3>1, <3>2, <1>0
    <3>4. PICK f : Runs(f, m - 1)
      BY <3>3
    <3> DEFINE g == [n \in 0..m |-> IF n = m THEN Next1(f, m) ELSE f[n]]
    <3>5. Runs(g, m)
      <4>1. DOMAIN g = 0..m
        OBVIOUS
      <4>2. ASSUME NEW n \in 0..m PROVE g[n] = Next1(g, n)
        <5>1. CASE n = m
          <6>1. g[n - 1] = f[n - 1]
            BY <3>2, <3>3, <5>1
          <6> QED
            BY <5>1, <6>1
        <5>2. CASE n # m
          <6>1. n \in 0..(m - 1) /\ g[n] = f[n]
            BY <3>3, <5>2
          <6>2. f[n] = Next1(f, n)
            BY <6>1, <3>4
          <6>3. n # 0 => g[n - 1] = f[n - 1]
            BY <6>1, <3>3
          <6> QED
            BY <6>1, <6>2, <6>3
        <5> QED
          BY <5>1, <5>2
      <4> HIDE DEF g
      <4> QED
        BY <4>1, <4>2
    <3> HIDE DEF g
    <3> QED
      BY <3>5, <3>1
  <2>2. CASE T = {}
    <3>1. N \in 0..N
      BY <1>0
    <3>2. N \notin T
      BY <2>2
    <3> HIDE DEF N, Runs
    <3> QED
      BY <3>1, <3>2, Zenon
  <2> QED
    BY <2>1, <2>2
<1>3. upto = [n \in 0..N |-> Next1(upto, n)]
  <2>1. PICK f : Runs(f, N)
    BY <1>2
  <2> DEFINE g == [n \in 0..N |-> f[n]]
  <2>2. g = [n \in 0..N |-> Next1(g, n)]
    <3>1. ASSUME NEW n \in 0..N PROVE f[n] = Next1(g, n)
      <4>1. n # 0 => n - 1 \in 0..N
        BY <1>0
      <4> QED
        BY <2>1, <4>1
    <3> HIDE DEF Next1
    <3> QED
      BY <3>1
  <2> HIDE DEF g, Next1
  <2> QED
    BY <2>2
<1> HIDE DEF upto
<1>4. \A n \in 0..N : Lists(upto[n], low, n)
  <2> DEFINE T == {n \in 0..N : ~Lists(upto[n], low, n)}
  <2>1. CASE T # {}
    <3>1. PICK n \in T : \A y \in T : n <= y
      <4>1. T \subseteq Nat
        OBVIOUS
      <4> QED
        BY <2>1, <4>1, LeastNatural
    <3>2. n # 0
      <4>1. upto[0] = << >>
        BY <1>3, <1>0
      <4>2. Lists(<< >>, low, 0)
        BY DEF Lists, Consecutive, Quiet
      <4> QED
        BY <4>1, <4>2, <3>1
    <3>3. n \in 1..N /\ n - 1 \in 0..N /\ n - 1 \notin T
      BY <3>1, <3>2, <1>0
    <3>4. Lists(upto[n - 1], low, n - 1)
      BY <3>3
    <3>5. upto[n] = IF log[n] /\ n > low THEN Append(upto[n - 1], n) ELSE upto[n - 1]
      <4>1. upto[n] = Next1(upto, n)
        <5> HIDE DEF Next1, N
        <5> QED
          BY <1>3
      <4>2. n # 0
        BY <3>3
      <4> QED
        BY <4>1, <4>2
    <3>6. Lists(upto[n], low, n)
      BY <3>3, <3>4, <3>5, ListsOneMore
    <3> QED
      BY <3>6, <3>1
  <2>2. CASE T = {}
    BY <2>2
  <2> QED
    BY <2>1, <2>2
<1> QED
  BY <1>0, <1>1, <1>4

(* What the watcher wrote: each round with both lenses, then the next round. *)
LinesFollow ==
  \A k \in DOMAIN lines :
    /\ log[lines[k][1]] /\ lines[k][2] = Lens(k)
    /\ k % 2 = 0 => lines[k][1] = lines[k - 1][1]
    /\ k % 2 = 1 /\ k > 1 => Follows(lines[k - 1][1], lines[k][1])

LastRound == lines[Len(lines)][1]

Looking == watch.at \in {"flow", "cost"}

(* What it wrote last is where it stands. *)
StandsWhereItWrote ==
  /\ watch.at = "flow" =>
       /\ Len(lines) % 2 = 0
       /\ watch.event # 0 /\ log[watch.event]
       /\ lines # << >> => Follows(LastRound, watch.event)
  /\ watch.at = "cost" => Len(lines) % 2 = 1 /\ LastRound = watch.event
  /\ ~Looking =>
       /\ Len(lines) % 2 = 0
       /\ watch.cursor = IF lines = << >> THEN 0 ELSE LastRound

(* The last round it took up, 0 before the first. *)
Reached == IF Looking THEN watch.event ELSE watch.cursor

(* What is on its way goes on where the watcher has got to, and the server where
   that ends. *)
WireGoesOn ==
  /\ Consecutive(conn.wire)
  /\ conn.wire # << >> /\ Reached # 0 => Follows(Reached, conn.wire[1])
  /\ conn.up =>
       IF conn.wire # << >> THEN conn.cursor = conn.wire[Len(conn.wire)]
       ELSE Reached # 0 => conn.cursor = Reached
  /\ watch.at \in {"off", "connecting", "pausing"} => ~conn.up /\ conn.wire = << >>

(* Both are records of just these fields. *)
StreamShape ==
  /\ conn = [up |-> conn.up, cursor |-> conn.cursor, wire |-> conn.wire]
  /\ watch = [at |-> watch.at, cursor |-> watch.cursor, event |-> watch.event]

StreamInv ==
  StreamShape /\ StreamTypeOK /\ LinesFollow /\ StandsWhereItWrote /\ WireGoesOn

(* A step that ends the connection: some of what was on its way arrives. *)
Cut ==
  /\ conn.up /\ Sever /\ UNCHANGED <<log, watch, lines>>
  /\ \/ drops' = drops
     \/ drops < MaxDrop /\ drops' = drops + 1

(* The steps the stream takes, whoever takes them. *)
LEMMA StreamMoves ==
  ASSUME [ControlPlaneNext]_allVars
  PROVE  \/ Record \/ Poll \/ Connect \/ Watch \/ Unanswered
         \/ Hear \/ RunFlow \/ RunCost \/ HearEnd \/ Resume
         \/ Cut \/ UNCHANGED streamVars
<1>1. CASE UNCHANGED allVars
  BY <1>1 DEF allVars
<1>2. CASE StreamStep
  <2>1. Drop => Cut
    BY DEF Drop, Cut
  <2> QED
    BY <1>2, <2>1 DEF StreamStep, Served, Alone, WatcherStep
<1>3. ASSUME NEW p \in Process, Host(p) PROVE Cut \/ UNCHANGED streamVars
  <2>1. (conn.up /\ Sever /\ UNCHANGED <<log, watch, lines, drops>>) \/ UNCHANGED streamVars
    BY <1>3 DEF Host, Hangs
  <2>2. CASE conn.up /\ Sever /\ UNCHANGED <<log, watch, lines, drops>>
    <3>1. UNCHANGED <<log, watch, lines>> /\ drops' = drops
      BY <2>2
    <3> QED
      BY <2>2, <3>1 DEF Cut
  <2> QED
    BY <2>1, <2>2
<1> QED
  BY <1>1, <1>2, <1>3 DEF ControlPlaneNext

(* One list of rounds goes on where another ends. *)
LEMMA JoinIsConsecutive ==
  ASSUME NEW s \in Seq(1..Len(log)), NEW t \in Seq(1..Len(log)),
         Consecutive(s), Consecutive(t), t # << >>,
         s # << >> => Follows(s[Len(s)], t[1])
  PROVE  /\ s \o t \in Seq(1..Len(log)) /\ Consecutive(s \o t) /\ s \o t # << >>
         /\ (s \o t)[Len(s \o t)] = t[Len(t)]
         /\ (s \o t)[1] = IF s = << >> THEN t[1] ELSE s[1]
<1> DEFINE w == s \o t
<1>1. /\ w \in Seq(1..Len(log)) /\ Len(w) = Len(s) + Len(t)
      /\ Len(s) \in Nat /\ Len(t) \in Nat /\ Len(t) >= 1
      /\ DOMAIN w = 1..Len(w) /\ DOMAIN s = 1..Len(s) /\ DOMAIN t = 1..Len(t)
      /\ s = << >> <=> Len(s) = 0
  OBVIOUS
<1>4. ASSUME NEW k \in 1..Len(w) PROVE w[k] = IF k <= Len(s) THEN s[k] ELSE t[k - Len(s)]
  OBVIOUS
<1> HIDE DEF w
<1>2. Consecutive(w)
  <2>1. ASSUME NEW k \in 1..Len(w) PROVE w[k] \in 1..Len(log) /\ log[w[k]]
    <3>1. CASE k <= Len(s)
      <4>1. k \in DOMAIN s /\ w[k] = s[k]
        BY <1>1, <1>4, <3>1
      <4> QED
        BY <4>1 DEF Consecutive
    <3>2. CASE ~(k <= Len(s))
      <4>1. k - Len(s) \in DOMAIN t /\ w[k] = t[k - Len(s)]
        <5>1. k \in 1..Len(w) /\ k \in Nat
          BY <1>1
        <5>2. w[k] = t[k - Len(s)]
          BY <1>4, <3>2, <5>1
        <5> QED
          BY <1>1, <3>2, <5>1, <5>2
      <4> QED
        BY <4>1 DEF Consecutive
    <3> QED
      BY <3>1, <3>2
  <2>2. ASSUME NEW k \in 1..Len(w), k > 1 PROVE Follows(w[k - 1], w[k])
    <3>0. k \in 1..Len(w) /\ k - 1 \in 1..Len(w) /\ k \in Nat
      BY <1>1, <2>2
    <3>4. /\ w[k] = IF k <= Len(s) THEN s[k] ELSE t[k - Len(s)]
          /\ w[k - 1] = IF k - 1 <= Len(s) THEN s[k - 1] ELSE t[(k - 1) - Len(s)]
      BY <1>4, <3>0
    <3>1. CASE k <= Len(s)
      <4>1. k \in DOMAIN s /\ w[k] = s[k] /\ w[k - 1] = s[k - 1]
        BY <1>1, <2>2, <3>0, <3>4, <3>1
      <4> QED
        BY <2>2, <4>1 DEF Consecutive
    <3>2. CASE k = Len(s) + 1
      <4>1. w[k] = t[1] /\ w[k - 1] = s[Len(s)] /\ s # << >>
        BY <1>1, <2>2, <3>0, <3>4, <3>2
      <4> QED
        BY <4>1
    <3>3. CASE k > Len(s) + 1
      <4>1. /\ k - Len(s) \in DOMAIN t /\ k - Len(s) > 1
            /\ w[k] = t[k - Len(s)] /\ w[k - 1] = t[(k - Len(s)) - 1]
        <5>1. k - Len(s) \in 1..Len(t) /\ k - Len(s) > 1 /\ (k - 1) - Len(s) = (k - Len(s)) - 1
          <6>1. Len(w) = Len(s) + Len(t) /\ Len(s) \in Nat /\ Len(t) \in Nat
            BY <1>1
          <6>2. k \in Nat /\ k <= Len(w) /\ k > Len(s) + 1
            BY <1>1, <3>0, <3>3
          <6> QED
            BY <6>1, <6>2
        <5> QED
          BY <1>1, <3>0, <3>4, <3>3, <5>1
      <4> QED
        BY <4>1 DEF Consecutive
    <3> HIDE DEF Follows
    <3>5. k <= Len(s) \/ k = Len(s) + 1 \/ k > Len(s) + 1
      <4>1. Len(s) \in Nat
        BY <1>1
      <4> QED
        BY <3>0, <4>1
    <3> QED
      BY <3>1, <3>2, <3>3, <3>5
  <2> QED
    BY <1>1, <2>1, <2>2 DEF Consecutive
<1>3. w # << >> /\ w[Len(w)] = t[Len(t)] /\ w[1] = IF s = << >> THEN t[1] ELSE s[1]
  <2>1. 1 \in 1..Len(w) /\ Len(w) \in 1..Len(w)
    BY <1>1
  <2>2. /\ w[1] = IF 1 <= Len(s) THEN s[1] ELSE t[1 - Len(s)]
        /\ w[Len(w)] = IF Len(w) <= Len(s) THEN s[Len(w)] ELSE t[Len(w) - Len(s)]
    BY <1>4, <2>1
  <2>3. w # << >> /\ Len(w) - Len(s) = Len(t)
    BY <1>1
  <2> QED
    BY <1>1, <2>2, <2>3
<1> QED
  BY <1>1, <1>2, <1>3 DEF w

(* A connection that is given what is new goes on where it was. *)
LEMMA PushGoesOn ==
  ASSUME log \in Seq(BOOLEAN),
         NEW place \in 0..Len(log), NEW bytes \in Seq(1..Len(log)),
         Consecutive(bytes), bytes # << >> => place = bytes[Len(bytes)]
  PROVE  \E last \in 0..Len(log), w \in Seq(1..Len(log)) :
           /\ Pushed([up |-> TRUE, cursor |-> place, wire |-> bytes])
                = [up |-> TRUE, cursor |-> last, wire |-> w]
           /\ Consecutive(w)
           /\ IF w = << >> THEN last = place ELSE last = w[Len(w)]
           /\ bytes # << >> => w # << >> /\ w[1] = bytes[1]
           /\ bytes = << >> /\ w # << >> => Follows(place, w[1])
<1> DEFINE news == FinishedSince(place)
<1>1. Lists(news, place, Len(log))
  BY SinceLists
<1> DEFINE c == [up |-> TRUE, cursor |-> place, wire |-> bytes]
<1>0. Pushed(c) = IF news = << >> THEN c
                  ELSE [up |-> TRUE, cursor |-> news[Len(news)], wire |-> bytes \o news]
  <2>1. c.cursor = place
    OBVIOUS
  <2>2. FinishedSince(c.cursor) = news
    BY <2>1
  <2>3. Pushed(c) = IF news = << >> THEN c
                    ELSE [c EXCEPT !.wire = @ \o news, !.cursor = news[Len(news)]]
    <3> HIDE DEF news, c
    <3> QED
      BY <2>2, Zenon DEF Pushed
  <2> HIDE DEF news
  <2> QED
    BY <2>3
<1> HIDE DEF news
<1>2. CASE news = << >>
  BY <1>0, <1>2
<1>3. CASE news # << >>
  <2> DEFINE w == bytes \o news
  <2>1. news \in Seq(1..Len(log)) /\ Consecutive(news) /\ Follows(place, news[1])
    BY <1>1, <1>3 DEF Lists
  <2>2. /\ w \in Seq(1..Len(log)) /\ Consecutive(w) /\ w # << >>
        /\ w[Len(w)] = news[Len(news)]
        /\ w[1] = IF bytes = << >> THEN news[1] ELSE bytes[1]
    BY <2>1, <1>3, JoinIsConsecutive
  <2>3. Pushed(c) = [up |-> TRUE, cursor |-> news[Len(news)], wire |-> w]
    BY <1>0, <1>3
  <2>4. news[Len(news)] \in 0..Len(log)
    BY <2>1, <1>3
  <2> HIDE DEF w
  <2> QED
    BY <2>1, <2>2, <2>3, <2>4
<1> QED
  BY <1>2, <1>3

LEMMA StreamBegins == ASSUME StreamInit PROVE StreamInv
<1> USE StreamAssumption DEF StreamInit, Unconnected
<1>1. StreamShape /\ StreamTypeOK
  BY DEF StreamShape, StreamTypeOK
<1>2. LinesFollow
  BY DEF LinesFollow
<1>3. StandsWhereItWrote /\ WireGoesOn
  BY DEF StandsWhereItWrote, WireGoesOn, Looking, Consecutive, Reached
<1> QED
  BY <1>1, <1>2, <1>3 DEF StreamInv

(* What follows what does not change when the log grows. *)
LEMMA GrowthKeepsOrder ==
  ASSUME log \in Seq(BOOLEAN), NEW b \in BOOLEAN, log' = Append(log, b)
  PROVE  /\ \A low \in Nat, e \in Nat : Follows(low, e) => Follows(low, e)'
         /\ \A s \in Seq(1..Len(log)) : Consecutive(s) => Consecutive(s)'
<1>1. /\ Len(log') = Len(log) + 1 /\ Len(log) \in Nat
      /\ \A e \in 1..Len(log) : log'[e] = log[e]
  OBVIOUS
<1>2. ASSUME NEW low \in Nat, NEW e \in Nat, Follows(low, e) PROVE Follows(low, e)'
  BY <1>1, <1>2 DEF Follows, Quiet
<1>3. ASSUME NEW s \in Seq(1..Len(log)), Consecutive(s) PROVE Consecutive(s)'
  <2>1. ASSUME NEW k \in DOMAIN s PROVE s[k] \in 1..Len(log') /\ log'[s[k]]
    BY <1>1, <1>3 DEF Consecutive
  <2>2. ASSUME NEW k \in DOMAIN s, k > 1 PROVE Follows(s[k - 1], s[k])'
    <3>1. k - 1 \in DOMAIN s /\ s[k] \in Nat /\ s[k - 1] \in Nat
      BY <2>2
    <3>2. Follows(s[k - 1], s[k])
      BY <1>3, <2>2 DEF Consecutive
    <3> QED
      BY <1>2, <3>1, <3>2
  <2> QED
    BY <2>1, <2>2 DEF Consecutive
<1> QED
  BY <1>2, <1>3

LEMMA RecordKeeps == ASSUME StreamInv, Record PROVE StreamInv'
<1> USE StreamAssumption
<1>1. PICK b \in BOOLEAN : log' = Append(log, b)
  BY DEF Record
<1>2. UNCHANGED <<conn, watch, lines, drops>> /\ Len(log) < MaxEvent
  BY DEF Record
<1>3. StreamShape /\ StreamTypeOK /\ LinesFollow /\ StandsWhereItWrote /\ WireGoesOn
  BY DEF StreamInv
<1>4. log \in Seq(BOOLEAN)
  BY <1>3 DEF StreamTypeOK
<1>5. /\ Len(log') = Len(log) + 1 /\ Len(log) \in Nat
      /\ \A e \in 1..Len(log) : log'[e] = log[e]
  BY <1>1, <1>4
<1>6. /\ \A low \in Nat, e \in Nat : Follows(low, e) => Follows(low, e)'
      /\ \A s \in Seq(1..Len(log)) : Consecutive(s) => Consecutive(s)'
  BY <1>1, <1>4, GrowthKeepsOrder
<1>7. StreamShape' /\ StreamTypeOK'
  <2>1. log' \in Seq(BOOLEAN) /\ Len(log') <= MaxEvent
    BY <1>1, <1>2, <1>4, <1>5
  <2>2. conn.wire \in Seq(1..Len(log')) /\ lines \in Seq((1..Len(log')) \X {"flow", "cost"})
    BY <1>3, <1>5 DEF StreamTypeOK
  <2> QED
    BY <1>2, <1>3, <1>5, <2>1, <2>2 DEF StreamShape, StreamTypeOK
<1>8. LinesFollow'
  <2>1. ASSUME NEW k \in DOMAIN lines
        PROVE  /\ lines[k][1] \in 1..Len(log) /\ log[lines[k][1]] /\ lines[k][2] = Lens(k)
               /\ k % 2 = 0 => lines[k][1] = lines[k - 1][1]
               /\ k % 2 = 1 /\ k > 1 =>
                    Follows(lines[k - 1][1], lines[k][1]) /\ lines[k - 1][1] \in Nat
    <3>1. lines \in Seq((1..Len(log)) \X {"flow", "cost"})
      BY <1>3 DEF StreamTypeOK
    <3>2. \A i \in DOMAIN lines : lines[i][1] \in 1..Len(log)
      BY <3>1
    <3>3. k > 1 => k - 1 \in DOMAIN lines
      BY <3>1
    <3>4. k > 1 => lines[k - 1][1] \in Nat
      BY <3>2, <3>3
    <3>5. /\ log[lines[k][1]] /\ lines[k][2] = Lens(k)
          /\ k % 2 = 0 => lines[k][1] = lines[k - 1][1]
          /\ k % 2 = 1 /\ k > 1 => Follows(lines[k - 1][1], lines[k][1])
      BY <1>3 DEF LinesFollow
    <3> QED
      BY <3>2, <3>4, <3>5
  <2>2. ASSUME NEW k \in DOMAIN lines
        PROVE  /\ log'[lines[k][1]] /\ lines[k][2] = Lens(k)
               /\ k % 2 = 0 => lines[k][1] = lines[k - 1][1]
               /\ k % 2 = 1 /\ k > 1 => Follows(lines[k - 1][1], lines[k][1])'
    BY <1>2, <1>5, <1>6, <2>1
  <2> QED
    BY <1>2, <2>2 DEF LinesFollow, Lens
<1>9. StandsWhereItWrote'
  <2>1. watch.event \in 0..Len(log) /\ (lines # << >> => LastRound \in Nat)
    BY <1>3 DEF StreamTypeOK, LastRound
  <2>2. watch.at = "flow" /\ lines # << >> => Follows(LastRound, watch.event)'
    BY <1>2, <1>3, <1>6, <2>1 DEF StandsWhereItWrote, LastRound
  <2>3. watch.at = "flow" => log'[watch.event]
    BY <1>3, <1>5, <2>1 DEF StandsWhereItWrote
  <2> QED
    BY <1>2, <1>3, <2>2, <2>3 DEF StandsWhereItWrote, LastRound, Looking
<1>10. WireGoesOn'
  <2>1. Consecutive(conn.wire)'
    BY <1>2, <1>3, <1>6 DEF StreamTypeOK, WireGoesOn
  <2>2. conn.wire # << >> /\ Reached # 0 => Follows(Reached, conn.wire[1])'
    <3>1. Reached \in Nat /\ (conn.wire # << >> => conn.wire[1] \in Nat)
      BY <1>3 DEF StreamTypeOK, Reached
    <3> QED
      BY <1>2, <1>3, <1>6, <3>1 DEF WireGoesOn, Reached, Looking
  <2> QED
    BY <1>2, <1>3, <2>1, <2>2 DEF WireGoesOn, Reached, Looking
<1> QED
  BY <1>7, <1>8, <1>9, <1>10 DEF StreamInv

(* What a poll or the backlog puts on the wire. *)
LEMMA DrainKeeps == ASSUME StreamInv, Poll \/ Connect PROVE StreamInv'
<1>1. UNCHANGED <<log, lines, drops>>
  BY DEF Poll, Connect
<1>3. StreamShape /\ StreamTypeOK /\ LinesFollow /\ StandsWhereItWrote /\ WireGoesOn
  BY DEF StreamInv
<1>4. log \in Seq(BOOLEAN) /\ Len(log) \in Nat
  BY <1>3 DEF StreamTypeOK
<1>5. CASE Poll
  <2>1. /\ conn.up /\ conn' = Pushed(conn) /\ UNCHANGED watch
        /\ conn = [up |-> TRUE, cursor |-> conn.cursor, wire |-> conn.wire]
    BY <1>3, <1>5 DEF Poll, StreamShape
  <2>2. PICK last \in 0..Len(log), w \in Seq(1..Len(log)) :
           /\ Pushed([up |-> TRUE, cursor |-> conn.cursor, wire |-> conn.wire])
                = [up |-> TRUE, cursor |-> last, wire |-> w]
           /\ Consecutive(w)
           /\ IF w = << >> THEN last = conn.cursor ELSE last = w[Len(w)]
           /\ conn.wire # << >> => w # << >> /\ w[1] = conn.wire[1]
           /\ conn.wire = << >> /\ w # << >> => Follows(conn.cursor, w[1])
    <3>1. /\ conn.cursor \in 0..Len(log) /\ conn.wire \in Seq(1..Len(log))
          /\ Consecutive(conn.wire)
          /\ conn.wire # << >> => conn.cursor = conn.wire[Len(conn.wire)]
      BY <1>3, <2>1 DEF StreamTypeOK, WireGoesOn
    <3> QED
      BY <1>4, <3>1, PushGoesOn, Zenon
  <2>3. conn' = [up |-> TRUE, cursor |-> last, wire |-> w]
    BY <2>1, <2>2
  <2>4. StreamShape' /\ StreamTypeOK'
    BY <1>1, <1>3, <2>1, <2>3 DEF StreamShape, StreamTypeOK
  <2>5. LinesFollow' /\ StandsWhereItWrote'
    BY <1>1, <1>3, <2>1 DEF LinesFollow, StandsWhereItWrote, LastRound, Looking, Follows,
       Quiet, Lens
  <2>6. WireGoesOn'
    <3>1. w # << >> /\ Reached # 0 => Follows(Reached, w[1])
      BY <1>3, <2>1, <2>2 DEF WireGoesOn
    <3>2. watch.at \notin {"off", "connecting", "pausing"}
      BY <1>3, <2>1 DEF WireGoesOn
    <3>3. w = << >> => (Reached # 0 => last = Reached)
      BY <1>3, <2>1, <2>2 DEF WireGoesOn
    <3> QED
      BY <1>1, <2>1, <2>2, <2>3, <3>1, <3>2, <3>3
         DEF WireGoesOn, Reached, Looking, Consecutive, Follows, Quiet
  <2> QED
    BY <2>4, <2>5, <2>6 DEF StreamInv
<1>6. CASE Connect
  <2> DEFINE from == ReadCursor(watch.cursor)
  <2>1. /\ watch.at = "connecting" /\ watch' = [watch EXCEPT !.at = "reading"]
        /\ conn' = Pushed([up |-> TRUE, cursor |-> from, wire |-> << >>])
    BY <1>6 DEF Connect, Turn
  <2>2. from \in 0..Len(log) /\ (watch.cursor # 0 => from = watch.cursor)
    BY <1>3, <1>4 DEF StreamTypeOK, ReadCursor
  <2> HIDE DEF from
  <2>3. PICK nothing : nothing = << >>
    OBVIOUS
  <2>4. PICK last \in 0..Len(log), w \in Seq(1..Len(log)) :
           /\ Pushed([up |-> TRUE, cursor |-> from, wire |-> nothing])
                = [up |-> TRUE, cursor |-> last, wire |-> w]
           /\ Consecutive(w)
           /\ IF w = << >> THEN last = from ELSE last = w[Len(w)]
           /\ nothing # << >> => w # << >> /\ w[1] = nothing[1]
           /\ nothing = << >> /\ w # << >> => Follows(from, w[1])
    <3>1. nothing \in Seq(1..Len(log)) /\ Consecutive(nothing)
      BY <2>3 DEF Consecutive
    <3>2. from \in 0..Len(log) /\ (nothing # << >> => from = nothing[Len(nothing)])
      BY <2>2, <2>3
    <3> QED
      BY <1>4, <3>1, <3>2, PushGoesOn, Zenon
  <2>5. /\ Pushed([up |-> TRUE, cursor |-> from, wire |-> << >>])
             = [up |-> TRUE, cursor |-> last, wire |-> w]
        /\ Consecutive(w)
        /\ IF w = << >> THEN last = from ELSE last = w[Len(w)]
        /\ w # << >> => Follows(from, w[1])
    BY <2>3, <2>4
  <2>6. conn' = [up |-> TRUE, cursor |-> last, wire |-> w]
    BY <2>1, <2>5
  <2>7. watch' = [at |-> "reading", cursor |-> watch.cursor, event |-> watch.event]
    BY <1>3, <2>1 DEF StreamShape
  <2>8. StreamShape' /\ StreamTypeOK'
    BY <1>1, <1>3, <2>6, <2>7 DEF StreamShape, StreamTypeOK
  <2>9. LinesFollow' /\ StandsWhereItWrote'
    BY <1>1, <1>3, <2>1, <2>7 DEF LinesFollow, StandsWhereItWrote, LastRound, Looking,
       Follows, Quiet, Lens
  <2>10. WireGoesOn'
    <3>1. Reached' = watch.cursor /\ Consecutive(w)'
      BY <1>1, <2>5, <2>7 DEF Reached, Looking, Consecutive, Follows, Quiet
    <3>2. w # << >> /\ watch.cursor # 0 => Follows(watch.cursor, w[1])'
      BY <1>1, <2>2, <2>5, <2>7 DEF Follows, Quiet
    <3> QED
      BY <2>2, <2>5, <2>6, <2>7, <3>1, <3>2 DEF WireGoesOn
  <2> QED
    BY <2>8, <2>9, <2>10 DEF StreamInv
<1> QED
  BY <1>5, <1>6

(* The watcher moves on, and nothing else does. *)
LEMMA TurnKeeps ==
  ASSUME StreamInv, Watch \/ Unanswered \/ HearEnd \/ Resume PROVE StreamInv'
<1>1. UNCHANGED <<log, conn, lines, drops>>
  BY DEF Watch, Unanswered, HearEnd, Resume
<1>2. StreamShape /\ StreamTypeOK /\ LinesFollow /\ StandsWhereItWrote /\ WireGoesOn
  BY DEF StreamInv
<1>3. PICK stage \in {"connecting", "pausing"} : watch' = [watch EXCEPT !.at = stage]
  BY DEF Watch, Unanswered, HearEnd, Resume, Turn
<1>4. watch' = [at |-> stage, cursor |-> watch.cursor, event |-> watch.event]
  BY <1>2, <1>3 DEF StreamShape
<1>5. ~Looking /\ ~conn.up /\ conn.wire = << >>
  BY <1>2 DEF Watch, Unanswered, HearEnd, Resume, Looking, WireGoesOn
<1>6. StreamShape' /\ StreamTypeOK'
  BY <1>1, <1>2, <1>4 DEF StreamShape, StreamTypeOK
<1>7. LinesFollow'
  BY <1>1, <1>2 DEF LinesFollow, Follows, Quiet, Lens
<1>8. StandsWhereItWrote'
  BY <1>1, <1>2, <1>4, <1>5 DEF StandsWhereItWrote, LastRound, Looking
<1>9. WireGoesOn'
  BY <1>1, <1>2, <1>5 DEF WireGoesOn, Consecutive
<1> QED
  BY <1>6, <1>7, <1>8, <1>9 DEF StreamInv

(* The rest of a list of rounds. *)
LEMMA RestIsConsecutive ==
  ASSUME NEW s \in Seq(1..Len(log)), s # << >>, Consecutive(s)
  PROVE  /\ Tail(s) \in Seq(1..Len(log)) /\ Consecutive(Tail(s)) /\ Head(s) = s[1]
         /\ Tail(s) # << >> => Follows(s[1], Tail(s)[1]) /\ Tail(s)[Len(Tail(s))] = s[Len(s)]
         /\ Tail(s) = << >> => s[Len(s)] = s[1]
<1> DEFINE t == Tail(s)
<1>1. /\ t \in Seq(1..Len(log)) /\ Len(s) \in Nat /\ Len(s) >= 1 /\ Len(t) = Len(s) - 1
      /\ DOMAIN s = 1..Len(s) /\ DOMAIN t = 1..Len(t) /\ Head(s) = s[1]
      /\ t = << >> <=> Len(t) = 0
  <2>1. Len(s) \in Nat /\ Len(s) >= 1 /\ DOMAIN s = 1..Len(s) /\ Head(s) = s[1]
    OBVIOUS
  <2>2. t \in Seq(1..Len(log))
    BY HeadTailProperties
  <2>3. Len(t) = Len(s) - 1
    BY HeadTailProperties
  <2> HIDE DEF t
  <2>4. DOMAIN t = 1..Len(t) /\ (t = << >> <=> Len(t) = 0)
    BY <2>2
  <2> QED
    BY <2>1, <2>2, <2>3, <2>4
<1>2. ASSUME NEW k \in 1..Len(t) PROVE t[k] = s[k + 1]
  OBVIOUS
<1> HIDE DEF t
<1>3. Consecutive(t)
  <2>1. ASSUME NEW k \in 1..Len(t) PROVE t[k] \in 1..Len(log) /\ log[t[k]]
    <3>1. k + 1 \in DOMAIN s
      BY <1>1
    <3> QED
      BY <1>2, <3>1 DEF Consecutive
  <2>2. ASSUME NEW k \in 1..Len(t), k > 1 PROVE Follows(t[k - 1], t[k])
    <3>1. /\ k + 1 \in DOMAIN s /\ k + 1 > 1 /\ (k + 1) - 1 = k
          /\ k - 1 \in 1..Len(t) /\ (k - 1) + 1 = k
      BY <1>1, <2>2
    <3>2. t[k] = s[k + 1] /\ t[k - 1] = s[k]
      BY <1>2, <3>1
    <3> QED
      BY <3>1, <3>2 DEF Consecutive
  <2> QED
    BY <1>1, <2>1, <2>2 DEF Consecutive
<1>4. t # << >> => Follows(s[1], t[1]) /\ t[Len(t)] = s[Len(s)]
  <2>1. ASSUME t # << >>
        PROVE  1 \in 1..Len(t) /\ Len(t) \in 1..Len(t) /\ 2 \in DOMAIN s /\ Len(t) + 1 = Len(s)
    BY <1>1, <2>1
  <2>2. ASSUME t # << >> PROVE t[1] = s[2] /\ t[Len(t)] = s[Len(s)]
    BY <1>2, <2>1, <2>2
  <2>3. 2 \in DOMAIN s => Follows(s[1], s[2])
    <3>1. \A k \in DOMAIN s : k > 1 => Follows(s[k - 1], s[k])
      BY DEF Consecutive
    <3>2. 2 - 1 = 1 /\ 2 > 1
      OBVIOUS
    <3> QED
      BY <3>1, <3>2
  <2> QED
    BY <2>1, <2>2, <2>3
<1>5. t = << >> => s[Len(s)] = s[1]
  BY <1>1
<1> QED
  BY <1>1, <1>3, <1>4, <1>5 DEF t

(* An event is taken up. *)
LEMMA HearKeeps == ASSUME StreamInv, Hear PROVE StreamInv'
<1> DEFINE s == conn.wire
<1>1. /\ UNCHANGED <<log, lines, drops>> /\ watch.at = "reading" /\ s # << >>
      /\ watch' = [watch EXCEPT !.at = "flow", !.event = Head(s)]
      /\ conn' = [conn EXCEPT !.wire = Tail(s)]
  BY DEF Hear
<1>2. StreamShape /\ StreamTypeOK /\ LinesFollow /\ StandsWhereItWrote /\ WireGoesOn
  BY DEF StreamInv
<1>3. s \in Seq(1..Len(log)) /\ Consecutive(s) /\ log \in Seq(BOOLEAN) /\ Len(log) \in Nat
  BY <1>2 DEF StreamTypeOK, WireGoesOn
<1>4. PICK w : w = Tail(s)
  OBVIOUS
<1>5. PICK e : e = s[1]
  OBVIOUS
<1>6. /\ w \in Seq(1..Len(log)) /\ Consecutive(w) /\ Head(s) = e
      /\ w # << >> => Follows(e, w[1]) /\ w[Len(w)] = s[Len(s)]
      /\ w = << >> => s[Len(s)] = e
  BY <1>1, <1>3, <1>4, <1>5, RestIsConsecutive
<1>7. e \in 1..Len(log) /\ log[e]
  <2>1. 1 \in DOMAIN s
    BY <1>1, <1>3
  <2> QED
    BY <1>3, <1>5, <2>1 DEF Consecutive
<1>8. /\ conn' = [up |-> conn.up, cursor |-> conn.cursor, wire |-> w]
      /\ watch' = [at |-> "flow", cursor |-> watch.cursor, event |-> e]
  BY <1>1, <1>2, <1>4, <1>6 DEF StreamShape
<1>9. conn.up => conn.cursor = s[Len(s)]
  BY <1>1, <1>2 DEF WireGoesOn
<1>10. /\ ~Looking /\ Reached = watch.cursor
       /\ Len(lines) % 2 = 0 /\ watch.cursor = IF lines = << >> THEN 0 ELSE LastRound
  BY <1>1, <1>2 DEF Looking, Reached, StandsWhereItWrote
<1>11. lines # << >> => Follows(LastRound, e)
  <2>1. lines # << >> => LastRound # 0
    BY <1>2 DEF StreamTypeOK, LastRound
  <2> QED
    BY <1>1, <1>2, <1>5, <1>10, <2>1 DEF WireGoesOn
<1> HIDE DEF s
<1>12. StreamShape' /\ StreamTypeOK'
  <2>1. e \in 0..Len(log)
    BY <1>3, <1>7
  <2>2. conn'.up = conn.up /\ conn'.cursor = conn.cursor /\ conn'.wire = w
    BY <1>8
  <2>3. watch'.at = "flow" /\ watch'.cursor = watch.cursor /\ watch'.event = e
    BY <1>8
  <2>4. StreamShape'
    BY <1>8, <2>2, <2>3 DEF StreamShape
  <2>5. StreamTypeOK'
    BY <1>1, <1>2, <1>6, <2>1, <2>2, <2>3 DEF StreamTypeOK
  <2> QED
    BY <2>4, <2>5
<1>13. LinesFollow'
  BY <1>1, <1>2 DEF LinesFollow, Follows, Quiet, Lens
<1>14. StandsWhereItWrote'
  <2>1. LastRound' = LastRound /\ e # 0 /\ log'[e]
    BY <1>1, <1>7 DEF LastRound
  <2>2. lines # << >> => Follows(LastRound, e)'
    BY <1>1, <1>11, <2>1 DEF Follows, Quiet
  <2>3. watch'.at = "flow" /\ watch'.event = e
    BY <1>8
  <2> QED
    BY <1>1, <1>10, <2>1, <2>2, <2>3 DEF StandsWhereItWrote, Looking
<1>15. WireGoesOn'
  <2>1. Reached' = e
    BY <1>8 DEF Reached, Looking
  <2>2. Consecutive(w)' /\ (w # << >> => Follows(e, w[1])')
    BY <1>1, <1>6 DEF Consecutive, Follows, Quiet
  <2>3. conn.up => IF w # << >> THEN conn.cursor = w[Len(w)] ELSE conn.cursor = e
    BY <1>6, <1>9
  <2> QED
    BY <1>8, <2>1, <2>2, <2>3 DEF WireGoesOn, Follows, Quiet, Consecutive
<1> QED
  BY <1>12, <1>13, <1>14, <1>15 DEF StreamInv

(* A lens more. *)
LEMMA LensKeeps == ASSUME StreamInv, RunFlow \/ RunCost PROVE StreamInv'
<1>1. UNCHANGED <<log, conn, drops>>
  BY DEF RunFlow, RunCost
<1>2. StreamShape /\ StreamTypeOK /\ LinesFollow /\ StandsWhereItWrote /\ WireGoesOn
  BY DEF StreamInv
<1>3. PICK e : e = watch.event
  OBVIOUS
<1>4. PICK lens \in {"flow", "cost"} : lines' = Append(lines, <<e, lens>>) /\ watch.at = lens
  BY <1>3 DEF RunFlow, RunCost
<1>5. /\ Len(lines) \in Nat /\ Len(lines') = Len(lines) + 1
      /\ lines'[Len(lines) + 1] = <<e, lens>>
      /\ \A k \in 1..Len(lines) : lines'[k] = lines[k]
      /\ DOMAIN lines = 1..Len(lines) /\ DOMAIN lines' = 1..(Len(lines) + 1)
      /\ lines = << >> <=> Len(lines) = 0
      /\ lines' # << >>
  <2>1. lines \in Seq((1..Len(log)) \X {"flow", "cost"})
    BY <1>2 DEF StreamTypeOK
  <2> DEFINE line == <<e, lens>>
  <2>2. lines' = Append(lines, line)
    BY <1>4
  <2> HIDE DEF line
  <2>3. /\ Len(lines) \in Nat /\ DOMAIN lines = 1..Len(lines)
        /\ lines = << >> <=> Len(lines) = 0
    BY <2>1
  <2>4. /\ Len(lines') = Len(lines) + 1 /\ DOMAIN lines' = 1..(Len(lines) + 1)
        /\ lines'[Len(lines) + 1] = line
        /\ \A k \in 1..Len(lines) : lines'[k] = lines[k]
    BY <2>1, <2>2
  <2>5. lines' # << >>
    BY <2>3, <2>4
  <2> QED
    BY <2>3, <2>4, <2>5 DEF line
<1>6. /\ lens = "flow" => Len(lines) % 2 = 0 /\ (lines # << >> => Follows(LastRound, e))
      /\ lens = "cost" => Len(lines) % 2 = 1 /\ LastRound = e
  BY <1>2, <1>3, <1>4 DEF StandsWhereItWrote
<1>7. e \in 1..Len(log) /\ log[e]
  <2>1. CASE lens = "flow"
    BY <1>2, <1>3, <1>4, <2>1 DEF StandsWhereItWrote, StreamTypeOK
  <2>2. CASE lens = "cost"
    <3>1. Len(lines) \in DOMAIN lines
      BY <1>5, <1>6, <2>2
    <3>2. lines[Len(lines)][1] \in 1..Len(log) /\ log[lines[Len(lines)][1]]
      BY <1>2, <3>1 DEF StreamTypeOK, LinesFollow
    <3> QED
      BY <1>6, <2>2, <3>2 DEF LastRound
  <2> QED
    BY <2>1, <2>2
<1>8. watch' = IF lens = "flow" THEN [at |-> "cost", cursor |-> watch.cursor, event |-> e]
               ELSE [at |-> "reading", cursor |-> e, event |-> 0]
  BY <1>2, <1>3, <1>4 DEF RunFlow, RunCost, Turn, StreamShape
<1>9. StreamShape' /\ StreamTypeOK'
  <2>1. lines' \in Seq((1..Len(log)) \X {"flow", "cost"})
    BY <1>2, <1>4, <1>7 DEF StreamTypeOK
  <2> QED
    BY <1>1, <1>2, <1>7, <1>8, <2>1 DEF StreamShape, StreamTypeOK
<1>10. LinesFollow'
  <2> SUFFICES ASSUME NEW k \in 1..(Len(lines) + 1)
               PROVE  /\ log[lines'[k][1]] /\ lines'[k][2] = Lens(k)
                      /\ k % 2 = 0 => lines'[k][1] = lines'[k - 1][1]
                      /\ k % 2 = 1 /\ k > 1 => Follows(lines'[k - 1][1], lines'[k][1])
    BY <1>1, <1>5 DEF LinesFollow, Lens, Follows, Quiet
  <2>1. CASE k \in 1..Len(lines)
    <3>1. lines'[k] = lines[k] /\ (k > 1 => lines'[k - 1] = lines[k - 1])
      BY <1>5, <2>1
    <3>2. k % 2 = 0 => k > 1
      BY <2>1, <1>5
    <3>3. /\ log[lines[k][1]] /\ lines[k][2] = Lens(k)
          /\ k % 2 = 0 => lines[k][1] = lines[k - 1][1]
          /\ k % 2 = 1 /\ k > 1 => Follows(lines[k - 1][1], lines[k][1])
      BY <1>2, <1>5, <2>1 DEF LinesFollow
    <3> QED
      BY <3>1, <3>2, <3>3
  <2>2. CASE k = Len(lines) + 1
    <3>1. lines'[k] = <<e, lens>> /\ k - 1 = Len(lines)
      BY <1>5, <2>2
    <3>2. k > 1 => lines'[k - 1][1] = LastRound /\ lines # << >>
      BY <1>5, <2>2 DEF LastRound
    <3>3. CASE lens = "flow"
      <4>1. k % 2 = 1
        BY <1>5, <1>6, <2>2, <3>3
      <4> QED
        BY <1>6, <1>7, <3>1, <3>2, <3>3, <4>1 DEF Lens
    <3>4. CASE lens = "cost"
      <4>1. k % 2 = 0 /\ k > 1
        BY <1>5, <1>6, <2>2, <3>4
      <4> QED
        BY <1>6, <1>7, <3>1, <3>2, <3>4, <4>1 DEF Lens
    <3> QED
      BY <3>3, <3>4
  <2> QED
    BY <1>5, <2>1, <2>2
<1>11. StandsWhereItWrote'
  <2>1. LastRound' = e
    BY <1>5 DEF LastRound
  <2>2. CASE lens = "flow"
    <3>1. Len(lines') % 2 = 1 /\ watch'.at = "cost" /\ watch'.event = e
      BY <1>5, <1>6, <1>8, <2>2
    <3> QED
      BY <2>1, <3>1 DEF StandsWhereItWrote, Looking
  <2>3. CASE lens = "cost"
    <3>1. Len(lines') % 2 = 0 /\ watch'.at = "reading" /\ watch'.cursor = e
      BY <1>5, <1>6, <1>8, <2>3
    <3> QED
      BY <1>5, <2>1, <3>1 DEF StandsWhereItWrote, Looking
  <2> QED
    BY <2>2, <2>3
<1>12. WireGoesOn'
  <2>1. Reached = e /\ Reached' = e
    BY <1>3, <1>4, <1>8 DEF Reached, Looking
  <2>2. watch'.at \in {"cost", "reading"}
    BY <1>8
  <2> QED
    BY <1>1, <1>2, <2>1, <2>2 DEF WireGoesOn, Consecutive, Follows, Quiet
<1> QED
  BY <1>9, <1>10, <1>11, <1>12 DEF StreamInv

(* The connection ends. *)
LEMMA CutKeeps == ASSUME StreamInv, Cut PROVE StreamInv'
<1>1. UNCHANGED <<log, watch, lines>> /\ conn.up
  BY DEF Cut
<1>2. StreamShape /\ StreamTypeOK /\ LinesFollow /\ StandsWhereItWrote /\ WireGoesOn
  BY DEF StreamInv
<1>3. PICK n \in 0..Len(conn.wire) :
        conn' = [up |-> FALSE, cursor |-> 0, wire |-> SubSeq(conn.wire, 1, n)]
  BY DEF Cut, Sever
<1>4. PICK w : w = SubSeq(conn.wire, 1, n)
  OBVIOUS
<1>5. /\ w \in Seq(1..Len(log)) /\ Len(w) = n /\ n \in Nat /\ n <= Len(conn.wire)
      /\ \A k \in 1..n : w[k] = conn.wire[k]
      /\ DOMAIN w = 1..n
  <2>1. conn.wire \in Seq(1..Len(log)) /\ Len(conn.wire) \in Nat
    BY <1>2 DEF StreamTypeOK
  <2>2. n \in Nat /\ n <= Len(conn.wire)
    BY <2>1
  <2>3. PICK bytes : bytes = conn.wire
    OBVIOUS
  <2>4. w = SubSeq(bytes, 1, n) /\ bytes \in Seq(1..Len(log)) /\ n <= Len(bytes)
    BY <1>4, <2>1, <2>2, <2>3
  <2>5. Len(w) = n /\ DOMAIN w = 1..n /\ \A k \in 1..n : w[k] = bytes[k]
    BY <2>2, <2>4
  <2>6. w \in Seq(1..Len(log))
    BY <2>2, <2>4
  <2> QED
    BY <2>2, <2>3, <2>5, <2>6
<1>6. Consecutive(w)
  <2>1. /\ \A k \in DOMAIN conn.wire : conn.wire[k] \in 1..Len(log) /\ log[conn.wire[k]]
        /\ \A k \in DOMAIN conn.wire : k > 1 => Follows(conn.wire[k - 1], conn.wire[k])
    BY <1>2 DEF WireGoesOn, Consecutive
  <2>2. ASSUME NEW k \in DOMAIN w
        PROVE  /\ k \in DOMAIN conn.wire /\ w[k] = conn.wire[k]
               /\ k > 1 => w[k - 1] = conn.wire[k - 1]
    <3>1. DOMAIN conn.wire = 1..Len(conn.wire) /\ Len(conn.wire) \in Nat
      BY <1>2 DEF StreamTypeOK
    <3>2. k \in 1..n /\ (k > 1 => k - 1 \in 1..n)
      BY <1>5
    <3> QED
      BY <1>5, <3>1, <3>2
  <2> QED
    BY <2>1, <2>2 DEF Consecutive
<1>7. w # << >> => conn.wire # << >> /\ w[1] = conn.wire[1]
  BY <1>2, <1>5 DEF StreamTypeOK
<1>8. StreamShape' /\ StreamTypeOK'
  <2>1. drops' \in 0..MaxDrop
    BY <1>2, StreamAssumption DEF Cut, StreamTypeOK
  <2> QED
    BY <1>1, <1>2, <1>3, <1>4, <1>5, <2>1 DEF StreamShape, StreamTypeOK
<1>9. LinesFollow' /\ StandsWhereItWrote'
  BY <1>1, <1>2 DEF LinesFollow, StandsWhereItWrote, LastRound, Looking, Follows, Quiet, Lens
<1>10. WireGoesOn'
  <2>1. watch.at \notin {"off", "connecting", "pausing"}
    BY <1>1, <1>2 DEF WireGoesOn
  <2>2. Consecutive(w)'
    BY <1>1, <1>6 DEF Consecutive, Follows, Quiet
  <2>3. w # << >> /\ Reached # 0 => Follows(Reached, w[1])'
    BY <1>1, <1>2, <1>7 DEF WireGoesOn, Reached, Looking, Follows, Quiet
  <2>4. conn'.up = FALSE /\ conn'.wire = w /\ Reached' = Reached
    BY <1>1, <1>3, <1>4 DEF Reached, Looking
  <2> QED
    BY <1>1, <2>1, <2>2, <2>3, <2>4 DEF WireGoesOn, Consecutive, Follows, Quiet
<1> QED
  BY <1>8, <1>9, <1>10 DEF StreamInv

LEMMA StreamKeeps == ASSUME StreamInv, [ControlPlaneNext]_allVars PROVE StreamInv'
<1>1. CASE UNCHANGED streamVars
  BY <1>1 DEF streamVars, StreamInv, StreamShape, StreamTypeOK, LinesFollow,
     StandsWhereItWrote, WireGoesOn, LastRound, Looking, Reached, Consecutive, Follows,
     Quiet, Lens
<1> QED
  BY <1>1, StreamMoves, RecordKeeps, DrainKeeps, TurnKeeps, HearKeeps, LensKeeps, CutKeeps

(* Only one round is the next. *)
LEMMA NextIsUnique ==
  ASSUME log \in Seq(BOOLEAN), NEW low \in Nat, NEW e, NEW f, Follows(low, e), Follows(low, f)
  PROVE  e = f
BY DEF Follows, Quiet

(* What is written so goes through the rounds, one pair of lines for each. *)
LEMMA LinesGoThroughRounds == ASSUME StreamInv PROVE EachRoundOnce
<1> SUFFICES ASSUME lines # << >> PROVE EachRoundOnce
  BY DEF EachRoundOnce
<1> DEFINE low == lines[1][1] - 1
           rounds == FinishedSince(low)
           Nth(k) == (k + 1) \div 2
           Right(k) == Nth(k) \in DOMAIN rounds /\ lines[k][1] = rounds[Nth(k)]
<1>1. log \in Seq(BOOLEAN) /\ Len(log) \in Nat
  BY DEF StreamInv, StreamTypeOK
<1>2. /\ DOMAIN lines = 1..Len(lines) /\ Len(lines) \in Nat /\ 1 \in DOMAIN lines
      /\ \A k \in DOMAIN lines :
           lines[k][1] \in 1..Len(log) /\ lines[k] = <<lines[k][1], lines[k][2]>>
  <2>1. lines \in Seq((1..Len(log)) \X {"flow", "cost"})
    BY DEF StreamInv, StreamTypeOK
  <2>2. DOMAIN lines = 1..Len(lines) /\ Len(lines) \in Nat /\ 1 \in DOMAIN lines
    BY <2>1
  <2>3. \A k \in DOMAIN lines : lines[k] \in (1..Len(log)) \X {"flow", "cost"}
    BY <2>1
  <2> QED
    BY <2>2, <2>3
<1>3. \A k \in DOMAIN lines :
        /\ log[lines[k][1]] /\ lines[k][2] = Lens(k)
        /\ k % 2 = 0 => lines[k][1] = lines[k - 1][1]
        /\ k % 2 = 1 /\ k > 1 => Follows(lines[k - 1][1], lines[k][1])
  BY DEF StreamInv, LinesFollow
<1>4. low \in Nat /\ low + 1 = lines[1][1]
  BY <1>1, <1>2
<1>5. Lists(rounds, low, Len(log))
  <2> HIDE DEF low
  <2> QED
    BY <1>1, <1>4, SinceLists
<1> HIDE DEF low, rounds
<1>6. rounds \in Seq(1..Len(log)) /\ Consecutive(rounds)
  BY <1>5 DEF Lists
<1>7. rounds # << >> /\ rounds[1] = lines[1][1]
  <2>1. Follows(low, lines[1][1])
    BY <1>1, <1>2, <1>3, <1>4 DEF Follows, Quiet
  <2>2. rounds # << >>
    BY <1>1, <1>2, <1>3, <1>4, <1>5 DEF Lists, Quiet
  <2>3. Follows(low, rounds[1])
    BY <1>5, <2>2 DEF Lists
  <2> QED
    BY <1>1, <1>4, <2>1, <2>2, <2>3, NextIsUnique
<1>8. Right(1)
  <2>1. 1 \in DOMAIN rounds /\ Nth(1) = 1
    BY <1>6, <1>7
  <2> QED
    BY <1>7, <2>1
<1>9. ASSUME NEW k \in DOMAIN lines, k > 1, Right(k - 1) PROVE Right(k)
  <2>1. k \in Nat /\ k - 1 \in DOMAIN lines /\ (k - 1) + 1 = k
    BY <1>2, <1>9
  <2> DEFINE j == k \div 2
  <2>2. Nth(k - 1) = j
    BY <2>1
  <2>3. j \in DOMAIN rounds /\ lines[k - 1][1] = rounds[j]
    BY <1>9, <2>2
  <2>4. CASE k % 2 = 0
    <3>1. Nth(k) = j
      BY <2>1, <2>4
    <3> QED
      BY <1>3, <2>3, <2>4, <3>1
  <2>5. CASE k % 2 = 1
    <3>1. Nth(k) = j + 1
      <4>1. k \in Nat /\ k % 2 = 1
        BY <2>1, <2>5
      <4>2. \A i \in Nat : i % 2 = 1 => (i + 1) \div 2 = (i \div 2) + 1
        OBVIOUS
      <4> QED
        BY <4>1, <4>2
    <3>2. Follows(rounds[j], lines[k][1])
      BY <1>3, <1>9, <2>3, <2>5
    <3> HIDE DEF j
    <3>3. rounds[j] \in Nat /\ Len(rounds) \in Nat /\ j \in 1..Len(rounds)
      BY <1>6, <2>3
    <3>4. j # Len(rounds)
      <4>1. Quiet(rounds[Len(rounds)], Len(log))
        BY <1>5, <1>7 DEF Lists
      <4> QED
        BY <1>1, <3>2, <3>3, <4>1 DEF Follows, Quiet
    <3>5. j + 1 \in DOMAIN rounds /\ j + 1 > 1 /\ (j + 1) - 1 = j
      BY <1>6, <3>3, <3>4
    <3>6. Follows(rounds[j], rounds[j + 1])
      BY <1>6, <3>5 DEF Consecutive
    <3>7. lines[k][1] = rounds[j + 1]
      BY <1>1, <3>2, <3>3, <3>6, NextIsUnique
    <3> QED
      BY <3>1, <3>5, <3>7
  <2> QED
    BY <2>1, <2>4, <2>5
<1> HIDE DEF Right
<1>10. \A k \in DOMAIN lines : Right(k)
  <2> DEFINE T == {k \in DOMAIN lines : ~Right(k)}
  <2>1. CASE T # {}
    <3>1. PICK k \in T : \A y \in T : k <= y
      <4>1. T \subseteq Nat
        BY <1>2
      <4> QED
        BY <2>1, <4>1, LeastNatural
    <3>2. k > 1
      BY <1>2, <1>8, <3>1
    <3>3. k - 1 \in DOMAIN lines /\ k - 1 \notin T
      BY <1>2, <3>1, <3>2
    <3> QED
      BY <1>9, <3>1, <3>2, <3>3
  <2>2. CASE T = {}
    BY <2>2
  <2> QED
    BY <2>1, <2>2
<1>11. ASSUME NEW k \in DOMAIN lines
       PROVE  (k + 1) \div 2 \in DOMAIN rounds
                /\ lines[k] = <<rounds[(k + 1) \div 2], Lens(k)>>
  BY <1>2, <1>3, <1>10 DEF Right
<1> QED
  BY <1>11 DEF EachRoundOnce, rounds, low

(* From the first round the watcher heard of, it looks at every round that finishes,
   once with each lens and in the log's order, however often connections drop and
   control planes come and go (runWatch, subscribe, drain). *)
THEOREM RoundsOnceEach == ControlPlaneSpec => [](StreamTypeOK /\ EachRoundOnce)
<1>1. ControlPlaneInit => StreamInv
  BY StreamBegins DEF ControlPlaneInit
<1>2. StreamInv /\ [ControlPlaneNext]_allVars => StreamInv'
  BY StreamKeeps
<1>3. StreamInv => StreamTypeOK /\ EachRoundOnce
  BY LinesGoThroughRounds DEF StreamInv
<1> QED
  BY <1>1, <1>2, <1>3, PTL DEF ControlPlaneSpec

=============================================================================
