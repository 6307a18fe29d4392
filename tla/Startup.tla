------------------------------- MODULE Startup -------------------------------
(***************************************************************************)
(* What a control plane does between taking the lock and answering (start   *)
(* and migrate), over the database the last one left: the files of its      *)
(* build that never ran, the ledger of those that did, and the operator's   *)
(* first credential.  One migration is one transaction, one filled checksum *)
(* one statement; the process may die between any two steps.  The seeded    *)
(* settings, which no later step reads, are left out.                       *)
(***************************************************************************)
EXTENDS OwnerLock, FiniteSets, Sequences

CONSTANTS
  Build,        \* what a build's migrations directory may hold: file |-> content
  NumberOf,     \* the number each file's name begins with
  ColumnFile,   \* the file that adds the ledger's checksum column
  Null          \* the checksum of a row older than the column

MigrationFile == UNION {DOMAIN files : files \in Build}

Content == UNION {{files[f] : f \in DOMAIN files} : files \in Build}

ASSUME StartupAssumption ==
  /\ \A files \in Build : files \in [DOMAIN files -> Content]
  /\ NumberOf \in [MigrationFile -> Nat]
  /\ Null \notin Content

VARIABLES
  schema,    \* the migrations the database ran, in order
  ledger,    \* schema_migrations: the checksum of each file that ran
  token,     \* the operator's first credential
  boot       \* where each process stands in start()

startupVars == <<schema, ledger, token, boot>>

(* A process that has not opened the database, or has closed it for good. *)
Out == [step |-> "out", files |-> << >>, before |-> {}, had |-> FALSE, left |-> {}]

(* The app listens, and its routes answer. *)
Serving(p) == boot[p].step \in {"minting", "announcing", "serving"}

HasChecksumColumn == ColumnFile \in DOMAIN ledger

(* listMigrations' order, which the zero-padded ids of the ledger share. *)
Earliest(files) == CHOOSE f \in files : \A g \in files : NumberOf[f] <= NumberOf[g]

Ambiguous(files) ==
  \E f, g \in DOMAIN files : f # g /\ NumberOf[f] = NumberOf[g]

(* How builds are meant to follow each other, which no step looks at: what a
   build adds to everything another one had up to a file, it numbers behind it. *)
AddedBehind ==
  \A a, b \in {files \in Build : ~Ambiguous(files)} :
    \A g \in DOMAIN a :
      {f \in DOMAIN a : NumberOf[f] <= NumberOf[g]} \subseteq DOMAIN b
        => \A f \in DOMAIN b \ DOMAIN a : NumberOf[g] < NumberOf[f]

At(p, step) == at[p] = "owner" /\ boot[p].step = step

Step(p, step) == boot' = [boot EXCEPT ![p].step = step]

Closed == [Out EXCEPT !.step = "closed"]

(* catch: the handle is closed, then the lock goes. *)
Fail(p) == boot' = [boot EXCEPT ![p] = Closed] /\ UNCHANGED <<schema, ledger, token>>

-----------------------------------------------------------------------------

(* Fault: the ledger is only looked at when everything has been applied. *)
FaultyOpen(p) ==
  /\ At(p, "out")
  /\ \E files \in Build :
       boot' = [boot EXCEPT ![p] =
         IF Ambiguous(files) \/ ~(DOMAIN ledger \subseteq DOMAIN files)
         THEN Closed
         ELSE [step |-> "applying", files |-> files, before |-> DOMAIN ledger,
               had |-> FALSE, left |-> DOMAIN files \ DOMAIN ledger]]
  /\ UNCHANGED <<schema, ledger, token>>

(* openDatabase, and what migrate looks at first: the directory of the build
   this process runs, and that every file the ledger names is still in it. *)
Open(p) ==
  /\ At(p, "out")
  /\ \E files \in Build :
       boot' = [boot EXCEPT ![p] =
         IF Ambiguous(files) \/ ~(DOMAIN ledger \subseteq DOMAIN files)
         THEN Closed
         ELSE [step   |-> IF HasChecksumColumn THEN "reconciling" ELSE "applying",
               files  |-> files,
               before |-> DOMAIN ledger,
               had    |-> HasChecksumColumn,
               left   |-> IF HasChecksumColumn THEN DOMAIN ledger
                                               ELSE DOMAIN files \ DOMAIN ledger]]
  /\ UNCHANGED <<schema, ledger, token>>

(* reconcileChecksums, one row: an unknown checksum is taken from the file as
   it is, a known one has to be the file's. *)
Reconcile(p) ==
  /\ At(p, "reconciling") /\ boot[p].left # {}
  /\ LET f       == Earliest(boot[p].left)
         current == boot[p].files[f] IN
       IF ledger[f] \in {Null, current}
       THEN /\ ledger' = [ledger EXCEPT ![f] = current]
            /\ boot' = [boot EXCEPT ![p].left = @ \ {f}]
            /\ UNCHANGED <<schema, token>>
       ELSE Fail(p)

(* The pass is over: the loop over pending files, if this pass came first. *)
Reconciled(p) ==
  /\ At(p, "reconciling") /\ boot[p].left = {}
  /\ boot' = [boot EXCEPT ![p].step = IF boot[p].had THEN "applying" ELSE "listening",
                          ![p].left = IF boot[p].had
                                      THEN DOMAIN boot[p].files \ boot[p].before ELSE {}]
  /\ UNCHANGED <<schema, ledger, token>>

(* One migration: its file and its row in one transaction.  The column is asked
   for after the file ran, which may be the one that adds it. *)
Apply(p) ==
  /\ At(p, "applying") /\ boot[p].left # {}
  /\ LET f == Earliest(boot[p].left) IN
       /\ schema' = Append(schema, [file |-> f, content |-> boot[p].files[f]])
       /\ ledger' = [g \in DOMAIN ledger \cup {f} |->
                      IF g # f THEN ledger[g]
                      ELSE IF HasChecksumColumn \/ f = ColumnFile
                           THEN boot[p].files[f] ELSE Null]
       /\ boot' = [boot EXCEPT ![p].left = @ \ {f}]
  /\ UNCHANGED token

(* A file that does not run leaves nothing behind. *)
ApplyFails(p) == At(p, "applying") /\ boot[p].left # {} /\ Fail(p)

(* Everything ran: the ledger is gone through now if it could not be before. *)
Applied(p) ==
  /\ At(p, "applying") /\ boot[p].left = {}
  /\ boot' = [boot EXCEPT
       ![p].step = IF boot[p].had THEN "listening" ELSE "reconciling",
       ![p].left = IF ~boot[p].had /\ HasChecksumColumn THEN DOMAIN ledger ELSE {}]
  /\ UNCHANGED <<schema, ledger, token>>

(* createApp and listen: a setting that is no number, or the port is taken. *)
Listen(p) ==
  /\ At(p, "listening")
  /\ Step(p, "minting")
  /\ UNCHANGED <<schema, ledger, token>>

ListenFails(p) == At(p, "listening") /\ Fail(p)

(* The operator's credential, unless the database has a live one: nobody revokes
   the one that was minted. *)
Mint(p) ==
  /\ At(p, "minting")
  /\ IF token = "none"
     THEN token' = "minted" /\ Step(p, "announcing")
     ELSE Step(p, "serving") /\ UNCHANGED token
  /\ UNCHANGED <<schema, ledger>>

MintFails(p) == At(p, "minting") /\ Fail(p)

(* main's one line on stdout, the only place the token is ever seen. *)
Announce(p) ==
  /\ At(p, "announcing")
  /\ token' = "told"
  /\ Step(p, "serving")
  /\ UNCHANGED <<schema, ledger>>

(* SIGINT or SIGTERM: the app closes, then the database. *)
Shutdown(p) ==
  /\ At(p, "serving")
  /\ Fail(p)

StartStep(p) ==
  \/ Open(p) \/ Reconcile(p) \/ Reconciled(p)
  \/ Apply(p) \/ ApplyFails(p) \/ Applied(p)
  \/ Listen(p) \/ ListenFails(p) \/ Mint(p) \/ MintFails(p) \/ Announce(p)

(* The lock goes last, when the database can no longer be written. *)
LetGo(p) ==
  /\ At(p, "closed") /\ Release(p)
  /\ boot' = [boot EXCEPT ![p] = Out]
  /\ UNCHANGED <<schema, ledger, token>>

(* A death takes with it the token that was minted and not yet told. *)
Killed(p) ==
  /\ Die(p)
  /\ boot' = [boot EXCEPT ![p] = Out]
  /\ token' = IF boot[p].step = "announcing" THEN "lost" ELSE token
  /\ UNCHANGED <<schema, ledger>>

HostStep(p) ==
  \/ (Start(p) \/ Acquire(p) \/ Unlink(p)) /\ UNCHANGED startupVars
  \/ StartStep(p) /\ UNCHANGED vars
  \/ Shutdown(p) /\ UNCHANGED vars
  \/ LetGo(p)
  \/ Killed(p)

StartupInit ==
  /\ Init
  /\ schema = << >>
  /\ ledger = << >>
  /\ token = "none"
  /\ boot = [p \in Process |-> Out]

-----------------------------------------------------------------------------

Ran == {schema[i].file : i \in DOMAIN schema}

(* Every process stands somewhere in start, with what it read on the way, and
   the ledger is about the files that ran. *)
StartupTypeOK ==
  /\ TypeOK
  /\ schema \in Seq([file : MigrationFile, content : Content])
  /\ DOMAIN ledger = Ran
  /\ \A f \in Ran : ledger[f] \in Content \cup {Null}
  /\ token \in {"none", "minted", "told", "lost"}
  /\ \A p \in Process :
       /\ boot[p].step \in {"out", "reconciling", "applying", "listening", "minting",
                            "announcing", "serving", "closed"}
       /\ boot[p].files \in Build \cup {<< >>}
       /\ boot[p].before \subseteq MigrationFile /\ boot[p].left \subseteq MigrationFile
       /\ boot[p].had \in BOOLEAN
       /\ boot[p].step # "out" => at[p] = "owner"

(* A row the ledger could not vouch for when it was written. *)
RanUnrecorded(i) ==
  \A j \in DOMAIN schema : schema[j].file = ColumnFile => i < j

(* A control plane that answers stands on a database that ran every file of its
   build, each once, in the files' order, and nothing else; and what ran is what
   the file says today, but for the rows older than the ledger's checksums, which
   are trusted as documented (migrate). *)
SchemaIsShipped ==
  \A p \in Process : Serving(p) =>
    /\ Ran = DOMAIN boot[p].files /\ Len(schema) = Cardinality(Ran)
    /\ \A i, j \in DOMAIN schema :
         i < j => NumberOf[schema[i].file] < NumberOf[schema[j].file]
    /\ HasChecksumColumn => ledger = boot[p].files
    /\ \A i \in DOMAIN schema :
         schema[i].content = boot[p].files[schema[i].file] \/ RanUnrecorded(i)

(* A credential nobody was told is one somebody is about to be told: a start that
   fails, at its port or anywhere else, never uses up the only one there is. *)
TokenIsTold ==
  token = "minted" => \E p \in Process : boot[p].step = "announcing"

(* Nothing is applied over a ledger that is known to be wrong: when the schema
   grows, every recorded checksum is that of the file the build still has. *)
GrowsOnKnownGround ==
  [][schema' # schema =>
       \E p \in Process :
         /\ boot[p].step = "applying"
         /\ \A f \in DOMAIN ledger :
              f \in DOMAIN boot[p].files /\ ledger[f] \in {Null, boot[p].files[f]}
    ]_startupVars

(* Whatever fails or is killed on the way, the next start finds a database it
   can tell the truth about. *)
StartsAreSound ==
  [](StartupTypeOK /\ SchemaIsShipped /\ TokenIsTold) /\ GrowsOnKnownGround

=============================================================================
