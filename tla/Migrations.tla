----------------------------- MODULE Migrations -----------------------------
(***************************************************************************)
(* The migrations of one database: dbx/migrations/migrations.go over the   *)
(* driver of dbx/sqlitex/migrations.go.  A migrator is a process that runs *)
(* one command after the other on the database file: the server while it   *)
(* boots or creates a user, or the command line tool.  A migration runs    *)
(* its script and sets user_version in one transaction; the version it was *)
(* chosen for was read before, on another connection.                      *)
(*                                                                         *)
(* A schema maps the objects of a database to the migration that defined   *)
(* them as they are, or to 0.  Scripts are data: see SchemaScripts.        *)
(***************************************************************************)
EXTENDS Integers, Sequences

CONSTANTS
    Migrator,
    Loaded,                \* the versions that Load found, in order
    Object,                \* tables, views, columns and indexes
    UpScript, DownScript,  \* what the scripts of a version do
    RowsExist,             \* do the tables hold rows that a guarded script trips on?
    MaxFaults              \* bound: reads and transactions that fail

\* Load gives every version once; none of the embedded files is number 0.
ASSUME LoadedAssumption ==
    /\ Loaded \in Seq(Nat \ {0}) /\ Len(Loaded) > 0
    /\ \A i, j \in 1..Len(Loaded) : Loaded[i] = Loaded[j] => i = j

ASSUME FaultsAssumption == MaxFaults \in Nat

VARIABLES
    db,      \* the database file: user_version and schema
    run,     \* the command of every migrator
    faults   \* faults so far

vars == <<db, run, faults>>

-----------------------------------------------------------------------------
(* The list of migrations.                                                   *)

NoMigration == -1

\* Counted from 1; 0 when there is none.
FindVersionIndex(v) ==
    IF \E i \in 1..Len(Loaded) : Loaded[i] = v
    THEN CHOOSE i \in 1..Len(Loaded) : Loaded[i] = v
    ELSE 0

First == Loaded[1]
Latest == Loaded[Len(Loaded)]

Prev(v) ==
    IF FindVersionIndex(v) <= 1 THEN NoMigration ELSE Loaded[FindVersionIndex(v) - 1]

NextMigration(v) ==
    IF v = 0 THEN First
    ELSE IF FindVersionIndex(v) \in {0, Len(Loaded)} THEN NoMigration
    ELSE Loaded[FindVersionIndex(v) + 1]

-----------------------------------------------------------------------------
(* Scripts.                                                                  *)

Present(schema) == {o \in Object : schema[o] # 0}

\* Without an error: every statement parses, what is altered or read exists,
\* what is created without IF NOT EXISTS does not.
Runs(script, schema) ==
    /\ ~script.broken
    /\ script.needs \subseteq Present(schema)
    /\ script.fresh \cap Present(schema) = {}
    /\ script.guarded => ~(RowsExist /\ Present(schema) # {})

Result(script, schema) ==
    [o \in Object |->
        IF o \in DOMAIN script.puts THEN script.puts[o]
        ELSE IF o \in script.drops THEN 0
        ELSE schema[o]]

EmptySchema == [o \in Object |-> 0]

\* The schema after the first i migrations.
SchemaAt[i \in 0..Len(Loaded)] ==
    IF i = 0 THEN EmptySchema ELSE Result(UpScript[Loaded[i]], SchemaAt[i - 1])

\* What every down script is written for, checked of the scripts in SchemaScripts:
\* when it runs, it undoes the up script of its version.
ASSUME DownUndoesUp ==
    \A i \in 1..Len(Loaded) :
        LET down == DownScript[Loaded[i]] IN
        Runs(down, SchemaAt[i]) => Result(down, SchemaAt[i]) = SchemaAt[i - 1]

-----------------------------------------------------------------------------
(* Commands.                                                                 *)

Command(pc, op, cv, result, ret, hit) ==
    [pc |-> pc, op |-> op, cv |-> cv, result |-> result, ret |-> ret, hit |-> hit]

GoTo(m, pc, cv) ==
    run' = [run EXCEPT ![m] = Command(pc, @.op, cv, "none", 0, @.hit)]
Finish(m, result, version) ==
    run' = [run EXCEPT ![m] = Command("idle", @.op, 0, result, version, @.hit)]
Fails(m) == Finish(m, "error", 0)

\* A context that is done, a busy database, an I/O error.
Fault == faults < MaxFaults /\ faults' = faults + 1
FailsByFault(m) ==
    /\ Fault
    /\ run' = [run EXCEPT ![m] = Command("idle", @.op, 0, "error", 0, TRUE)]

\* Variants: Up ends after one step, Up does not compare with the latest version.
StepUpReturnsOnce(m, version) == Finish(m, "ok", version)
StepUpReturnsAgain(m, version) ==
    IF run[m].op = "step-up" THEN Finish(m, "ok", version) ELSE GoTo(m, "latest", 0)

\* StepUp returns a migration: the end of step-up, a turn of the loop of Up.
StepUpReturns(m, version) ==
    IF run[m].op = "step-up" \/ version = Latest
    THEN Finish(m, "ok", version)
    ELSE GoTo(m, "latest", 0)

Start(m) ==
    /\ run[m].pc = "idle"
    /\ \/ \E op \in {"up", "step-up"} : run' = [run EXCEPT ![m] = Command("latest", op, 0, "none", 0, FALSE)]
       \/ \E op \in {"down", "step-down"} : run' = [run EXCEPT ![m] = Command("curr", op, 0, "none", 0, FALSE)]
    /\ UNCHANGED <<db, faults>>

IsLatest(m) ==
    /\ run[m].pc = "latest"
    /\ UNCHANGED db
    /\ \/ FailsByFault(m)
       \/ /\ db.version = Latest
          /\ StepUpReturns(m, Latest)
          /\ UNCHANGED faults
       \/ /\ db.version # Latest
          /\ GoTo(m, "read", 0)
          /\ UNCHANGED faults

\* The second read of the version.  When it fails StepUp returns an empty
\* migration and no error.
StepUpReads(m) ==
    /\ run[m].pc = "read"
    /\ UNCHANGED db
    /\ \/ Fault /\ StepUpReturns(m, 0)
       \/ /\ NextMigration(db.version) = NoMigration
          /\ Fails(m)
          /\ UNCHANGED faults
       \/ /\ NextMigration(db.version) # NoMigration
          /\ GoTo(m, "up", db.version)
          /\ UNCHANGED faults

\* RunMigration: the script and the version in one transaction.  The variants
\* commit a version without its script, and a version too far.
VersionOnly(script, version) == [db EXCEPT !.version = version]
VersionPast(script, version) == [version |-> version + 1, schema |-> Result(script, db.schema)]
Migrated(script, version) == [version |-> version, schema |-> Result(script, db.schema)]
RunMigration(script, version) ==
    Runs(script, db.schema) /\ db' = Migrated(script, version)

StepUpRuns(m) ==
    LET next == NextMigration(run[m].cv) IN
    /\ run[m].pc = "up"
    /\ \/ UNCHANGED db /\ FailsByFault(m)
       \/ /\ ~Runs(UpScript[next], db.schema)
          /\ Fails(m)
          /\ UNCHANGED <<db, faults>>
       \/ /\ RunMigration(UpScript[next], next)
          /\ StepUpReturns(m, next)
          /\ UNCHANGED faults

\* StepDown reads the version once.
Curr(m) ==
    /\ run[m].pc = "curr"
    /\ UNCHANGED db
    /\ \/ FailsByFault(m)
       \/ /\ FindVersionIndex(db.version) = 0   \* also the version of an empty database
          /\ Fails(m)
          /\ UNCHANGED faults
       \/ /\ FindVersionIndex(db.version) # 0
          /\ GoTo(m, "down", db.version)
          /\ UNCHANGED faults

\* The version below, 0 below the first.  The variant forgets the latter.
BelowUnchecked(v) == Prev(v)
Below(v) == IF Prev(v) = NoMigration THEN 0 ELSE Prev(v)

StepDownRuns(m) ==
    LET cv == run[m].cv IN
    /\ run[m].pc = "down"
    /\ \/ UNCHANGED db /\ FailsByFault(m)
       \/ /\ ~Runs(DownScript[cv], db.schema)
          /\ Fails(m)
          /\ UNCHANGED <<db, faults>>
       \/ /\ RunMigration(DownScript[cv], Below(cv))
          /\ IF run[m].op = "step-down" \/ Below(cv) = 0
             THEN Finish(m, "ok", Below(cv))
             ELSE GoTo(m, "curr", 0)
          /\ UNCHANGED faults

\* The process dies; SQLite rolls an open transaction back.
Crash(m) ==
    /\ run[m].pc # "idle"
    /\ run' = [run EXCEPT ![m] = Command("idle", "none", 0, "none", 0, FALSE)]
    /\ UNCHANGED <<db, faults>>

Step(m) ==
    IsLatest(m) \/ StepUpReads(m) \/ StepUpRuns(m) \/ Curr(m) \/ StepDownRuns(m)

Init ==
    /\ db = [version |-> 0, schema |-> EmptySchema]
    /\ run = [m \in Migrator |-> Command("idle", "none", 0, "none", 0, FALSE)]
    /\ faults = 0

Next == \E m \in Migrator : Start(m) \/ Step(m) \/ Crash(m)

Spec == Init /\ [][Next]_vars

\* A command goes on while its process lives.
FairSpec == Spec /\ \A m \in Migrator : WF_vars(Step(m))

-----------------------------------------------------------------------------
Version == {0} \cup {Loaded[i] : i \in 1..Len(Loaded)}
CommandState ==
    [pc : {"idle", "latest", "read", "up", "curr", "down"},
     op : {"none", "up", "step-up", "down", "step-down"}, cv : Version,
     result : {"none", "ok", "error"}, ret : Version, hit : BOOLEAN]

\* The database has a version that was loaded, or none.
TypeOK ==
    /\ db.version \in Version
    /\ DOMAIN db.schema = Object
    /\ run \in [Migrator -> CommandState]
    /\ faults \in 0..MaxFaults

\* No two commands are under way at once.  Nothing in the code keeps a migration of
\* the command line and one of the server apart.
MigratorsApart == \A m, n \in Migrator : run[m].pc # "idle" /\ run[n].pc # "idle" => m = n

\* With one migrator at a time the schema is that of the version, wherever commands
\* fail and processes die, and whichever way the migrations went.
SchemaMatchesVersion ==
    \/ db.version = 0 /\ db.schema = EmptySchema
    \/ \E i \in 1..Len(Loaded) : Loaded[i] = db.version /\ db.schema = SchemaAt[i]

\* Up that reports no error has left the database at the latest version.
UpReachesLatest ==
    \A m \in Migrator :
        run[m].pc = "idle" /\ run[m].op = "up" /\ run[m].result = "ok"
            => db.version = Latest /\ run[m].ret = Latest

\* A command moves the version to a neighbour, upwards for up and step-up only.
StepsFollowOrder ==
    [][ db'.version # db.version =>
          \/ db'.version = NextMigration(db.version)
                /\ \E m \in Migrator : run[m].op \in {"up", "step-up"} /\ run[m].pc = "up"
          \/ db'.version = Below(db.version)
                /\ \E m \in Migrator : run[m].op \in {"down", "step-down"} /\ run[m].pc = "down"
      ]_vars

\* Every command ends: Up retries a read that failed, but not for ever once
\* the faults are over.
CommandsEnd == \A m \in Migrator : run[m].pc # "idle" ~> run[m].pc = "idle"

-----------------------------------------------------------------------------
(* What a comment says.                                                      *)

\* Down migrates a database to an empty one: it fails by a fault only, or when
\* there is nothing to migrate down.
DownEmpties ==
    \A m \in Migrator :
        run[m].pc = "idle" /\ run[m].op = "down" /\ run[m].result = "error" /\ ~run[m].hit
            => db.version = 0
=============================================================================
