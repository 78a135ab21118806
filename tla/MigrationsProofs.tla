-------------------------- MODULE MigrationsProofs --------------------------
(***************************************************************************)
(* Proofs about Migrations for any list of migrations and any scripts:     *)
(* first what holds however many migrators share a database, then what     *)
(* holds of one migrator at a time.                                        *)
(***************************************************************************)
EXTENDS Migrations, WellFoundedInduction, TLAPS

-----------------------------------------------------------------------------
(* The list of migrations.                                                   *)

LEMMA LoadedIs ==
    /\ Len(Loaded) \in Nat /\ Len(Loaded) > 0
    /\ \A i \in 1..Len(Loaded) : Loaded[i] \in Nat /\ Loaded[i] # 0 /\ Loaded[i] \in Version
    /\ First \in Version \ {0} /\ Latest \in Version \ {0}
    /\ 0 \in Version /\ NoMigration \notin Version
  <1>1. /\ Len(Loaded) \in Nat /\ Len(Loaded) > 0
        /\ \A i \in 1..Len(Loaded) : Loaded[i] \in Nat /\ Loaded[i] # 0
    BY LoadedAssumption
  <1> QED BY <1>1 DEF First, Latest, Version, NoMigration

\* FindVersionIndex finds the place of a version that was loaded, and only of one.
LEMMA IndexIs ==
    ASSUME NEW v
    PROVE  /\ FindVersionIndex(v) \in 0..Len(Loaded)
           /\ FindVersionIndex(v) # 0 => Loaded[FindVersionIndex(v)] = v
           /\ \A i \in 1..Len(Loaded) : Loaded[i] = v => FindVersionIndex(v) = i
  <1>1. CASE \E i \in 1..Len(Loaded) : Loaded[i] = v
    <2> DEFINE j == CHOOSE i \in 1..Len(Loaded) : Loaded[i] = v
    <2>1. j \in 1..Len(Loaded) /\ Loaded[j] = v
      BY <1>1
    <2>2. FindVersionIndex(v) = j
      BY <1>1 DEF FindVersionIndex
    <2> HIDE DEF j
    <2> QED BY <2>1, <2>2, LoadedAssumption, LoadedIs
  <1>2. CASE ~\E i \in 1..Len(Loaded) : Loaded[i] = v
    BY <1>2, LoadedIs DEF FindVersionIndex
  <1> QED BY <1>1, <1>2

\* The migration after a version is the one at the next place.
LEMMA NextIs ==
    ASSUME NEW v \in Version, NextMigration(v) # NoMigration
    PROVE  /\ NextMigration(v) \in Version \ {0}
           /\ \E i \in 1..Len(Loaded) :
                 /\ NextMigration(v) = Loaded[i]
                 /\ v = IF i = 1 THEN 0 ELSE Loaded[i - 1]
  <1>1. CASE v = 0
    BY <1>1, LoadedIs DEF NextMigration, First
  <1>2. CASE v # 0
    <2> DEFINE i == FindVersionIndex(v)
    <2>1. i \in 1..Len(Loaded) /\ i # Len(Loaded) /\ Loaded[i] = v
      BY <1>2, IndexIs, LoadedIs DEF NextMigration
    <2>2. NextMigration(v) = Loaded[i + 1]
      BY <1>2, <2>1 DEF NextMigration
    <2> HIDE DEF i
    <2>3. i + 1 \in 1..Len(Loaded) /\ i + 1 # 1 /\ (i + 1) - 1 = i
      BY <2>1, LoadedIs
    <2> QED BY <2>1, <2>2, <2>3, LoadedIs
  <1> QED BY <1>1, <1>2

\* Below is the version at the place before, 0 before the first.
LEMMA BelowIs ==
    ASSUME NEW v, FindVersionIndex(v) # 0
    PROVE  /\ Below(v) \in Version
           /\ \E i \in 1..Len(Loaded) :
                 /\ Loaded[i] = v
                 /\ Below(v) = IF i = 1 THEN 0 ELSE Loaded[i - 1]
  <1> DEFINE i == FindVersionIndex(v)
  <1>1. i \in 1..Len(Loaded) /\ Loaded[i] = v
    BY IndexIs, LoadedIs
  <1>2. CASE i = 1
    BY <1>1, <1>2, LoadedIs DEF Below, Prev
  <1>3. CASE i # 1
    <2>1. i - 1 \in 1..Len(Loaded)
      BY <1>1, <1>3, LoadedIs
    <2>2. Prev(v) = Loaded[i - 1] /\ Prev(v) # NoMigration
      BY <1>1, <1>3, <2>1, LoadedIs DEF Prev
    <2>3. Below(v) = Loaded[i - 1]
      BY <2>2 DEF Below
    <2> HIDE DEF i
    <2> QED BY <1>1, <1>3, <2>1, <2>3, LoadedIs
  <1> QED BY <1>2, <1>3

-----------------------------------------------------------------------------
(* Commands.                                                                 *)

Op == {"none", "up", "step-up", "down", "step-down"}
Pc == {"idle", "latest", "read", "up", "curr", "down"}

LEMMA CommandIs ==
    ASSUME NEW pc \in Pc, NEW op \in Op, NEW cv \in Version,
           NEW result \in {"none", "ok", "error"}, NEW ret \in Version, NEW hit \in BOOLEAN
    PROVE  LET c == Command(pc, op, cv, result, ret, hit) IN
           /\ c \in CommandState
           /\ c.pc = pc /\ c.op = op /\ c.cv = cv /\ c.result = result /\ c.ret = ret /\ c.hit = hit
  BY DEF Command, CommandState, Pc, Op

LEMMA RunTyped ==
    ASSUME TypeOK, NEW m \in Migrator
    PROVE  /\ run[m] \in CommandState
           /\ run[m].pc \in Pc /\ run[m].op \in Op /\ run[m].cv \in Version
           /\ run[m].hit \in BOOLEAN
  <1>1. run[m] \in CommandState
    BY DEF TypeOK
  <1> QED BY <1>1 DEF CommandState, Pc, Op

\* One command moves.
LEMMA RunMoves ==
    ASSUME TypeOK, NEW m \in Migrator, NEW c \in CommandState, run' = [run EXCEPT ![m] = c]
    PROVE  /\ run' \in [Migrator -> CommandState] /\ run'[m] = c
           /\ \A n \in Migrator \ {m} : run'[n] = run[n]
  BY DEF TypeOK

LEMMA GoToIs ==
    ASSUME TypeOK, NEW m \in Migrator, NEW pc \in Pc, NEW cv \in Version, GoTo(m, pc, cv)
    PROVE  /\ run' \in [Migrator -> CommandState]
           /\ run'[m].pc = pc /\ run'[m].op = run[m].op /\ run'[m].cv = cv
           /\ \A n \in Migrator \ {m} : run'[n] = run[n]
  <1> DEFINE c == Command(pc, run[m].op, cv, "none", 0, run[m].hit)
  <1>1. /\ c \in CommandState /\ c.pc = pc /\ c.op = run[m].op /\ c.cv = cv
    BY RunTyped, CommandIs, LoadedIs
  <1>2. run' = [run EXCEPT ![m] = c]
    BY DEF GoTo, TypeOK
  <1> HIDE DEF c
  <1> QED BY <1>1, <1>2, RunMoves

LEMMA FinishIs ==
    ASSUME TypeOK, NEW m \in Migrator, NEW result \in {"ok", "error"}, NEW version \in Version,
           Finish(m, result, version)
    PROVE  /\ run' \in [Migrator -> CommandState]
           /\ run'[m].pc = "idle" /\ run'[m].op = run[m].op
           /\ run'[m].result = result /\ run'[m].ret = version
           /\ \A n \in Migrator \ {m} : run'[n] = run[n]
  <1> DEFINE c == Command("idle", run[m].op, 0, result, version, run[m].hit)
  <1>0. "idle" \in Pc /\ 0 \in Version
    BY LoadedIs DEF Pc
  <1>1. /\ c \in CommandState /\ c.pc = "idle" /\ c.op = run[m].op
        /\ c.result = result /\ c.ret = version
    BY <1>0, RunTyped, CommandIs
  <1>2. run' = [run EXCEPT ![m] = c]
    BY DEF Finish, TypeOK
  <1> HIDE DEF c
  <1> QED BY <1>1, <1>2, RunMoves

LEMMA FailsByFaultIs ==
    ASSUME TypeOK, NEW m \in Migrator, FailsByFault(m)
    PROVE  /\ run' \in [Migrator -> CommandState] /\ faults' \in 0..MaxFaults
           /\ run'[m].pc = "idle" /\ run'[m].op = run[m].op /\ run'[m].result = "error"
           /\ \A n \in Migrator \ {m} : run'[n] = run[n]
  <1> DEFINE c == Command("idle", run[m].op, 0, "error", 0, TRUE)
  <1>1. /\ c \in CommandState /\ c.pc = "idle" /\ c.op = run[m].op /\ c.result = "error"
    BY RunTyped, LoadedIs DEF Command, CommandState, Op
  <1>2. run' = [run EXCEPT ![m] = c]
    BY DEF FailsByFault, TypeOK
  <1>3. faults' \in 0..MaxFaults
    BY FaultsAssumption DEF FailsByFault, Fault, TypeOK
  <1> HIDE DEF c
  <1> QED BY <1>1, <1>2, <1>3, RunMoves
-----------------------------------------------------------------------------
(* Schemas.                                                                  *)

\* SchemaAt is what its definition says: there is such a function.
LEMMA SchemaUnfolds ==
    /\ SchemaAt[0] = EmptySchema
    /\ \A i \in 1..Len(Loaded) : SchemaAt[i] = Result(UpScript[Loaded[i]], SchemaAt[i - 1])
  <1> DEFINE n == Len(Loaded)
             Rec(h, k) == h = [i \in 0..k |->
                                 IF i = 0 THEN EmptySchema
                                 ELSE Result(UpScript[Loaded[i]], h[i - 1])]
             Bad == {k \in 0..n : ~\E h : Rec(h, k)}
  <1>1. n \in Nat
    BY LoadedIs
  <1>2. Bad = {}
    <2> SUFFICES ASSUME Bad # {} PROVE FALSE
      OBVIOUS
    <2>1. Bad \subseteq Nat
      BY <1>1
    <2>2. PICK b \in Bad : \A c \in Bad : ~(<<c, b>> \in OpToRel(<, Nat))
      BY <2>1, NatLessThanWellFounded, WFMin
    <2>3. b \in 0..n /\ \A c \in Bad : ~(c < b)
      BY <2>1, <2>2 DEF OpToRel
    <2>4. CASE b = 0
      <3>1. Rec([i \in 0..0 |-> EmptySchema], 0)
        OBVIOUS
      <3> QED BY <2>4, <3>1
    <2>5. CASE b # 0
      <3>1. b - 1 \in 0..n /\ b - 1 < b
        BY <1>1, <2>3, <2>5
      <3>2. PICK g : Rec(g, b - 1)
        BY <2>3, <3>1
      <3> DEFINE h == [i \in 0..b |->
                         IF i = b THEN Result(UpScript[Loaded[b]], g[b - 1]) ELSE g[i]]
      <3>3. \A i \in 0..(b - 1) :
                g[i] = IF i = 0 THEN EmptySchema ELSE Result(UpScript[Loaded[i]], g[i - 1])
        BY <3>2
      <3>4. ASSUME NEW i \in 0..b
            PROVE  h[i] = IF i = 0 THEN EmptySchema ELSE Result(UpScript[Loaded[i]], h[i - 1])
        <4>1. CASE i = b
          <5>1. i - 1 \in 0..b /\ i - 1 # b
            BY <1>1, <2>3, <2>5, <4>1
          <5>2. h[i - 1] = g[b - 1]
            BY <4>1, <5>1
          <5> QED BY <2>5, <4>1, <5>2
        <4>2. CASE i # b
          <5>1. i \in 0..(b - 1) /\ (i # 0 => i - 1 \in 0..b /\ i - 1 # b)
            BY <1>1, <2>3, <2>5, <4>2
          <5>2. h[i] = g[i] /\ (i # 0 => h[i - 1] = g[i - 1])
            BY <4>2, <5>1
          <5> QED BY <3>3, <5>1, <5>2
        <4> QED BY <4>1, <4>2
      <3>5. h = [i \in 0..b |-> h[i]]
        OBVIOUS
      <3> HIDE DEF h
      <3>6. Rec(h, b)
        BY <3>4, <3>5
      <3> QED BY <3>6
    <2> QED BY <2>4, <2>5
  <1>3. \E h : Rec(h, n)
    BY <1>1, <1>2
  <1>4. SchemaAt = CHOOSE h : Rec(h, n)
    BY DEF SchemaAt
  <1>5. Rec(SchemaAt, n)
    BY <1>3, <1>4
  <1> HIDE DEF n
  <1>6. \A i \in 0..n :
            SchemaAt[i] = IF i = 0 THEN EmptySchema ELSE Result(UpScript[Loaded[i]], SchemaAt[i - 1])
    BY <1>5
  <1> QED BY <1>1, <1>6 DEF n
-----------------------------------------------------------------------------
(* However many migrators there are.                                         *)

\* What a migrator is about to run exists.
MoveInv ==
    \A m \in Migrator :
        /\ run[m].pc \in {"latest", "read", "up"} => run[m].op \in {"up", "step-up"}
        /\ run[m].pc \in {"curr", "down"} => run[m].op \in {"down", "step-down"}
        /\ run[m].pc = "up" => NextMigration(run[m].cv) # NoMigration
        /\ run[m].pc = "down" => FindVersionIndex(run[m].cv) # 0

TypeInv == TypeOK /\ MoveInv

\* With one migrator at a time: what it is about to run was chosen for the version
\* that the database still has.
ChosenInv == \A m \in Migrator : run[m].pc \in {"up", "down"} => run[m].cv = db.version

ApartInv == ChosenInv /\ SchemaMatchesVersion

\* With one migrator, what its last command has reported stays so.
OneMigrator == \A m, n \in Migrator : m = n

\* An Up that reports no error leaves the database at the latest version.
UpEndsAtLatest ==
    \A m \in Migrator :
        run[m].pc # "idle" /\ run'[m].pc = "idle" /\ run'[m].op = "up" /\ run'[m].result = "ok"
            => db'.version = Latest /\ run'[m].ret = Latest

\* What each step shows.
Keeps ==
    /\ TypeInv'
    /\ MigratorsApart /\ ApartInv => ApartInv'
    /\ UpEndsAtLatest
    /\ OneMigrator /\ UpReachesLatest => UpReachesLatest'

\* What is left to show when one migrator moves: its own part.
LEMMA MigratorStep ==
    ASSUME TypeInv, NEW m \in Migrator,
           db'.version \in Version, DOMAIN db'.schema = Object, faults' \in 0..MaxFaults,
           run' \in [Migrator -> CommandState],
           \A n \in Migrator \ {m} : run'[n] = run[n],
           run'[m].pc \in {"latest", "read", "up"} => run'[m].op \in {"up", "step-up"},
           run'[m].pc \in {"curr", "down"} => run'[m].op \in {"down", "step-down"},
           run'[m].pc = "up" => NextMigration(run'[m].cv) # NoMigration,
           run'[m].pc = "down" => FindVersionIndex(run'[m].cv) # 0
    PROVE  TypeInv'
  <1>1. TypeOK'
    BY DEF TypeOK
  <1>2. MoveInv'
    BY DEF TypeInv, MoveInv
  <1> QED BY <1>1, <1>2 DEF TypeInv

LEMMA OnlyMigratorStep ==
    ASSUME MigratorsApart, NEW m \in Migrator, run[m].pc # "idle", SchemaMatchesVersion',
           \A n \in Migrator \ {m} : run'[n] = run[n],
           run'[m].pc \in {"up", "down"} => run'[m].cv = db'.version
    PROVE  ApartInv'
  <1>1. \A n \in Migrator \ {m} : run'[n].pc = "idle"
    BY DEF MigratorsApart
  <1> QED BY <1>1 DEF ApartInv, ChosenInv

LEMMA ReportStep ==
    ASSUME NEW m \in Migrator,
           \A n \in Migrator \ {m} : run'[n] = run[n],
           run'[m].pc = "idle" /\ run'[m].op = "up" /\ run'[m].result = "ok"
               => db'.version = Latest /\ run'[m].ret = Latest
    PROVE  UpEndsAtLatest /\ (OneMigrator => UpReachesLatest')
  <1>1. UpEndsAtLatest
    BY DEF UpEndsAtLatest
  <1>2. ASSUME OneMigrator PROVE UpReachesLatest'
    <2>1. \A n \in Migrator : n = m
      BY <1>2 DEF OneMigrator
    <2> QED BY <2>1 DEF UpReachesLatest
  <1> QED BY <1>1, <1>2

\* The same for a step that leaves the database alone.
LEMMA ReadStep ==
    ASSUME TypeInv, NEW m \in Migrator, db' = db, faults' \in 0..MaxFaults,
           run' \in [Migrator -> CommandState],
           \A n \in Migrator \ {m} : run'[n] = run[n],
           run'[m].pc \in {"latest", "read", "up"} => run'[m].op \in {"up", "step-up"},
           run'[m].pc \in {"curr", "down"} => run'[m].op \in {"down", "step-down"},
           run'[m].pc = "up" => NextMigration(run'[m].cv) # NoMigration,
           run'[m].pc = "down" => FindVersionIndex(run'[m].cv) # 0,
           run'[m].pc \in {"up", "down"} => run'[m].cv = db.version,
           run'[m].pc = "idle" /\ run'[m].op = "up" /\ run'[m].result = "ok"
               => db.version = Latest /\ run'[m].ret = Latest
    PROVE  Keeps
  <1>1. db'.version \in Version /\ DOMAIN db'.schema = Object
    BY DEF TypeInv, TypeOK
  <1>2. TypeInv'
    BY <1>1, MigratorStep
  <1>3. ASSUME ApartInv PROVE ApartInv'
    <2>1. SchemaMatchesVersion'
      BY <1>3 DEF ApartInv, SchemaMatchesVersion
    <2> QED BY <1>3, <2>1 DEF ApartInv, ChosenInv
  <1>4. UpEndsAtLatest /\ (OneMigrator => UpReachesLatest')
    BY ReportStep
  <1> QED BY <1>2, <1>3, <1>4 DEF Keeps

LEMMA FaultStays == ASSUME TypeOK PROVE faults \in 0..MaxFaults /\ (Fault => faults' \in 0..MaxFaults)
  BY FaultsAssumption DEF TypeOK, Fault

LEMMA StepUpReturnsIs ==
    ASSUME TypeOK, NEW m \in Migrator, NEW version \in Version, StepUpReturns(m, version),
           run[m].op \in {"up", "step-up"}
    PROVE  /\ run' \in [Migrator -> CommandState]
           /\ \A n \in Migrator \ {m} : run'[n] = run[n]
           /\ run'[m].op = run[m].op /\ run'[m].pc \in {"idle", "latest"}
           /\ run'[m].pc = "idle" /\ run'[m].op = "up" => version = Latest /\ run'[m].ret = version
  <1>1. CASE run[m].op = "step-up" \/ version = Latest
    <2>1. Finish(m, "ok", version)
      BY <1>1 DEF StepUpReturns
    <2> QED BY <1>1, <2>1, FinishIs
  <1>2. CASE ~(run[m].op = "step-up" \/ version = Latest)
    <2>1. GoTo(m, "latest", 0)
      BY <1>2 DEF StepUpReturns
    <2> QED BY <2>1, GoToIs, LoadedIs DEF Pc
  <1> QED BY <1>1, <1>2

\* A command that begins, and one whose process dies.
LEMMA StartStep ==
    ASSUME TypeInv, NEW m \in Migrator, Start(m) \/ Crash(m)
    PROVE  Keeps
  <1>0. TypeOK /\ db' = db /\ faults' \in 0..MaxFaults
    BY DEF TypeInv, Start, Crash, TypeOK
  <1>1. \E pc \in {"idle", "latest", "curr"}, op \in Op :
            /\ run' = [run EXCEPT ![m] = Command(pc, op, 0, "none", 0, FALSE)]
            /\ pc = "latest" => op \in {"up", "step-up"}
            /\ pc = "curr" => op \in {"down", "step-down"}
            /\ pc = "idle" => op = "none"
    BY DEF Start, Crash, Op
  <1>2. PICK pc \in {"idle", "latest", "curr"}, op \in Op :
            /\ run' = [run EXCEPT ![m] = Command(pc, op, 0, "none", 0, FALSE)]
            /\ pc = "latest" => op \in {"up", "step-up"}
            /\ pc = "curr" => op \in {"down", "step-down"}
            /\ pc = "idle" => op = "none"
    BY <1>1
  <1> DEFINE c == Command(pc, op, 0, "none", 0, FALSE)
  <1>3. c \in CommandState /\ c.pc = pc /\ c.op = op
    BY LoadedIs DEF Command, CommandState, Op
  <1> HIDE DEF c
  <1>4. /\ run' \in [Migrator -> CommandState] /\ run'[m] = c
        /\ \A n \in Migrator \ {m} : run'[n] = run[n]
    BY <1>0, <1>2, <1>3, RunMoves DEF c
  <1> QED BY <1>0, <1>2, <1>3, <1>4, ReadStep

LEMMA IsLatestStep ==
    ASSUME TypeInv, NEW m \in Migrator, IsLatest(m)
    PROVE  Keeps
  <1>0. TypeOK /\ db' = db /\ run[m].op \in {"up", "step-up"} /\ faults \in 0..MaxFaults
    BY FaultStays DEF TypeInv, MoveInv, IsLatest
  <1>1. CASE FailsByFault(m)
    BY <1>0, <1>1, FailsByFaultIs, ReadStep
  <1>2. CASE db.version = Latest /\ StepUpReturns(m, Latest) /\ faults' = faults
    BY <1>0, <1>2, StepUpReturnsIs, LoadedIs, ReadStep
  <1>3. CASE GoTo(m, "read", 0) /\ faults' = faults
    BY <1>0, <1>3, GoToIs, LoadedIs, ReadStep DEF Pc
  <1> QED BY <1>1, <1>2, <1>3 DEF IsLatest

LEMMA StepUpReadsStep ==
    ASSUME TypeInv, NEW m \in Migrator, StepUpReads(m)
    PROVE  Keeps
  <1>0. /\ TypeOK /\ db' = db /\ run[m].op \in {"up", "step-up"} /\ faults \in 0..MaxFaults
        /\ db.version \in Version
    BY FaultStays DEF TypeInv, MoveInv, StepUpReads, TypeOK
  <1>1. CASE Fault /\ StepUpReturns(m, 0)
    BY <1>0, <1>1, FaultStays, StepUpReturnsIs, LoadedIs, ReadStep
  <1>2. CASE Fails(m) /\ faults' = faults
    BY <1>0, <1>2, FinishIs, LoadedIs, ReadStep DEF Fails
  <1>3. CASE /\ NextMigration(db.version) # NoMigration
             /\ GoTo(m, "up", db.version) /\ faults' = faults
    BY <1>0, <1>3, GoToIs, ReadStep DEF Pc
  <1> QED BY <1>1, <1>2, <1>3 DEF StepUpReads

LEMMA CurrStep ==
    ASSUME TypeInv, NEW m \in Migrator, Curr(m)
    PROVE  Keeps
  <1>0. /\ TypeOK /\ db' = db /\ run[m].op \in {"down", "step-down"} /\ faults \in 0..MaxFaults
        /\ db.version \in Version
    BY FaultStays DEF TypeInv, MoveInv, Curr, TypeOK
  <1>1. CASE FailsByFault(m)
    BY <1>0, <1>1, FailsByFaultIs, ReadStep
  <1>2. CASE Fails(m) /\ faults' = faults
    BY <1>0, <1>2, FinishIs, LoadedIs, ReadStep DEF Fails
  <1>3. CASE /\ FindVersionIndex(db.version) # 0
             /\ GoTo(m, "down", db.version) /\ faults' = faults
    BY <1>0, <1>3, GoToIs, ReadStep DEF Pc
  <1> QED BY <1>1, <1>2, <1>3 DEF Curr
-----------------------------------------------------------------------------
(* The transactions.                                                         *)

LEMMA RunMigrationIs ==
    ASSUME NEW script, NEW version \in Version, RunMigration(script, version)
    PROVE  /\ db'.version = version /\ db'.version \in Version
           /\ db'.schema = Result(script, db.schema) /\ DOMAIN db'.schema = Object
           /\ Runs(script, db.schema)
  BY DEF RunMigration, Migrated, Result

\* The schema of a version is the one at its place, for every version has one place.
LEMMA SchemaAtPlace ==
    ASSUME SchemaMatchesVersion, NEW i \in 1..Len(Loaded)
    PROVE  /\ db.version = Loaded[i] => db.schema = SchemaAt[i]
           /\ db.version = (IF i = 1 THEN 0 ELSE Loaded[i - 1]) => db.schema = SchemaAt[i - 1]
  <1>1. \A j \in 1..Len(Loaded) : db.version = Loaded[j] => db.schema = SchemaAt[j]
    BY LoadedAssumption, LoadedIs DEF SchemaMatchesVersion
  <1>2. CASE i = 1
    <2>1. db.version = 0 => db.schema = SchemaAt[0]
      BY LoadedIs, SchemaUnfolds DEF SchemaMatchesVersion
    <2> QED BY <1>1, <1>2, <2>1
  <1>3. CASE i # 1
    <2>1. i - 1 \in 1..Len(Loaded)
      BY <1>3, LoadedIs
    <2> QED BY <1>1, <1>3, <2>1
  <1> QED BY <1>2, <1>3

\* A migration up from the version it was chosen for.
LEMMA UpKeepsSchema ==
    ASSUME SchemaMatchesVersion, db.version \in Version,
           NextMigration(db.version) # NoMigration,
           RunMigration(UpScript[NextMigration(db.version)], NextMigration(db.version))
    PROVE  SchemaMatchesVersion'
  <1>1. PICK i \in 1..Len(Loaded) :
            /\ NextMigration(db.version) = Loaded[i]
            /\ db.version = IF i = 1 THEN 0 ELSE Loaded[i - 1]
    BY NextIs
  <1>2. db.schema = SchemaAt[i - 1]
    BY <1>1, SchemaAtPlace
  <1>3. db'.version = Loaded[i] /\ db'.schema = Result(UpScript[Loaded[i]], db.schema)
    BY <1>1, LoadedIs, RunMigrationIs
  <1>4. db'.schema = SchemaAt[i]
    BY <1>2, <1>3, SchemaUnfolds
  <1> QED BY <1>3, <1>4 DEF SchemaMatchesVersion

\* A migration down from there.
LEMMA DownKeepsSchema ==
    ASSUME SchemaMatchesVersion, FindVersionIndex(db.version) # 0,
           RunMigration(DownScript[db.version], Below(db.version))
    PROVE  SchemaMatchesVersion'
  <1>1. PICK i \in 1..Len(Loaded) :
            /\ Loaded[i] = db.version
            /\ Below(db.version) = IF i = 1 THEN 0 ELSE Loaded[i - 1]
    BY BelowIs
  <1>2. db.schema = SchemaAt[i]
    BY <1>1, SchemaAtPlace
  <1>3. /\ db'.version = Below(db.version)
        /\ db'.schema = Result(DownScript[Loaded[i]], db.schema)
        /\ Runs(DownScript[Loaded[i]], db.schema)
    BY <1>1, BelowIs, RunMigrationIs
  <1>4. db'.schema = SchemaAt[i - 1]
    BY <1>2, <1>3, DownUndoesUp
  <1>5. CASE i = 1
    BY <1>1, <1>3, <1>4, <1>5, SchemaUnfolds DEF SchemaMatchesVersion
  <1>6. CASE i # 1
    <2>1. i - 1 \in 1..Len(Loaded)
      BY <1>6, LoadedIs
    <2> QED BY <1>1, <1>3, <1>4, <1>6, <2>1 DEF SchemaMatchesVersion
  <1> QED BY <1>5, <1>6

LEMMA StepUpRunsStep ==
    ASSUME TypeInv, NEW m \in Migrator, StepUpRuns(m)
    PROVE  Keeps
  <1> DEFINE next == NextMigration(run[m].cv)
  <1>0. /\ TypeOK /\ run[m].pc = "up" /\ run[m].op \in {"up", "step-up"} /\ faults \in 0..MaxFaults
        /\ run[m].cv \in Version /\ next # NoMigration
    BY FaultStays, RunTyped DEF TypeInv, MoveInv, StepUpRuns
  <1>1. next \in Version
    BY <1>0, NextIs
  <1>2. CASE db' = db /\ FailsByFault(m)
    BY <1>0, <1>2, FailsByFaultIs, ReadStep
  <1>3. CASE Fails(m) /\ db' = db /\ faults' = faults
    BY <1>0, <1>3, FinishIs, LoadedIs, ReadStep DEF Fails
  <1>4. CASE RunMigration(UpScript[next], next) /\ StepUpReturns(m, next) /\ faults' = faults
    <2>1. db'.version = next /\ db'.version \in Version /\ DOMAIN db'.schema = Object
      BY <1>1, <1>4, RunMigrationIs
    <2>2. /\ run' \in [Migrator -> CommandState]
          /\ \A n \in Migrator \ {m} : run'[n] = run[n]
          /\ run'[m].op = run[m].op /\ run'[m].pc \in {"idle", "latest"}
          /\ run'[m].pc = "idle" /\ run'[m].op = "up" => next = Latest /\ run'[m].ret = next
      BY <1>0, <1>1, <1>4, StepUpReturnsIs
    <2>3. TypeInv'
      BY <1>0, <1>4, <2>1, <2>2, MigratorStep
    <2>4. ASSUME MigratorsApart, ApartInv PROVE ApartInv'
      <3>1. run[m].cv = db.version /\ SchemaMatchesVersion
        BY <1>0, <2>4 DEF ApartInv, ChosenInv
      <3>2. SchemaMatchesVersion'
        BY <1>0, <1>4, <3>1, UpKeepsSchema
      <3> QED BY <1>0, <2>2, <2>4, <3>2, OnlyMigratorStep
    <2>5. UpEndsAtLatest /\ (OneMigrator => UpReachesLatest')
      BY <2>1, <2>2, ReportStep
    <2> QED BY <2>3, <2>4, <2>5 DEF Keeps
  <1> QED BY <1>2, <1>3, <1>4 DEF StepUpRuns

LEMMA StepDownRunsStep ==
    ASSUME TypeInv, NEW m \in Migrator, StepDownRuns(m)
    PROVE  Keeps
  <1> DEFINE cv == run[m].cv
  <1>0. /\ TypeOK /\ run[m].pc = "down" /\ run[m].op \in {"down", "step-down"} /\ faults \in 0..MaxFaults
        /\ cv \in Version /\ FindVersionIndex(cv) # 0
    BY FaultStays, RunTyped DEF TypeInv, MoveInv, StepDownRuns
  <1>1. Below(cv) \in Version
    BY <1>0, BelowIs
  <1>2. CASE db' = db /\ FailsByFault(m)
    BY <1>0, <1>2, FailsByFaultIs, ReadStep
  <1>3. CASE Fails(m) /\ db' = db /\ faults' = faults
    BY <1>0, <1>3, FinishIs, LoadedIs, ReadStep DEF Fails
  <1>4. CASE /\ RunMigration(DownScript[cv], Below(cv)) /\ faults' = faults
             /\ Finish(m, "ok", Below(cv)) \/ GoTo(m, "curr", 0)
    <2>1. db'.version \in Version /\ DOMAIN db'.schema = Object
      BY <1>1, <1>4, RunMigrationIs
    <2>2. /\ run' \in [Migrator -> CommandState]
          /\ \A n \in Migrator \ {m} : run'[n] = run[n]
          /\ run'[m].op = run[m].op /\ run'[m].pc \in {"idle", "curr"}
      <3>1. CASE Finish(m, "ok", Below(cv))
        BY <1>0, <1>1, <3>1, FinishIs
      <3>2. CASE GoTo(m, "curr", 0)
        BY <1>0, <3>2, GoToIs, LoadedIs DEF Pc
      <3> QED BY <1>4, <3>1, <3>2
    <2>3. TypeInv'
      BY <1>0, <1>4, <2>1, <2>2, MigratorStep
    <2>4. ASSUME MigratorsApart, ApartInv PROVE ApartInv'
      <3>1. cv = db.version /\ SchemaMatchesVersion
        BY <1>0, <2>4 DEF ApartInv, ChosenInv
      <3>2. SchemaMatchesVersion'
        BY <1>0, <1>4, <3>1, DownKeepsSchema
      <3> QED BY <1>0, <2>2, <2>4, <3>2, OnlyMigratorStep
    <2>5. UpEndsAtLatest /\ (OneMigrator => UpReachesLatest')
      BY <1>0, <2>2, ReportStep
    <2> QED BY <2>3, <2>4, <2>5 DEF Keeps
  <1> QED BY <1>2, <1>3, <1>4 DEF StepDownRuns

-----------------------------------------------------------------------------
(* The theorems.                                                             *)

LEMMA InitInv == Init => TypeInv /\ ApartInv /\ UpReachesLatest
  <1> SUFFICES ASSUME Init PROVE TypeInv /\ ApartInv /\ UpReachesLatest
    OBVIOUS
  <1> DEFINE c == Command("idle", "none", 0, "none", 0, FALSE)
  <1>1. c \in CommandState /\ c.pc = "idle" /\ c.op = "none"
    BY LoadedIs DEF Command, CommandState
  <1>2. /\ db.version = 0 /\ db.schema = EmptySchema /\ DOMAIN db.schema = Object
        /\ run = [m \in Migrator |-> c] /\ faults = 0
    BY DEF Init, EmptySchema
  <1> HIDE DEF c
  <1>3. TypeOK
    BY <1>1, <1>2, LoadedIs, FaultsAssumption DEF TypeOK
  <1> QED BY <1>1, <1>2, <1>3 DEF TypeInv, MoveInv, ApartInv, ChosenInv, UpReachesLatest, SchemaMatchesVersion

LEMMA NextKeeps == TypeInv /\ [Next]_vars => Keeps
  <1> SUFFICES ASSUME TypeInv, [Next]_vars PROVE Keeps
    OBVIOUS
  <1>1. ASSUME NEW m \in Migrator, Start(m) \/ Step(m) \/ Crash(m) PROVE Keeps
    BY <1>1, StartStep, IsLatestStep, StepUpReadsStep, StepUpRunsStep, CurrStep, StepDownRunsStep
       DEF Step
  <1>2. CASE UNCHANGED vars
    BY <1>2 DEF vars, Keeps, TypeInv, TypeOK, MoveInv, ApartInv, ChosenInv, UpReachesLatest,
       UpEndsAtLatest, SchemaMatchesVersion
  <1> QED BY <1>1, <1>2 DEF Next

\* However many migrators work on a database at once, its version is one that was
\* loaded, or none.
THEOREM TypeCorrect == Spec => []TypeOK
  <1>1. TypeInv => TypeOK
    BY DEF TypeInv
  <1>2. TypeInv /\ [Next]_vars => TypeInv'
    BY NextKeeps DEF Keeps
  <1> QED BY <1>1, <1>2, InitInv, PTL DEF Spec

\* The invariant of a database on which no two commands overlap.
THEOREM ApartCorrect == Spec /\ []MigratorsApart => [](TypeInv /\ ApartInv)
  <1>1. MigratorsApart /\ TypeInv /\ ApartInv /\ [Next]_vars => (TypeInv /\ ApartInv)'
    BY NextKeeps DEF Keeps
  <1> QED BY <1>1, InitInv, PTL DEF Spec

\* RunMigration: as long as no two commands overlap the schema is that of the version,
\* whatever fails, dies, or goes up and down, for any number of migrators and all
\* scripts whose down undoes their up.
THEOREM SchemaMatchesVersionCorrect == Spec /\ []MigratorsApart => []SchemaMatchesVersion
  <1>1. ApartInv => SchemaMatchesVersion
    BY DEF ApartInv
  <1> QED BY <1>1, ApartCorrect, PTL

\* Up: however many migrators there are, overlapping or not, the database is at the
\* latest version in the moment in which one of them finds that its Up is done.
THEOREM UpEndsAtLatestCorrect == Spec => [][UpEndsAtLatest]_vars
  <1>1. TypeInv /\ [Next]_vars => TypeInv' /\ UpEndsAtLatest
    BY NextKeeps DEF Keeps
  <1> HIDE DEF UpEndsAtLatest
  <1> QED BY <1>1, InitInv, PTL DEF Spec

\* Up: no error means the latest version, until the same migrator goes on.
THEOREM UpReachesLatestCorrect == ASSUME OneMigrator PROVE Spec => []UpReachesLatest
  <1>1. TypeInv /\ UpReachesLatest /\ [Next]_vars => (TypeInv /\ UpReachesLatest)'
    BY OneMigrator, NextKeeps DEF Keeps
  <1> QED BY <1>1, InitInv, PTL DEF Spec

\* StepUp and StepDown: as long as no two commands overlap the version moves to a
\* neighbour, in the direction of the command.
THEOREM StepsFollowOrderCorrect == Spec /\ []MigratorsApart => StepsFollowOrder
  <1> DEFINE Follows ==
        db'.version # db.version =>
          \/ db'.version = NextMigration(db.version)
                /\ \E m \in Migrator : run[m].op \in {"up", "step-up"} /\ run[m].pc = "up"
          \/ db'.version = Below(db.version)
                /\ \E m \in Migrator : run[m].op \in {"down", "step-down"} /\ run[m].pc = "down"
  <1>1. ASSUME TypeInv, ApartInv, Next PROVE Follows
    <2>1. PICK m \in Migrator : Start(m) \/ Step(m) \/ Crash(m)
      BY <1>1 DEF Next
    <2>2. CASE StepUpRuns(m)
      <3>1. /\ run[m].pc = "up" /\ run[m].op \in {"up", "step-up"} /\ run[m].cv = db.version
            /\ db.version \in Version /\ NextMigration(db.version) # NoMigration
        BY <1>1, <2>2 DEF TypeInv, TypeOK, MoveInv, ApartInv, ChosenInv, StepUpRuns
      <3>2. \/ db' = db
            \/ RunMigration(UpScript[NextMigration(db.version)], NextMigration(db.version))
        BY <2>2, <3>1 DEF StepUpRuns
      <3> QED BY <3>1, <3>2, NextIs, RunMigrationIs
    <2>3. CASE StepDownRuns(m)
      <3>1. /\ run[m].pc = "down" /\ run[m].op \in {"down", "step-down"} /\ run[m].cv = db.version
            /\ FindVersionIndex(db.version) # 0
        BY <1>1, <2>3 DEF TypeInv, MoveInv, ApartInv, ChosenInv, StepDownRuns
      <3>2. db' = db \/ RunMigration(DownScript[db.version], Below(db.version))
        BY <2>3, <3>1 DEF StepDownRuns
      <3> QED BY <3>1, <3>2, BelowIs, RunMigrationIs
    <2>4. CASE db' = db
      BY <2>4
    <2> QED
      BY <2>1, <2>2, <2>3, <2>4 DEF Start, Crash, Step, IsLatest, StepUpReads, Curr
  <1>2. TypeInv /\ ApartInv /\ [Next]_vars => [Follows]_vars
    BY <1>1
  <1> QED BY <1>2, ApartCorrect, PTL DEF Spec, StepsFollowOrder
=============================================================================
