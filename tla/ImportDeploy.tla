---------------------------- MODULE ImportDeploy ----------------------------
(***************************************************************************)
(* The life of the caches and of the database tables over a sequence of    *)
(* `imposm import` commands (import_/import.go, database/postgis).  A      *)
(* command reads a PBF file into the cache, writes the cache into the      *)
(* import schema (tables, generalized tables, indices) and moves tables    *)
(* between the import, production and backup schemas.  It can be killed,   *)
(* or stopped by log.Fatal, between any two steps.                         *)
(*                                                                         *)
(* A table is abstracted to the PBF file its rows come from, whether all   *)
(* rows are there, and its indices.  What the writers do between BeginBulk *)
(* and End is left to RefIndex and DiffUpdate.  PostgreSQL is external: a  *)
(* transaction is one step.                                                *)
(***************************************************************************)
EXTENDS Naturals, Sequences, FiniteSets

CONSTANTS
  Base,          \* tables of the mapping
  Gen,           \* generalized tables of the mapping
  Source,        \* [Gen -> Base \cup Gen]
  Commands,      \* the sets of options the user chooses from
  MaxCommands,   \* bound on the number of commands
  MaxFaults      \* bound on the number of kills and SQL errors

Table == Base \cup Gen
Schema == {"import", "production", "backup"}
Option == {"read", "overwrite", "diff", "write", "optimize", "deploy", "revert", "remove"}
None == [pbf |-> 0, full |-> FALSE, index |-> {}]     \* no such table

ASSUME SourceAssumption == Source \in [Gen -> Table] /\ Base \cap Gen = {}
ASSUME CommandAssumption == Commands \subseteq [Option -> BOOLEAN]

VARIABLES
  db,          \* db[schema][table]
  cache,       \* the OSM cache: [pbf, full]; pbf 0 if there is none
  diffCache,   \* the diff cache: [pbf, full]
  lastState,   \* the PBF file last.state.txt was written for
  cmd,         \* the running, or last, command
  todo,        \* steps left of the running command
  left,        \* tables a loop over the tables has still to come to
  created,     \* Generalize: tables with .created set
  progress,    \* Generalize: a table was created in this round
  tasks,       \* worker pool: functions not yet run
  failed,      \* worker pool: functions that returned an error
  pool,        \* worker pool: "open", or what the last wait returned
  readOK,      \* the last command with -read (-write) ended without an error
  writeOK,
  commands, pbfs, faults,   \* counters
  missed,      \* history: a wait has returned nil in spite of an error
  before       \* history: {production before the last deploy of tables}, {} if undone

files == <<cache, diffCache, lastState>>
gvars == <<left, created, progress>>
pvars == <<tasks, failed, pool>>
user  == <<readOK, writeOK, commands>>
hist  == <<missed, before>>
vars  == <<db, files, cmd, todo, gvars, pvars, user, pbfs, faults, hist>>

Exists(s, t) == db[s][t] # None
If(b, steps) == IF b THEN steps ELSE <<>>

MutPlan(o) ==
  If(o.read, <<"exists", "read", "state">>)
    \o If(o.write, <<"init", "begin", "end", "generalize", "generalizeMore">>)
    \o If(o.optimize, <<"optimize">>)
    \o If(o.deploy, <<"deploy">>) \o If(o.revert, <<"revert">>) \o If(o.remove, <<"remove">>)
    \o If(o.write, <<"finish">>)

(* Import(): the steps a set of options asks for, in their order.          *)
Plan(o) ==
  If(o.read, <<"exists", "read", "state">>)
    \o If(o.write, <<"init", "begin", "end", "generalize", "generalizeMore">>)
    \o If(o.optimize, <<"optimize">>)
    \o If(o.write, <<"finish">>)
    \o If(o.deploy, <<"deploy">>) \o If(o.revert, <<"revert">>) \o If(o.remove, <<"remove">>)

(* The options Import() refuses to combine.                                *)
Compatible(o) ==
  /\ ~((o.write \/ o.read) /\ (o.revert \/ o.remove))
  /\ ~(o.revert /\ (o.remove \/ o.deploy))

(* The user writes and deploys only what was read and written without an   *)
(* error.                                                                  *)
Careful(o) ==
  /\ (o.write /\ ~o.read) => readOK
  /\ ((o.deploy \/ o.optimize) /\ ~o.write) => writeOK

Running == todo # <<>>
At(step) == Running /\ Head(todo) = step
---------------------------------------------------------------------------
Init ==
  /\ db = [s \in Schema |-> [t \in Table |-> None]]
  /\ cache = [pbf |-> 0, full |-> FALSE]
  /\ diffCache = [pbf |-> 0, full |-> FALSE]
  /\ lastState = 0
  /\ cmd = [o \in Option |-> FALSE] /\ todo = <<>>
  /\ left = {} /\ created = {} /\ progress = FALSE
  /\ tasks = {} /\ failed = {} /\ pool = "nil"
  /\ readOK = FALSE /\ writeOK = FALSE
  /\ commands = 0 /\ pbfs = 0 /\ faults = 0
  /\ missed = FALSE /\ before = {}

(* A new process.                                                          *)
Start(o) ==
  /\ ~Running /\ commands < MaxCommands
  /\ Compatible(o) /\ Careful(o)
  /\ cmd' = o
  /\ todo' = Plan(o)
  /\ commands' = commands + 1
  /\ readOK' = (readOK /\ ~o.read)
  /\ writeOK' = (writeOK /\ ~o.write)
  /\ left' = {} /\ created' = {} /\ progress' = FALSE
  /\ tasks' = {} /\ failed' = {} /\ pool' = "nil"
  /\ UNCHANGED <<db, files, pbfs, faults, hist>>

(* The step at the head of todo is done; the command ends with the last.   *)
Advance ==
  /\ todo' = Tail(todo)
  /\ readOK' = (readOK \/ (cmd.read /\ Tail(todo) = <<>>))
  /\ writeOK' = (writeOK \/ (cmd.write /\ Tail(todo) = <<>>))
  /\ UNCHANGED <<cmd, commands>>

(* log.Fatal, a panic or a kill.  A transaction that was not committed is  *)
(* rolled back.                                                            *)
Exit == todo' = <<>> /\ UNCHANGED <<cmd, user>>

Kill ==
  /\ Running /\ faults < MaxFaults
  /\ faults' = faults + 1
  /\ Exit
  /\ UNCHANGED <<db, files, gvars, pvars, pbfs, hist>>
---------------------------------------------------------------------------
(* -read.  An existing cache is removed with -overwritecache and is an     *)
(* error otherwise; then the cache files are created.                      *)
OpenCache ==
  /\ At("exists")
  /\ IF cache.pbf # 0 /\ ~cmd.overwrite
       THEN Exit /\ UNCHANGED <<cache, pbfs>>
       ELSE /\ Advance
            /\ pbfs' = pbfs + 1
            /\ cache' = [pbf |-> pbfs + 1, full |-> FALSE]
  /\ UNCHANGED <<db, diffCache, lastState, gvars, pvars, faults, hist>>

ReadPbf ==
  /\ At("read")
  /\ Advance
  /\ cache' = [cache EXCEPT !.full = TRUE]
  /\ UNCHANGED <<db, diffCache, lastState, gvars, pvars, pbfs, faults, hist>>

(* last.state.txt is written with -diff; an error is only logged.          *)
WriteState ==
  /\ At("state")
  /\ Advance
  /\ \/ lastState' = (IF cmd.diff THEN cache.pbf ELSE lastState) /\ UNCHANGED faults
     \/ cmd.diff /\ faults < MaxFaults /\ faults' = faults + 1 /\ UNCHANGED lastState
  /\ UNCHANGED <<db, cache, diffCache, gvars, pvars, pbfs, hist>>
---------------------------------------------------------------------------
(* -write.  PostGIS.Init creates all tables anew in one transaction; the   *)
(* generalized tables of an earlier import stay.                           *)
InitTables ==
  /\ At("init")
  /\ Advance
  /\ db' = [db EXCEPT !["import"] =
             [t \in Table |-> IF t \in Base THEN [None EXCEPT !.pbf = cache.pbf] ELSE @[t]]]
  /\ UNCHANGED <<files, gvars, pvars, pbfs, faults, hist>>

MutOpenDiffCache == diffCache

(* With -diff the diff cache is removed and opened.                        *)
OpenDiffCache ==
  IF cmd.diff THEN [pbf |-> cache.pbf, full |-> FALSE] ELSE diffCache

BeginBulk ==
  /\ At("begin")
  /\ Advance
  /\ diffCache' = OpenDiffCache
  /\ left' = Base
  /\ UNCHANGED <<db, cache, lastState, created, progress, pvars, pbfs, faults, hist>>

(* TxRouter.End: each table has a transaction of its own; they are         *)
(* committed one after the other, in the random order of a Go map.         *)
CommitTable(t) ==
  /\ At("end") /\ t \in left
  /\ left' = left \ {t}
  /\ db' = [db EXCEPT !["import"][t].full = cache.full]
  /\ UNCHANGED <<files, cmd, todo, created, progress, pvars, user, pbfs, faults, hist>>

End ==
  /\ At("end") /\ left = {}
  /\ Advance
  /\ diffCache' = IF cmd.diff THEN [diffCache EXCEPT !.full = cache.full] ELSE diffCache
  /\ UNCHANGED <<db, cache, lastState, gvars, pvars, pbfs, faults, hist>>
---------------------------------------------------------------------------
(* Generalize, Optimize and Finish run a function for each table in a      *)
(* workerPool.  Generalize starts with the tables whose source is not      *)
(* generalized; the pools of its further rounds are filled by Queue.       *)
PoolSteps == {"generalize", "generalizeMore", "optimize", "finish"}
Generalizing == Head(todo) \in {"generalize", "generalizeMore"}

PoolTasks(step) ==
  CASE step = "generalize" -> {g \in Gen : Source[g] \in Base}
    [] step = "generalizeMore" -> {}
    [] step \in {"optimize", "finish"} -> Table

OpenPool ==
  /\ Running /\ Head(todo) \in PoolSteps /\ pool # "open"
  /\ pool' = "open" /\ failed' = {} /\ tasks' = PoolTasks(Head(todo))
  /\ left' = IF At("generalizeMore") THEN Gen ELSE {}
  /\ progress' = FALSE
  /\ UNCHANGED <<db, files, cmd, todo, created, user, pbfs, faults, hist>>

(* Generalize looks at table g: it is queued if its source was created,    *)
(* which a function of the same round may just have done.  A table of the  *)
(* first pool has no SourceGeneralized: Generalize panics if that table    *)
(* was not created.                                                        *)
Queue(g) ==
  /\ At("generalizeMore") /\ pool = "open" /\ g \in left
  /\ left' = left \ {g}
  /\ IF g \notin created /\ Source[g] \in Base
       THEN Exit /\ UNCHANGED tasks
       ELSE /\ tasks' = tasks \cup {x \in {g} : g \notin created /\ Source[g] \in created}
            /\ UNCHANGED <<cmd, todo, user>>
  /\ UNCHANGED <<db, files, created, progress, failed, pool, pbfs, faults, hist>>

(* The indices clusterTable and createIndex make; a generalized table has  *)
(* no primary key, and gets one on the OSM id.                             *)
FinishIndices(t) == {"geom"} \cup (IF t \in Gen THEN {"id"} ELSE {})
Indices(t) == IF At("optimize") THEN {"geohash"} ELSE FinishIndices(t)

(* generalizeTable fails if its source is missing, createIndex and         *)
(* clusterTable if the table is missing or has an index already.           *)
TaskFails(t) ==
  IF Generalizing THEN ~Exists("import", Source[t])
  ELSE ~Exists("import", t) \/ Indices(t) \cap db["import"][t].index # {}

TaskResult(t) ==
  IF Generalizing THEN [db["import"][Source[t]] EXCEPT !.index = {}]
  ELSE [db["import"][t] EXCEPT !.index = @ \cup Indices(t)]

(* What a function that fails leaves behind: generalizeTable is one        *)
(* transaction, but each index is committed for itself.  Their order is    *)
(* that of the columns; clusterTable can also fail after the only one.     *)
LeftBehind(t) ==
  IF Generalizing \/ ~Exists("import", t) THEN {{}}
  ELSE {S \in SUBSET (Indices(t) \ db["import"][t].index) : S = Indices(t) => At("optimize")}

(* A worker runs the function of table t.                                  *)
RunTask(t) ==
  /\ Running /\ pool = "open" /\ t \in tasks /\ ~TaskFails(t)
  /\ db' = [db EXCEPT !["import"][t] = TaskResult(t)]
  /\ tasks' = tasks \ {t}
  /\ IF Generalizing THEN created' = created \cup {t} /\ progress' = TRUE
                     ELSE UNCHANGED <<created, progress>>
  /\ UNCHANGED <<files, cmd, todo, left, failed, pool, user, pbfs, faults, hist>>

MutCreatedOnError(t) == created \cup {t}
CreatedOnError(t) == created

TaskError(t) ==
  /\ Running /\ pool = "open" /\ t \in tasks
  /\ \/ TaskFails(t) /\ UNCHANGED faults
     \/ ~TaskFails(t) /\ faults < MaxFaults /\ faults' = faults + 1
  /\ \E S \in LeftBehind(t) : db' = [db EXCEPT !["import"][t].index = @ \cup S]
  /\ tasks' = tasks \ {t}
  /\ failed' = failed \cup {t}
  /\ created' = CreatedOnError(t)
  /\ UNCHANGED <<files, cmd, todo, left, progress, pool, user, pbfs, hist>>

(* wait gets an error from out; functions that were not run never will be. *)
WaitError ==
  /\ Running /\ pool = "open" /\ left = {} /\ failed # {}
  /\ pool' = "error"
  /\ Exit
  /\ UNCHANGED <<db, files, gvars, tasks, failed, pbfs, faults, hist>>

MutAnotherRound == Head(todo) = "generalizeMore"
AnotherRound == Head(todo) = "generalizeMore" /\ progress

(* wait gets done, when all workers have ended.  An error may still be in  *)
(* out: select takes any channel that is ready.  Generalize goes on till a *)
(* round has created nothing.                                              *)
WaitNil ==
  /\ Running /\ pool = "open" /\ left = {} /\ tasks = {}
  /\ pool' = "nil"
  /\ missed' = (missed \/ failed # {})
  /\ IF AnotherRound THEN UNCHANGED <<cmd, todo, user>> ELSE Advance
  /\ UNCHANGED <<db, files, gvars, tasks, failed, pbfs, faults, before>>
---------------------------------------------------------------------------
MutRotate(source, dest, backup) ==
  [s \in Schema |-> [t \in Table |->
     CASE s = source -> None
       [] s = dest -> db[source][t]
       [] s = backup -> IF Exists(dest, t) THEN db[dest][t] ELSE db[backup][t]]]

(* PostGIS.rotate, one transaction: tables that are missing in source are  *)
(* skipped; a table in dest replaces the one in backup.                    *)
rotate(source, dest, backup) ==
  [s \in Schema |-> [t \in Table |->
     CASE ~Exists(source, t) -> db[s][t]
       [] Exists(source, t) /\ s = source -> None
       [] Exists(source, t) /\ s = dest -> db[source][t]
       [] Exists(source, t) /\ s = backup ->
            IF Exists(dest, t) THEN db[dest][t] ELSE db[backup][t]]]

Deploy ==
  /\ At("deploy")
  /\ Advance
  /\ db' = rotate("import", "production", "backup")
  /\ before' = IF \E t \in Table : Exists("import", t) THEN {db["production"]} ELSE before
  /\ UNCHANGED <<files, gvars, pvars, pbfs, faults, missed>>

MutReverted == rotate("import", "production", "backup")
Reverted == rotate("backup", "production", "import")

RevertDeploy ==
  /\ At("revert")
  /\ Advance
  /\ db' = Reverted
  /\ before' = {}
  /\ UNCHANGED <<files, gvars, pvars, pbfs, faults, missed>>

RemoveBackup ==
  /\ At("remove")
  /\ Advance
  /\ db' = [db EXCEPT !["backup"] = [t \in Table |-> None]]
  /\ before' = {}
  /\ UNCHANGED <<files, gvars, pvars, pbfs, faults, missed>>

(* No command runs.                                                        *)
Idle == ~Running /\ UNCHANGED vars

Work ==
  \/ OpenCache \/ ReadPbf \/ WriteState
  \/ InitTables \/ BeginBulk \/ End \/ \E t \in Base : CommitTable(t)
  \/ OpenPool \/ WaitError \/ WaitNil
  \/ \E g \in Gen : Queue(g)
  \/ \E t \in Table : RunTask(t) \/ TaskError(t)
  \/ Deploy \/ RevertDeploy \/ RemoveBackup

Next == Work \/ Kill \/ Idle \/ \E o \in Commands : Start(o)

Spec == Init /\ [][Next]_vars

(* A command that runs goes on running: the goroutines are scheduled and   *)
(* the database answers.                                                   *)
FairSpec == Spec /\ WF_vars(Work)
---------------------------------------------------------------------------
(* Properties.                                                             *)

(* A table is only marked as created once it is there.                     *)
TypeOK ==
  /\ \A s \in Schema, t \in Table :
       /\ db[s][t].pbf \in 0..pbfs /\ db[s][t].full \in BOOLEAN
       /\ db[s][t].index \subseteq {"geom", "id", "geohash"}
  /\ cache.pbf \in 0..pbfs /\ diffCache.pbf \in 0..pbfs /\ lastState \in 0..pbfs
  /\ left \subseteq Table /\ tasks \subseteq Table /\ failed \subseteq Table
  /\ pool \in {"open", "nil", "error"}
  /\ created \subseteq Gen
  /\ (pool = "open" /\ Running) => \A g \in created : Exists("import", g)

WholeIn(s, n) ==
  \A t \in Table : db[s][t].pbf = n /\ db[s][t].full /\ FinishIndices(t) \subseteq db[s][t].index

(* What production serves comes from one PBF file: every table is there,   *)
(* with all its rows and indices, or none is, after any sequence of        *)
(* imports, kills, deploys and reverts of a careful user.  (An error that  *)
(* wait misses voids this.)                                                *)
ProductionWhole ==
  missed \/ (\A t \in Table : ~Exists("production", t))
         \/ (\E n \in 1..pbfs : WholeIn("production", n))

(* No command takes a table away from production (rotate skips what it     *)
(* has no replacement for), even if an import has failed.                  *)
ProductionKept ==
  [][\A t \in Table : Exists("production", t) => Exists("production", t)']_vars

(* "You can revert a deploy" (docs/tutorial.rst:168): -revertdeploy gives  *)
(* production back the tables it had before the last -deployproduction     *)
(* that had tables to deploy, whatever was imported in between and unless  *)
(* the backup was removed.  (The first deploy has nothing to go back to.)  *)
DeployUndone ==
  [][(At("revert") /\ before # {} /\ before' = {} /\ ~missed) =>
       \A p \in before : (\E t \in Table : p[t] # None) => db'["production"] = p]_vars

(* After a successful -write -diff, everything an update starts from is    *)
(* from the same PBF file, and whole: the cache, the diff cache and the    *)
(* tables.                                                                 *)
UpdateReady ==
  (~Running /\ writeOK /\ cmd.write /\ cmd.diff /\ ~missed) =>
    /\ cache.full /\ diffCache = cache
    /\ WholeIn(IF cmd.deploy THEN "production" ELSE "import", cache.pbf)

(* Every command ends; the rounds of Generalize in particular.             *)
CommandEnds == Running ~> ~Running

(* "wait will return the first error or nil when all functions returned    *)
(* succesfull" (database/postgis/util.go:106).                             *)
WaitReportsErrors == ~missed
=============================================================================
