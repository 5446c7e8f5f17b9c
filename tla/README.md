# Imposm3 in TLA+

Imposm3 imports OpenStreetMap data into PostGIS and keeps it up to date with
change files. These modules model its concurrent and its stateful parts; TLC
checks them on small instances. For every instance, TLAPS proves the safety of
the reference index.

## The system

`imposm import` reads a PBF file into LevelDB caches, builds rows from the
caches, and moves the finished tables into the production schema. `imposm diff`
and `imposm run` apply change files to the caches and tables.

| Part | State | Operations | What makes it hard |
|---|---|---|---|
| PBF reader (`reader/`) | four channels, two wait groups, caches | parse, send, store, two barriers | parsers and workers wait for each other; ways may be looked at only when all nodes are stored |
| Coordinates cache (`cache/delta.go`) | bunch table, LRU list, a lock per bunch, LevelDB | put, delete, get, fill, evict, flush | two kinds of locks, loads outside of the first, evictions, writes past the table |
| Element caches (`cache/nodes.go`, `ways.go`, `relations.go`) | LevelDB | put, get, delete | which elements are kept |
| Reference indexes (`cache/diff.go`) | channel, buffer, batch, LevelDB | add, dispatch, merge, write, close | three goroutines in a row; read-modify-write without a lock |
| Writers (`writer/`) | none of their own | rows, references, expired places of an element | run concurrently |
| Diff import (`update/`) | all caches, indexes, tables, `last.state.txt` | delete dependents, update caches, insert, commit | dependencies between elements, overlap, retries, kills |
| Import command (`import_/`) | caches, schemas, state file | read, write, optimize, deploy, revert, remove | per-table transactions, kills between any two steps |
| PostGIS (`database/postgis/`) | tables of three schemas, worker pool | init, bulk insert, generalize, index, rotate | errors of concurrent functions, partial rotations |
| Update loop (`update/run.go`, `Diff`) | tile list, sequence, retries | update, flush, retry, shut down | what is lost when it ends at the wrong moment |
| Tile expiry (`expire/`) | set of tiles | raster, add, flush | must cover old and new places, and reach a file |
| Mapping (`mapping/`) | none | filter tags, match | filters and matchers must agree: elements are mapped again when they are deleted |
| Geometry (`geom/`) | none | merge and nest rings | ways come in any order and direction |

`PROJECT.json` lists every part with its sources, and for those that are not
modelled the reason.

What each part should guarantee, and where it is stated:

- caches: a lookup gives the last value put (`DeltaCoords!Coherent`);
- indexes: no reference is lost (`RefIndex!NothingLost`, `IndexComplete`);
- reader: the caches hold what the limit selects (`ReadPbf!LimitExact`), and reading ends;
- diff import: the tables are those of a fresh import (`DiffUpdate!Synced`), and so are
  the caches and indexes the next diff starts from;
- expiry: every changed place is on the list, also those of dependent elements
  (`DiffUpdate!ExpireUnlessPartGone`), as tiles (`UpdateLoop!TilesAccounted`)
  that get into a file (`TilesWritten`); that all tiles a line runs through are
  among them (`LinesExpired`) does not hold;
- mapping and multipolygons: the tables hold what the tags and the member ways
  call for (`UpdateLoop!TablesAsMapped`);
- generalized tables: an update leaves them as an import would
  (`UpdateLoop!GeneralizedLikeImport`);
- deployment: production is always the whole of one import and can be
  reverted (`ImportDeploy!ProductionWhole`, `DeployUndone`).

## Modules

**RefIndex** is one index of the diff cache; `job` is its mode and what each
writer adds to it. In the linear (buffered) mode
element writers send to `addc`, the dispatcher fills `buffer` and sends it over
`write`, the writer goroutine merges bunches into a batch and writes it;
`Close*` is `SetLinearImport(false)`. Otherwise `AddGet`/`AddPut` are the two
database calls of `Add`. Sorted reference lists are sets.

**CoordStore** is an atomic map from ids to coordinates. **DeltaCoords** is the
cache of `cache/delta.go`: `Lookup` (up to the bunch lock), `Lock` (with
`CheckCapacity`), `Load`, the operation itself, and every LevelDB error. It is
shown to implement CoordStore (`Coherent`): the abstract store is what a loaded
bunch of the table holds, and LevelDB elsewhere. `CheckCapacity` writes the bunches
from the end of the list one by one; `LockError` is the failure of any of these
writes, with those behind it already gone. `since` and `overtaken` are history variables: the
bunches that others have looked up while a goroutine works on one, and whether they
were ever so many that this one was the oldest of the table. Objects are a bounded pool (`Obj`, `Free`):
one that neither the table nor a goroutine refers to is used again, as the garbage
collector would free it. The phases are those of the commands: linear import only
in the first one, with nothing stored before (`src/import_/import.go:101-104` turns it
on unless the cache is appended to) and nodes sorted by id.

**OsmRows** defines the rows and references the writers make of a cache, within
the geometry of `-limitto` (`Inside`; `Buffer` is what the caches keep around it).
**DiffUpdate** extends it with `Update` and `Run`: `DeleteElem`/`CacheElem` are
the loop over the changes, `Mark` is the marking of dependents, `Send` and
`WriteNode/Way/Rel` are the three writers, then `Commit`, `WriteState`, `Flush`.
Because import and update use the same writers, "a fresh import" is
`AllRows(Import(osm))`. New nodes outside of the buffer are not cached, nor are ways
and relations without a cached part. `Add` is one step here; its own steps are in RefIndex.

**ReadPbf** has the parser goroutines, both barriers, the nil messages, the
channels and the workers. A block that cannot be read ends the parser with an error;
one that cannot be decoded is left out without one (`Parse` ignores the result
of `parseBlock`).

**ImportDeploy** is a sequence of commands. `Plan` is the order of steps in
`Import()`; a table is abstracted to the file it comes from, whether it is
complete, and its indices; a failing function leaves some of them behind. `Careful` is an assumption on the user: they write
and deploy only what was read and written without an error.

**UpdateLoop** is `imposm run` and `imposm diff` as a whole, with everything an
update does after the question "which elements depend on this one?", which is
DiffUpdate's: here no changed element is a part of another (`PlansAssumption`).
It extends five modules:

- **TagMapping**: `Mappings` and `ExtraTags` of the configuration, the three tag
  filters, and `Match` with the filters of a table;
- **Rings**: `mergeRings` as a fold over the ways with its map of open ends,
  `BuildRings` (one ring without an area, and there is no multipolygon), and the
  nesting loop of `buildRelGeometry`; `ReferenceGeometry` says independently what the
  multipolygon is;
- **GenTables**: how generalized tables find their source, `Generalized` (what an
  import fills them with) and `DeleteRows`, `NotedIDs`, `GeneralizeUpdates` (what
  an update does);
- **TileRaster**: `ExpireNodes`, `Bresenham` and boxes in whole numbers of
  1/`Unit` of a tile;
- **TileList**: the list and its flush. Two history variables: `untold` are tiles
  of committed changes that are in no file yet, `reasons` is why some were lost.

Its steps are those of `Update` (`Take`/`Skip`, `FillSource`, `Begin`,
`ChangeElem`, `WriteNode/Way/Rel`, `Commit`, `Closed`), of the loop around it
(`RunFlush`, `Retry`, `Continue`, `Shutdown`; `NextFile`, `DiffDone` for
`imposm diff`), the clock, errors (`InsertFails`, `CommitFails`, `CloseFails`,
`UpdateFails`, and those of flushes) and kills. `plan` fixes the command, the
imported data, the diffs and the number of faults of a behaviour.

The proofs are in **RefIndexProofs**, which extends RefIndex.

The `MC*` modules hold the instances. Operators named `Mut...` are plausible
mistakes in a definition; with each in place of its original, TLC finds the
property of the same run violated.

## Runs

Passing:

| Run | Instance | Shows |
|---|---|---|
| `refindex` | buffered: 2 writers, channels of 2 and 1, buffer of 2 bunches; unbuffered: 1 writer; failing reads and writes | nothing is lost on the way, stored references stay, closing drains and ends |
| `coords` | 2 goroutines, 11 ids in bunches of 2, **2** bunches in the table, one LevelDB error anywhere; an import and a diff import | until a goroutine is overtaken the cache is an atomic map; it is within its capacity and without deadlock unless LevelDB fails |
| `update` | 3 nodes, 2 ways, 1 relation with several versions; 2 diffs of 1 or 2 changes; imports that contain both diffs already (of 1 change each); a node in the buffer of a limit or beyond it, and nodes that move across it; 1 fault | tables, caches and indexes equal a fresh import; places are expired; every diff is applied |
| `update_loop` | every combination of tags of 3 keys of a node, 5 of a way, 5 of a relation; lines from 3 places to 750; areas of 486 sizes and places; rings cut into up to 4 ways in every order and direction, nested 4 deep, and a closed way that goes forth and back; 4 sequences of 2 diffs for each of 3 commands with 2 faults | tables and generalized tables are those of an import, tiles of committed changes are listed and written, diffs are applied |
| `read_pbf` | 2 parsers, 6 workers, channels of 1; ordered, truncated, way-less and unordered file, and two with a block that cannot be decoded; a failed lookup and a failed put | phases in order, one nil for each worker, the limit is exact, reading ends |
| `import_deploy` | 2 tables, a chain of 2 generalized tables, 5 commands, 1 kill or error | production is whole, never loses a table, can be reverted; all commands end |

The bounds give each hazard room: channels are full at once, a batch has inner
and boundary bunches, the table has to evict, a generalized table
depends on a generalized table, two diffs let the second one meet what the first
one left behind, and five commands are read, write, deploy, revert and one more.
In `update_loop` a tile is 5 units wide, so that lines start and end at, before
and after every kind of tile boundary; areas are both below and above the limit
for boxes (6 tiles instead of 500) and have tiles inside that no edge touches; two
faults are needed for a diff that was not recorded and is applied again after a
later one.

Violations. Each states what a comment or the documentation says, and TLC finds
a run of the code that breaks it:

| Run | What happens |
|---|---|
| `refindex_race` | two writers in the unbuffered `Add` overwrite each other's reference |
| `update_kill` | a kill between `last.state.txt` and `Coords.Flush` loses coordinates for good |
| `update_retry` | an update deletes a way and fails; the retry does not find the way in the cache, and the row, which the rollback brought back, stays |
| `update_single_id` | with a single id space the index holds negated way ids, and moved nodes do not reach their ways |
| `import_pool_error` | `workerPool.wait` returns nil although a function has failed |
| `update_lines` | `bresenham` passes over a tile that the line of a committed change cuts at a corner |

### What the passing runs assume

These conditions are part of what the runs say. Where the code does not ensure
one, TLC finds a violation without it.

- **`coords`: nobody was overtaken.** `CheckCapacity` evicts bunches without their
  lock. If other goroutines look up `Capacity` more bunches between `getBunch` and
  unlock of one goroutine, its change is lost. Two goroutines are enough. The
  default capacity is 8096, so it takes a very long delay, but nothing in the
  code excludes it. `Coherent` ends with the first such moment (`overtaken`): what the
  list must ensure is that nothing is lost before. Without `overtaken` TLC finds
  `Coherent` violated. `EventuallyDone` and `TableBounded` say nothing after a
  LevelDB error, which leaves a bunch locked.
- **`coords`: fewer failed writes than `Capacity`** (`DeltaCoordsAssumption`). A
  bunch that `CheckCapacity` could not write stays in the table without an
  element in the list. After `Capacity` of them the list is empty before the table
  is small enough, and `c.lruList.Back()` is nil.
- **`update`: where faults happen.** A failed update fails before its first
  change; a kill comes before the first change or between commit and state file.
  Errors inside of the update are run `update_retry`; kills there (`CrashIn` with
  `"delete"`, `"cache"` or `"insert"`) violate `Synced` as well, and so does a
  kill before the flush (`update_kill`).
- **`update`: nothing moves across the limit** (`crossed`). `Update` does not cache a
  node that moved out of the buffer and leaves its old place in the caches, from where
  the next change of a way takes it; what moves into the buffer brings back none
  of the elements that were left out before. `Synced`, `CachesCurrent` and
  `IndexCovers` compare with a fresh import only as long as no diff has done so.
- **`update`: geometries are valid.** With `Broken <- MCBroken` (a closed way
  that gives a line but no polygon) `Synced` is violated: the way is left out of
  the index.
- **`update`: `ExpireUnlessPartGone`** leaves out elements that lose a part in the
  same diff, and rows of relation members. The comment at
  `src/update/deleter.go:24-26` promises more ("to be able to calculate expire
  tiles when nodes/ways are removed before the depending ways/relations"), but
  `FillWay` returns at the first missing node and `fillWayFromDeleted` fills in
  deleted nodes only. Without the exception TLC finds a way that is deleted with
  one of its nodes and expired only up to that node.
- **`update_loop`: conditions on the mapping.** TLC finds `TablesAsMapped`
  violated if the key of a `require` filter is neither mapped nor a column (the
  tag filter drops it), and if a table with the key `__any__` meets elements all
  of whose tags are filtered (an update inserts a row that it does not delete
  again). It finds `GeneralizedLikeImport` violated if the `sql_filter` of a
  generalized table does not imply that of its generalized source
  (`GenTablesAssumption`), and `DiffsApplied` if two generalized tables are each
  other's source (the loop of `prepareGeneralizedTableSources` does not end).
- **`update_loop`: repeated rows.** An element with several rows in a table (two
  sub-mappings, or several parts at the limit) is inserted several times into
  its generalized tables; `GeneralizedLikeImport` compares numbers only for the
  others.
- **`update_loop`: half-done updates.** If the process ends inside of an update, or
  an update fails after its first change (`spoiled`), the tables are those of
  run `update_retry`, and the tiles of old versions are not found again (reason
  `"halfway"`). Without these exceptions `TablesAsMapped` and `TilesAccounted`
  are violated.
- **`update_loop`: reapplied diffs.** If `last.state.txt` was not written,
  older diffs are applied again after a restart; the tables are right when the
  newest has been applied again, not before.
- **`update_loop`: no node at 0/0.** The tile list takes such nodes for missing
  ones; with one TLC finds `TilesAccounted` violated.
- **`update_loop`: rings do not touch**, and are rectangles: area and containment
  are GEOS calls. Of touching rings the code makes one ring that touches itself,
  which GEOS repairs later.
- **`update_loop`: closed ways of a multipolygon.** If one of them has no area,
  the code drops the relation as a whole, and so does `ReferenceGeometry`.
- **`update_loop`: what "expired" means.** A line and a multipolygon need the tiles
  of their nodes, an area all tiles of its box or of its border. That a line
  needs every tile it runs through is `LinesExpired`, which fails (`update_lines`).
- **`refindex`: one writer in the unbuffered mode.**
- **`read_pbf`:** `PhasesInOrder` and `LimitExact` are about files ordered by type.
  `LimitExact` compares with the blocks that can be decoded: of a file with others
  `ReadPbf` reports success all the same.
- **`import_deploy`: `Careful`**, one command at a time, and no error missed by
  `wait` (`ProductionWhole`, `UpdateReady` and `DeployUndone` exclude it).

### Fairness

The Go scheduler runs every goroutine that can run, and database calls return:
weak fairness of each goroutine's steps, or of all steps where every step uses up
work. New diffs, faults and commands are never required. `Termination`,
`EventuallyClosed`, `EventuallyDone`, `AppliedEventually`, `CommandEnds`,
`DiffsApplied` and `TilesWritten` rest on it. `TilesWritten` also needs the clock
to reach 30 seconds again and again (strong fairness of `TimePasses`, because it
is read between updates), and diffs that arrive, empty ones included: the loop
flushes only after an update. In UpdateLoop weak fairness of the program's steps
is written with the state predicate `CanUpdate`, which is when one of them is
enabled. `update_loop` does not check for deadlock states: `imposm diff` ends.
`coords` and `read_pbf` do not check for deadlock states, because a
returned error may leave a goroutine waiting or the work is over; their liveness
properties cover a deadlock without errors.

## Proofs

### Reference index (RefIndexProofs)

For any ids, references, writers, jobs and sizes of channels and buffer, from
`RefIndexAssumption` (types of the constants, sizes not 0):

- `TypeCorrect`: the type invariant;
- `LinearNothingLost`: in linear mode every reference handed over is in flight,
  stored, or in a batch whose write failed;
- `LinearRefsOnlyGrow`: in linear mode stored references stay;
- `CompleteIfLinearOrAlone`: after closing, the index is complete but for failed
  batches and reads, if the mode is linear or if at most one writer adds references.

`NothingLost` is not inductive: writing a batch replaces whole bunches, so it
must be known that the batch covers what was stored. `LinearInv` adds `Merged`
(a bunch that has been merged is in the batch with all that LevelDB and the
buffer hold of it), `ShutdownOrder` (each stage is drained before the next one
stops; needed for completeness at the end) and `NoDirectAdd`. `DirectInv` says that
the bunch a writer has read is still the stored one; that is where a second
writer breaks the argument (`refindex_race`).

### Only model-checked

- Liveness under fairness is out of the prover's reach: `Termination`,
  `EventuallyClosed`, `EventuallyDone`, `AppliedEventually`, `CommandEnds`,
  `DiffsApplied`, `TilesWritten`.
- DeltaCoords, DiffUpdate, ReadPbf, ImportDeploy and UpdateLoop have no proofs. What TagMapping, Rings, GenTables and TileRaster compute is defined
  by recursion over their input, and induction over data is out of the
  prover's reach.
- The six violations are about instances by their nature.

## Not modelled

Decoding of PBF and change files, byte encodings, SQL text, column values, GEOS
and projection, the format of tile files, logging, statistics, option parsing,
lengths of time-outs. Also `-appendcache`, several commands at once, the
`IMPOSM_SKIP_*` switches, relations as members of relations, how the limit cuts
a geometry (UpdateLoop has only the number of parts), and touching rings. The
matchers serve as their own reference: that the entry with the lowest order wins
is translated, not checked against a second definition.

Seen in the code and not covered by a property: a multipolygon made of open ways
is expired in the box of each way and not in its own; tables of relations and
members are expired as lines when a row is deleted and as boxes when it is
inserted; an update that returns early with an error leaves its writer and
parser goroutines waiting.

The definitions stand for 4,194 of 11,693 lines of hand-written Go code (without
tests, vendored and generated code), about 36%. `src/includes/` holds 78,384 lines
of headers of GEOS and LevelDB, which are bundled for building on Windows; none
of them is modelled.

## Plan

Done: the modules above, most important behaviour first (indexes, coordinates,
diff import, reader, deployment; then the update loop with tile list,
generalized tables, mapping and rings). Next:

1. sorted reference lists and `mergeBunch`, and round trips of the binary
   encodings, against reference definitions;
2. RefIndex composed with DiffUpdate, so that the two steps of `Add` interleave
   with an update;
3. proofs: for reading that the phases are in order, for import and deployment that
   production is whole, for the diff import that the caches are current after every
   update.
