----------------------------- MODULE DiffUpdate -----------------------------
(***************************************************************************)
(* Applying change files (update/process.go, deleter.go, run.go): Update   *)
(* removes the rows of every changed element and of the elements that      *)
(* depend on it, brings the caches up to date, and has three concurrent    *)
(* writers insert the changed and the depending elements again, all in one *)
(* database transaction; then it records the sequence in last.state.txt,   *)
(* and Run flushes the coordinates cache.                                  *)
(*                                                                         *)
(* Node, way and relation caches and the diff cache write through to       *)
(* LevelDB; coordinates stay in memory until they are evicted or flushed.  *)
(* Add on the diff cache is one step here; RefIndex has its own model.     *)
(***************************************************************************)
EXTENDS OsmRows, Bags

CONSTANTS
  Histories,   \* sequences of successive states of the OSM database
  Published(_),\* the states that may follow a state with the next diff
  MaxDiffs,    \* bound on the number of diffs
  MaxFaults,   \* bound on the number of failed updates and crashes, and
  FailIn, CrashIn  \* where they may happen: values of pc

VARIABLES
  osm,        \* the OSM database as of the last published diff
  queue,      \* published diffs that were not taken yet
  crossed,    \* history: a diff crossed the limit
  seq, diff,  \* the last diff taken: its number, its changes in file order
  last,       \* last.state.txt
  cache,      \* OSMCache, coords as the process sees them
  disk,       \* the coords in LevelDB
  idx,        \* DiffCache
  db,         \* committed rows: a bag
  pc,         \* where Update and Run are
  pos,        \* the number of changes processed
  tx,         \* the rows as the open transaction sees them
  del,        \* Deleter: deleted nodes, ways, relations, member ways
  ids,        \* nodeIDs, wayIDs, relIDs: to insert
  busy,       \* what the three writers work on: sets of at most one id
  expired,    \* locations of the tiles in the expire list
  faults      \* the number of failed updates and crashes

upstream == <<osm, queue, crossed, seq, diff>>
work == <<pos, tx, del, ids, busy>>
vars == <<upstream, last, cache, disk, idx, db, pc, work, expired, faults>>

-----------------------------------------------------------------------------
(* The caches after an import of the OSM state o: nodes within the buffer  *)
(* of the limit, ways whose first ref and relations whose first member is  *)
(* cached (ReadPbf).                                                       *)
Import(o) ==
  LET near == {n \in DOMAIN o.nodes : o.nodes[n].loc \in Buffer}
      tagged == {n \in near : o.nodes[n].tag \notin {Nil, Empty}}
      ways == {w \in DOMAIN o.ways : o.ways[w].refs # <<>> /\ o.ways[w].refs[1] \in near}
      known == ({"way"} \X ways) \cup ({"node"} \X near)
      rels == {r \in DOMAIN o.rels : o.rels[r].members = <<>> \/ o.rels[r].members[1] \in known} IN
    [nodes |-> [n \in tagged |-> o.nodes[n]],
     coords |-> [n \in near |-> o.nodes[n].loc],
     ways |-> [w \in ways |-> o.ways[w]],
     rels |-> [r \in rels |-> o.rels[r]]]

(* An element and the limit: whether the element is cached, whether all of *)
(* it is in the buffer, and whether a part of it is within the limit.  A   *)
(* diff crosses the limit if this changes for an element that stays.       *)
Place(o, kind, i) ==
  LET locs(nodes) == {o.nodes[n].loc : n \in nodes}
      refs(w) == ToSet(o.ways[w].refs)
      all == CASE kind = "nodes" -> locs({i})
               [] kind = "ways" -> locs(refs(i))
               [] kind = "rels" -> locs(NodeMembers(o.rels[i]) \cup
                                        UNION {refs(w) : w \in WayMembers(o.rels[i])})
  IN <<kind # "nodes" => i \in DOMAIN Import(o)[kind], all \subseteq Buffer, all \cap Inside # {}>>

Crosses(old, new) ==
  \E kind \in DOMAIN old : \E i \in DOMAIN old[kind] \cap DOMAIN new[kind] :
    Place(old, kind, i) # Place(new, kind, i)

(* A change file holds nodes, then ways, then relations, each by id.       *)
ChangesOf(kind, old, new) ==
  LET changed == {i \in DOMAIN old \cup DOMAIN new :
                    i \in DOMAIN old /\ i \in DOMAIN new => old[i] # new[i]}
      sorted == SetToSortSeq(changed, <) IN
    [k \in DOMAIN sorted |->
       LET i == sorted[k] IN
         CASE i \notin DOMAIN new -> [kind |-> kind, op |-> "delete", id |-> i, elem |-> old[i]]
           [] i \notin DOMAIN old -> [kind |-> kind, op |-> "create", id |-> i, elem |-> new[i]]
           [] OTHER -> [kind |-> kind, op |-> "modify", id |-> i, elem |-> new[i]]]

Changes(old, new) ==
  ChangesOf("node", old.nodes, new.nodes) \o ChangesOf("way", old.ways, new.ways)
    \o ChangesOf("rel", old.rels, new.rels)

NoIds == [node |-> {}, way |-> {}, rel |-> {}]
NoDel == [nodes |-> <<>>, ways |-> <<>>, rels |-> {}, members |-> {}]

(* f with the pairs of g taking precedence, and f without i.               *)
Put(f, i, v) == [j \in DOMAIN f \cup {i} |-> IF j = i THEN v ELSE f[j]]
PutAll(f, g) == [j \in DOMAIN f \cup DOMAIN g |-> IF j \in DOMAIN g THEN g[j] ELSE f[j]]
Without(f, i) == [j \in DOMAIN f \ {i} |-> f[j]]

(* The references of an id in an index (bunchRefCache.Get), by any id.     *)
Get(index, S) == {p[2] : p \in {p \in index : p[1] \in S}}

-----------------------------------------------------------------------------
(* The program starts after an import of the last state of a history; the  *)
(* state file of the import names its first state, so that the diffs in    *)
(* between overlap with what is imported.                                  *)
Init ==
  /\ \E h \in Histories :
       /\ osm = Last(h)
       /\ queue = [i \in 1..Len(h) - 1 |-> Changes(h[i], h[i + 1])]
       /\ crossed = \E i \in 1..Len(h) - 1 : Crosses(h[i], h[i + 1])
  /\ seq = 0 /\ diff = <<>>
  /\ last = 0
  /\ cache = Import(osm)
  /\ disk = cache.coords
  /\ idx = AllRefs(cache)
  /\ db = SetToBag(AllRows(cache))
  /\ pc = "idle"
  /\ pos = 0 /\ tx = EmptyBag /\ del = NoDel /\ ids = NoIds /\ busy = NoIds
  /\ expired = {}
  /\ faults = 0

(* The next diff is published.                                             *)
Publish ==
  /\ pc = "idle" /\ queue = <<>> /\ seq < MaxDiffs
  /\ \E new \in Published(osm) :
       /\ osm' = new
       /\ queue' = <<Changes(osm, new)>>
       /\ crossed' = (crossed \/ Crosses(osm, new))
  /\ UNCHANGED <<seq, diff, last, cache, disk, idx, db, pc, work, expired, faults>>

(* Run takes the next diff from the downloader.                            *)
NextSeq ==
  /\ pc = "idle" /\ queue # <<>>
  /\ diff' = Head(queue) /\ queue' = Tail(queue)
  /\ seq' = seq + 1
  /\ pc' = "update"
  /\ expired' = {}
  /\ UNCHANGED <<osm, crossed, last, cache, disk, idx, db, work, faults>>

(* Update up to the loop over the changes.  A diff that last.state.txt     *)
(* covers is skipped.                                                      *)
Skip ==
  /\ pc = "update" /\ last # 0 /\ seq <= last
  /\ pc' = "flush"
  /\ UNCHANGED <<upstream, last, cache, disk, idx, db, work, expired, faults>>

Begin ==
  /\ pc = "update" /\ ~(last # 0 /\ seq <= last)
  /\ pc' = "delete"
  /\ pos' = 0 /\ tx' = db /\ del' = NoDel /\ ids' = NoIds /\ busy' = NoIds
  /\ UNCHANGED <<upstream, last, cache, disk, idx, db, expired, faults>>

-----------------------------------------------------------------------------
(* Deleter.Delete of the next change: the ways and relations it deletes    *)
(* next to the element itself, unless the Deleter has deleted them before. *)
Change == diff[pos + 1]

DepWays ==
  IF Change.kind = "node" /\ Change.op # "delete"
    THEN Get(idx.coords, {Change.id}) \ DOMAIN del.ways ELSE {}

(* Mutant: relations with the node as a member are forgotten.              *)
MutDepRels ==
  CASE Change.op = "delete" \/ Change.kind = "rel" -> {}
    [] Change.kind = "way" -> Get(idx.ways, {Change.id}) \ del.rels
    [] Change.kind = "node" -> Get(idx.ways, DepWays) \ del.rels

DepRels ==
  CASE Change.op = "delete" \/ Change.kind = "rel" -> {}
    [] Change.kind = "way" -> Get(idx.ways, {Change.id}) \ del.rels
    [] Change.kind = "node" ->
         (Get(idx.ways, DepWays) \cup Get(idx.coordsRel, {Change.id})) \ del.rels

Itself(kind) == IF Change.kind = kind THEN {Change.id} ELSE {}

(* The elements whose rows go, by the tags of their cached version.        *)
DelNodes == Itself("node") \cap DOMAIN cache.nodes
DelWays == (Itself("way") \cup DepWays) \cap DOMAIN cache.ways
DelRels == (Itself("rel") \cup DepRels) \cap DOMAIN cache.rels

(* Mutant: nothing is deleted for a new element.                           *)
MutRowDeleted(row) ==
  /\ Change.op # "create"
  /\ \/ row[1] = "node" /\ row[3] \in DelNodes /\ row[2] \in Tables["node"][cache.nodes[row[3]].tag]
     \/ row[1] = "way" /\ row[3] \in DelWays /\ row[2] \in MatchWay(cache.ways[row[3]])
     \/ row[1] = "rel" /\ row[3] \in DelRels /\ row[2] \in Tables["rel"][cache.rels[row[3]].tag]

RowDeleted(row) ==
  \/ row[1] = "node" /\ row[3] \in DelNodes /\ row[2] \in Tables["node"][cache.nodes[row[3]].tag]
  \/ row[1] = "way" /\ row[3] \in DelWays /\ row[2] \in MatchWay(cache.ways[row[3]])
  \/ row[1] = "rel" /\ row[3] \in DelRels /\ row[2] \in Tables["rel"][cache.rels[row[3]].tag]

(* References go only with the element itself: DeleteRef for a way that    *)
(* had rows and for a relation with tags, Delete for a deleted node.       *)
RefsDeleted ==
  [coords |->
     UNION {ToSet(cache.ways[w].refs) \X {w} :
              w \in {w \in Itself("way") \cap DOMAIN cache.ways :
                       MatchWay(cache.ways[w]) # {}}}
     \cup {p \in idx.coords : Change.kind = "node" /\ Change.op = "delete" /\ p[1] = Change.id},
   coordsRel |-> UNION {NodeMembers(cache.rels[r]) \X {r} :
                          r \in {r \in Itself("rel") \cap DOMAIN cache.rels :
                                   cache.rels[r].tag # Nil}},
   ways |-> UNION {WayMembers(cache.rels[r]) \X {r} :
                     r \in {r \in Itself("rel") \cap DOMAIN cache.rels :
                              cache.rels[r].tag # Nil}}]

Minus(i, j) == [coords |-> i.coords \ j.coords, coordsRel |-> i.coordsRel \ j.coordsRel,
                ways |-> i.ways \ j.ways]
Plus(i, j) == [coords |-> i.coords \cup j.coords, coordsRel |-> i.coordsRel \cup j.coordsRel,
               ways |-> i.ways \cup j.ways]

(* What the Deleter remembers.                                             *)
Remember ==
  [nodes |->
     IF Change.kind # "node" THEN del.nodes
     ELSE IF Change.id \in DOMAIN cache.nodes
            THEN Put(del.nodes, Change.id, cache.nodes[Change.id].loc)
     ELSE IF Change.id \in DOMAIN cache.coords
            THEN Put(del.nodes, Change.id, cache.coords[Change.id])
     ELSE del.nodes,
   ways |->
     PutAll(del.ways, [w \in Itself("way") \cup DepWays |->
                         IF w \in DOMAIN cache.ways THEN cache.ways[w].refs ELSE <<>>]),
   rels |-> del.rels \cup Itself("rel") \cup DepRels,
   members |-> del.members \cup {w \in DepWays : Get(idx.ways, {w}) # {}}]

-----------------------------------------------------------------------------
(* The tiles the Deleter expires.  FillWay stops at the first missing      *)
(* coordinate; the nodes from there on have the zero location, unless      *)
(* fillWayFromDeleted knows them.                                          *)
ZeroLoc == 0

WayTiles(refs) ==
  LET known(i) == \A j \in 1..i : refs[j] \in DOMAIN cache.coords IN
    {IF known(i) THEN cache.coords[refs[i]]
     ELSE IF refs[i] \in DOMAIN del.nodes THEN del.nodes[refs[i]]
     ELSE ZeroLoc : i \in DOMAIN refs}

(* FillMembers stops at the first member way that is missing; from there   *)
(* on only ways that fillMembersFromDeleted knows are expired.             *)
RelTiles(members) ==
  LET known(i) == \A j \in 1..i : members[j][1] = "way" => members[j][2] \in DOMAIN cache.ways
      refs(i) == IF members[i][1] # "way" THEN <<>>
                 ELSE IF known(i) THEN cache.ways[members[i][2]].refs
                 ELSE IF members[i][2] \in DOMAIN del.ways THEN del.ways[members[i][2]]
                 ELSE <<>> IN
    UNION {WayTiles(refs(i)) : i \in DOMAIN members}

(* Mutant: deleted ways and relations are not expired.                     *)
MutDeleteTiles ==
  {cache.nodes[n].loc : n \in {n \in DelNodes : Tables["node"][cache.nodes[n].tag] # {}}}

DeleteTiles ==
  {cache.nodes[n].loc : n \in {n \in DelNodes : Tables["node"][cache.nodes[n].tag] # {}}}
  \cup UNION {WayTiles(cache.ways[w].refs) :
                w \in {w \in DelWays : MatchWay(cache.ways[w]) # {}}}
  \cup UNION {RelTiles(cache.rels[r].members) :
                r \in {r \in DelRels : Tables["rel"][cache.rels[r].tag] # {}}}

DeleteElem ==
  /\ pc = "delete" /\ pos < Len(diff)
  /\ tx' = [row \in {row \in DOMAIN tx : ~RowDeleted(row)} |-> tx[row]]
  /\ idx' = Minus(idx, RefsDeleted)
  /\ del' = Remember
  /\ expired' = expired \cup DeleteTiles
  /\ pc' = "cache"
  /\ UNCHANGED <<upstream, last, cache, disk, db, pos, ids, busy, faults>>

-----------------------------------------------------------------------------
(* The rest of the loop body: caches and the ids to insert.                *)
CacheDelete ==
  CASE Change.kind = "node" ->
         [cache EXCEPT !.nodes = Without(@, Change.id), !.coords = Without(@, Change.id)]
    [] Change.kind = "way" -> [cache EXCEPT !.ways = Without(@, Change.id)]
    [] Change.kind = "rel" -> [cache EXCEPT !.rels = Without(@, Change.id)]

(* FirstRefIsCached, FirstMemberIsCached; a node must be within the buffer *)
(* of the limit.                                                           *)
Wanted ==
  CASE Change.kind = "node" -> Change.elem.loc \in Buffer
    [] Change.kind = "way" -> Change.elem.refs # <<>> /\ Change.elem.refs[1] \in DOMAIN cache.coords
    [] Change.kind = "rel" ->
         Change.elem.members = <<>> \/ Change.elem.members[1] \in
           ({"way"} \X DOMAIN cache.ways) \cup ({"node"} \X DOMAIN cache.coords)

(* Mutant: a node that drops its tags stays in the node cache.             *)
MutUntagged == cache

(* A node without tags is taken from the node cache by a modify, and left  *)
(* there by a create.                                                      *)
Untagged ==
  IF Change.kind = "node" /\ Change.op = "modify" /\ Change.elem.tag = Nil
    THEN [cache EXCEPT !.nodes = Without(@, Change.id)] ELSE cache

CachePut ==
  CASE Change.kind = "node" ->
         [Untagged EXCEPT !.nodes = IF Change.elem.tag = Nil THEN @ ELSE Put(@, Change.id, Change.elem),
                          !.coords = Put(@, Change.id, Change.elem.loc)]
    [] Change.kind = "way" -> [cache EXCEPT !.ways = Put(@, Change.id, Change.elem)]
    [] Change.kind = "rel" -> [cache EXCEPT !.rels = Put(@, Change.id, Change.elem)]

(* An element that is not wanted stays in the caches as it was.            *)
CacheElem ==
  /\ pc = "cache"
  /\ IF Change.op = "delete"
       THEN /\ cache' = CacheDelete
            /\ idx' = IF Change.kind = "way"
                        THEN [idx EXCEPT !.ways = {p \in @ : p[1] # Change.id}] ELSE idx
            /\ UNCHANGED ids
       ELSE /\ cache' = IF Wanted THEN CachePut ELSE Untagged
            /\ ids' = IF Wanted THEN [ids EXCEPT ![Change.kind] = @ \cup {Change.id}] ELSE ids
            /\ UNCHANGED idx
  /\ pos' = pos + 1
  /\ pc' = "delete"
  /\ UNCHANGED <<upstream, last, disk, db, tx, del, busy, expired, faults>>

(* After the loop: depending elements are marked; those that are not       *)
(* cached are left out when they are sent.                                 *)
Mark ==
  /\ pc = "delete" /\ pos = Len(diff)
  /\ LET ways == ids.way \cup del.members \cup Get(idx.coords, ids.node)
         rels == ids.rel \cup Get(idx.coordsRel, ids.node) \cup Get(idx.ways, ways) IN
       ids' = [node |-> ids.node \cap DOMAIN cache.nodes,
               way |-> ways \cap DOMAIN cache.ways,
               rel |-> rels \cap DOMAIN cache.rels]
  /\ pc' = "insert"
  /\ UNCHANGED <<upstream, last, cache, disk, idx, db, pos, tx, del, busy, expired, faults>>

-----------------------------------------------------------------------------
(* Relations, ways and nodes are sent to the writers in this order over    *)
(* unbuffered channels; each writer inserts one element at a time.         *)
Send(kind) ==
  /\ pc = "insert" /\ busy[kind] = {}
  /\ kind \in {"way", "node"} => ids.rel = {}
  /\ kind = "node" => ids.way = {}
  /\ \E i \in ids[kind] :
       /\ busy' = [busy EXCEPT ![kind] = {i}]
       /\ ids' = [ids EXCEPT ![kind] = @ \ {i}]
  /\ UNCHANGED <<upstream, last, cache, disk, idx, db, pc, pos, tx, del, expired, faults>>

NoRefs == [coords |-> {}, coordsRel |-> {}, ways |-> {}]

(* Mutant: the diff cache is not updated.                                  *)
MutWritten(kind, rows, refs, tiles) ==
  /\ tx' = tx (+) SetToBag(rows)
  /\ expired' = expired \cup tiles
  /\ busy' = [busy EXCEPT ![kind] = {}]
  /\ UNCHANGED <<upstream, last, cache, disk, idx, db, pc, pos, del, ids, faults>>

(* A writer inserts rows, adds references and expires tiles.               *)
Written(kind, rows, refs, tiles) ==
  /\ tx' = tx (+) SetToBag(rows)
  /\ idx' = Plus(idx, refs)
  /\ expired' = expired \cup tiles
  /\ busy' = [busy EXCEPT ![kind] = {}]
  /\ UNCHANGED <<upstream, last, cache, disk, db, pc, pos, del, ids, faults>>

WriteNode ==
  /\ pc = "insert"
  /\ \E n \in busy.node :
       Written("node", NodeRows(cache, n), NoRefs, {row[5] : row \in NodeRows(cache, n)})

WriteWay ==
  /\ pc = "insert"
  /\ \E w \in busy.way :
       Written("way", WayRows(cache, w), [NoRefs EXCEPT !.coords = WayRefs(cache, w)],
               IF WayComplete(cache, w) THEN ToSet(FillWay(cache, cache.ways[w].refs)) ELSE {})

WriteRel ==
  /\ pc = "insert"
  /\ \E r \in busy.rel :
       Written("rel", RelRows(cache, r), RelRefs(cache, r),
               IF RelRows(cache, r) = {} THEN {}
               ELSE UNION {ToSet(FillWay(cache, cache.ways[w].refs)) :
                             w \in WayMembers(cache.rels[r])})

(* All writers are done: the transaction is committed, ...                 *)
Commit ==
  /\ pc = "insert" /\ ids = NoIds /\ busy = NoIds
  /\ db' = tx
  /\ pc' = "state"
  /\ UNCHANGED <<upstream, last, cache, disk, idx, work, expired, faults>>

(* Mutant: the state after the diff is recorded.                           *)
MutWriteState ==
  /\ pc = "state"
  /\ last' = seq + 1
  /\ pc' = "flush"
  /\ UNCHANGED <<upstream, cache, disk, idx, db, work, expired, faults>>

(* ... last.state.txt is written, ...                                      *)
WriteState ==
  /\ pc = "state"
  /\ last' = seq
  /\ pc' = "flush"
  /\ UNCHANGED <<upstream, cache, disk, idx, db, work, expired, faults>>

(* Mutant: Run calls Update again although it returned no error.           *)
MutFlush ==
  /\ pc = "flush"
  /\ disk' = cache.coords
  /\ pc' = "update"
  /\ UNCHANGED <<upstream, last, cache, idx, db, work, expired, faults>>

(* ... and Run flushes the coordinates.                                    *)
Flush ==
  /\ pc = "flush"
  /\ disk' = cache.coords
  /\ pc' = "idle"
  /\ pos' = 0 /\ tx' = EmptyBag /\ del' = NoDel
  /\ UNCHANGED <<upstream, last, cache, idx, db, ids, busy, expired, faults>>

(* A diff that is already imported is given to Update again.               *)
Again ==
  /\ pc = "idle" /\ queue = <<>> /\ last = seq /\ last # 0
  /\ pc' = "update"
  /\ UNCHANGED <<upstream, last, cache, disk, idx, db, work, expired, faults>>

-----------------------------------------------------------------------------
(* Update returns an error (files, parser, database, commit): the          *)
(* transaction is rolled back, Run flushes the coordinates and calls       *)
(* Update again.                                                           *)
Fail ==
  /\ faults < MaxFaults /\ pc \in FailIn
  /\ pc = "insert" => busy = NoIds
  /\ disk' = cache.coords
  /\ pc' = "update"
  /\ faults' = faults + 1
  /\ UNCHANGED <<upstream, last, cache, idx, db, work, expired>>

(* The process is killed and started again: what the coordinates cache had *)
(* not written is gone, the rollback is the database's.                    *)
Crash ==
  /\ faults < MaxFaults /\ pc \in CrashIn
  /\ \E kept \in SUBSET DOMAIN cache.coords, gone \in SUBSET (DOMAIN disk \ DOMAIN cache.coords) :
       cache' = [cache EXCEPT !.coords =
                   [n \in (kept \cup DOMAIN disk) \ gone |->
                      IF n \in kept THEN cache.coords[n] ELSE disk[n]]]
  /\ disk' = cache'.coords
  /\ pc' = IF last < seq THEN "update" ELSE "idle"
  /\ expired' = {}
  /\ faults' = faults + 1
  /\ UNCHANGED <<upstream, last, idx, db, work>>

Updating ==
  \/ NextSeq \/ Skip \/ Begin \/ DeleteElem \/ CacheElem \/ Mark
  \/ \E kind \in {"node", "way", "rel"} : Send(kind)
  \/ WriteNode \/ WriteWay \/ WriteRel
  \/ Commit \/ WriteState \/ Flush

Done == pc = "idle" /\ queue = <<>> /\ seq = MaxDiffs /\ UNCHANGED vars

Next == Publish \/ Updating \/ Again \/ Fail \/ Crash \/ Done

Spec == Init /\ [][Next]_vars
FairSpec == Spec /\ WF_vars(Updating)

-----------------------------------------------------------------------------
(* The shape of the state; a diff is never recorded before it was taken,   *)
(* and no writer has two elements at a time.                               *)
TypeOK ==
  /\ pc \in {"idle", "update", "delete", "cache", "insert", "state", "flush"}
  /\ last <= seq /\ seq <= MaxDiffs /\ pos <= Len(diff)
  /\ \A kind \in DOMAIN busy : Cardinality(busy[kind]) <= 1
  /\ \A row \in DOMAIN db : db[row] \in Nat \ {0}
  /\ faults <= MaxFaults

(* All diffs are applied, and none of them crossed the limit.              *)
Current == pc = "idle" /\ queue = <<>> /\ last = seq
Comparable == Current /\ ~crossed

(* Applying a diff gives the tables a fresh import of the new data would   *)
(* give: no row is missing, out of date, orphaned or there twice.  Across  *)
(* the limit this is not so: Update does not cache a node that moved out   *)
(* of the buffer, and leaves its old place in the caches, from where the   *)
(* next change of a way takes it; what comes into the buffer brings none   *)
(* of the elements that were left out before.                              *)
Synced == Comparable => db = SetToBag(AllRows(Import(osm)))

(* The diff cache knows, for every row, the nodes and member ways it was   *)
(* built from, so that the next change of one of them reaches the row.     *)
IndexCovers ==
  Comparable =>
    LET refs == AllRefs(Import(osm)) IN
      /\ refs.coords \subseteq idx.coords
      /\ refs.coordsRel \subseteq idx.coordsRel
      /\ refs.ways \subseteq idx.ways

(* The caches a later diff starts from are those of a fresh import, but    *)
(* for nodes with none but filtered tags, which only a diff caches.        *)
CachesCurrent ==
  Comparable =>
    LET fresh == Import(osm) IN
      /\ cache.coords = fresh.coords /\ disk = fresh.coords
      /\ cache.ways = fresh.ways /\ cache.rels = fresh.rels
      /\ {n \in DOMAIN cache.nodes : cache.nodes[n].tag # Empty} = DOMAIN fresh.nodes
      /\ \A n \in DOMAIN fresh.nodes : cache.nodes[n] = fresh.nodes[n]

(* The locations of a row.                                                 *)
Locations(row) ==
  CASE row[1] = "node" -> {row[5]}
    [] row[1] = "way" -> ToSet(row[5])
    [] row[1] = "rel" /\ row[2] = "polygon" -> UNION {ToSet(ring) : ring \in row[5]}
    [] row[1] = "rel" /\ row[2] = "member" -> ToSet(row[5][3])
    [] OTHER -> {}

ChangedRows == {row \in DOMAIN db \cup DOMAIN db' : CopiesIn(row, db) # CopiesIn(row, db')}
Committing == pc = "insert" /\ pc' = "state"

DeletedBy(kind) == {c \in ToSet(diff) : c.kind = kind /\ c.op = "delete"}

PartGone(row) ==
  \/ /\ row[1] # "node"
     /\ \E c \in DeletedBy("node") :
          c.id \in DOMAIN del.nodes /\ del.nodes[c.id] \in Locations(row) \cup (Buffer \ Inside)
  \/ row[1] = "rel" /\ DeletedBy("way") # {}

(* A committed update has every place on the expire list where a row was   *)
(* added, removed or changed, with its old and with its new geometry.  One *)
(* kind of row is left out: that of a way or relation that loses a node    *)
(* (of the row, or clipped off it), or of a relation that loses a way, in  *)
(* the same diff.  FillWay and FillMembers stop at the deleted part, and   *)
(* what comes after it is not expired.  (Rows of relation members are left *)
(* out too: node members are not expired.)                                 *)
ExpireUnlessPartGone ==
  [][Committing => \A row \in ChangedRows :
       row[2] = "member" \/ PartGone(row) \/ Locations(row) \subseteq expired]_vars

(* Every published diff is applied.                                        *)
AppliedEventually == (queue # <<>>) ~> Current
=============================================================================
