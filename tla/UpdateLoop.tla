----------------------------- MODULE UpdateLoop -----------------------------
(***************************************************************************)
(* imposm run and imposm diff as a whole (update/run.go, process.go): one  *)
(* Update after the other, with what it does to tables, generalized tables *)
(* and the tile list.  Which elements depend on a changed element is the   *)
(* subject of DiffUpdate; here no changed element is a part of another.    *)
(*                                                                         *)
(* An element is <<kind, id>>, its version a record:                       *)
(*   node [tags]    way [tags, refs, parts]    rel [tags, members, parts]  *)
(* parts is the number of parts the geometry has inside of -limitto; it is *)
(* 1 without a limit.  A row is [table, id, sub, key, value, geom].        *)
(***************************************************************************)
EXTENDS TileRaster, Rings, TagMapping, GenTables, TileList

CONSTANTS Plans  \* what may happen, see PlansAssumption

VARIABLES
  plan,       \* the command, the imported data, the diffs, the number of faults
  pc,         \* where the program is; "down" if it does not run
  next,       \* the next diff: its number
  last,       \* last.state.txt
  applied,    \* the newest diff that was committed
  pos, todo,  \* the changes processed; the elements to insert
  err,        \* Update returned an error
  cache,      \* OSMCache: the filtered versions
  db,         \* committed rows, a bag
  tx,         \* the rows as the transaction sees them
  aborted,    \* a statement of the transaction has failed
  ids,        \* PostGIS.updatedIDs: a bag of <<generalized table, id>>
  src,        \* GeneralizedTableSpec.Source
  due,        \* 30 seconds have passed since the last flush of the tile list
  spoiled,    \* an update failed after it had changed the caches
  faults      \* errors and kills still to come

data == <<cache, db, spoiled>>
work == <<pos, todo, tx, aborted, ids, src>>
vars == <<plan, pc, next, last, applied, err, data, work, due, faults, tileVars>>

Diffs == plan.diffs
Cmd == plan.cmd
EmptyDiff == <<>>
Current == IF next <= Len(Diffs) THEN Diffs[next] ELSE EmptyDiff

(* No changed element is a part of another one.                            *)
WaysOf(v) == IF "members" \in DOMAIN v THEN {<<"way", w>> : w \in ToSet(v.members)} ELSE {}
NodesOf(v) == IF "refs" \in DOMAIN v THEN {<<"node", n>> : n \in ToSet(v.refs)} ELSE {}

ASSUME PlansAssumption ==
  \A p \in Plans :
    /\ p.cmd \in {"run", "single", "diff"} /\ p.faults \in Nat
    /\ LET changes == UNION {ToSet(d) : d \in ToSet(p.diffs)}
           versions == {p.start[e] : e \in DOMAIN p.start} \cup {c.v : c \in changes}
           used == UNION {WaysOf(v) \cup NodesOf(v) : v \in versions}
       IN {c.elem : c \in changes} \cap used = {}

-----------------------------------------------------------------------------
(* The caches: tags are filtered before an element is stored.              *)
FilterTags(kind, tags) ==
  CASE kind = "node" -> NodeTagFilter(tags)
    [] kind = "way" -> WayTagFilter(tags)
    [] kind = "rel" -> RelationTagFilter(tags)

Filtered(e, v) == [v EXCEPT !.tags = FilterTags(e[1], v.tags)]

(* PutNode and PutNodes leave out nodes without tags; an import looks at   *)
(* the filtered tags, an update at whether there were any.                 *)
Stored(e, v) == e[1] = "node" => v.tags # <<>>

Positions(refs) == [i \in DOMAIN refs |-> Pos[refs[i]]]

(* FillMembers, which stops at the first way that is missing.              *)
MemberRefs(c, v) ==
  LET known == {n \in 0..Len(v.members) : \A i \in 1..n : <<"way", v.members[i]>> \in DOMAIN c} IN
    [i \in 1..Max(known) |-> c[<<"way", v.members[i]>>].refs]

Filled(c, v) == Len(MemberRefs(c, v)) = Len(v.members)

Row(e, m, geom) ==
  [table |-> m.table, id |-> e, sub |-> m.sub, key |-> m.key, value |-> m.value, geom |-> geom]

(* NodeWriter.loop.                                                        *)
NodeRows(e, v) == {Row(e, m, <<"point", e[2]>>) : m \in MatchNode(v.tags)}

(* WayWriter.loop, buildAndInsert: one row for each match and part.        *)
WayRows(e, v) ==
  LET closed == IsClosed(v.refs) IN
    IF v.tags = <<>> THEN {}
    ELSE {Row(e, m, <<"line", v.refs, p>>) : m \in MatchLine(v.tags, closed), p \in 1..v.parts}
         \cup {Row(e, m, <<"polygon", v.refs, p>>) : m \in MatchPolygon(v.tags, closed), p \in 1..v.parts}

(* handleRelationMembers, handleRelation, handleMultiPolygon, with the     *)
(* geometry that is built of the members; no polygons is ErrorNoRing.      *)
RelRows(e, v, ways, polygons) ==
  {Row(e, m, <<"member", ways[i], i>>) : m \in MatchRelation("relation_member", v.tags), i \in DOMAIN ways}
  \cup {Row(e, m, <<"none">>) : m \in MatchRelation("relation", v.tags)}
  \cup (IF polygons = {} THEN {}
        ELSE {Row(e, m, <<"multi", polygons, p>>) : m \in MatchRelation("polygon", v.tags), p \in 1..v.parts})

-----------------------------------------------------------------------------
(* The tables after an import of the world w, which is what the tables are *)
(* compared with: elements are mapped by all their tags, and multipolygons *)
(* are what they should be.                                                *)
ImportedRows(w) ==
  UNION {CASE e[1] = "node" -> NodeRows(e, w[e])
           [] e[1] = "way" -> WayRows(e, w[e])
           [] e[1] = "rel" -> IF Filled(w, w[e])
                                THEN RelRows(e, w[e], MemberRefs(w, w[e]),
                                             ReferenceGeometry(MemberRefs(w, w[e])))
                                ELSE {}
         : e \in DOMAIN w}

ImportedTables(w) == LET rows == SetToBag(ImportedRows(w)) IN rows (+) Generalized(rows)

Change(w, c) == IF c.op = "delete" THEN Without(w, c.elem) ELSE With(w, c.elem, c.v)

World(n) == FoldLeft(LAMBDA w, d : FoldLeft(Change, w, d), plan.start, SubSeq(Diffs, 1, n))

(* The program starts after an import.                                     *)
Init ==
  /\ plan \in Plans
  /\ pc = "idle" /\ next = 1 /\ last = 0 /\ applied = 0 /\ err = FALSE
  /\ cache = LET filtered == [e \in DOMAIN plan.start |-> Filtered(e, plan.start[e])] IN
               [e \in {e \in DOMAIN filtered : Stored(e, filtered[e])} |-> filtered[e]]
  /\ db = ImportedTables(plan.start)
  /\ pos = 0 /\ todo = {} /\ tx = EmptyBag /\ aborted = FALSE /\ ids = EmptyBag
  /\ src = DirectSources
  /\ due = FALSE /\ spoiled = FALSE /\ faults = plan.faults
  /\ TileInit

-----------------------------------------------------------------------------
(* Update begins: Run gets a diff from the downloader (when it has caught  *)
(* up, one that changes nothing), Diff takes the next file.  A diff that   *)
(* is in last.state.txt is skipped.                                        *)
Take ==
  /\ pc = "idle"
  /\ Cmd # "run" => next <= Len(Diffs)
  /\ next > last
  /\ pc' = "open"
  /\ UNCHANGED <<plan, next, last, applied, err, data, work, due, faults, tileVars>>

Skip ==
  /\ pc = "idle" /\ next <= last /\ next <= Len(Diffs)
  /\ next' = next + 1
  /\ UNCHANGED <<plan, pc, last, applied, err, data, work, due, faults, tileVars>>

(* database.Open finds the sources of the generalized tables ...           *)
FillSource(g) ==
  /\ pc = "open" /\ g \in Fillable(src)
  /\ src' = [src EXCEPT ![g] = src[SourceName[g]]]
  /\ UNCHANGED <<plan, pc, next, last, applied, err, data, pos, todo, tx, aborted, ids, due, faults, tileVars>>

(* ... and the transaction begins.                                         *)
Begin ==
  /\ pc = "open" /\ \A g \in GenTable : src[g] # NoSource
  /\ pc' = "change"
  /\ pos' = 0 /\ todo' = {} /\ tx' = db /\ aborted' = FALSE /\ ids' = EmptyBag
  /\ UNCHANGED <<plan, next, last, applied, err, data, src, due, faults, tileVars>>

-----------------------------------------------------------------------------
(* Deleter.deleteNode, deleteWay and deleteRelation: the tables the cached *)
(* version went to, and the tiles to expire.                               *)
NoMatch == [from |-> {}, tiles |-> {}]
Names(matches) == {m.table : m \in matches}

Deleted(e) ==
  LET v == cache[e]
      polygon == Names(IF e[1] = "way" THEN MatchPolygon(v.tags, IsClosed(v.refs))
                       ELSE MatchRelation("polygon", v.tags))
      other == Names(IF e[1] = "way" THEN MatchLine(v.tags, IsClosed(v.refs))
                     ELSE MatchRelation("relation", v.tags) \cup MatchRelation("relation_member", v.tags))
      ways == IF e[1] = "way" THEN <<v.refs>> ELSE MemberRefs(cache, v)
  IN IF e \notin DOMAIN cache THEN NoMatch
     ELSE IF v.tags = <<>> THEN NoMatch
     ELSE IF e[1] = "node"
       THEN LET matched == Names(MatchNode(v.tags)) IN
              [from |-> matched, tiles |-> IF matched = {} THEN {} ELSE AddCoord(Pos[e[2]])]
     ELSE IF polygon \cup other = {} THEN NoMatch
     ELSE [from |-> polygon \cup other,
           tiles |-> UNION {ExpireNodes(Positions(ways[i]), polygon # {}) : i \in DOMAIN ways}]

(* One change: the rows go, and the cache is updated.                      *)
ChangeElem ==
  /\ pc = "change" /\ pos < Len(Current)
  /\ LET c == Current[pos + 1]
         gone == Deleted(c.elem)
         kept == c.op # "delete" /\ Stored(c.elem, c.v) IN
       /\ tx' = DeleteRows(tx, src, c.elem, gone.from)
       /\ Expire(gone.tiles)
       /\ cache' = IF kept THEN With(cache, c.elem, Filtered(c.elem, c.v))
                   ELSE Without(cache, c.elem)
       /\ todo' = IF kept THEN todo \cup {c.elem} ELSE todo \ {c.elem}
  /\ pos' = pos + 1
  /\ UNCHANGED <<plan, pc, next, last, applied, err, db, spoiled, aborted, ids, src, due, faults, untold, reasons>>

Parsed ==
  /\ pc = "change" /\ pos = Len(Current)
  /\ pc' = "insert"
  /\ UNCHANGED <<plan, next, last, applied, err, data, work, due, faults, tileVars>>

-----------------------------------------------------------------------------
(* The writers.  Each inserts its elements on its own; tables, noted ids   *)
(* and tiles do not depend on the order.                                   *)
Inserted(e, rows, noted, S) ==
  /\ pc = "insert" /\ e \in todo /\ ~aborted
  /\ todo' = todo \ {e}
  /\ tx' = tx (+) SetToBag(rows)
  /\ ids' = ids (+) noted
  /\ Expire(S)
  /\ UNCHANGED <<plan, pc, next, last, applied, err, data, pos, aborted, src, due, faults, untold, reasons>>

WriteNode(e) ==
  /\ e \in todo /\ e[1] = "node"
  /\ LET rows == NodeRows(e, cache[e]) IN
       Inserted(e, rows, EmptyBag, IF rows = {} THEN {} ELSE AddCoord(Pos[e[2]]))

WayTiles(e, rows) ==
  IF rows = {} THEN {}
  ELSE ExpireNodes(Positions(cache[e].refs), \E r \in rows : r.geom[1] = "polygon")

WriteWay(e) ==
  /\ e \in todo /\ e[1] = "way"
  /\ LET rows == WayRows(e, cache[e]) IN
       Inserted(e, rows, NotedIDs(src, rows), WayTiles(e, rows))

(* Without all member ways the relation is left out.  Rings of equal area  *)
(* come in any order.  A relation counts as inserted if it matches a table *)
(* of relations or members, or if its polygon was inserted.                *)
RelTiles(e) ==
  LET ways == MemberRefs(cache, cache[e]) IN
    UNION {ExpireNodes(Positions(ways[i]), TRUE) : i \in DOMAIN ways}

WriteRel(e) ==
  /\ e \in todo /\ e[1] = "rel"
  /\ LET v == cache[e]
         ways == MemberRefs(cache, v)
         matched == MatchRelation("relation", v.tags) \cup MatchRelation("relation_member", v.tags) IN
       IF ~Filled(cache, v) THEN Inserted(e, {}, EmptyBag, {})
       ELSE \E rings \in AreaOrders(BuildRings(ways)) :
              LET rows == RelRows(e, v, ways, IF rings = <<>> THEN {} ELSE BuildRelGeometry(rings))
                  noted == {r \in rows : r.geom[1] # "member"}
              IN Inserted(e, rows, NotedIDs(src, noted),
                          IF matched = {} /\ rows = {} THEN {} ELSE RelTiles(e))

(* A statement fails, and with it all later ones of the transaction; the   *)
(* writers log the error and go on.  Errors of relation and member rows    *)
(* are not even looked at.                                                 *)
InsertFails(e) ==
  /\ pc = "insert" /\ e \in todo
  /\ aborted \/ faults > 0
  /\ faults' = IF aborted THEN faults ELSE faults - 1
  /\ aborted' = TRUE
  /\ todo' = todo \ {e}
  /\ Expire(IF /\ e[1] = "rel" /\ Filled(cache, cache[e])
               /\ \E t \in {"relation", "relation_member"} : MatchRelation(t, cache[e].tags) # {}
              THEN RelTiles(e) ELSE {})
  /\ UNCHANGED <<plan, pc, next, last, applied, err, data, pos, tx, ids, src, due, untold, reasons>>

-----------------------------------------------------------------------------
(* The tiles a row is on.  Around a point they are padded; a polygon with  *)
(* a large box needs only those of its nodes.                              *)
RequiredTiles(row) ==
  LET g == row.geom
      nodes(S) == {TileOf(Pos[n]) : n \in S}
      box(refs) == LET p == Positions(refs)
                       from == MinCorner(p)
                       to == MaxCorner(p) IN
        IF NumBoxTiles(from, to) > MaxBoxTiles THEN nodes(ToSet(refs))
        ELSE {TileOf(<<x, y>>) : x \in from[1]..to[1], y \in from[2]..to[2]}
  IN CASE g[1] = "point" ->
            {TileOf(<<x, y>>) : x \in (Pos[g[2]][1] - Padding)..(Pos[g[2]][1] + Padding),
                                y \in (Pos[g[2]][2] - Padding)..(Pos[g[2]][2] + Padding)}
       [] g[1] \in {"line", "member"} -> nodes(ToSet(g[2]))
       [] g[1] = "polygon" -> box(g[2])
       [] g[1] = "multi" -> {TileOf(p) : p \in UNION UNION ({poly.outer : poly \in g[2]} \cup UNION {poly.inner : poly \in g[2]})}
       [] OTHER -> {}

ChangedRows(old, new) ==
  {r \in DOMAIN old \cup DOMAIN new : CopiesIn(r, old) # CopiesIn(r, new)}

Required(old, new) == UNION {RequiredTiles(r) : r \in ChangedRows(old, new)}

(* The database is closed, what was not committed is rolled back.          *)
Drop ==
  /\ pos' = 0 /\ todo' = {} /\ tx' = EmptyBag /\ aborted' = FALSE /\ ids' = EmptyBag
  /\ src' = DirectSources

Return(failed) == pc' = "after" /\ err' = failed /\ Drop

(* GeneralizeUpdates, whose errors are ignored, and End.                   *)
Commit ==
  /\ pc = "insert" /\ todo = {} /\ ~aborted
  /\ db' = GeneralizeUpdates(tx, src, ids)
  /\ applied' = Max({applied, Min({next, Len(Diffs)})})
  /\ untold' = untold \cup Required(db, db')
  /\ pc' = "close"
  /\ UNCHANGED <<plan, next, last, err, cache, spoiled, work, due, faults, tiles, reasons>>

(* Mutant: the sequence is recorded although the commit has failed.        *)
MutCommitFails ==
  /\ pc = "insert" /\ todo = {} /\ aborted
  /\ Return(TRUE)
  /\ last' = Min({next, Len(Diffs)})
  /\ spoiled' = (spoiled \/ pos > 0)
  /\ UNCHANGED <<plan, next, applied, cache, db, due, faults, tileVars>>

CommitFails ==
  /\ pc = "insert" /\ todo = {} /\ aborted
  /\ Return(TRUE)
  /\ spoiled' = (spoiled \/ pos > 0)
  /\ UNCHANGED <<plan, next, last, applied, cache, db, due, faults, tileVars>>

(* db.Close; then last.state.txt, where an error is only logged.           *)
Closed ==
  /\ pc = "close"
  /\ Return(FALSE)
  /\ \/ last' = Min({next, Len(Diffs)}) /\ UNCHANGED faults
     \/ faults > 0 /\ faults' = faults - 1 /\ UNCHANGED last
  /\ UNCHANGED <<plan, next, applied, data, due, tileVars>>

CloseFails ==
  /\ pc = "close" /\ faults > 0
  /\ Return(TRUE)
  /\ faults' = faults - 1
  /\ UNCHANGED <<plan, next, last, applied, data, due, tileVars>>

(* Any other error of files, caches, the parser or the database.           *)
UpdateFails ==
  /\ pc \in {"open", "change", "insert"} /\ faults > 0
  /\ Return(TRUE)
  /\ faults' = faults - 1
  /\ spoiled' = (spoiled \/ (pc # "open" /\ pos > 0))
  /\ UNCHANGED <<plan, next, last, applied, cache, db, due, tileVars>>

-----------------------------------------------------------------------------
(* The caches are ahead of the tables: an update has changed them and was  *)
(* not committed.                                                          *)
HalfDone == (pc \in {"change", "insert"} /\ pos > 0) \/ (spoiled /\ err)

(* TileList.Flush; Run logs an error and goes on.                          *)
FlushTiles ==
  \/ Flushed(FALSE) /\ UNCHANGED faults
  \/ faults > 0 /\ faults' = faults - 1 /\ (FlushFailed \/ RenameFailed)

(* Flush at the end of the process, where an error is a loss.              *)
LastFlush ==
  \/ Flushed(HalfDone) /\ UNCHANGED faults
  \/ faults > 0 /\ faults' = faults - 1 /\ tiles # {} /\ Forget("flush", HalfDone)

(* Mutant: the tiles are flushed only when the program ends.               *)
MutRunFlush ==
  /\ pc = "after" /\ Cmd # "diff"
  /\ pc' = "check"
  /\ UNCHANGED <<plan, next, last, applied, err, data, work, due, faults, tileVars>>

(* Run, after an Update: the tiles are flushed at most every 30 seconds.   *)
RunFlush ==
  /\ pc = "after" /\ Cmd # "diff"
  /\ IF ~err /\ due THEN due' = FALSE /\ FlushTiles
                    ELSE UNCHANGED <<due, faults, tileVars>>
  /\ pc' = "check"
  /\ UNCHANGED <<plan, next, last, applied, err, data, work>>

(* Without a signal the diff is retried, or the next one is awaited; with  *)
(* IMPOSM3_SINGLE_DIFF Run returns.                                        *)
Retry ==
  /\ pc = "check" /\ err
  /\ pc' = "open"
  /\ UNCHANGED <<plan, next, last, applied, err, data, work, due, faults, tileVars>>

Continue ==
  /\ pc = "check" /\ ~err
  /\ next' = Min({next, Len(Diffs)}) + 1
  /\ IF Cmd = "single" THEN pc' = "down" /\ Forget("single", FALSE)
                       ELSE pc' = "idle" /\ UNCHANGED tileVars
  /\ UNCHANGED <<plan, last, applied, err, data, work, due, faults>>

(* SIGTERM, SIGINT or SIGHUP.                                              *)
Shutdown ==
  /\ pc \in {"idle", "check"} /\ Cmd # "diff"
  /\ LastFlush
  /\ pc' = "down"
  /\ UNCHANGED <<plan, next, last, applied, err, data, work, due>>

(* Diff: an error ends the process without the deferred Flush.             *)
NextFile ==
  /\ pc = "after" /\ Cmd = "diff"
  /\ IF err THEN pc' = "down" /\ Forget("fatal", HalfDone) /\ UNCHANGED next
            ELSE pc' = "idle" /\ next' = next + 1 /\ UNCHANGED tileVars
  /\ UNCHANGED <<plan, last, applied, err, data, work, due, faults>>

DiffDone ==
  /\ pc = "idle" /\ Cmd = "diff" /\ next > Len(Diffs)
  /\ LastFlush
  /\ pc' = "down"
  /\ UNCHANGED <<plan, next, last, applied, err, data, work, due>>

(* The clock is read only after an update.                                 *)
TimePasses ==
  /\ pc = "idle" /\ Cmd # "diff" /\ ~due
  /\ due' = TRUE
  /\ UNCHANGED <<plan, pc, next, last, applied, err, data, work, faults, tileVars>>

Kill ==
  /\ pc # "down" /\ faults > 0
  /\ faults' = faults - 1
  /\ pc' = "down" /\ Drop
  /\ spoiled' = (spoiled \/ (pc \in {"change", "insert"} /\ pos > 0))
  /\ Forget("kill", HalfDone)
  /\ UNCHANGED <<plan, next, last, applied, err, cache, db, due>>

(* The command is given again while there are diffs for it.                *)
Restart ==
  /\ pc = "down"
  /\ Cmd # "run" => last < Len(Diffs)
  /\ pc' = "idle" /\ err' = FALSE /\ due' = FALSE
  /\ next' = IF Cmd = "diff" THEN 1 ELSE last + 1
  /\ UNCHANGED <<plan, last, applied, data, work, faults, tileVars>>

Updating ==
  \/ Take \/ Skip \/ (\E g \in GenTable : FillSource(g)) \/ Begin
  \/ ChangeElem \/ Parsed
  \/ \E e \in todo : WriteNode(e) \/ WriteWay(e) \/ WriteRel(e) \/ (aborted /\ InsertFails(e))
  \/ Commit \/ CommitFails \/ Closed
  \/ RunFlush \/ Retry \/ Continue \/ NextFile \/ DiffDone

Faults == (\E e \in todo : InsertFails(e)) \/ CloseFails \/ UpdateFails \/ Kill

Next == Updating \/ Faults \/ TimePasses \/ Shutdown \/ Restart

Spec == Init /\ [][Next]_vars

(* ENABLED Updating.                                                       *)
CanUpdate ==
  CASE pc = "down" -> FALSE
    [] pc = "idle" -> Cmd # "single" \/ next <= Len(Diffs)
    [] pc = "open" -> Fillable(src) # {} \/ \A g \in GenTable : src[g] # NoSource
    [] OTHER -> TRUE

(* Weak fairness of Updating, and strong fairness of the clock.  While     *)
(* CanUpdate holds, only steps of Updating can go on for ever, so that     *)
(* fairness of Updating says: the program does not stop there.             *)
FairSpec ==
  /\ Spec
  /\ []<>~CanUpdate \/ []<><<TRUE>>_vars
  /\ SF_vars(TimePasses)

-----------------------------------------------------------------------------
(* The shape of the state; rows are there at least once, and nothing is    *)
(* recorded in last.state.txt that was not committed.                      *)
TypeOK ==
  /\ pc \in {"idle", "open", "change", "insert", "close", "after", "check", "down"}
  /\ last <= Len(Diffs) /\ last <= applied /\ next \in 1..(Len(Diffs) + 1)
  /\ pos <= Len(Current)
  /\ src \in [GenTable -> Table \cup {NoSource}]
  /\ \A r \in DOMAIN db : db[r] \in Nat \ {0} /\ r.table \in Table \cup GenTable
  /\ {err, aborted, due, spoiled} \subseteq BOOLEAN
  /\ faults \in 0..plan.faults

Original(r) == r.table \in Table

(* The tables hold what all tags of the elements and the member ways of    *)
(* relations call for, though elements are mapped from their filtered,     *)
(* cached tags, rows are deleted by the mapping of the version before, and *)
(* rings are joined and nested step by step.  If diffs are applied again,  *)
(* because they were not recorded, this holds when the newest one is.      *)
(* (After an update that failed half-way old rows may stay, see            *)
(* DiffUpdate.)                                                            *)
TablesAsMapped ==
  pc = "close" /\ ~spoiled /\ next >= applied => Select(db, Original) = SetToBag(ImportedRows(World(applied)))

(* After every commit the generalized tables hold the rows Generalize      *)
(* would fill them with, though updates do it row by row, for noted ids    *)
(* and from the original tables.  They hold them equally often, unless the *)
(* element has several rows in the table: its id is noted for each of      *)
(* them, and all of them are inserted each time.                           *)
GeneralizedLikeImport ==
  pc = "close" /\ ~spoiled =>
    LET updated == Select(db, LAMBDA r : ~Original(r))
        imported == Generalized(Select(db, Original))
        rowsOf(r) == {q \in DOMAIN db : q.id = r.id /\ q.table = src[r.table]}
    IN /\ DOMAIN updated = DOMAIN imported
       /\ \A r \in DOMAIN updated : Cardinality(rowsOf(r)) = 1 => updated[r] = imported[r]

(* When a change is committed, the tiles of the old and the new geometry   *)
(* are on the list (around points, at the nodes of lines, everywhere in    *)
(* the box of a polygon that is not large), and they wait there until they *)
(* are in a file, through failed updates, retries and failed flushes.      *)
(* They are lost only by a kill, an error of the rename, an error of the   *)
(* last flush, an error in Diff, or IMPOSM3_SINGLE_DIFF; only the last     *)
(* needs no fault.  When the process ends with an update half done, the    *)
(* tiles of versions that are no longer in the caches are never found.     *)
TilesAccounted ==
  /\ untold \subseteq tiles \/ "halfway" \in reasons
  /\ faults = plan.faults => reasons \subseteq IF Cmd = "single" THEN {"single"} ELSE {}

-----------------------------------------------------------------------------
(* The tiles that the inside of a segment runs through: the segment and    *)
(* the tile overlap along both axes and across the segment.                *)
Crossed(p, q) ==
  LET from == [a \in 1..2 |-> Min({p[a], q[a]})]
      to == [a \in 1..2 |-> Max({p[a], q[a]})]
      side(c) == (q[1] - p[1]) * (c[2] - p[2]) - (q[2] - p[2]) * (c[1] - p[1])
      sides(t) == {side(<<(t[1] + i) * Unit, (t[2] + j) * Unit>>) : i \in 0..1, j \in 0..1}
  IN {t \in TileBox(from, to) :
        /\ \A a \in 1..2 : from[a] < (t[a] + 1) * Unit /\ (to[a] > t[a] * Unit \/ from[a] = to[a])
        /\ Min(sides(t)) < 0 /\ Max(sides(t)) > 0}

Segments(row) ==
  LET g == row.geom
      of(refs) == {<<Pos[refs[i]], Pos[refs[i + 1]]>> : i \in 1..(Len(refs) - 1)}
  IN IF g[1] \in {"line", "polygon", "member"} THEN of(g[2]) ELSE {}

(* expireLine "expires all tiles that are intersected by the line segments *)
(* between the nodes" (tilelist.go:102): when a change is committed, every *)
(* tile that the old or the new line runs through is on the list.          *)
LinesExpired ==
  [][\A r \in ChangedRows(db, db') : \A s \in Segments(r) : Crossed(s[1], s[2]) \subseteq tiles']_db

(* The tiles of a committed change are written in the end, as long as      *)
(* diffs arrive, unless they are lost.                                     *)
TilesWritten == untold # {} ~> (untold = {} \/ reasons # {})

(* While the program runs, every diff is applied in the end: the sources   *)
(* of generalized tables are found, and errors are overcome by retries.    *)
DiffsApplied == <>(pc = "down" \/ applied = Len(Diffs))
=============================================================================
