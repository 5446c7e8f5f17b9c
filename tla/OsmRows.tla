------------------------------ MODULE OsmRows ------------------------------
(***************************************************************************)
(* What the element writers (writer/nodes.go, ways.go, relations.go) make  *)
(* of the caches: the rows of each element, and the references that go     *)
(* into the diff cache for it.  The initial import and the diff import use *)
(* the same writers, so "what a fresh import gives" is defined by them.    *)
(*                                                                         *)
(* A cache is a record of partial functions:                               *)
(*   nodes  id -> [loc, tag]       tagged nodes only                       *)
(*   coords id -> loc              all nodes                               *)
(*   ways   id -> [refs, tag]      refs: sequence of node ids              *)
(*   rels   id -> [members, tag]   members: sequence of <<kind, id>>       *)
(* Tags are abstracted to one value: Nil (no tags), Empty (none that a     *)
(* mapping uses) or a value that the mapping sends to some tables.  A row  *)
(* is <<kind, table, id, tag, geometry>>; a geometry is made of locations. *)
(***************************************************************************)
EXTENDS Integers, Sequences, FiniteSets, SequencesExt

CONSTANTS
  Nil,          \* the tags of an element without tags
  Empty,        \* tags that are all filtered out, because no mapping uses them
  Tables,       \* Tables[kind][tag]: the tables a mapped element goes to
  Broken,       \* sequences of refs of which no polygon can be built
  Inside,       \* locations within the -limitto geometry
  Buffer,       \* locations within its buffer; both: all, if there is no limit
  SingleIDSpace \* use_single_id_space of the mapping

(* WayWriter.wayID, RelationWriter.relID: the ids in the database.         *)
wayID(w) == IF SingleIDSpace THEN -w ELSE w

(* Coords.FillWay succeeds, and what it fills in.                          *)
Filled(c, refs) == ToSet(refs) \subseteq DOMAIN c.coords
FillWay(c, refs) == [i \in DOMAIN refs |-> c.coords[refs[i]]]

(* Limiter.Clip of a geometry: the part of it within the limit, if any.    *)
(* (The code inserts the pieces of a geometry as rows with the same id.)   *)
Clip(locs) == SelectSeq(locs, LAMBDA l : l \in Inside)

NodeRows(c, n) ==
  IF n \notin DOMAIN c.nodes THEN {}
  ELSE LET nd == c.nodes[n] IN
         {<<"node", t, n, nd.tag, nd.loc>> :
            t \in IF nd.loc \in Inside THEN Tables["node"][nd.tag] ELSE {}}

(* tagMatcher.MatchWay: only a closed way is matched as a polygon.         *)
IsClosed(refs) == Len(refs) >= 4 /\ refs[1] = refs[Len(refs)]

MatchWay(way) == {t \in Tables["way"][way.tag] : t = "polygon" => IsClosed(way.refs)}

-----------------------------------------------------------------------------
(* WayWriter.loop: the line first, then the polygon.  A way that cannot be *)
(* filled, or is outside of the limit, gives nothing.  After a polygon     *)
(* that cannot be built the loop goes on with the next way, past the diff  *)
(* cache and the expire list.                                              *)
WayTables(c, w) ==
  LET way == c.ways[w] IN
    IF Filled(c, way.refs) /\ Clip(FillWay(c, way.refs)) # <<>>
      THEN {t \in MatchWay(way) : t = "polygon" => way.refs \notin Broken}
      ELSE {}

WayRows(c, w) ==
  LET way == c.ways[w] IN
    {<<"way", t, w, way.tag, Clip(FillWay(c, way.refs))>> : t \in WayTables(c, w)}

WayComplete(c, w) ==
  LET way == c.ways[w] IN
    /\ WayTables(c, w) # {}
    /\ ~("polygon" \in MatchWay(way) /\ way.refs \in Broken)

(* Coords.AddFromWay in WayWriter.loop, where w.ID is already wayID.       *)
WayRefs(c, w) ==
  IF WayComplete(c, w) THEN ToSet(c.ways[w].refs) \X {wayID(w)} ELSE {}

-----------------------------------------------------------------------------
(* RelationWriter.loop: all member ways must be cached and filled.         *)
WayMembers(r) == {m[2] : m \in {m \in ToSet(r.members) : m[1] = "way"}}
NodeMembers(r) == {m[2] : m \in {m \in ToSet(r.members) : m[1] = "node"}}

RelFilled(c, r) ==
  \A w \in WayMembers(r) : w \in DOMAIN c.ways /\ Filled(c, c.ways[w].refs)

(* handleRelationMembers (which also needs all member nodes),              *)
(* handleMultiPolygon and handleRelation.  A member is stored with its     *)
(* tags and geometry; only multipolygons are clipped.                      *)
StoredTag(tag) == IF tag = Empty THEN Nil ELSE tag

MemberRow(c, m) ==
  IF m[1] = "way"
    THEN <<m, StoredTag(c.ways[m[2]].tag), FillWay(c, c.ways[m[2]].refs)>>
    ELSE IF m[2] \in DOMAIN c.nodes
           THEN <<m, StoredTag(c.nodes[m[2]].tag), <<c.nodes[m[2]].loc>>>>
           ELSE <<m, Nil, <<c.coords[m[2]]>>>>

RelRows(c, id) ==
  LET r == c.rels[id]
      row(t, geom) == <<"rel", t, id, r.tag, geom>>
      rings == {Clip(FillWay(c, c.ways[w].refs)) : w \in WayMembers(r)} \ {<<>>} IN
    UNION {CASE t = "member" ->
                  IF NodeMembers(r) \subseteq DOMAIN c.coords
                    THEN {row(t, MemberRow(c, m)) : m \in ToSet(r.members)} ELSE {}
             [] t = "polygon" -> IF rings # {} THEN {row(t, rings)} ELSE {}
             [] t = "relation" -> {row(t, <<>>)}
           : t \in IF RelFilled(c, r) THEN Tables["rel"][r.tag] ELSE {}}

(* The references added once a relation was inserted; member ways keep     *)
(* their own id here.                                                      *)
RelRefs(c, id) ==
  LET r == c.rels[id] IN
    IF RelRows(c, id) = {}
      THEN [coords |-> {}, coordsRel |-> {}, ways |-> {}]
      ELSE [coords |-> UNION {ToSet(c.ways[w].refs) \X {w} : w \in WayMembers(r)},
            coordsRel |-> NodeMembers(r) \X {id},
            ways |-> WayMembers(r) \X {id}]

-----------------------------------------------------------------------------
(* The result of an import into empty tables, and its diff cache.          *)
AllRows(c) ==
  UNION ({NodeRows(c, n) : n \in DOMAIN c.nodes}
         \cup {WayRows(c, w) : w \in DOMAIN c.ways}
         \cup {RelRows(c, r) : r \in DOMAIN c.rels})

AllRefs(c) ==
  [coords |-> UNION ({WayRefs(c, w) : w \in DOMAIN c.ways}
                     \cup {RelRefs(c, r).coords : r \in DOMAIN c.rels}),
   coordsRel |-> UNION {RelRefs(c, r).coordsRel : r \in DOMAIN c.rels},
   ways |-> UNION {RelRefs(c, r).ways : r \in DOMAIN c.rels}]
=============================================================================
