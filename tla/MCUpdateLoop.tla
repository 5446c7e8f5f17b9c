---------------------------- MODULE MCUpdateLoop ----------------------------
(* Small instances of UpdateLoop.  A node id is 100 * x + y of its         *)
(* position, plus 10000 for a second node at the same place.  A tile is 5  *)
(* units wide.                                                             *)
EXTENDS UpdateLoop

At(x, y) == 100 * x + y
Twin(n) == 10000 + n
MCNodeId == LET grid == {At(x, y) : x \in 0..29, y \in 0..24} IN grid \cup {Twin(n) : n \in grid}
MCPos == [n \in MCNodeId |-> LET m == n % 10000 IN <<m \div 100, m % 100>>]
MCZero == <<40, 40>>

-----------------------------------------------------------------------------
(* The mapping: one table of each type, two of polygons; areas has two     *)
(* sub-mappings.                                                           *)
NoTyped == [point |-> <<>>, linestring |-> <<>>, polygon |-> <<>>]
Conf0 == [mapping |-> <<>>, mappings |-> <<>>, typed |-> NoTyped, columns |-> {}, exclude |-> {},
          require |-> {}, reject |-> {}, relTypes |-> {}]
TableConf(type, kvs) == [f \in DOMAIN Conf0 \cup {"type"} |->
  CASE f = "type" -> type [] f = "mapping" -> kvs [] OTHER -> Conf0[f]]

MCTable == {"pois", "roads", "areas", "woods", "all", "routes", "borders"}
MCConf ==
  [pois |-> [TableConf("point", <<<<"amenity", AnyTag>>, <<"shop", "yes">>>>) EXCEPT
               !.columns = {"name"}, !.require = {[key |-> "name", values |-> {AnyTag}]}],
   roads |-> [TableConf("linestring", <<<<"highway", "primary">>, <<"highway", "path">>, <<"landuse", "forest">>>>)
                EXCEPT !.exclude = {<<"tunnel", "yes">>}],
   areas |-> [TableConf("polygon", <<>>) EXCEPT
                !.mappings = [green |-> <<<<"landuse", "forest">>>>,
                              any |-> <<<<"landuse", AnyTag>>, <<"highway", "path">>>>],
                !.columns = {"name"}, !.reject = {[key |-> "name", values |-> {"x"}]}],
   woods |-> TableConf("polygon", <<<<"landuse", "forest">>>>),
   all |-> [TableConf("geometry", <<>>) EXCEPT
              !.typed = [point |-> <<<<"shop", AnyTag>>>>, linestring |-> <<<<"highway", AnyTag>>>>,
                         polygon |-> <<<<"landuse", "forest">>>>]],
   routes |-> [TableConf("relation_member", <<<<"route", AnyTag>>>>) EXCEPT !.relTypes = {"route"}],
   borders |-> [TableConf("relation", <<<<AnyTag, AnyTag>>>>) EXCEPT !.relTypes = {"border"}]]

MCGenTable == {"roads_1", "roads_0", "woods_1"}
MCSourceName == [roads_1 |-> "roads", roads_0 |-> "roads_1", woods_1 |-> "woods"]
MCWhere == [roads_1 |-> {"primary", "path"}, roads_0 |-> {"primary"}, woods_1 |-> {"forest"}]

(* The tags made of some keys, each with one of its values or left out.    *)
TagSets(values) == UNION {[K -> UNION {values[k] : k \in K}] : K \in SUBSET DOMAIN values}
Tags(values) == {t \in TagSets(values) : \A k \in DOMAIN t : t[k] \in values[k]}

NodeTags == Tags([amenity |-> {"cafe"}, shop |-> {"yes", "no"}, name |-> {"x"}])
WayTags == Tags([highway |-> {"primary", "path", "other"}, landuse |-> {"forest", "other"},
                 area |-> {"yes", "no"}, name |-> {"x", "y"}, tunnel |-> {"yes"}])
RelTags == Tags([type |-> {"multipolygon", "route", "border", "other"}, landuse |-> {"forest", "other"},
                 route |-> {"bus"}, area |-> {"yes", "no"}, name |-> {"x"}])

-----------------------------------------------------------------------------
Put(e, v) == [elem |-> e, op |-> "put", v |-> v]
Delete(e, v) == [elem |-> e, op |-> "delete", v |-> v]
Node(tags) == [tags |-> tags]
Way(tags, refs, parts) == [tags |-> tags, refs |-> refs, parts |-> parts]
Rel(tags, members, parts) == [tags |-> tags, members |-> members, parts |-> parts]
Plan(cmd, start, diffs, n) == [cmd |-> cmd, start |-> start, diffs |-> diffs, faults |-> n]

Box(x, y, w, h) == <<At(x, y), At(x + w, y), At(x + w, y + h), At(x, y + h), At(x, y)>>

(* Elements with all tags, created and deleted again.                      *)
ThenDelete(start, e, v) == Plan("diff", start, <<<<Put(e, v)>>, <<Delete(e, v)>>>>, 0)

TagPlans ==
  {ThenDelete(<<>>, <<"node", At(9, 6)>>, Node(t)) : t \in NodeTags}
  \cup {ThenDelete(<<>>, <<"way", 1>>, Way(t, refs, 1))
          : t \in WayTags, refs \in {<<At(1, 1), At(8, 3)>>, Box(1, 1, 3, 3)}}
  \cup {ThenDelete([e \in {<<"way", 2>>} |-> Way(<<>>, Box(2, 2, 6, 3), 1)],
                   <<"rel", 1>>, Rel(t, <<2>>, 1)) : t \in RelTags}

(* Lines, from some places of a tile to everywhere.                        *)
LinePlans ==
  {Plan("diff", <<>>, <<<<Put(<<"way", 1>>, Way([highway |-> "primary"], <<from, At(x, y)>>, 1))>>>>, 0)
     : from \in {At(7, 7), At(5, 9), At(9, 6)}, x \in 0..29, y \in 0..24}

(* Areas of many sizes: some are expired as a box, large ones as a line.   *)
BoxPlans ==
  {Plan("diff", <<>>, <<<<Put(<<"way", 1>>, Way([landuse |-> "forest"], Box(x, y, w, h), 1))>>>>, 0)
     : x \in {4, 5, 7}, y \in {3, 5}, w \in 1..9, h \in 1..9}

(* Rings.  A cut ring is a set of open ways; they come in any order and    *)
(* each in either direction.                                               *)
Orders(ways) ==
  LET turned(w, s) == IF s THEN Reverse(w) ELSE w
      all == SetToSeqs(ways)
  IN UNION {{[i \in DOMAIN o |-> turned(o[i], d[i])] : d \in [DOMAIN o -> BOOLEAN]} : o \in all}

Cut4(b) == {<<b[1], b[2]>>, <<b[2], b[3]>>, <<b[3], b[4]>>, <<b[4], b[1]>>}
Cut2(b) == {<<b[1], b[2], b[3]>>, <<b[3], b[4], b[1]>>}
Gap(b) == {<<b[1], b[2], b[3]>>, <<b[3], b[4], Twin(b[1])>>}
Open(b) == {<<b[1], b[2], b[3]>>, <<b[3], b[4]>>}

RingCases ==
  UNION {Orders(S) : S \in {
    Cut4(Box(1, 1, 8, 8)),
    Cut2(Box(1, 1, 8, 8)) \cup Cut2(Box(3, 3, 2, 2)),
    {Box(1, 1, 4, 4)} \cup Gap(Box(7, 1, 4, 4)),
    Cut2(Box(1, 1, 4, 4)) \cup Open(Box(7, 1, 4, 4)),
    Open(Box(1, 1, 4, 4))}}
  \cup {
    \* a wood with a lake, with an island, with a pond
    <<Box(3, 3, 6, 6), Box(1, 1, 10, 10), Box(5, 5, 2, 2), Box(4, 4, 4, 4)>>,
    \* two of the same size, each with a lake, one with an island, and one more lake
    <<Box(1, 1, 8, 8), Box(10, 1, 8, 8), Box(2, 2, 3, 3), Box(11, 2, 3, 3), Box(12, 3, 1, 1), Box(6, 6, 2, 2)>>,
    \* a closed way that goes forth and back
    <<Box(1, 1, 4, 4), <<At(7, 1), At(9, 1), Twin(At(9, 1)), At(7, 1)>>>>}

Members(ways) == [e \in {<<"way", i>> : i \in DOMAIN ways} |-> Way(<<>>, ways[e[2]], 1)]
Wood == [type |-> "multipolygon", landuse |-> "forest"]

RingPlans ==
  {Plan("diff", Members(ways),
        <<<<Put(<<"rel", 1>>, Rel(Wood, [i \in DOMAIN ways |-> i], 1))>>>>, 0) : ways \in RingCases}
  \* the second member is missing
  \cup {ThenDelete(Members(<<Box(1, 1, 4, 4)>>), <<"rel", 1>>, Rel(Wood, <<1, 2>>, 1))}

-----------------------------------------------------------------------------
(* Two diffs, with errors and kills: a road that is moved and reclassified *)
(* and then deleted, a point, a wood that is cut by the limit, a route.    *)
Start ==
  LET road == <<"way", 1>>
      poi == <<"node", At(9, 6)>>
      part == <<"way", 2>>
  IN [e \in {road, poi, part} |->
        CASE e = road -> Way([highway |-> "primary"], <<At(1, 1), At(8, 3)>>, 1)
          [] e = poi -> Node([shop |-> "yes", name |-> "x"])
          [] e = part -> Way(<<>>, Box(2, 2, 12, 9), 1)]

MovedRoad == Put(<<"way", 1>>, Way([highway |-> "path", name |-> "y"], <<At(8, 3), At(13, 12)>>, 1))
ClosedRoad == Put(<<"way", 1>>, Way([highway |-> "path", landuse |-> "other"], Box(1, 1, 8, 2), 2))
NoRoad == Delete(<<"way", 1>>, Start[<<"way", 1>>])
NoPoi == Delete(<<"node", At(9, 6)>>, Start[<<"node", At(9, 6)>>])
NewPoi == Put(<<"node", At(14, 1)>>, Node([amenity |-> "cafe", name |-> "x", ref |-> "1"]))
NewWood == Put(<<"rel", 1>>, Rel(Wood, <<2>>, 1))
NewRoute == Put(<<"rel", 1>>, Rel([type |-> "route", route |-> "bus"], <<2>>, 1))
Outside == Put(<<"rel", 1>>, Rel(Wood, <<2>>, 0))

LoopDiffs ==
  {<<<<MovedRoad, NewWood>>, <<NoRoad, NewRoute>>>>,
   <<<<NewPoi, ClosedRoad>>, <<NoPoi, MovedRoad>>>>,
   <<<<NewRoute>>, <<NoRoad, Outside>>>>,
   <<<<NewWood, NoPoi>>, <<NewRoute, NewPoi>>>>}

LoopPlans == {Plan(cmd, Start, d, 2) : cmd \in {"run", "single", "diff"}, d \in LoopDiffs}

MCPlans == TagPlans \cup LinePlans \cup BoxPlans \cup RingPlans \cup LoopPlans
=============================================================================
