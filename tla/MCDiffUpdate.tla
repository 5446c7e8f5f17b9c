---------------------------- MODULE MCDiffUpdate ----------------------------
(* Small instances of DiffUpdate: three nodes (the third never changes),   *)
(* two ways and a relation, each with a few versions.                      *)
EXTENDS DiffUpdate

MCTables ==
  [node |-> (Nil :> {} @@ Empty :> {} @@ "poi" :> {"point"}),
   way |-> (Nil :> {} @@ "road" :> {"line"} @@ "both" :> {"line", "polygon"}),
   rel |-> ("mp" :> {"polygon"} @@ "route" :> {"member", "relation"})]

(* The versions of each element; the empty function is "deleted".          *)
Node1 ==
  {<<>>} \cup {1 :> [loc |-> l, tag |-> Nil] : l \in {1, 2}}
    \cup {1 :> [loc |-> 1, tag |-> t] : t \in {Empty, "poi"}}
Node2(ls) == {<<>>} \cup {2 :> [loc |-> l, tag |-> Nil] : l \in ls}
Node3(l) == 3 :> [loc |-> l, tag |-> Nil]
Way1 ==
  {<<>>} \cup {1 :> v : v \in {[refs |-> <<1, 2>>, tag |-> "road"],
                               [refs |-> <<2, 3>>, tag |-> "road"],
                               [refs |-> <<1, 2>>, tag |-> Nil],
                               [refs |-> <<1, 2, 3, 1>>, tag |-> "both"]}}
Way2 == {<<>>, 2 :> [refs |-> <<2, 3>>, tag |-> Nil]}
Rel1 ==
  {<<>>} \cup {1 :> v : v \in {[members |-> <<<<"way", 1>>>>, tag |-> "mp"],
                               [members |-> <<<<"way", 1>>, <<"way", 2>>>>, tag |-> "mp"],
                               [members |-> <<<<"way", 1>>, <<"node", 1>>>>, tag |-> "route"]}}

(* No polygon can be built of the closed way.                              *)
MCBroken == {<<1, 2, 3, 1>>}

Consistent(o) ==
  /\ \A w \in DOMAIN o.ways : ToSet(o.ways[w].refs) \subseteq DOMAIN o.nodes
  /\ \A r \in DOMAIN o.rels :
       ToSet(o.rels[r].members) \subseteq ({"way"} \X DOMAIN o.ways) \cup ({"node"} \X DOMAIN o.nodes)

Osm(l) ==
  {o \in {[nodes |-> n1 @@ n2 @@ Node3(l), ways |-> w1 @@ w2, rels |-> r] :
            n1 \in Node1, n2 \in Node2(IF l = 4 THEN {2, 4, 5} ELSE {2, 3}), w1 \in Way1, w2 \in Way2, r \in Rel1} : Consistent(o)}

(* A diff changes one or two elements; one, if the third node is not       *)
(* within the limit.                                                       *)
MCPublished(o) ==
  {new \in Osm(o.nodes[3].loc) :
     Len(Changes(o, new)) \in 1..(IF o.nodes[3].loc = 3 THEN 2 ELSE 1)}

(* Imported states: a closed way that is a polygon and a line, alone and   *)
(* in a multipolygon; two ways in one; an untagged way and a node in a route.   *)
Start(l) ==
  LET nd(t) == 1 :> [loc |-> 1, tag |-> t]
      nodes(t) == nd(t) @@ 2 :> [loc |-> 2, tag |-> Nil] @@ Node3(l)
      way(r, t) == 1 :> [refs |-> r, tag |-> t]
      rel(m, t) == 1 :> [members |-> m, tag |-> t] IN
    {[nodes |-> nodes(Nil), ways |-> way(<<1, 2, 3, 1>>, "both"), rels |-> <<>>],
     [nodes |-> nodes("poi"), ways |-> way(<<1, 2, 3, 1>>, "both"),
      rels |-> rel(<<<<"way", 1>>>>, "mp")],
     [nodes |-> nodes(Nil), ways |-> way(<<1, 2>>, "road") @@ 2 :> [refs |-> <<2, 3>>, tag |-> Nil],
      rels |-> rel(<<<<"way", 1>>, <<"way", 2>>>>, "mp")],
     [nodes |-> nodes("poi"), ways |-> way(<<1, 2>>, Nil),
      rels |-> rel(<<<<"way", 1>>, <<"node", 1>>>>, "route")]}

MCImported == {<<o>> : o \in Start(3)}

(* Imports that already contain the two diffs which are then applied; the  *)
(* diffs change one element each.                                          *)
MCOverlap ==
  UNION {UNION {{<<o, p, q>> : q \in {q \in MCPublished(p) : Len(Changes(p, q)) = 1}} :
                  p \in {p \in MCPublished(o) : Len(Changes(o, p)) = 1}} : o \in Start(3)}

(* The third node is in the buffer of the limit, or outside of it.         *)
MCLimited == {<<o>> : o \in Start(4) \cup Start(5)}

MCHistories == MCImported \cup MCOverlap \cup MCLimited
=============================================================================
