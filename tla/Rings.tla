-------------------------------- MODULE Rings --------------------------------
(***************************************************************************)
(* Building the multipolygon of a relation from the ways of its members    *)
(* (geom/ring.go, geom/multipolygon.go): open ways are joined at common    *)
(* end nodes until they close, and the rings are nested by containment.    *)
(* A ring is the sequence of its node ids.  Areas and containment, which   *)
(* GEOS computes, are those of bounding boxes: the rings of the instances  *)
(* are rectangles.                                                         *)
(***************************************************************************)
EXTENDS Integers, FiniteSetsExt, SequencesExt

CONSTANTS
  NodeId,   \* node ids
  Pos       \* their positions: [NodeId -> Nat \X Nat]

ASSUME RingsAssumption == Pos \in [NodeId -> Nat \X Nat]

First(s) == s[1]
Without(f, x) == [y \in DOMAIN f \ {x} |-> f[y]]
With(f, x, v) == [y \in DOMAIN f \cup {x} |-> IF y = x THEN v ELSE f[y]]

IsClosed(refs) == Len(refs) >= 4 /\ First(refs) = Last(refs)

(***************************************************************************)
(* mergeRings keeps in ends, for each open end, the ring it belongs to.  A *)
(* ring is named by the position of its first way.                         *)
(***************************************************************************)
(* The ring i, whose first node is an end of another ring, is added to     *)
(* that one; if its last node is an end of a third ring, so is that one.   *)
JoinLeft(st, i) ==
  LET ring == st.refs[i]
      left == First(ring)
      right == Last(ring)
      orig == st.ends[left]
      ends == Without(st.ends, left)
      turned == IF left = Last(st.refs[orig])
                  THEN st.refs[orig] ELSE Reverse(st.refs[orig])
      joined == turned \o Tail(ring)
      third == IF right \in DOMAIN ends THEN ends[right] ELSE orig
      other == st.refs[third]
      closing == IF right = First(other)
                   THEN joined \o Tail(other)
                   ELSE Front(joined) \o Reverse(other)
  IN IF third # orig
       THEN [refs |-> [st.refs EXCEPT ![orig] = closing],
             ends |-> With(Without(ends, right), Last(closing), orig)]
       ELSE [refs |-> [st.refs EXCEPT ![orig] = joined],
             ends |-> With(ends, right, orig)]

(* Mutant: the ring is not turned when two right ends meet.                *)
MutJoinRight(st, i) ==
  LET ring == st.refs[i]
      right == Last(ring)
      orig == st.ends[right]
      joined == IF right = First(st.refs[orig])
                  THEN Front(ring) \o st.refs[orig]
                  ELSE Front(st.refs[orig]) \o ring
  IN [refs |-> [st.refs EXCEPT ![orig] = joined],
      ends |-> With(Without(st.ends, right), First(ring), orig)]

(* Only the last node of ring i is an end of another ring.                 *)
JoinRight(st, i) ==
  LET ring == st.refs[i]
      right == Last(ring)
      orig == st.ends[right]
      joined == IF right = First(st.refs[orig])
                  THEN Front(ring) \o st.refs[orig]
                  ELSE Front(st.refs[orig]) \o Reverse(ring)
  IN [refs |-> [st.refs EXCEPT ![orig] = joined],
      ends |-> With(Without(st.ends, right), First(ring), orig)]

MergeRing(st, i) ==
  LET ring == st.refs[i] IN
    IF Len(ring) < 2 THEN st
    ELSE IF First(ring) \in DOMAIN st.ends THEN JoinLeft(st, i)
    ELSE IF Last(ring) \in DOMAIN st.ends THEN JoinRight(st, i)
    ELSE [st EXCEPT !.ends = With(With(@, First(ring), i), Last(ring), i)]

MergeRings(ways) ==
  LET st == FoldLeft(MergeRing, [refs |-> ways, ends |-> <<>>],
                     [i \in DOMAIN ways |-> i])
  IN {st.refs[i] : i \in {st.ends[n] : n \in DOMAIN st.ends}}

(* tryClose: the end nodes are different but at nearly the same place.     *)
Closable(refs) == Len(refs) >= 4 /\ Pos[First(refs)] = Pos[Last(refs)]
TryClose(refs) == [refs EXCEPT ![Len(refs)] = First(refs)]

(* Polygon: consecutive nodes at one place count once, and fewer than four *)
(* are ErrorNoRing.                                                        *)
IsPolygon(refs) ==
  1 + Cardinality({i \in 1..(Len(refs) - 1) : Pos[refs[i]] # Pos[refs[i + 1]]}) >= 4

(* buildRings: closed ways and merged rings that close; others are left    *)
(* out.  No ring at all, or one ring of which no polygon can be built, is  *)
(* an error for the whole relation: the empty set.                         *)
BuildRings(ways) ==
  LET open(w) == ~IsClosed(w)
      merged == MergeRings(SelectSeq(ways, open))
      rings == {w \in ToSet(ways) : IsClosed(w)}
               \cup {r \in merged : IsClosed(r)}
               \cup {TryClose(r) : r \in {m \in merged : ~IsClosed(m) /\ Closable(m)}}
  IN IF \A r \in rings : IsPolygon(r) THEN rings ELSE {}

-----------------------------------------------------------------------------
Places(refs) == {Pos[n] : n \in ToSet(refs)}

(* External: Area and PreparedContains of GEOS, for rectangles that are    *)
(* given by the set of their corners.                                      *)
Extent(S, a) == <<Min({p[a] : p \in S}), Max({p[a] : p \in S})>>
Area(S) ==
  LET x == Extent(S, 1) y == Extent(S, 2) IN (x[2] - x[1]) * (y[2] - y[1])
Covers(S, T) ==
  \A a \in 1..2 : Extent(S, a)[1] < Extent(T, a)[1] /\ Extent(T, a)[2] < Extent(S, a)[2]

(* sort.Sort is not stable and mergeRings returns its rings in the order   *)
(* of a Go map: rings of equal area come in any order.                     *)
AreaOrders(rings) ==
  {s \in SetToSeqs(rings) : \A i \in 1..(Len(s) - 1) : Area(Places(s[i])) >= Area(Places(s[i + 1]))}

(* ringIsHole: by is containedBy, with 0 for none; a parent comes first.   *)
RingIsHole(by, j) ==
  LET depth[k \in 0..j] == IF k = 0 THEN -1 ELSE depth[by[k]] + 1 IN
    depth[j] % 2 = 1

(* Mutant: a ring whose parent changes stays with the first parent.        *)
MutNest(rings, st, i, j) ==
  IF ~Covers(Places(rings[i]), Places(rings[j])) THEN st
  ELSE LET by == [st.by EXCEPT ![j] = i] IN
         [by |-> by,
          holes |-> IF RingIsHole(by, j) THEN [st.holes EXCEPT ![i] = @ \cup {j}]
                    ELSE st.holes,
          shells |-> IF RingIsHole(by, j) THEN st.shells ELSE st.shells \cup {j}]

(* The inner loop of buildRelGeometry: ring j lies in ring i, which is     *)
(* smaller than the rings that were found around j before.                 *)
Nest(rings, st, i, j) ==
  IF ~Covers(Places(rings[i]), Places(rings[j])) THEN st
  ELSE LET old == st.by[j]
           by == [st.by EXCEPT ![j] = i]
           holes == IF old # 0 THEN [st.holes EXCEPT ![old] = @ \ {j}] ELSE st.holes
           shells == IF old # 0 THEN st.shells \ {j} ELSE st.shells
       IN [by |-> by,
           holes |-> IF RingIsHole(by, j) THEN [holes EXCEPT ![i] = @ \cup {j}]
                     ELSE holes,
           shells |-> IF RingIsHole(by, j) THEN shells ELSE shells \cup {j}]

(* The outer loop, for one i.                                              *)
NestRing(rings, st, i) ==
  LET step(s, j) == Nest(rings, s, i, j)
      done == FoldLeft(step, st, [k \in 1..(Len(rings) - i) |-> i + k])
  IN IF done.by[i] = 0 THEN [done EXCEPT !.shells = @ \cup {i}] ELSE done

Edges(refs) == {{Pos[refs[i]], Pos[refs[i + 1]]} : i \in 1..(Len(refs) - 1)}

(* buildRelGeometry, without the roles of the members, which are not read  *)
(* again: a set of polygons, each an outer and the inner rings.            *)
BuildRelGeometry(rings) ==
  LET n == Len(rings)
      step(s, i) == NestRing(rings, s, i)
      st == FoldLeft(step,
                     [by |-> [i \in 1..n |-> 0], holes |-> [i \in 1..n |-> {}],
                      shells |-> {1}],
                     [i \in 1..n |-> i])
  IN {[outer |-> Edges(rings[s]), inner |-> {Edges(rings[h]) : h \in st.holes[s]}]
        : s \in st.shells}

-----------------------------------------------------------------------------
(***************************************************************************)
(* What a multipolygon is: the edges of the member ways fall into          *)
(* connected parts; a part with two edges at every place is a ring; a      *)
(* ring inside an even number of others is an outer ring, and its inner    *)
(* rings are the ones just inside.  A closed member way without an area    *)
(* makes the relation invalid.                                             *)
(***************************************************************************)
Parts(edges) ==
  LET grow(S) == S \cup {e \in edges : \E f \in S : e \cap f # {}}
      part[k \in Nat, e \in edges] ==
        IF k = 0 THEN {e} ELSE grow(part[k - 1, e])
  IN {part[Cardinality(edges), e] : e \in edges}

ReferenceGeometry(ways) ==
  LET edges == UNION {Edges(w) : w \in ToSet(ways)}
      ring(S) == \A p \in UNION S : Cardinality({e \in S : p \in e}) = 2
      rings == {S \in Parts(edges) : ring(S)}
      around(S) == {R \in rings : Covers(UNION R, UNION S)}
      depth(S) == Cardinality(around(S))
      flat(w) == IsClosed(w) /\ Cardinality(Places(w)) < 3
  IN IF \E w \in ToSet(ways) : flat(w) THEN {}
     ELSE {[outer |-> S, inner |-> {R \in rings : S \in around(R) /\ depth(R) = depth(S) + 1}]
             : S \in {R \in rings : depth(R) % 2 = 0}}
=============================================================================
