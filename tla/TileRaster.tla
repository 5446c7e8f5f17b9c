----------------------------- MODULE TileRaster -----------------------------
(***************************************************************************)
(* The tiles of a changed geometry (expire/tilelist.go).  The code works   *)
(* with fractions of a tile (tileCoord); a position is here a pair of      *)
(* whole numbers of 1/Unit of a tile, and uint32 of a coordinate is the    *)
(* division by Unit.                                                       *)
(***************************************************************************)
EXTENDS Integers, FiniteSetsExt, SequencesExt

CONSTANTS
  Unit,         \* units of a tile
  Padding,      \* tilePadding, in units
  MaxBoxTiles,  \* the number of tiles up to which a closed way is a box
  Zero          \* the position of longitude 0, latitude 0

ASSUME TileRasterAssumption ==
  /\ Unit \in Nat \ {0}
  /\ Padding \in 0..(Unit - 1)
  /\ MaxBoxTiles \in Nat
  /\ Zero \in Nat \X Nat

Abs(n) == IF n < 0 THEN -n ELSE n

(* uint32: fractions are cut off, also those between -1 and 0.             *)
Whole(c) == IF c < 0 THEN 0 ELSE c \div Unit
TileOf(p) == <<Whole(p[1]), Whole(p[2])>>

(* The tiles from one position to another, as two nested loops.            *)
TileBox(from, to) ==
  (Whole(from[1])..Whole(to[1])) \X (Whole(from[2])..Whole(to[2]))

(* addCoord: a single point, padded.                                       *)
AddCoord(p) ==
  TileBox(<<p[1] - Padding, p[2] - Padding>>, <<p[1] + Padding, p[2] + Padding>>)

(***************************************************************************)
(* bresenham makes one step of a tile after the other along the longer     *)
(* axis.  After k steps the other axis has moved by Moved tiles: once for  *)
(* every step at which the error term e, here in units, is not negative.   *)
(* (dy <= dx, so the inner loop runs at most once.)                        *)
(***************************************************************************)
Moved(long, short, k) ==
  LET moved[i \in 0..k] ==
        IF i = 0 THEN 0
        ELSE IF 2 * short * i - long - 2 * long * moved[i - 1] >= 0
               THEN moved[i - 1] + 1 ELSE moved[i - 1]
  IN moved[k]

(* The tiles of all steps, and the tile of the end.                        *)
Bresenham(p, q) ==
  LET d == [a \in 1..2 |-> Abs(q[a] - p[a])]
      sign == [a \in 1..2 |-> IF q[a] > p[a] THEN 1 ELSE -1]
      major == IF d[2] > d[1] THEN 2 ELSE 1
      steps == {k \in 0..(d[major] \div Unit) : k * Unit < d[major]}
      moves(a, k) == IF a = major THEN k ELSE Moved(d[major], d[a], k)
      at(k) == [a \in 1..2 |-> p[a] + sign[a] * Unit * moves(a, k)]
  IN {TileOf(at(k)) : k \in steps} \cup {TileOf(q)}

(* The tiles of one segment.  A node at 0/0 counts as missing.             *)
SegmentTiles(p, q) ==
  IF Zero \in {p, q} THEN {}
  ELSE IF TileOf(p) = TileOf(q) THEN {TileOf(p)}
  ELSE Bresenham(p, q)

ExpireLine(nodes) ==
  IF Len(nodes) = 1 THEN AddCoord(nodes[1])
  ELSE UNION {SegmentTiles(nodes[i], nodes[i + 1]) : i \in 1..(Len(nodes) - 1)}

(* nodesBbox: the positions it looks at, and its two corners.              *)
Known(nodes) == {p \in ToSet(nodes) : p # Zero}
MinCorner(nodes) == [a \in 1..2 |-> Min({p[a] : p \in Known(nodes)})]
MaxCorner(nodes) == [a \in 1..2 |-> Max({p[a] : p \in Known(nodes)})]

(* numBboxTiles: the extent plus one tile in each direction, cut off.      *)
NumBoxTiles(from, to) ==
  ((to[1] - from[1] + Unit) * (to[2] - from[2] + Unit)) \div (Unit * Unit)

(* ExpireNodes; closed ways are boxes unless the box is large.             *)
ExpireNodes(nodes, closed) ==
  LET from == MinCorner(nodes)
      to == MaxCorner(nodes)
  IN IF nodes = <<>> THEN {}
     ELSE IF ~closed THEN ExpireLine(nodes)
     ELSE IF Known(nodes) = {} THEN {}
     ELSE IF NumBoxTiles(from, to) > MaxBoxTiles THEN ExpireLine(nodes)
     ELSE TileBox(from, to)
=============================================================================
