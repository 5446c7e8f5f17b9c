----------------------------- MODULE MCRefIndex -----------------------------
(* Instances of RefIndex: four ids in two bunches, two element writers     *)
(* whose elements share ids and bunches.                                   *)
EXTENDS RefIndex, TLC

CONSTANTS w1, w2

MCId == 1..4
MCRef == {11, 12, 13}
MCBunch == {0, 1}
MCBunchOf == [i \in MCId |-> IF i <= 2 THEN 0 ELSE 1]
MCStored == {<<1, 13>>}

(* Two ways that share nodes 2 and 3 and both bunches.                    *)
TwoWays == (w1 :> {<<1, 11>>, <<2, 11>>, <<3, 11>>})
           @@ (w2 :> {<<2, 12>>, <<3, 12>>, <<4, 12>>})

(* One writer with relations of many members; the other one has none.      *)
OneWriter == (w1 :> {<<i, 11>> : i \in MCId} \cup {<<2, 12>>, <<3, 12>>}) @@ (w2 :> {})

(* Coords and Ways of an import are in linear mode; CoordsRel is not, nor  *)
(* is any index of an update.                                              *)
MCJobs == {[linear |-> TRUE, work |-> TwoWays], [linear |-> FALSE, work |-> OneWriter]}
MCRace == {[linear |-> FALSE, work |-> TwoWays]}
=============================================================================
