--------------------------- MODULE MCDeltaCoords ---------------------------
(* Instances of DeltaCoords: bunches of two ids; batches that end in the   *)
(* middle of a bunch.                                                      *)
EXTENDS DeltaCoords

CONSTANTS t1, t2, v1, v2

Ids(s, v) == [i \in DOMAIN s |-> <<s[i], v>>]
From(a, b) == [i \in 1..(b - a + 1) |-> a + i - 1]
OpOf(kind, ids, v) == [kind |-> kind, nodes |-> Ids(ids, v)]
Phase(linear, readOnly, flush, threads, work) ==
  [linear |-> linear, readOnly |-> readOnly, flush |-> flush,
   threads |-> threads, work |-> work]

(* An import: two goroutines put three batches of sorted nodes (the first  *)
(* one starts with a skipped node, the second one starts and ends in the   *)
(* middle of a bunch and is long enough for a direct put); the cache is    *)
(* flushed; then ways are filled read-only, one with an unknown ref.       *)
ImportPhases ==
  << Phase(TRUE, FALSE, TRUE, {t1, t2},
           << [kind |-> "put", nodes |-> <<<<SKIP, v1>>>> \o Ids(From(0, 2), v1)],
              OpOf("put", From(3, 8), v1),
              OpOf("put", From(9, 9), v1) >>),
     Phase(FALSE, TRUE, TRUE, {t1, t2},
           << OpOf("fill", <<0, 7, 6>>, v1), OpOf("get", <<8>>, v1), OpOf("fill", <<9, 10, 1>>, v1) >>) >>

(* A diff: one goroutine updates, deletes and looks up nodes, then the     *)
(* element writers fill ways concurrently from the same, dirty cache.      *)
DiffPhases ==
  << Phase(FALSE, FALSE, FALSE, {t1},
           << OpOf("put", <<1>>, v2), OpOf("del", <<2>>, v1), OpOf("get", <<7>>, v1),
              OpOf("put", <<4, 5>>, v2), OpOf("fill", <<8, 10>>, v1) >>),
     Phase(FALSE, FALSE, TRUE, {t1, t2},
           << OpOf("fill", <<0, 1, 4>>, v1), OpOf("fill", <<3, 5, 2, 1>>, v1) >>),
     Phase(FALSE, FALSE, TRUE, {t1}, << OpOf("fill", <<0, 1, 3, 5>>, v1) >>) >>

ImportAndDiff == ImportPhases \o DiffPhases
NothingStored == {}
=============================================================================
