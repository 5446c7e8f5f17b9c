----------------------------- MODULE MCReadPbf -----------------------------
(* Instances of ReadPbf: n1 is inside of the limit, n2 is not.             *)
EXTENDS ReadPbf

CONSTANTS n1, n2, n3, w1, w2, w3, r1, r2, r3, r4
CONSTANTS C1, C2, N1, W1, W2, R1

MCReads == [w \in {C1, C2, N1, W1, W2, R1} |->
              CASE w \in {C1, C2} -> "coords" [] w = N1 -> "nodes"
                [] w \in {W1, W2} -> "ways"   [] w = R1 -> "relations"]

(* w3 has no refs; r3 has no way or node member; r4 loses its tags.        *)
MCFirstRef == [w \in {w1, w2, w3} |-> CASE w = w1 -> n1 [] w = w2 -> n2 [] w = w3 -> NoRef]
MCFirstMember == [r \in {r1, r2, r3, r4} |->
                    CASE r = r1 -> w1 [] r = r2 -> n2 [] r = r3 -> NoRef [] r = r4 -> n1]

Of(kind, elems) == [kind |-> kind, elems |-> elems, state |-> "fine"]
Bad(kind, elems, state) == [kind |-> kind, elems |-> elems, state |-> state]

(* An ordered file; one that ends in an unreadable block; two whose nodes  *)
(* or ways cannot all be decoded; a file without ways; a file that is not  *)
(* ordered.                                                                *)
MCFiles ==
  { << Of("nodes", {n1, n3}), Of("nodes", {n2}), Of("ways", {w1, w2}),
       Of("ways", {w3}), Of("relations", {r1, r2, r3, r4}) >>,
    << Of("nodes", {n1}), Of("ways", {w1}), Bad("ways", {w2}, "unreadable") >>,
    << Bad("nodes", {n1}, "undecodable"), Of("nodes", {n2, n3}), Of("ways", {w1, w3}),
       Of("relations", {r1, r4}) >>,
    << Of("nodes", {n1}), Bad("ways", {w1}, "undecodable"), Of("relations", {r1, r4}) >>,
    << Of("nodes", {n1}), Of("relations", {r3, r4}) >>,
    << Of("ways", {w1}), Of("nodes", {n1}) >> }
=============================================================================
