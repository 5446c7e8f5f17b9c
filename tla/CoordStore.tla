----------------------------- MODULE CoordStore -----------------------------
(***************************************************************************)
(* What the coordinates cache promises its callers: a map from node ids to *)
(* coordinates.  The nodes of one bunch are put together; a read returns   *)
(* what was put last, or not-found.  Loading, evicting and flushing        *)
(* bunches is invisible.                                                   *)
(***************************************************************************)
EXTENDS Naturals

CONSTANTS
  Id,        \* node ids
  Val,       \* coordinates
  NotFound,  \* the error of a read that finds nothing
  Bunch,     \* bunch ids
  BunchOf,   \* [Id -> Bunch]
  Thread,    \* goroutines that use the store
  Stored     \* what LevelDB holds when the cache is opened

VARIABLES
  store,     \* set of <<id, coordinate>>
  out        \* out[t]: what t knows of its last operation: the coordinates read,
             \* put or deleted, a set of <<id, coordinate or NotFound>>

IdsOf(b) == {i \in Id : BunchOf[i] = b}

(* A coordinate of i in S, or NotFound.                                    *)
AnyOf(vals) == IF vals = {} THEN NotFound ELSE CHOOSE v \in vals : TRUE
Lookup(S, i) == AnyOf({v \in Val : <<i, v>> \in S})

Overwrite(S, nodes) == {p \in S : \A n \in nodes : n[1] # p[1]} \cup nodes

Init == store = Stored /\ out = [t \in Thread |-> {}]

Put(t, nodes) ==
  /\ out' = [out EXCEPT ![t] = nodes]
  /\ store' = Overwrite(store, nodes)

Delete(t, i) ==
  /\ out' = [out EXCEPT ![t] = {<<i, NotFound>>}]
  /\ store' = {p \in store : p[1] # i}

Read(t, ids) ==
  /\ out' = [out EXCEPT ![t] = {<<i, Lookup(store, i)>> : i \in ids}]
  /\ UNCHANGED store

Next ==
  \E b \in Bunch, t \in Thread :
    \/ \E nodes \in SUBSET (IdsOf(b) \X Val) : Put(t, nodes)
    \/ \E i \in IdsOf(b) : Delete(t, i)
    \/ \E ids \in SUBSET IdsOf(b) : Read(t, ids)

Spec == Init /\ [][Next]_<<store, out>>
=============================================================================
