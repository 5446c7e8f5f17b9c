---------------------------- MODULE DeltaCoords ----------------------------
(***************************************************************************)
(* The coordinates cache (cache/delta.go, DeltaCoordsCache): bunches of    *)
(* BunchSize consecutive node ids, kept in a table with an LRU list in     *)
(* front of LevelDB.  c.mu guards the table and the list, each bunch has   *)
(* its own lock.  getBunch waits for the bunch lock while it holds c.mu,   *)
(* and loads the bunch after it has released c.mu; CheckCapacity evicts    *)
(* bunches under c.mu without taking their locks.                          *)
(*                                                                         *)
(* The program uses the cache in phases with no overlap (import: read the  *)
(* nodes, look up first refs, then fill ways read-only; diff: update, then *)
(* fill).  In a phase its goroutines take operations from a channel.       *)
(***************************************************************************)
EXTENDS Naturals, FiniteSets, Sequences

CONSTANTS
  MaxId,      \* node ids are 0..MaxId
  Val,        \* coordinates
  NotFound, NoObj, NoThread,
  SKIP,       \* id of a node that the reader wants skipped
  BunchSize,
  Capacity,   \* bunches in the table
  Thread,
  Obj,        \* coordsBunch objects (bound: there are enough of them); freed
              \* ones are used again
  Phases,     \* sequence of [linear, readOnly, flush, threads, work]
  Stored,     \* what LevelDB holds when the cache is opened
  MaxErrors   \* bound: number of LevelDB calls that fail, below Capacity

Id == 0..MaxId
getBunchID(i) == i \div BunchSize
Bunch == {getBunchID(i) : i \in Id}
Node == Id \X Val

(* An operation: a put of nodes sorted by id, a FillWay of refs, a         *)
(* GetCoord or a DeleteCoord; for the last three the values are unused.    *)
OpKind == {"put", "fill", "get", "del"}
Op == [kind : OpKind, nodes : Seq((Id \cup {SKIP}) \X Val)]

removeSkippedNodes(nodes) == SelectSeq(nodes, LAMBDA n : n[1] # SKIP)

Sorted(nodes) == \A i, j \in DOMAIN nodes : i < j => nodes[i][1] < nodes[j][1]
AllBefore(nodes, later) ==
  \A i \in DOMAIN nodes, j \in DOMAIN later : nodes[i][1] < later[j][1]

ASSUME DeltaCoordsAssumption ==
  /\ MaxId \in Nat /\ BunchSize \in Nat \ {0} /\ Capacity \in Nat \ {0}
  /\ MaxErrors \in 0..(Capacity - 1)
  /\ NoObj \notin Obj /\ NoThread \notin Thread /\ NotFound \notin Val
  /\ SKIP \notin Id
  /\ Stored \subseteq Node

ASSUME PhasesAssumption ==
  /\ Phases # <<>>
  /\ Phases \in Seq([linear : BOOLEAN, readOnly : BOOLEAN, flush : BOOLEAN,
                     threads : SUBSET Thread, work : Seq(Op)])
  /\ \A i \in DOMAIN Phases : \A j \in DOMAIN Phases[i].work :
       LET o == Phases[i].work[j]
           nodes == removeSkippedNodes(o.nodes)
       IN nodes \in Seq(Node) /\ (o.kind \in {"get", "del"} => Len(nodes) = 1)

(* Linear import is enabled for the first phase only, when there is        *)
(* no cache to append to; it reads a file that is sorted by id.            *)
ASSUME LinearAssumption ==
  \A i \in DOMAIN Phases : Phases[i].linear =>
    LET work == Phases[i].work
        nodes(j) == removeSkippedNodes(work[j].nodes)
    IN /\ i = 1 /\ Stored = {}
       /\ \A j \in DOMAIN work : work[j].kind = "put" /\ Sorted(nodes(j))
       /\ \A j, k \in DOMAIN work : j < k => AllBefore(nodes(j), nodes(k))

VARIABLES
  phase,    \* index into Phases
  queue,    \* operations of the phase that no goroutine has taken
  op,       \* op[t]: the operation t works on
  at,       \* at[t]: number of its nodes that are done (start in PutCoords)
  pc,       \* "idle", "seg", "lock", "lockNew", "load", "use", "read", "mark"
  bunch,    \* bunch[t]: the object getBunch returned or is about to return
  mu,       \* owner of c.mu
  table,    \* [Bunch -> Obj or NoObj]
  lru,      \* bunch ids, most recently used first
  obj,      \* [Obj -> [id, coords, needsWrite, lock, loaded]]
  db,       \* the nodes in LevelDB
  out,      \* out[t]: what t read, put or deleted last
  errors,   \* number of LevelDB calls that have failed
  crashed,  \* a nil pointer was dereferenced
  since,    \* since[t]: history, the bunches others have looked up since t
            \* looked up the one it has
  overtaken \* history: others have looked up so many bunches meanwhile that
            \* the bunch of a goroutine was the oldest one

thread == <<op, at, pc, bunch>>
cache == <<table, lru, obj>>
faults == <<errors, crashed>>
history == <<since, overtaken>>
vars == <<phase, queue, thread, mu, cache, db, out, faults, history>>

-----------------------------------------------------------------------------
InBunch(S, b) == {p \in S : getBunchID(p[1]) = b}
Replace(S, b, coords) == {p \in S : getBunchID(p[1]) # b} \cup coords
RangeOf(s) == {s[i] : i \in DOMAIN s}

(* The coordinates a caller sees: those of the loaded bunches in the       *)
(* table, of the other bunches what LevelDB holds.                         *)
Seen(b) == IF table[b] # NoObj /\ obj[table[b]].loaded THEN obj[table[b]].coords
                                                       ELSE InBunch(db, b)
SeenStore == UNION {Seen(b) : b \in Bunch}
Store == INSTANCE CoordStore WITH
  BunchOf <- [i \in Id |-> getBunchID(i)], store <- SeenStore

(* Mutant: a bunch that is in the list stays where it is.                  *)
MutMoveToFront(s, b) == IF b \in RangeOf(s) THEN s ELSE <<b>> \o s

(* list.MoveToFront, or PushFront of a bunch that is not in the list.      *)
MoveToFront(s, b) ==
  LET i == IF b \in RangeOf(s) THEN CHOOSE i \in DOMAIN s : s[i] = b ELSE Len(s) + 1 IN
    <<b>> \o SubSeq(s, 1, i - 1) \o SubSeq(s, i + 1, Len(s))

(* The nodes after position s that share the bunch of the first of them    *)
(* end at SegEnd.                                                          *)
SegEnd(nodes, s) ==
  CHOOSE e \in (s + 1)..Len(nodes) :
    /\ \A i \in (s + 1)..e : getBunchID(nodes[i][1]) = getBunchID(nodes[s + 1][1])
    /\ e < Len(nodes) => getBunchID(nodes[e + 1][1]) # getBunchID(nodes[e][1])

(* Mutant: the first node of the next bunch is taken along.                *)
MutSeg(t) ==
  {op[t].nodes[i] : i \in {i \in (at[t] + 1)..(SegEnd(op[t].nodes, at[t]) + 1) : i <= Len(op[t].nodes)}}

Seg(t) == {op[t].nodes[i] : i \in (at[t] + 1)..SegEnd(op[t].nodes, at[t])}
SegBunch(t) == getBunchID(op[t].nodes[at[t] + 1][1])

(* PutCoords bypasses the cache for a bunch inside a batch.                *)
DirectPut(t) ==
  LET e == SegEnd(op[t].nodes, at[t]) IN
    /\ op[t].kind = "put" /\ Phases[phase].linear
    /\ e < Len(op[t].nodes)
    /\ e > BunchSize /\ e < Len(op[t].nodes) - BunchSize

-----------------------------------------------------------------------------
Init ==
  /\ phase = 1
  /\ queue = Phases[1].work
  /\ op = [t \in Thread |-> [kind |-> "get", nodes |-> <<>>]]
  /\ at = [t \in Thread |-> 0]
  /\ pc = [t \in Thread |-> "idle"]
  /\ bunch = [t \in Thread |-> NoObj]
  /\ mu = NoThread
  /\ table = [b \in Bunch |-> NoObj]
  /\ lru = <<>>
  /\ obj = [o \in Obj |-> [id |-> 0, coords |-> {}, needsWrite |-> FALSE,
                           lock |-> NoThread, loaded |-> FALSE]]
  /\ db = Stored
  /\ out = [t \in Thread |-> {}]
  /\ errors = 0
  /\ crashed = FALSE
  /\ since = [t \in Thread |-> {}]
  /\ overtaken = FALSE

(* A goroutine takes an operation; a put of skipped nodes only is a no-op. *)
Take(t) ==
  /\ queue # <<>>
  /\ pc[t] = "idle" /\ t \in Phases[phase].threads
  /\ LET nodes == removeSkippedNodes(Head(queue).nodes) IN
       /\ op' = [op EXCEPT ![t] = [kind |-> Head(queue).kind, nodes |-> nodes]]
       /\ pc' = [pc EXCEPT ![t] = IF nodes = <<>> THEN "idle" ELSE "seg"]
  /\ at' = [at EXCEPT ![t] = 0]
  /\ queue' = Tail(queue)
  /\ UNCHANGED <<phase, bunch, mu, cache, db, out, faults>>

DbError == errors < MaxErrors /\ errors' = errors + 1

PutDirect(t) ==
  /\ pc[t] = "seg" /\ DirectPut(t)
  /\ db' = Replace(db, SegBunch(t), Seg(t))
  /\ out' = [out EXCEPT ![t] = Seg(t)]
  /\ at' = [at EXCEPT ![t] = SegEnd(op[t].nodes, at[t])]
  /\ UNCHANGED <<phase, queue, op, pc, bunch, mu, cache, faults>>

PutDirectError(t) ==
  /\ DbError
  /\ pc[t] = "seg" /\ DirectPut(t)
  /\ pc' = [pc EXCEPT ![t] = "idle"]
  /\ UNCHANGED <<phase, queue, op, at, bunch, mu, cache, db, out, crashed>>

NewBunch(b) == [id |-> b, coords |-> {}, needsWrite |-> FALSE,
                lock |-> NoThread, loaded |-> FALSE]
Free == Obj \ (RangeOf(table) \cup RangeOf(bunch))

(* getBunch up to bunch.Lock(): c.mu is taken, the bunch is looked up or   *)
(* created, and moved to the front of the list.  A bunch that CheckCapacity *)
(* failed to write is in the table but has no list element any more.       *)
Lookup(t) ==
  LET b == SegBunch(t)
      o == IF table[b] # NoObj THEN table[b] ELSE CHOOSE f \in Free : TRUE IN
  /\ pc[t] = "seg" /\ ~DirectPut(t)
  /\ mu = NoThread
  /\ IF table[b] # NoObj THEN b \in RangeOf(lru) ELSE Free # {}
  /\ mu' = t
  /\ bunch' = [bunch EXCEPT ![t] = o]
  /\ table' = [table EXCEPT ![b] = o]
  /\ lru' = MoveToFront(lru, b)
  /\ obj' = IF table[b] # NoObj THEN obj ELSE [obj EXCEPT ![o] = NewBunch(b)]
  /\ pc' = [pc EXCEPT ![t] = IF table[b] # NoObj THEN "lock" ELSE "lockNew"]
  /\ UNCHANGED <<phase, queue, op, at, db, out, faults>>

LookupCrash(t) ==
  /\ pc[t] = "seg" /\ ~DirectPut(t)
  /\ mu = NoThread
  /\ table[SegBunch(t)] # NoObj /\ SegBunch(t) \notin RangeOf(lru)
  /\ crashed' = TRUE
  /\ UNCHANGED <<phase, queue, thread, mu, cache, db, out, errors>>

-----------------------------------------------------------------------------
Cached == {b \in Bunch : table[b] # NoObj}

(* Mutant: evicts one bunch less.                                          *)
MutKept ==
  LET size == Cardinality(Cached) IN
    IF size <= Capacity + 1 THEN Len(lru) ELSE Len(lru) - (size - Capacity - 1)

(* CheckCapacity takes bunches from the end of the list until the table    *)
(* is within Capacity; a dirty one is written to LevelDB.  (MaxErrors is   *)
(* below Capacity, so the list has enough of them.)                        *)
Kept ==
  LET size == Cardinality(Cached) IN
    IF size <= Capacity THEN Len(lru) ELSE Len(lru) - (size - Capacity)
After(k) == {lru[i] : i \in (k + 1)..Len(lru)}
Victims == After(Kept)

WriteBunches(S) ==
  LET dirty == {b \in S : obj[table[b]].needsWrite} IN
    {p \in db : getBunchID(p[1]) \notin dirty}
      \cup UNION {obj[table[b]].coords : b \in dirty}

Evict(k) ==
  /\ db' = WriteBunches(After(k))
  /\ table' = [b \in Bunch |-> IF b \in After(k) THEN NoObj ELSE table[b]]

(* getBunch from bunch.Lock() to c.mu.Unlock().                            *)
Lock(t) ==
  /\ pc[t] \in {"lock", "lockNew"}
  /\ obj[bunch[t]].lock = NoThread
  /\ obj' = [obj EXCEPT ![bunch[t]].lock = t]
  /\ Evict(Kept)
  /\ lru' = SubSeq(lru, 1, Kept)
  /\ mu' = NoThread
  /\ pc' = [pc EXCEPT ![t] = IF pc[t] = "lockNew" THEN "load" ELSE "use"]
  /\ UNCHANGED <<phase, queue, op, at, bunch, out, faults>>

(* The write of bunch k of the list fails, after those behind it have been *)
(* evicted: getBunch returns the error, the bunch it locked stays locked.  *)
LockError(t) ==
  /\ DbError
  /\ pc[t] \in {"lock", "lockNew"}
  /\ obj[bunch[t]].lock = NoThread
  /\ \E k \in (Kept + 1)..Len(lru) :
       /\ obj[table[lru[k]]].needsWrite
       /\ Evict(k)
       /\ lru' = SubSeq(lru, 1, k - 1)
  /\ obj' = [obj EXCEPT ![bunch[t]].lock = t]
  /\ mu' = NoThread
  /\ pc' = [pc EXCEPT ![t] = "idle"]
  /\ bunch' = [bunch EXCEPT ![t] = NoObj]
  /\ UNCHANGED <<phase, queue, op, at, out, crashed>>

(* getCoordsPacked into the new bunch.                                     *)
Load(t) ==
  /\ pc[t] = "load"
  /\ obj' = [obj EXCEPT ![bunch[t]].coords = InBunch(db, obj[bunch[t]].id),
                        ![bunch[t]].loaded = TRUE]
  /\ pc' = [pc EXCEPT ![t] = "use"]
  /\ UNCHANGED <<phase, queue, op, at, bunch, mu, table, lru, db, out, faults>>

LoadError(t) ==
  /\ DbError
  /\ pc[t] = "load"
  /\ pc' = [pc EXCEPT ![t] = "idle"]
  /\ bunch' = [bunch EXCEPT ![t] = NoObj]
  /\ UNCHANGED <<phase, queue, op, at, mu, cache, db, out, crashed>>

-----------------------------------------------------------------------------
(* The operation on the locked bunch is over: go on with the next nodes.   *)
Advance(t, e) ==
  /\ at' = [at EXCEPT ![t] = e]
  /\ pc' = [pc EXCEPT ![t] = IF e = Len(op[t].nodes) THEN "idle" ELSE "seg"]
  /\ bunch' = [bunch EXCEPT ![t] = NoObj]

(* coordsBunch.DeleteCoord, PutCoords (append and sort) and PutCoord.      *)
NewCoords(t) ==
  LET old == obj[bunch[t]].coords IN
    CASE op[t].kind = "del" -> {p \in old : p[1] # op[t].nodes[1][1]}
      [] op[t].kind # "del" /\ Phases[phase].linear -> old \cup Seg(t)
      [] OTHER -> {p \in old : \A n \in Seg(t) : n[1] # p[1]} \cup Seg(t)

Write(t) ==
  /\ pc[t] = "use" /\ op[t].kind \in {"put", "del"}
  /\ obj' = [obj EXCEPT ![bunch[t]].coords = NewCoords(t)]
  /\ out' = [out EXCEPT ![t] = IF op[t].kind = "put" THEN Seg(t)
                               ELSE {<<op[t].nodes[1][1], NotFound>>}]
  /\ pc' = [pc EXCEPT ![t] = "mark"]
  /\ UNCHANGED <<phase, queue, op, at, bunch, mu, table, lru, db, faults>>

Mark(t) ==
  /\ pc[t] = "mark"
  /\ obj' = [obj EXCEPT ![bunch[t]].needsWrite = TRUE, ![bunch[t]].lock = NoThread]
  /\ Advance(t, SegEnd(op[t].nodes, at[t]))
  /\ UNCHANGED <<phase, queue, op, mu, table, lru, db, out, faults>>

(* Mutant: a missing coordinate is looked up again.                        *)
MutReadCoords(t) ==
  LET found == {<<n[1], Store!Lookup(obj[bunch[t]].coords, n[1])>> : n \in Seg(t)}
      missing == \E p \in found : p[2] = NotFound IN
    /\ out' = [out EXCEPT ![t] = found]
    /\ Advance(t, IF missing THEN at[t] ELSE SegEnd(op[t].nodes, at[t]))

(* Reading the refs of the segment; a missing one ends FillWay.            *)
ReadCoords(t) ==
  LET found == {<<n[1], Store!Lookup(obj[bunch[t]].coords, n[1])>> : n \in Seg(t)}
      missing == \E p \in found : p[2] = NotFound IN
    /\ out' = [out EXCEPT ![t] = found]
    /\ Advance(t, IF missing THEN Len(op[t].nodes) ELSE SegEnd(op[t].nodes, at[t]))

Read(t) ==
  /\ pc[t] = "use"
  /\ op[t].kind \in {"fill", "get"}
  /\ ~(op[t].kind = "get" /\ Phases[phase].readOnly)
  /\ ReadCoords(t)
  /\ obj' = [obj EXCEPT ![bunch[t]].lock = NoThread]
  /\ UNCHANGED <<phase, queue, op, mu, table, lru, db, faults>>

(* GetCoord of a read-only cache unlocks the bunch and then reads it.      *)
Unlock(t) ==
  /\ pc[t] = "use" /\ op[t].kind = "get" /\ Phases[phase].readOnly
  /\ obj' = [obj EXCEPT ![bunch[t]].lock = NoThread]
  /\ pc' = [pc EXCEPT ![t] = "read"]
  /\ UNCHANGED <<phase, queue, op, at, bunch, mu, table, lru, db, out, faults>>

ReadUnlocked(t) ==
  /\ pc[t] = "read"
  /\ ReadCoords(t)
  /\ UNCHANGED <<phase, queue, op, mu, cache, db, faults>>

-----------------------------------------------------------------------------
(* The end of a phase: all operations are done, the cache is flushed or    *)
(* closed (or used on), and the next phase starts.                         *)
Idle == queue = <<>> /\ \A t \in Thread : pc[t] = "idle"

NextPhase ==
  /\ phase' = phase + 1
  /\ queue' = IF phase < Len(Phases) THEN Phases[phase + 1].work ELSE <<>>

Flush ==
  /\ phase <= Len(Phases) /\ Idle /\ mu = NoThread
  /\ Phases[phase].flush
  /\ db' = WriteBunches(Cached)
  /\ table' = [b \in Bunch |-> NoObj]
  /\ lru' = <<>>
  /\ NextPhase
  /\ UNCHANGED <<thread, mu, obj, out, faults>>

(* The map is walked in any order: any of the bunches may be written       *)
(* before the one that fails.                                              *)
FlushError ==
  /\ DbError
  /\ phase <= Len(Phases) /\ Idle /\ mu = NoThread
  /\ Phases[phase].flush
  /\ \E S \in SUBSET Cached :
       /\ \E b \in Cached \ S : obj[table[b]].needsWrite
       /\ db' = WriteBunches(S)
  /\ NextPhase
  /\ UNCHANGED <<thread, mu, cache, out, crashed>>

KeepCached ==
  /\ phase <= Len(Phases) /\ Idle
  /\ ~Phases[phase].flush
  /\ NextPhase
  /\ UNCHANGED <<thread, mu, cache, db, out, faults>>

(* Nothing in the code keeps CheckCapacity from evicting a bunch that a    *)
(* goroutine still works on; what that goroutine writes is then lost.  It  *)
(* takes others that look up as many other bunches as the table holds      *)
(* between its getBunch and its unlock (less one for each bunch that could *)
(* not be written and blocks its place).  The history notes that.          *)
Overtake(t) ==
  LET holds(u) == pc[u] \in {"load", "use", "mark", "read"} IN
  /\ since' = [u \in Thread |-> IF holds(u) /\ obj[bunch[u]].id # SegBunch(t)
                                 THEN since[u] \cup {SegBunch(t)}
                                 ELSE IF holds(u) THEN since[u] ELSE {}]
  /\ overtaken' = (overtaken \/ \E u \in Thread : Cardinality(since'[u]) + errors >= Capacity)

Step(t) ==
  \/ Lookup(t) /\ Overtake(t)
  \/ /\ \/ PutDirect(t) \/ PutDirectError(t)
        \/ LookupCrash(t)
        \/ Lock(t) \/ LockError(t)
        \/ Load(t) \/ LoadError(t)
        \/ Write(t) \/ Mark(t)
        \/ Read(t) \/ Unlock(t) \/ ReadUnlocked(t)
     /\ UNCHANGED history

Done == phase > Len(Phases)

Next ==
  \/ ~crashed /\ \E t \in Thread : (Take(t) /\ UNCHANGED history) \/ Step(t)
  \/ ~crashed /\ (Flush \/ FlushError \/ KeepCached) /\ UNCHANGED history
  \/ (Done \/ crashed) /\ UNCHANGED vars

Spec == Init /\ [][Next]_vars

(* Every goroutine goes on with its operation, some goroutine of the phase *)
(* takes the next one, and the caller ends a phase that is over.           *)
Fairness ==
  /\ WF_vars(\E t \in Thread : Take(t) /\ UNCHANGED history)
  /\ \A t \in Thread : WF_vars(Step(t))
  /\ WF_vars((Flush \/ FlushError \/ KeepCached) /\ UNCHANGED history)

FairSpec == Spec /\ Fairness

-----------------------------------------------------------------------------
TypeOK ==
  /\ phase \in 1..(Len(Phases) + 1)
  /\ \A t \in Thread :
       /\ op[t].kind \in OpKind
       /\ at[t] \in 0..Len(op[t].nodes)
       /\ pc[t] \in {"idle", "seg", "lock", "lockNew", "load", "use", "read", "mark"}
       /\ bunch[t] \in Obj \cup {NoObj}
       /\ pc[t] \in {"lock", "lockNew", "load", "use", "read", "mark"} => bunch[t] # NoObj
  /\ mu \in Thread \cup {NoThread}
  /\ table \in [Bunch -> Obj \cup {NoObj}]
  /\ RangeOf(lru) \subseteq Bunch
  /\ \A o \in Obj :
       /\ obj[o].id \in Bunch
       /\ obj[o].coords \subseteq InBunch(Node, obj[o].id)
       /\ obj[o].needsWrite \in BOOLEAN /\ obj[o].loaded \in BOOLEAN
       /\ obj[o].lock \in Thread \cup {NoThread}
  /\ db \subseteq Node
  /\ errors \in 0..MaxErrors
  /\ crashed \in BOOLEAN /\ overtaken \in BOOLEAN

(* The cache behaves as a map from ids to coordinates: what PutCoords and  *)
(* DeleteCoord do is what GetCoord and FillWay see, whatever is loaded,    *)
(* evicted, put past the cache or flushed in between.  This ends when a    *)
(* goroutine is overtaken, and not before: the list must be kept in the    *)
(* order of use.                                                           *)
Coherent == Store!Init /\ [][overtaken \/ Store!Next]_<<SeenStore, out>>

(* The list and the table hold the same bunches, and no more than          *)
(* Capacity of them once getBunch has released c.mu ("mem req for cache    *)
(* approx. capacity*bunchSize*40", delta.go:95).                           *)
TableBounded ==
  errors = 0 =>
    /\ RangeOf(lru) = Cached
    /\ Len(lru) = Cardinality(Cached)
    /\ mu = NoThread => Len(lru) <= Capacity

(* All goroutines complete their operations: getBunch holds c.mu while it  *)
(* waits for a bunch lock, but nobody waits for c.mu with a bunch locked.  *)
(* After a failed LevelDB call that is not so: the bunch stays locked.     *)
EventuallyDone == <>(Done \/ errors > 0)
=============================================================================
