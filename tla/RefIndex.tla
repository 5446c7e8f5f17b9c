------------------------------ MODULE RefIndex ------------------------------
(***************************************************************************)
(* One reference index of the diff cache (cache/diff.go, bunchRefCache):   *)
(* which ways a node is part of (Coords), which relations a node           *)
(* (CoordsRel) or a way (Ways) is a member of.  The index is a LevelDB     *)
(* table of bunches, 64 ids to a bunch; a bunch is read, changed and       *)
(* written back as a whole.                                                *)
(*                                                                         *)
(* Element writers (writer/ways.go, writer/relations.go) add references.   *)
(* In linear import mode they send them through addc to the dispatch       *)
(* goroutine, which collects them in a buffer and passes full buffers      *)
(* through the write channel to the writer goroutine; that one loads the   *)
(* affected bunches concurrently, merges, and writes one atomic batch.     *)
(* Outside linear mode a writer calls Add, which reads a bunch and puts it *)
(* back in two database calls with no lock around them.                    *)
(*                                                                         *)
(* A reference is a pair <<id, ref>>.  The sorted slices of IDRefs are     *)
(* sets here: IDRefs.Add ignores a ref that is already present.            *)
(***************************************************************************)
EXTENDS Naturals, FiniteSets, Sequences

CONSTANTS
  Id,          \* node or way ids, the keys of the index
  Ref,         \* the ids of the ways or relations that refer to them
  Bunch,       \* bunch ids
  BunchOf,     \* getBunchID: [Id -> Bunch]
  Writer,      \* goroutines that add references (concurrent element writers)
  Jobs,        \* what the index is used for: whether it is put into linear
               \* import mode, and the references of the elements that each
               \* writer inserts
  Stored,      \* references the index holds when it is opened
  AddCap,      \* capacity of addc
  WriteCap,    \* capacity of write
  BufferSize,  \* number of bunches that makes a buffer full
  DbErrors     \* whether a database call can fail

Pair == Id \X Ref

ASSUME RefIndexAssumption ==
  /\ BunchOf \in [Id -> Bunch]
  /\ Jobs \subseteq [linear : BOOLEAN, work : [Writer -> SUBSET Pair]]
  /\ Stored \subseteq Pair
  /\ AddCap \in Nat \ {0}
  /\ WriteCap \in Nat \ {0}
  /\ BufferSize \in Nat \ {0}
  /\ DbErrors \in BOOLEAN

VARIABLES
  job,       \* what the index is opened for
  ctl,       \* the caller: "open", "running", "waitAdd", "waitWrite", "closed"
  todo,      \* todo[w]: references w has still to add
  held,      \* held[w]: the pair of an Add between its Get and its Put, or {}
  snap,      \* snap[w]: the bunch that Add read
  addc,      \* channel of pairs
  disp,      \* dispatch goroutine: "off", "recv", "send", "last", "done"
  buffer,    \* index.buffer, as the set of its pairs
  write,     \* channel of buffers
  wr,        \* writer goroutine: "off", "recv", "load", "done"
  cur,       \* the buffer writeRefs works on
  pending,   \* its bunches that no loader has merged yet
  batch,     \* the merged bunches put into the write batch
  db,        \* the references in LevelDB
  failed     \* references whose db.Write or Add returned an error

vars == <<job, ctl, todo, held, snap, addc, disp, buffer, write, wr, cur,
          pending, batch, db, failed>>

linearVars == <<job, addc, disp, buffer, write, wr, cur, pending, batch, failed>>

Linear == job.linear
Work == job.work

Bunches(S) == {BunchOf[p[1]] : p \in S}
InBunch(S, b) == {p \in S : BunchOf[p[1]] = b}
Elems(s) == {s[i] : i \in 1..Len(s)}

-----------------------------------------------------------------------------
Init ==
  /\ job \in Jobs
  /\ ctl = "open"
  /\ todo = Work
  /\ held = [w \in Writer |-> {}]
  /\ snap = [w \in Writer |-> {}]
  /\ addc = <<>>
  /\ disp = "off"
  /\ buffer = {}
  /\ write = <<>>
  /\ wr = "off"
  /\ cur = {}
  /\ pending = {}
  /\ batch = {}
  /\ db = Stored
  /\ failed = {}

(***************************************************************************)
(* SetLinearImport(true) starts the two goroutines; without it the element *)
(* writers are started on an index in direct mode.                         *)
(***************************************************************************)
StartLinear ==
  /\ ctl = "open" /\ Linear
  /\ ctl' = "running"
  /\ wr' = "recv"
  /\ disp' = "recv"
  /\ UNCHANGED <<job, todo, held, snap, addc, buffer, write, cur, pending, batch,
                 db, failed>>

StartDirect ==
  /\ ctl = "open" /\ ~Linear
  /\ ctl' = "running"
  /\ UNCHANGED <<todo, held, snap, db, linearVars>>

(* AddFromWay, AddFromMembers in linear mode: a send on addc.              *)
SendAdd(w) ==
  /\ ctl = "running" /\ Linear
  /\ Len(addc) < AddCap
  /\ \E p \in todo[w] :
       /\ addc' = Append(addc, p)
       /\ todo' = [todo EXCEPT ![w] = @ \ {p}]
  /\ UNCHANGED <<job, ctl, held, snap, disp, buffer, write, wr, cur, pending,
                 batch, db, failed>>

(* Add outside linear mode, first half: read the bunch of the id.          *)
AddGet(w) ==
  /\ ctl = "running" /\ ~Linear
  /\ held[w] = {}
  /\ \E p \in todo[w] :
       /\ held' = [held EXCEPT ![w] = {p}]
       /\ snap' = [snap EXCEPT ![w] = InBunch(db, BunchOf[p[1]])]
  /\ UNCHANGED <<ctl, todo, db, linearVars>>

(* Mutant: writes the new reference over the bunch.                        *)
MutAddPut(w) ==
  /\ held[w] # {}
  /\ \E p \in held[w] :
       db' = (db \ InBunch(db, BunchOf[p[1]])) \cup {p}
  /\ todo' = [todo EXCEPT ![w] = @ \ held[w]]
  /\ held' = [held EXCEPT ![w] = {}]
  /\ snap' = [snap EXCEPT ![w] = {}]
  /\ UNCHANGED <<ctl, linearVars>>

(* Second half: write back what was read, with the new reference.          *)
AddPut(w) ==
  /\ held[w] # {}
  /\ \E p \in held[w] :
       db' = (db \ InBunch(db, BunchOf[p[1]])) \cup snap[w] \cup {p}
  /\ todo' = [todo EXCEPT ![w] = @ \ held[w]]
  /\ held' = [held EXCEPT ![w] = {}]
  /\ snap' = [snap EXCEPT ![w] = {}]
  /\ UNCHANGED <<ctl, linearVars>>

(* A database call of Add fails: AddFromWay and AddFromMembers drop the    *)
(* error and go on with the next reference.                                *)
AddError(w) ==
  /\ held[w] # {}
  /\ DbErrors
  /\ failed' = failed \cup held[w]
  /\ todo' = [todo EXCEPT ![w] = @ \ held[w]]
  /\ held' = [held EXCEPT ![w] = {}]
  /\ snap' = [snap EXCEPT ![w] = {}]
  /\ UNCHANGED <<job, ctl, addc, disp, buffer, write, wr, cur, pending, batch, db>>

-----------------------------------------------------------------------------
(* dispatch: receive one reference, add it to the buffer, pass a full      *)
(* buffer on; the range loop ends when addc is closed and drained.         *)
DispatchRecv ==
  /\ disp = "recv"
  /\ addc # <<>>
  /\ LET full == buffer \cup {Head(addc)} IN
       /\ buffer' = full
       /\ disp' = IF Cardinality(Bunches(full)) >= BufferSize
                    THEN "send" ELSE "recv"
  /\ addc' = Tail(addc)
  /\ UNCHANGED <<job, ctl, todo, held, snap, write, wr, cur, pending, batch, db,
                 failed>>

(* The buffer that follows comes from idRefBunchesPool or is new: empty.   *)
DispatchSend ==
  /\ disp = "send"
  /\ Len(write) < WriteCap
  /\ write' = Append(write, buffer)
  /\ buffer' = {}
  /\ disp' = "recv"
  /\ UNCHANGED <<job, ctl, todo, held, snap, addc, wr, cur, pending, batch, db,
                 failed>>

DispatchDrained ==
  /\ disp = "recv"
  /\ addc = <<>> /\ ctl = "waitAdd"
  /\ disp' = IF buffer # {} THEN "last" ELSE "done"
  /\ UNCHANGED <<job, ctl, todo, held, snap, addc, buffer, write, wr, cur,
                 pending, batch, db, failed>>

DispatchLast ==
  /\ disp = "last"
  /\ Len(write) < WriteCap
  /\ write' = Append(write, buffer)
  /\ buffer' = {}
  /\ disp' = "done"
  /\ UNCHANGED <<job, ctl, todo, held, snap, addc, wr, cur, pending, batch, db,
                 failed>>

-----------------------------------------------------------------------------
(* Mutant: the buffer is keyed by id instead of by bunch id.               *)
MutWriterRecv ==
  /\ wr = "recv"
  /\ write # <<>>
  /\ cur' = Head(write)
  /\ write' = Tail(write)
  /\ pending' = {p[1] : p \in Head(write)}
  /\ batch' = {}
  /\ wr' = "load"
  /\ UNCHANGED <<job, ctl, todo, held, snap, addc, disp, buffer, db, failed>>

(* writer/writeRefs: take a buffer and hand its bunches to the loaders.    *)
WriterRecv ==
  /\ wr = "recv"
  /\ write # <<>>
  /\ cur' = Head(write)
  /\ write' = Tail(write)
  /\ pending' = Bunches(Head(write))
  /\ batch' = {}
  /\ wr' = "load"
  /\ UNCHANGED <<job, ctl, todo, held, snap, addc, disp, buffer, db, failed>>

(* Mutant: the bunch is written as collected, without what is stored.      *)
MutLoadMerge(b) ==
  /\ wr = "load"
  /\ b \in pending
  /\ batch' = batch \cup InBunch(cur, b)
  /\ pending' = pending \ {b}
  /\ UNCHANGED <<job, ctl, todo, held, snap, addc, disp, buffer, write, wr, cur,
                 db, failed>>

(* loadMergeMarshal by one of the loaders, and batch.Put of the result.    *)
LoadMerge(b) ==
  /\ wr = "load"
  /\ b \in pending
  /\ batch' = batch \cup InBunch(db, b) \cup InBunch(cur, b)
  /\ pending' = pending \ {b}
  /\ UNCHANGED <<job, ctl, todo, held, snap, addc, disp, buffer, write, wr, cur,
                 db, failed>>

(* putc is closed and drained: db.Write applies the batch atomically ...   *)
BatchWrite ==
  /\ wr = "load" /\ pending = {}
  /\ db' = {p \in db : BunchOf[p[1]] \notin Bunches(cur)} \cup batch
  /\ cur' = {}
  /\ batch' = {}
  /\ wr' = "recv"
  /\ UNCHANGED <<job, ctl, todo, held, snap, addc, disp, buffer, write, pending,
                 failed>>

(* Mutant: a batch that could not be written is merged again.              *)
MutBatchWriteError ==
  /\ wr = "load" /\ pending = {}
  /\ DbErrors
  /\ pending' = Bunches(cur)
  /\ batch' = {}
  /\ UNCHANGED <<job, ctl, todo, held, snap, addc, disp, buffer, write, wr, cur,
                 db, failed>>

(* ... or fails, which is logged; the loop goes on with the next buffer.   *)
BatchWriteError ==
  /\ wr = "load" /\ pending = {}
  /\ DbErrors
  /\ failed' = failed \cup cur
  /\ cur' = {}
  /\ batch' = {}
  /\ wr' = "recv"
  /\ UNCHANGED <<job, ctl, todo, held, snap, addc, disp, buffer, write, pending,
                 db>>

WriterDrained ==
  /\ wr = "recv"
  /\ write = <<>> /\ ctl = "waitWrite"
  /\ wr' = "done"
  /\ UNCHANGED <<job, ctl, todo, held, snap, addc, disp, buffer, write, cur,
                 pending, batch, db, failed>>

-----------------------------------------------------------------------------
(* Close, called after Wait returned for every element writer.  In linear  *)
(* mode SetLinearImport(false) closes addc, waits for dispatch, closes     *)
(* write, and waits for the writer goroutine.                              *)
WritersDone == \A w \in Writer : todo[w] = {} /\ held[w] = {}

CloseAdd ==
  /\ ctl = "running" /\ Linear
  /\ WritersDone
  /\ ctl' = "waitAdd"
  /\ UNCHANGED <<todo, held, snap, db, linearVars>>

CloseWrite ==
  /\ ctl = "waitAdd"
  /\ disp = "done"
  /\ ctl' = "waitWrite"
  /\ UNCHANGED <<todo, held, snap, db, linearVars>>

(* Mutant: does not wait for waitWrite.                                    *)
MutCloseLinear ==
  /\ ctl = "waitWrite"
  /\ ctl' = "closed"
  /\ UNCHANGED <<todo, held, snap, db, linearVars>>

CloseLinear ==
  /\ ctl = "waitWrite"
  /\ wr = "done"
  /\ ctl' = "closed"
  /\ UNCHANGED <<todo, held, snap, db, linearVars>>

CloseDirect ==
  /\ ctl = "running" /\ ~Linear
  /\ WritersDone
  /\ ctl' = "closed"
  /\ UNCHANGED <<todo, held, snap, db, linearVars>>

Closed == ctl = "closed" /\ UNCHANGED vars

Adding == \E w \in Writer : SendAdd(w) \/ AddGet(w) \/ AddPut(w) \/ AddError(w)
Dispatching == DispatchRecv \/ DispatchSend \/ DispatchDrained \/ DispatchLast
Writing == \/ WriterRecv \/ BatchWrite \/ BatchWriteError \/ WriterDrained
           \/ \E b \in Bunch : LoadMerge(b)
Closing == CloseAdd \/ CloseWrite \/ CloseLinear \/ CloseDirect

Next ==
  \/ StartLinear \/ StartDirect
  \/ Adding
  \/ Dispatching
  \/ Writing
  \/ Closing
  \/ Closed

Spec == Init /\ [][Next]_vars

(* Every goroutine that can run does run in the end; which of the element  *)
(* writers gets a free slot of addc is left to the Go scheduler.           *)
Fairness ==
  /\ WF_vars(StartLinear \/ StartDirect)
  /\ WF_vars(Adding)
  /\ WF_vars(Dispatching)
  /\ WF_vars(Writing)
  /\ WF_vars(Closing)

FairSpec == Spec /\ Fairness

-----------------------------------------------------------------------------
TypeOK ==
  /\ job \in Jobs
  /\ ctl \in {"open", "running", "waitAdd", "waitWrite", "closed"}
  /\ todo \in [Writer -> SUBSET Pair]
  /\ held \in [Writer -> SUBSET Pair]
  /\ snap \in [Writer -> SUBSET Pair]
  /\ addc \in Seq(Pair)
  /\ disp \in {"off", "recv", "send", "last", "done"}
  /\ buffer \subseteq Pair
  /\ write \in Seq(SUBSET Pair)
  /\ wr \in {"off", "recv", "load", "done"}
  /\ cur \subseteq Pair
  /\ pending \subseteq Bunch
  /\ batch \subseteq Pair
  /\ db \subseteq Pair
  /\ failed \subseteq Pair

Added == UNION {Work[w] \ todo[w] : w \in Writer}
InFlight == Elems(addc) \cup buffer \cup (UNION Elems(write)) \cup cur

(* A reference that an element writer has handed over is at every moment   *)
(* in a channel, in the buffer, in the batch being merged, in LevelDB, or  *)
(* its database call returned an error: the hand-overs between the three   *)
(* goroutines drop nothing, at whatever sizes the channels have.           *)
NothingLost == Added \subseteq InFlight \cup db \cup failed

(* The strengthening that makes NothingLost and IndexComplete inductive in *)
(* linear mode: a bunch merged into the batch covers what LevelDB and the  *)
(* buffer hold of it, and each stage is drained before the next one stops. *)
Merged ==
  wr = "load" =>
    \A p \in db \cup cur : BunchOf[p[1]] \in Bunches(cur) \ pending => p \in batch

ShutdownOrder ==
  /\ ctl = "open" => wr = "off"
  /\ ctl \in {"waitAdd", "waitWrite", "closed"} => WritersDone
  /\ ctl \in {"waitWrite", "closed"} => disp = "done"
  /\ ctl = "closed" => wr = "done"
  /\ disp = "last" => addc = <<>> /\ ctl = "waitAdd"
  /\ disp = "done" => addc = <<>> /\ buffer = {}
  /\ disp = "done" => ctl \in {"waitAdd", "waitWrite", "closed"}
  /\ wr = "done" => write = <<>> /\ ctl \in {"waitWrite", "closed"}
  /\ wr # "load" => cur = {}

NoDirectAdd == \A w \in Writer : held[w] = {}

LinearInv == TypeOK /\ NothingLost /\ Merged /\ ShutdownOrder /\ NoDirectAdd

(* When Close has returned, LevelDB holds every reference of every         *)
(* inserted element (or its database call returned an error), and what was *)
(* stored before: "Stores which ways a coord references" (diff.go:20).     *)
IndexComplete ==
  ctl = "closed" => Stored \cup (UNION {Work[w] : w \in Writer}) \subseteq db \cup failed

(* Merging bunches and writing them back never removes a reference.        *)
RefsOnlyGrow == [][db \subseteq db']_vars

(* The three-goroutine shutdown of SetLinearImport(false) always completes. *)
EventuallyClosed == <>(ctl = "closed")
=============================================================================
