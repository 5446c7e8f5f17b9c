------------------------------ MODULE ReadPbf ------------------------------
(***************************************************************************)
(* Reading a PBF file into the caches (reader/reader.go).  Parser          *)
(* goroutines turn the blocks of the file into batches and send them       *)
(* through four bounded channels to the coords, nodes, ways and relations  *)
(* goroutines, which drop what is outside of the -limitto geometry and     *)
(* store the rest.                                                         *)
(*                                                                         *)
(* A way is kept if its first node was kept, a relation if its first way   *)
(* or node was.  So no way may be looked at before all nodes are stored,   *)
(* and no relation before all ways.  The parser calls OnFirstWay and       *)
(* OnFirstRelation when all its goroutines have reached a way (relation)   *)
(* or the end of the file; the callbacks send one nil to each worker and   *)
(* wait till every worker has got its nil.                                 *)
(*                                                                         *)
(* The parser and its barrier are those of go-osm (parser/pbf, vendored).  *)
(* A block stands for a block with one group of elements.                  *)
(***************************************************************************)
EXTENDS Naturals, Sequences, FiniteSets

CONSTANTS
  Parser,        \* goroutines of the PBF parser
  Worker,        \* goroutines that fill the caches
  Reads,         \* [Worker -> Chan]: the channel a worker ranges over
  ChanCap,       \* capacity of the channels (4 in the code)
  Elem,          \* ids of nodes, ways and relations
  Files,         \* files to read: sequences of blocks
  Inside,        \* nodes inside the buffered -limitto geometry
  Raw,           \* nodes with tags in the file
  Tagged,        \* nodes and relations with tags after the tag filter
  FirstRef,      \* way -> its first node, or NoRef
  FirstMember,   \* relation -> its first way or node member, or NoRef
  NoRef,
  ErrorKinds     \* LevelDB errors that may happen, each at most once: subset of
                 \* {"lookup", "put"}

Chan == {"coords", "nodes", "ways", "relations"}
Barrier == {"ways", "relations"}      \* OnFirstWay, OnFirstRelation
Nil == [nil |-> TRUE]
Batch(es) == [nil |-> FALSE, elems |-> es]

(* A block is fine, cannot be read from the file (nextBlock fails, or it   *)
(* is not of type OSMData), or is read but cannot be decoded.              *)
Block == [kind : {"nodes", "ways", "relations"}, elems : SUBSET Elem,
          state : {"fine", "unreadable", "undecodable"}]

(* readersForCpus starts at least one goroutine of each sort.              *)
ASSUME ReadsAssumption ==
  /\ IsFiniteSet(Worker) /\ Reads \in [Worker -> Chan]
  /\ \A c \in Chan : \E w \in Worker : Reads[w] = c
  /\ Parser # {}
ASSUME ChanCapAssumption == ChanCap \in Nat \ {0}
ASSUME FilesAssumption == Files \subseteq Seq(Block)

VARIABLES
  file,       \* the file being read
  limiter,    \* -limitto is used
  input,      \* blocks not yet handed to a parser goroutine
  todo,       \* todo[p]: steps left of parser goroutine p for its block
  arrived,    \* arrived[b]: parser goroutines that wait at barrier b
  nils,       \* nils[b]: number of nils the callback of b has sent
  synced,     \* synced[b]: the callback of b has returned
  chan,       \* chan[c]: batches and nils in the channel
  closed,     \* the parser has closed the channels
  pending,    \* pending[b]: workers coordsSync (waysSync) still waits for
  pc,         \* pc[w]: "idle", "wait" (in Wait), "batch" or "exit"
  hand,       \* hand[w]: the batch in the hands of worker w
  cache,      \* cache[c]: ids stored in the cache
  errors,     \* errors that have happened
  status      \* "reading", "done" or "failed" (log.Fatal)

parse == <<file, limiter, input, todo, arrived, nils, synced>>
work  == <<pending, pc, hand, cache, errors>>
vars  == <<parse, chan, closed, work, status>>

(* The workers the callback of a barrier stops, and the order it sends     *)
(* their nils in.                                                          *)
Stopped(b) == IF b = "ways" THEN {"coords", "nodes"} ELSE {"ways"}
WorkersOf(c) == {w \in Worker : Reads[w] = c}
StoppedWorkers(b) == UNION {WorkersOf(c) : c \in Stopped(b)}

MutNilChan(b, k) == IF b = "relations" THEN "ways" ELSE "coords"

NilChan(b, k) ==
  IF b = "relations" THEN "ways"
  ELSE IF k < Cardinality(WorkersOf("coords")) THEN "coords" ELSE "nodes"

(* What a parser goroutine does for a block, and at the end of the blocks. *)
SendStep(c, es) == IF es = {} THEN <<>> ELSE <<[op |-> "send", to |-> c, elems |-> es]>>
SyncStep(b) == [op |-> "sync", to |-> b]
ExitStep == [op |-> "exit"]

(* A block that cannot be decoded is left out: Parse ignores the error.    *)
parseBlock(block) ==
  IF block.state = "undecodable" THEN <<>>
  ELSE CASE block.kind = "nodes" ->
              SendStep("coords", block.elems) \o SendStep("nodes", block.elems \cap Raw)
         [] block.kind = "ways" ->
              <<SyncStep("ways")>> \o SendStep("ways", block.elems)
         [] block.kind = "relations" ->
              <<SyncStep("ways"), SyncStep("relations")>> \o SendStep("relations", block.elems)

AtEnd == <<SyncStep("ways"), SyncStep("relations"), ExitStep>>
---------------------------------------------------------------------------
Init ==
  /\ file \in Files
  /\ limiter \in BOOLEAN
  /\ input = file
  /\ todo = [p \in Parser |-> <<>>]
  /\ arrived = [b \in Barrier |-> {}]
  /\ nils = [b \in Barrier |-> 0]
  /\ synced = [b \in Barrier |-> FALSE]
  /\ chan = [c \in Chan |-> <<>>]
  /\ closed = FALSE
  /\ pending = [b \in Barrier |-> StoppedWorkers(b)]
  /\ pc = [w \in Worker |-> "idle"]
  /\ hand = [w \in Worker |-> {}]
  /\ cache = [c \in Chan |-> {}]
  /\ errors = {}
  /\ status = "reading"

(* The parser.  A goroutine takes the next block, or finds the channel of  *)
(* blocks closed; a block that cannot be read ends the program.            *)
TakeBlock(p) ==
  /\ status = "reading" /\ todo[p] = <<>> /\ input # <<>>
  /\ Head(input).state # "unreadable"
  /\ todo' = [todo EXCEPT ![p] = parseBlock(Head(input))]
  /\ input' = Tail(input)
  /\ UNCHANGED <<file, limiter, arrived, nils, synced, chan, closed, work, status>>

EndOfBlocks(p) ==
  /\ status = "reading" /\ todo[p] = <<>> /\ input = <<>> /\ ~closed
  /\ todo' = [todo EXCEPT ![p] = AtEnd]
  /\ UNCHANGED <<file, limiter, input, arrived, nils, synced, chan, closed, work, status>>

ReadError ==
  /\ status = "reading" /\ input # <<>> /\ Head(input).state = "unreadable"
  /\ status' = "failed"
  /\ UNCHANGED <<parse, chan, closed, work>>

Step(p, op) == status = "reading" /\ todo[p] # <<>> /\ Head(todo[p]).op = op
MutRoom(c) == Len(chan[c]) <= ChanCap
Room(c) == Len(chan[c]) < ChanCap

SendBatch(p) ==
  /\ Step(p, "send")
  /\ LET s == Head(todo[p]) IN
       /\ Room(s.to)
       /\ chan' = [chan EXCEPT ![s.to] = Append(@, Batch(s.elems))]
  /\ todo' = [todo EXCEPT ![p] = Tail(@)]
  /\ UNCHANGED <<file, limiter, input, arrived, nils, synced, closed, work, status>>

(* barrier.doneWait: nothing to wait for once the callback has returned.   *)
DoneWait(p) ==
  /\ Step(p, "sync")
  /\ LET b == Head(todo[p]).to IN
       IF synced[b]
         THEN /\ todo' = [todo EXCEPT ![p] = Tail(@)]
              /\ UNCHANGED arrived
         ELSE /\ p \notin arrived[b]
              /\ arrived' = [arrived EXCEPT ![b] = @ \cup {p}]
              /\ UNCHANGED todo
  /\ UNCHANGED <<file, limiter, input, nils, synced, chan, closed, work, status>>

(* The callback, run by one of the goroutines when all have arrived.       *)
OnFirstNil(b) ==
  /\ status = "reading" /\ arrived[b] = Parser
  /\ nils[b] < Cardinality(StoppedWorkers(b))
  /\ LET c == NilChan(b, nils[b]) IN
       /\ Room(c)
       /\ chan' = [chan EXCEPT ![c] = Append(@, Nil)]
  /\ nils' = [nils EXCEPT ![b] = @ + 1]
  /\ UNCHANGED <<file, limiter, input, todo, arrived, synced, closed, work, status>>

MutOnFirstDone(b) ==
  /\ status = "reading" /\ ~synced[b]
  /\ nils[b] = Cardinality(StoppedWorkers(b))
  /\ synced' = [synced EXCEPT ![b] = TRUE]
  /\ UNCHANGED <<file, limiter, input, todo, arrived, nils, chan, closed, work, status>>

OnFirstDone(b) ==
  /\ status = "reading" /\ ~synced[b] /\ arrived[b] = Parser
  /\ nils[b] = Cardinality(StoppedWorkers(b))
  /\ pending[b] = {}
  /\ synced' = [synced EXCEPT ![b] = TRUE]
  /\ UNCHANGED <<file, limiter, input, todo, arrived, nils, chan, closed, work, status>>

(* All goroutines have ended: the parser closes the channels and returns.  *)
CloseChans ==
  /\ status = "reading" /\ ~closed
  /\ \A p \in Parser : todo[p] = <<ExitStep>>
  /\ closed' = TRUE
  /\ UNCHANGED <<parse, chan, work, status>>
---------------------------------------------------------------------------
(* The workers.                                                            *)
BarrierOf(c) == CHOOSE b \in Barrier : c \in Stopped(b)

MutAfterNil == "idle"
AfterNil == "wait"

Take(w) ==
  LET c == Reads[w]
      m == Head(chan[c])
  IN /\ status = "reading" /\ pc[w] = "idle" /\ chan[c] # <<>>
     /\ chan' = [chan EXCEPT ![c] = Tail(@)]
     /\ IF m.nil
          THEN /\ pending' = [pending EXCEPT ![BarrierOf(c)] = @ \ {w}]
               /\ pc' = [pc EXCEPT ![w] = AfterNil]
               /\ UNCHANGED hand
          ELSE /\ hand' = [hand EXCEPT ![w] = m.elems]
               /\ pc' = [pc EXCEPT ![w] = "batch"]
               /\ UNCHANGED pending
     /\ UNCHANGED <<parse, closed, cache, errors, status>>

(* coordsSync.Wait() and waysSync.Wait() in a worker.                      *)
Resume(w) ==
  /\ status = "reading" /\ pc[w] = "wait"
  /\ pending[BarrierOf(Reads[w])] = {}
  /\ pc' = [pc EXCEPT ![w] = "idle"]
  /\ UNCHANGED <<parse, chan, closed, pending, hand, cache, errors, status>>

Exit(w) ==
  /\ status = "reading" /\ pc[w] = "idle" /\ closed /\ chan[Reads[w]] = <<>>
  /\ pc' = [pc EXCEPT ![w] = "exit"]
  /\ UNCHANGED <<parse, chan, closed, pending, hand, cache, errors, status>>

MutFirstIsCached(e, c) ==
  IF c = "ways" THEN FirstRef[e] \in cache["coords"]
                ELSE FirstMember[e] \in cache["coords"] \cup cache["ways"]

(* Coords.FirstRefIsCached and FirstMemberIsCached: no ref is not cached,  *)
(* no member is.                                                           *)
FirstIsCached(e, c) ==
  IF c = "ways" THEN FirstRef[e] \in cache["coords"]
                ELSE FirstMember[e] \in cache["coords"] \cup cache["ways"] \cup {NoRef}

(* The elements of a batch the limiter lets through; the lookups of failed *)
(* return an error, and the element is kept.                               *)
Kept(es, c, failed) ==
  {e \in es : \/ ~limiter
              \/ IF c \in {"coords", "nodes"}
                   THEN e \in Inside
                   ELSE FirstIsCached(e, c) \/ e \in failed}

(* PutNodes and PutRelations skip elements without tags.                   *)
Stored(es, c) == IF c \in {"nodes", "relations"} THEN es \cap Tagged ELSE es

CanFail(kind) == kind \in ErrorKinds \ errors

Process(w) ==
  /\ status = "reading" /\ pc[w] = "batch"
  /\ LET c == Reads[w]
         es == hand[w]
     IN \E failed \in {{}} \cup (IF CanFail("lookup") /\ limiter /\ c \in {"ways", "relations"}
                                   THEN {{e} : e \in es} ELSE {}) :
          /\ cache' = [cache EXCEPT ![c] = @ \cup Stored(Kept(es, c, failed), c)]
          /\ errors' = IF failed = {} THEN errors ELSE errors \cup {"lookup"}
  /\ hand' = [hand EXCEPT ![w] = {}]
  /\ pc' = [pc EXCEPT ![w] = "idle"]
  /\ UNCHANGED <<parse, chan, closed, pending, status>>

(* A failed Put is at most logged.  Coords are put bunch by bunch, the     *)
(* others in one LevelDB batch.                                            *)
PutError(w) ==
  /\ status = "reading" /\ pc[w] = "batch"
  /\ CanFail("put")
  /\ LET c == Reads[w]
         es == hand[w]
     IN \E part \in IF c = "coords" THEN SUBSET Kept(es, c, {}) ELSE {{}} :
          cache' = [cache EXCEPT ![c] = @ \cup part]
  /\ errors' = errors \cup {"put"}
  /\ hand' = [hand EXCEPT ![w] = {}]
  /\ pc' = [pc EXCEPT ![w] = "idle"]
  /\ UNCHANGED <<parse, chan, closed, pending, status>>

(* waitWriter.Wait(), and ReadPbf returns.                                 *)
Return ==
  /\ status = "reading" /\ closed
  /\ \A w \in Worker : pc[w] = "exit"
  /\ status' = "done"
  /\ UNCHANGED <<parse, chan, closed, work>>

ParserNext ==
  \/ \E p \in Parser : TakeBlock(p) \/ EndOfBlocks(p) \/ SendBatch(p) \/ DoneWait(p)
  \/ ReadError
  \/ \E b \in Barrier : OnFirstNil(b) \/ OnFirstDone(b)
  \/ CloseChans

WorkerNext ==
  \E w \in Worker : Take(w) \/ Resume(w) \/ Exit(w) \/ Process(w) \/ PutError(w)

Next == ParserNext \/ WorkerNext \/ Return

Spec == Init /\ [][Next]_vars

(* The Go scheduler runs every goroutine that can run; a block or a batch  *)
(* is used up by every step, so fairness of the whole is enough.           *)
FairSpec == Spec /\ WF_vars(Next)
---------------------------------------------------------------------------
(* Properties.                                                             *)

TypeOK ==
  /\ file \in Files /\ limiter \in BOOLEAN
  /\ Len(input) <= Len(file)
  /\ \A i \in DOMAIN input : input[i] = file[i + (Len(file) - Len(input))]
  /\ \A c \in Chan : Len(chan[c]) <= ChanCap
  /\ \A b \in Barrier : /\ arrived[b] \subseteq Parser
                        /\ nils[b] <= Cardinality(StoppedWorkers(b))
                        /\ pending[b] \subseteq StoppedWorkers(b)
                        /\ synced[b] \in BOOLEAN
  /\ \A w \in Worker : /\ pc[w] \in {"idle", "wait", "batch", "exit"}
                       /\ hand[w] # {} <=> pc[w] = "batch"
  /\ closed \in BOOLEAN /\ errors \subseteq ErrorKinds
  /\ status \in {"reading", "done", "failed"}

(* Blocks ordered by type, as the barriers require.                        *)
Rank(kind) == CASE kind = "nodes" -> 1 [] kind = "ways" -> 2 [] kind = "relations" -> 3
Sorted(f) == \A i, j \in DOMAIN f : i < j => Rank(f[i].kind) <= Rank(f[j].kind)

(* Some batch for channel c is still to be sent, in the channel, or in the *)
(* hands of a worker.                                                      *)
Outstanding(c) ==
  \/ \E i \in DOMAIN input : IF c = "ways" THEN input[i].kind = "ways"
                                           ELSE input[i].kind = "nodes"
  \/ \E p \in Parser : \E i \in DOMAIN todo[p] : todo[p][i].op = "send" /\ todo[p][i].to = c
  \/ \E i \in DOMAIN chan[c] : ~chan[c][i].nil
  \/ \E w \in WorkersOf(c) : pc[w] = "batch"

(* While a worker holds a batch of ways (relations) of an ordered file, no *)
(* node (way) is left anywhere between the file and its cache: "wait for   *)
(* all coords/nodes to be processed before continuing with ways"           *)
(* (reader.go:77), for relations reader.go:90.                             *)
PhasesInOrder ==
  Sorted(file) =>
    \A w \in Worker, b \in Barrier :
      (Reads[w] = b /\ pc[w] = "batch")
        => \A c \in Stopped(b) : ~Outstanding(c)

(* Every worker takes one nil: whoever can take a nil is still waited for, *)
(* so that coordsSync and waysSync never get more Done calls than Adds     *)
(* (which panics), and no worker is left without a nil.                    *)
OneNilEach ==
  \A w \in Worker :
    (pc[w] = "idle" /\ chan[Reads[w]] # <<>> /\ Head(chan[Reads[w]]).nil)
      => w \in pending[BarrierOf(Reads[w])]

(* What should be cached of a file, from the geometry and the blocks that  *)
(* can be decoded alone.                                                   *)
ElemsOf(kind) ==
  UNION {file[i].elems : i \in {j \in DOMAIN file : file[j].kind = kind /\ file[j].state = "fine"}}
NodesIn == IF limiter THEN ElemsOf("nodes") \cap Inside ELSE ElemsOf("nodes")
WaysIn == {e \in ElemsOf("ways") : limiter => FirstRef[e] \in NodesIn}
RelsIn == {e \in ElemsOf("relations") \cap Tagged :
             limiter => FirstMember[e] \in NodesIn \cup WaysIn \cup {NoRef}}
Expected == [c \in Chan |->
               CASE c = "coords" -> NodesIn
                 [] c = "nodes" -> NodesIn \cap Raw \cap Tagged
                 [] c = "ways" -> WaysIn
                 [] c = "relations" -> RelsIn]

(* When ReadPbf returns, the caches hold what the limit selects of the     *)
(* decodable blocks of an ordered file: nothing less unless a put failed   *)
(* ("don't skip in case of error", reader.go:140 and 178), and nothing     *)
(* more unless a lookup or a put failed.  A block that cannot be decoded   *)
(* costs its own elements, and those the limit selects by them, though     *)
(* ReadPbf returns no error; it costs no others, and the barriers hold.    *)
LimitExact ==
  (status = "done" /\ Sorted(file)) =>
    \A c \in Chan : /\ "put" \notin errors => Expected[c] \subseteq cache[c]
                    /\ errors = {} => cache[c] \subseteq Expected[c]

(* Reading ends: the parser, the callbacks and the workers never wait for  *)
(* each other for good, whatever the order of the blocks in the file, and  *)
(* also for files without ways or relations.                               *)
Termination == <>(status # "reading")
=============================================================================
