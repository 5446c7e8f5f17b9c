--------------------------- MODULE RefIndexProofs ---------------------------
(***************************************************************************)
(* Proofs about the reference index, for any ids, any number of element    *)
(* writers and any channel and buffer sizes.                               *)
(***************************************************************************)
EXTENDS RefIndex, TLAPS

(* What a channel holds after a send ...                                   *)
LEMMA ElemsAppend ==
  ASSUME NEW S, NEW s \in Seq(S), NEW e \in S
  PROVE  Elems(Append(s, e)) = Elems(s) \cup {e}
BY DEF Elems

(* ... and before a receive.                                               *)
LEMMA ElemsHeadTail ==
  ASSUME NEW S, NEW s \in Seq(S), s # <<>>
  PROVE  Elems(s) = {Head(s)} \cup Elems(Tail(s))
<1>1. /\ Len(s) \in Nat \ {0}
      /\ Len(Tail(s)) = Len(s) - 1
      /\ \A i \in 1..Len(Tail(s)) : Tail(s)[i] = s[i + 1]
      /\ Head(s) = s[1]
  OBVIOUS
<1>2. ASSUME NEW i \in 1..Len(s)
      PROVE  s[i] \in {Head(s)} \cup Elems(Tail(s))
  <2>1. CASE i = 1
    BY <1>1, <2>1
  <2>2. CASE i # 1
    <3>1. i - 1 \in 1..Len(Tail(s)) /\ Tail(s)[i - 1] = s[i]
      BY <1>1, <2>2
    <3>2. QED BY <3>1 DEF Elems
  <2>3. QED BY <2>1, <2>2
<1>3. ASSUME NEW i \in 1..Len(Tail(s))
      PROVE  Tail(s)[i] \in Elems(s)
  <2>1. i + 1 \in 1..Len(s)
    BY <1>1
  <2>2. QED BY <1>1, <2>1 DEF Elems
<1>4. Head(s) \in Elems(s)
  BY <1>1 DEF Elems
<1>5. QED BY <1>2, <1>3, <1>4 DEF Elems

(* A closed and drained channel holds nothing.                             *)
LEMMA ElemsEmpty == Elems(<<>>) = {}
BY DEF Elems

-----------------------------------------------------------------------------
(* The variables keep their types: in particular every buffer that passes  *)
(* through the write channel is a set of references.                       *)
THEOREM TypeCorrect == Spec => []TypeOK
<1> USE RefIndexAssumption
<1>1. Init => TypeOK
  BY DEF Init, TypeOK, Work
<1>2. TypeOK /\ [Next]_vars => TypeOK'
  <2> SUFFICES ASSUME TypeOK, [Next]_vars
               PROVE  TypeOK'
    OBVIOUS
  <2>1. CASE StartLinear \/ StartDirect
    BY <2>1 DEF StartLinear, StartDirect, TypeOK, linearVars
  <2>2. ASSUME NEW w \in Writer, SendAdd(w)
        PROVE  TypeOK'
    BY <2>2 DEF SendAdd, TypeOK
  <2>3. ASSUME NEW w \in Writer, AddGet(w)
        PROVE  TypeOK'
    BY <2>3 DEF AddGet, TypeOK, linearVars, InBunch
  <2>4. ASSUME NEW w \in Writer, AddPut(w) \/ AddError(w)
        PROVE  TypeOK'
    <3>1. db' \subseteq Pair /\ failed' \subseteq Pair
      BY <2>4 DEF AddPut, AddError, TypeOK, linearVars, InBunch
    <3>2. /\ todo' \in [Writer -> SUBSET Pair]
          /\ held' \in [Writer -> SUBSET Pair]
          /\ snap' \in [Writer -> SUBSET Pair]
      <4>1. todo[w] \ held[w] \in SUBSET Pair
        BY DEF TypeOK
      <4>2. /\ todo' = [todo EXCEPT ![w] = todo[w] \ held[w]]
            /\ held' = [held EXCEPT ![w] = {}]
            /\ snap' = [snap EXCEPT ![w] = {}]
        BY <2>4, Zenon DEF AddPut, AddError
      <4>3. QED BY <4>1, <4>2 DEF TypeOK
    <3>3. QED BY <2>4, <3>1, <3>2 DEF AddPut, AddError, TypeOK, linearVars
  <2>5. CASE DispatchRecv
    BY <2>5 DEF DispatchRecv, TypeOK
  <2>6. CASE DispatchSend \/ DispatchDrained \/ DispatchLast
    <3>1. Append(write, buffer) \in Seq(SUBSET Pair)
      BY DEF TypeOK
    <3>2. QED BY <2>6, <3>1, Zenon DEF DispatchSend, DispatchDrained, DispatchLast, TypeOK
  <2>7. CASE WriterRecv
    <3>1. Head(write) \in SUBSET Pair /\ Tail(write) \in Seq(SUBSET Pair)
      BY <2>7 DEF WriterRecv, TypeOK
    <3>2. Bunches(Head(write)) \subseteq Bunch
      BY <3>1 DEF Bunches, Pair
    <3>3. QED BY <2>7, <3>1, <3>2 DEF WriterRecv, TypeOK
  <2>8. ASSUME NEW b \in Bunch, LoadMerge(b)
        PROVE  TypeOK'
    BY <2>8 DEF LoadMerge, TypeOK, InBunch
  <2>9. CASE BatchWrite \/ BatchWriteError \/ WriterDrained
    BY <2>9 DEF BatchWrite, BatchWriteError, WriterDrained, TypeOK
  <2>10. CASE Closing
    BY <2>10 DEF Closing, CloseAdd, CloseWrite, CloseLinear, CloseDirect, TypeOK,
                 linearVars
  <2>11. CASE Closed \/ UNCHANGED vars
    BY <2>11 DEF Closed, vars, TypeOK
  <2>12. QED
    BY <2>1, <2>2, <2>3, <2>4, <2>5, <2>6, <2>7, <2>8, <2>9, <2>10, <2>11
    DEF Next, Adding, Dispatching, Writing
<1>3. QED BY <1>1, <1>2, PTL DEF Spec

-----------------------------------------------------------------------------
(* An index is used for one job until it is closed.                        *)
LEMMA JobFixed ==
  ASSUME [Next]_vars
  PROVE  job' = job
BY DEF Next, vars, linearVars, StartLinear, StartDirect, Adding, SendAdd, AddGet, AddPut,
       AddError, Dispatching, DispatchRecv, DispatchSend, DispatchDrained, DispatchLast,
       Writing, WriterRecv, LoadMerge, BatchWrite, BatchWriteError, WriterDrained,
       Closing, CloseAdd, CloseWrite, CloseLinear, CloseDirect, Closed

(* The steps of an index in linear mode keep the invariant.                *)
LEMMA LinearStep ==
  ASSUME Linear, LinearInv, [Next]_vars, TypeOK'
  PROVE  LinearInv'
<1>0. Work' = Work
  BY JobFixed DEF Work
<1> USE RefIndexAssumption, <1>0
<1>1. CASE StartLinear \/ StartDirect
  <2>1. StartLinear
    BY <1>1 DEF StartDirect
  <2>2. NothingLost'
    BY <2>1 DEF StartLinear, LinearInv, NothingLost, Added, InFlight
  <2>3. ShutdownOrder' /\ Merged' /\ NoDirectAdd'
    BY <2>1 DEF StartLinear, LinearInv, ShutdownOrder, Merged, NoDirectAdd
  <2>4. QED BY <2>2, <2>3 DEF LinearInv
<1>2. ASSUME NEW w \in Writer, SendAdd(w)
      PROVE  LinearInv'
  <2>1. PICK p \in todo[w] :
          /\ addc' = Append(addc, p)
          /\ todo' = [todo EXCEPT ![w] = @ \ {p}]
    BY <1>2, Zenon DEF SendAdd
  <2>2. Elems(addc') = Elems(addc) \cup {p}
    <3>1. addc \in Seq(Pair) /\ p \in Pair
      BY <2>1 DEF LinearInv, TypeOK
    <3>2. QED BY <2>1, <3>1, ElemsAppend
  <2>3. Added' \subseteq Added \cup {p}
    BY <2>1 DEF Added, LinearInv, TypeOK
  <2>4. NothingLost'
    BY <1>2, <2>2, <2>3 DEF SendAdd, LinearInv, NothingLost, InFlight
  <2>5. ShutdownOrder'
    BY <1>2 DEF SendAdd, LinearInv, ShutdownOrder
  <2>6. Merged' /\ NoDirectAdd'
    BY <1>2 DEF SendAdd, LinearInv, Merged, NoDirectAdd
  <2>7. QED BY <2>4, <2>5, <2>6 DEF LinearInv
<1>3. ASSUME NEW w \in Writer, AddGet(w) \/ AddPut(w) \/ AddError(w)
      PROVE  LinearInv'
  BY <1>3 DEF AddGet, AddPut, AddError, LinearInv, NoDirectAdd
<1>4. CASE DispatchRecv
  <2>1. Elems(addc) = {Head(addc)} \cup Elems(addc')
    <3>1. addc \in Seq(Pair) /\ addc # <<>>
      BY <1>4 DEF DispatchRecv, LinearInv, TypeOK
    <3>2. QED BY <1>4, <3>1, ElemsHeadTail DEF DispatchRecv
  <2>2. InFlight' = InFlight /\ Added' = Added
    BY <1>4, <2>1 DEF DispatchRecv, InFlight, Added
  <2>3. NothingLost'
    BY <1>4, <2>2 DEF DispatchRecv, LinearInv, NothingLost
  <2>4. ShutdownOrder' /\ Merged' /\ NoDirectAdd'
    BY <1>4 DEF DispatchRecv, LinearInv, ShutdownOrder, WritersDone, Merged, NoDirectAdd
  <2>5. QED BY <2>3, <2>4 DEF LinearInv
<1>5. CASE DispatchSend \/ DispatchLast
  <2>1. Elems(write') = Elems(write) \cup {buffer}
    <3>1. write \in Seq(SUBSET Pair) /\ buffer \in SUBSET Pair
      BY DEF LinearInv, TypeOK
    <3>2. write' = Append(write, buffer)
      BY <1>5 DEF DispatchSend, DispatchLast
    <3>3. Elems(Append(write, buffer)) = Elems(write) \cup {buffer}
      BY <3>1, ElemsAppend
    <3>4. QED BY <3>2, <3>3
  <2>2. InFlight \subseteq InFlight' /\ Added' = Added
    BY <1>5, <2>1 DEF DispatchSend, DispatchLast, InFlight, Added
  <2>3. NothingLost'
    BY <1>5, <2>2 DEF DispatchSend, DispatchLast, LinearInv, NothingLost
  <2>4. ctl \notin {"waitWrite", "closed"} /\ wr # "done"
    BY <1>5 DEF DispatchSend, DispatchLast, LinearInv, ShutdownOrder
  <2>5. DispatchLast => addc = <<>> /\ ctl = "waitAdd"
    BY DEF DispatchLast, LinearInv, ShutdownOrder
  <2>6. ShutdownOrder'
    BY <1>5, <2>4, <2>5 DEF DispatchSend, DispatchLast, LinearInv, ShutdownOrder, WritersDone
  <2>7. Merged' /\ NoDirectAdd'
    BY <1>5 DEF DispatchSend, DispatchLast, LinearInv, Merged, NoDirectAdd
  <2>8. QED BY <2>3, <2>6, <2>7 DEF LinearInv
<1>6. CASE DispatchDrained
  BY <1>6 DEF DispatchDrained, LinearInv, NothingLost, InFlight, Added, Merged,
              ShutdownOrder, WritersDone, NoDirectAdd
<1>7. CASE WriterRecv
  <2>1. Elems(write) = {Head(write)} \cup Elems(write')
    <3>1. write \in Seq(SUBSET Pair) /\ write # <<>>
      BY <1>7 DEF WriterRecv, LinearInv, TypeOK
    <3>2. QED BY <1>7, <3>1, ElemsHeadTail DEF WriterRecv
  <2>2. cur = {} /\ cur' = Head(write)
    BY <1>7 DEF WriterRecv, LinearInv, ShutdownOrder
  <2>3. InFlight \subseteq InFlight' /\ Added' = Added
    BY <1>7, <2>1, <2>2 DEF WriterRecv, InFlight, Added
  <2>4. NothingLost'
    BY <1>7, <2>3 DEF WriterRecv, LinearInv, NothingLost
  <2>5. ShutdownOrder' /\ NoDirectAdd'
    BY <1>7 DEF WriterRecv, LinearInv, ShutdownOrder, WritersDone, NoDirectAdd
  <2>6. Merged'
    BY <1>7 DEF WriterRecv, Merged
  <2>7. QED BY <2>4, <2>5, <2>6 DEF LinearInv
<1>8. ASSUME NEW b \in Bunch, LoadMerge(b)
      PROVE  LinearInv'
  <2>1. NothingLost' /\ ShutdownOrder' /\ NoDirectAdd'
    BY <1>8 DEF LoadMerge, LinearInv, NothingLost, InFlight, Added, ShutdownOrder,
                WritersDone, NoDirectAdd
  <2>2. Merged'
    BY <1>8 DEF LoadMerge, LinearInv, Merged, InBunch
  <2>3. QED BY <2>1, <2>2 DEF LinearInv
<1>9. CASE BatchWrite
  <2>1. cur \subseteq batch
    BY <1>9 DEF BatchWrite, LinearInv, Merged, Bunches
  <2>2. db \subseteq db' /\ cur \subseteq db'
    BY <1>9, <2>1 DEF BatchWrite, LinearInv, Merged
  <2>3. NothingLost'
    BY <1>9, <2>2 DEF BatchWrite, LinearInv, NothingLost, InFlight, Added
  <2>4. ShutdownOrder' /\ Merged' /\ NoDirectAdd'
    BY <1>9 DEF BatchWrite, LinearInv, ShutdownOrder, WritersDone, Merged, NoDirectAdd
  <2>5. QED BY <2>3, <2>4 DEF LinearInv
<1>10. CASE BatchWriteError
  <2>1. NothingLost'
    BY <1>10 DEF BatchWriteError, LinearInv, NothingLost, InFlight, Added
  <2>2. ShutdownOrder' /\ Merged' /\ NoDirectAdd'
    BY <1>10 DEF BatchWriteError, LinearInv, ShutdownOrder, WritersDone, Merged, NoDirectAdd
  <2>3. QED BY <2>1, <2>2 DEF LinearInv
<1>11. CASE WriterDrained
  BY <1>11 DEF WriterDrained, LinearInv, NothingLost, InFlight, Added, Merged,
               ShutdownOrder, WritersDone, NoDirectAdd
<1>12. CASE Closing
  BY <1>12 DEF Closing, CloseAdd, CloseWrite, CloseLinear, CloseDirect, LinearInv,
               NothingLost, InFlight, Added, Merged, ShutdownOrder, WritersDone,
               NoDirectAdd, linearVars
<1>13. CASE Closed \/ UNCHANGED vars
  BY <1>13 DEF Closed, vars, LinearInv, NothingLost, InFlight, Added, Merged,
               ShutdownOrder, WritersDone, NoDirectAdd
<1>14. QED
  BY <1>1, <1>2, <1>3, <1>4, <1>5, <1>6, <1>7, <1>8, <1>9, <1>10, <1>11, <1>12, <1>13
  DEF Next, Adding, Dispatching, Writing

(* Init establishes the invariant: nothing has been added yet.             *)
LEMMA LinearInit == Init => LinearInv
<1> USE RefIndexAssumption
<1> SUFFICES ASSUME Init PROVE LinearInv
  OBVIOUS
<1>1. TypeOK
  BY DEF Init, TypeOK, Work
<1>2. Added = {}
  BY DEF Init, Added, Work
<1>3. QED
  BY <1>1, <1>2 DEF Init, LinearInv, NothingLost, Merged, ShutdownOrder, NoDirectAdd

(* The inductive invariant of linear mode holds throughout.                *)
LEMMA LinearInvariant ==
  Spec /\ []Linear => []LinearInv
<1>1. TypeOK /\ TypeOK' /\ Linear /\ LinearInv /\ [Next]_vars => LinearInv'
  BY LinearStep
<1>2. QED BY <1>1, LinearInit, TypeCorrect, PTL DEF Spec

(* In linear import mode (Coords and Ways during an import) no reference   *)
(* is dropped between AddFromWay/AddFromMembers and LevelDB, for every     *)
(* number of writers and every capacity of addc, write and the buffer.     *)
THEOREM LinearNothingLost ==
  Spec /\ []Linear => []NothingLost
<1>1. LinearInv => NothingLost
  BY DEF LinearInv
<1>2. QED BY <1>1, LinearInvariant, PTL

(* No step of an index in linear mode removes a stored reference.          *)
LEMMA LinearGrow ==
  ASSUME Linear, LinearInv, [Next]_vars
  PROVE  db \subseteq db'
<1>1. CASE BatchWrite
  BY <1>1 DEF BatchWrite, LinearInv, Merged
<1>2. ASSUME NEW w \in Writer, SendAdd(w) \/ AddGet(w) \/ AddPut(w) \/ AddError(w)
      PROVE  db' = db
  BY <1>2 DEF SendAdd, AddGet, AddPut, AddError, LinearInv, NoDirectAdd
<1>3. ASSUME NEW b \in Bunch, LoadMerge(b)
      PROVE  db' = db
  BY <1>3 DEF LoadMerge
<1>4. CASE StartLinear \/ StartDirect \/ Dispatching \/ Closing
  BY <1>4 DEF StartLinear, StartDirect, Dispatching, DispatchRecv, DispatchSend,
              DispatchDrained, DispatchLast, Closing, CloseAdd, CloseWrite,
              CloseLinear, CloseDirect
<1>5. CASE WriterRecv \/ BatchWriteError \/ WriterDrained \/ Closed \/ UNCHANGED vars
  BY <1>5 DEF WriterRecv, BatchWriteError, WriterDrained, Closed, vars
<1>6. QED BY <1>1, <1>2, <1>3, <1>4, <1>5 DEF Next, Adding, Writing

(* In linear import mode a step never removes a stored reference: the      *)
(* batch that replaces a bunch contains all that the bunch held.           *)
THEOREM LinearRefsOnlyGrow ==
  Spec /\ []Linear => RefsOnlyGrow
<1>1. Linear /\ LinearInv /\ [Next]_vars => [db \subseteq db']_vars
  BY LinearGrow
<1>2. QED BY <1>1, LinearInvariant, PTL DEF Spec, RefsOnlyGrow

(* Once Close has returned, LevelDB holds every reference of every         *)
(* inserted element, next to what it held before, but for the batches      *)
(* whose write error was logged.                                           *)
LEMMA LinearComplete == LinearInv /\ Stored \subseteq db => IndexComplete
<1> SUFFICES ASSUME LinearInv, Stored \subseteq db, ctl = "closed"
             PROVE  UNION {Work[w] : w \in Writer} \subseteq db \cup failed
  BY DEF IndexComplete
<1>1. \A w \in Writer : todo[w] = {}
  BY DEF LinearInv, ShutdownOrder, WritersDone
<1>2. Added = UNION {Work[w] : w \in Writer}
  BY <1>1 DEF Added
<1>3. InFlight = {}
  BY ElemsEmpty DEF LinearInv, ShutdownOrder, InFlight
<1>4. QED BY <1>2, <1>3 DEF LinearInv, NothingLost

-----------------------------------------------------------------------------
(* Outside linear mode with one writer at work (Ways and CoordsRel while a *)
(* diff is applied): between its Get and its Put nobody else changes the   *)
(* bunch, so what Add puts back contains all that is stored.               *)
Alone == \A v, w \in Writer : Work[v] # {} /\ Work[w] # {} => v = w

Owned == \A w \in Writer : todo[w] \subseteq Work[w]

Snapped ==
  \A w \in Writer :
    held[w] # {} => \E p \in todo[w] :
                      held[w] = {p} /\ snap[w] = InBunch(db, BunchOf[p[1]])

DirectInv ==
  /\ TypeOK
  /\ disp = "off" /\ wr = "off"
  /\ Owned /\ Snapped
  /\ Added \subseteq db \cup failed
  /\ Stored \subseteq db
  /\ ctl = "closed" => WritersDone

(* The end of an Add, by its Put or by an error.                           *)
LEMMA AddEnds ==
  ASSUME DirectInv, Work' = Work,
         NEW w \in Writer, NEW p \in todo[w],
         todo' = [todo EXCEPT ![w] = @ \ {p}], held' = [held EXCEPT ![w] = {}],
         db \cup failed \cup {p} \subseteq db' \cup failed'
  PROVE  /\ held'[w] = {}
         /\ \A v \in Writer : v # w => held'[v] = held[v] /\ todo'[v] = todo[v]
         /\ Owned'
         /\ Added' \subseteq db' \cup failed'
<1>1. todo \in [Writer -> SUBSET Pair] /\ held \in [Writer -> SUBSET Pair]
  BY DEF DirectInv, TypeOK
<1>2. held'[w] = {} /\ \A v \in Writer : v # w => held'[v] = held[v] /\ todo'[v] = todo[v]
  BY <1>1
<1>3. todo'[w] = todo[w] \ {p}
  BY <1>1
<1>4. Owned'
  BY <1>2, <1>3 DEF DirectInv, Owned
<1>5. Added' \subseteq Added \cup {p}
  BY <1>2, <1>3 DEF Added
<1>6. QED BY <1>2, <1>4, <1>5 DEF DirectInv

(* The steps of the only element writer of an index keep it.               *)
LEMMA DirectStep ==
  ASSUME ~Linear, Alone, DirectInv, [Next]_vars, TypeOK'
  PROVE  DirectInv'
<1>0. Work' = Work
  BY JobFixed DEF Work
<1>1. CASE StartLinear \/ StartDirect
  <2>1. StartDirect
    BY <1>1 DEF StartLinear
  <2>2. Added' = Added /\ Owned' /\ Snapped'
    BY <1>0, <2>1 DEF StartDirect, Added, DirectInv, Owned, Snapped
  <2>3. QED BY <2>1, <2>2 DEF StartDirect, DirectInv, linearVars
<1>2. ASSUME NEW w \in Writer, AddGet(w)
      PROVE  DirectInv'
  <2>1. PICK p \in todo[w] :
          /\ held' = [held EXCEPT ![w] = {p}]
          /\ snap' = [snap EXCEPT ![w] = InBunch(db, BunchOf[p[1]])]
    BY <1>2, Zenon DEF AddGet
  <2>2. held'[w] = {p} /\ snap'[w] = InBunch(db, BunchOf[p[1]])
    BY <2>1 DEF DirectInv, TypeOK
  <2>3. \A v \in Writer : v # w => held'[v] = held[v] /\ snap'[v] = snap[v]
    BY <2>1 DEF DirectInv, TypeOK
  <2>4. todo' = todo /\ db' = db
    BY <1>2 DEF AddGet
  <2>5. Added' = Added /\ Owned'
    BY <1>0, <2>4 DEF Added, DirectInv, Owned
  <2>6. Snapped'
    BY <2>2, <2>3, <2>4 DEF DirectInv, Snapped
  <2>7. QED BY <1>2, <2>4, <2>5, <2>6 DEF AddGet, DirectInv, linearVars
<1>3. ASSUME NEW w \in Writer, AddPut(w)
      PROVE  DirectInv'
  <2>1. PICK p \in todo[w] : held[w] = {p} /\ snap[w] = InBunch(db, BunchOf[p[1]])
    BY <1>3 DEF AddPut, DirectInv, Snapped
  <2>2. /\ todo' = [todo EXCEPT ![w] = @ \ {p}]
        /\ held' = [held EXCEPT ![w] = {}]
        /\ failed' = failed
    BY <1>3, <2>1 DEF AddPut, linearVars
  <2>3. db' = db \cup {p}
    BY <1>3, <2>1 DEF AddPut, InBunch
  <2>4. /\ held'[w] = {}
        /\ \A v \in Writer : v # w => held'[v] = held[v] /\ todo'[v] = todo[v]
        /\ Owned'
        /\ Added' \subseteq db' \cup failed'
    BY <1>0, <2>2, <2>3, AddEnds, Zenon
  <2>5. \A v \in Writer : v # w => held[v] = {}
    BY <2>1 DEF DirectInv, Owned, Snapped, Alone
  <2>6. Snapped'
    BY <2>4, <2>5 DEF Snapped
  <2>7. ctl # "closed"
    BY <1>3 DEF AddPut, DirectInv, WritersDone
  <2>8. QED BY <1>3, <2>3, <2>4, <2>6, <2>7 DEF AddPut, DirectInv, linearVars
<1>4. ASSUME NEW w \in Writer, AddError(w)
      PROVE  DirectInv'
  <2>1. PICK p \in todo[w] : held[w] = {p}
    BY <1>4 DEF AddError, DirectInv, Snapped
  <2>2. /\ todo' = [todo EXCEPT ![w] = @ \ {p}]
        /\ held' = [held EXCEPT ![w] = {}] /\ snap' = [snap EXCEPT ![w] = {}]
        /\ failed' = failed \cup {p} /\ db' = db
    BY <1>4, <2>1 DEF AddError
  <2>3. /\ held'[w] = {}
        /\ \A v \in Writer : v # w => held'[v] = held[v] /\ todo'[v] = todo[v]
        /\ Owned'
        /\ Added' \subseteq db' \cup failed'
    BY <1>0, <2>2, AddEnds, Zenon
  <2>4. \A v \in Writer : v # w => snap'[v] = snap[v]
    BY <2>2 DEF DirectInv, TypeOK
  <2>5. Snapped'
    BY <2>2, <2>3, <2>4 DEF DirectInv, Snapped
  <2>6. ctl # "closed"
    BY <1>4 DEF AddError, DirectInv, WritersDone
  <2>7. QED BY <1>4, <2>2, <2>3, <2>5, <2>6 DEF AddError, DirectInv
<1>5. CASE Closing
  <2>1. CloseDirect \/ UNCHANGED vars
    BY <1>5 DEF Closing, CloseAdd, CloseWrite, CloseLinear, DirectInv
  <2>2. Added' = Added /\ Owned' /\ Snapped'
    BY <1>0, <2>1 DEF CloseDirect, Added, vars, DirectInv, Owned, Snapped
  <2>3. QED BY <2>1, <2>2 DEF CloseDirect, DirectInv, WritersDone, linearVars, vars
<1>6. CASE Closed \/ UNCHANGED vars
  <2>1. Added' = Added /\ Owned' /\ Snapped'
    BY <1>0, <1>6 DEF Closed, vars, Added, DirectInv, Owned, Snapped
  <2>2. QED BY <1>6, <2>1 DEF Closed, vars, DirectInv, WritersDone
<1>7. ~Dispatching /\ ~Writing /\ \A w \in Writer : ~SendAdd(w)
  BY DEF Dispatching, DispatchRecv, DispatchSend, DispatchDrained, DispatchLast,
         Writing, WriterRecv, LoadMerge, BatchWrite, BatchWriteError, WriterDrained,
         SendAdd, DirectInv
<1>8. QED BY <1>1, <1>2, <1>3, <1>4, <1>5, <1>6, <1>7 DEF Next, Adding

(* When Close has returned, LevelDB holds every reference of every         *)
(* inserted element, and what it held before, but for the references whose *)
(* database call returned an error: in linear import mode for any number   *)
(* of element writers, without it for a single one.  (Without it and with  *)
(* two writers it need not: the run refindex_race.)                        *)
THEOREM CompleteIfLinearOrAlone ==
  Spec /\ [](Linear \/ Alone) => []IndexComplete
<1> DEFINE Inv == IF Linear THEN LinearInv /\ Stored \subseteq db ELSE DirectInv
<1>1. Init => Inv
  <2>1. Init => DirectInv
    BY RefIndexAssumption DEF Init, DirectInv, Owned, Snapped, TypeOK, Added, Work, WritersDone
  <2>2. Init => Stored \subseteq db
    BY DEF Init
  <2>3. QED BY <2>1, <2>2, LinearInit
<1>2. TypeOK' /\ (Linear \/ Alone) /\ Inv /\ [Next]_vars => Inv'
  <2> SUFFICES ASSUME TypeOK', Linear \/ Alone, Inv, [Next]_vars
               PROVE  Inv'
    OBVIOUS
  <2>1. Linear' = Linear
    BY JobFixed DEF Linear
  <2>2. CASE Linear
    BY <2>1, <2>2, LinearStep, LinearGrow
  <2>3. CASE ~Linear
    BY <2>1, <2>3, DirectStep
  <2>4. QED BY <2>2, <2>3
<1>3. Inv => IndexComplete
  <2>1. DirectInv => IndexComplete
    BY DEF DirectInv, IndexComplete, Added, WritersDone
  <2>2. QED BY <2>1, LinearComplete
<1>4. QED BY <1>1, <1>2, <1>3, TypeCorrect, PTL DEF Spec
=============================================================================
