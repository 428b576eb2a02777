------------------------- MODULE DatabaseThreadsProofs -------------------------
(***************************************************************************)
(* Theorems about DatabaseThreads for any finite number of threads and     *)
(* documents, with and without auto_sync and failing stores.               *)
(***************************************************************************)
EXTENDS DatabaseThreads, FiniteSetTheorems, TLAPS

Adding == {"add", "store", "metadata", "sync", "stuck", "added"}
Held == {"store", "metadata", "sync", "stuck", "added", "unindexed"}   \* the places the lock is held in
Places == Adding \cup {"idle", "remove", "unindexed", "removeByDate", "next", "update", "query", "filter"}
Removals == {"remove", "removeByDate"}
Drawn == 1 .. nextId - 1                    \* ids given out so far

\* Who holds the lock follows from where the threads are.
LockInv ==
    /\ \A t \in Threads : writer = t <=> pc[t] \in Held
    /\ \A t \in Threads : t \in readers <=> pc[t] = "filter"
    /\ writer # None => readers = {}

\* A call is where its operation goes; what it adds, and what it has found or
\* removed, are ids that were given out.
OwnInv(t) ==
    /\ pc[t] \in Adding => call[t].op = "add"
    /\ pc[t] \in {"remove", "unindexed"} => call[t].op \in Removals
    /\ pc[t] \in {"removeByDate", "next"} => call[t].op = "removeByDate"
    /\ pc[t] = "update" => call[t].op = "update"
    /\ pc[t] \in {"query", "filter"} => call[t].op = "query"
    /\ pc[t] = "add" => call[t].left >= 1
    /\ pc[t] \in Held => call[t].id \in Drawn
    /\ pc[t] = "update" => call[t].id \in Ids
    /\ call[t].got \subseteq Drawn /\ call[t].found \subseteq Drawn
    /\ pc[t] # "idle" => reply[t] = "none"

\* What a call has done so far to the parts, and what it has left to do.
PartInv(t) ==
    /\ pc[t] \in {"store", "metadata"} =>
          /\ call[t].id \in indexed
          /\ metadata[call[t].id] # None => call[t].id \in late
    /\ pc[t] = "store" => call[t].id \notin stored
    /\ pc[t] = "metadata" => call[t].id \in stored
    /\ pc[t] = "unindexed" => call[t].id \notin indexed
    /\ pc[t] = "unindexed" =>
          \A u \in Threads : call[u].op \in Removals => call[t].id \notin call[u].got
    /\ pc[t] = "filter" => call[t].got = indexed
    /\ call[t].op \in Removals => call[t].got \cap indexed = {}

\* Documents remove_by_date has found and has not yet come to are in its list.
FoundInv(t) ==
    call[t].op = "removeByDate" =>
       /\ pc[t] \in {"next", "unindexed"} => call[t].found \cap indexed \subseteq call[t].todo
       /\ pc[t] = "remove" => call[t].found \cap indexed \subseteq call[t].todo \cup {call[t].id}
       /\ reply[t] = "ok" => call[t].found \cap indexed = {}

Whole(i) == /\ i \in indexed <=> i \in stored
            /\ i \in indexed => metadata[i] # None
            /\ i \notin indexed /\ metadata[i] # None => i \in late \cup failed

\* Every document is whole but the one under way.
WholeInv == /\ \A i \in Ids : \/ Whole(i)
                              \/ \E t \in Threads : /\ pc[t] \in {"store", "metadata", "unindexed"}
                                                    /\ call[t].id = i
            /\ indexed \subseteq Drawn /\ stored \subseteq Drawn /\ failed \subseteq Drawn
            /\ failed \cap indexed = {}

Counted(t, u) == t # u /\ {call[t].op, call[u].op} \subseteq Removals
CountedOnce == \A t, u \in Threads : Counted(t, u) => call[t].got \cap call[u].got = {}

\* There are ids left for all adds under way.
DrawInv == nextId + ToDraw <= Cardinality(Ids) + 1

IInv == /\ TypeOK /\ LockInv
        /\ \A t \in Threads : OwnInv(t) /\ PartInv(t) /\ FoundInv(t)
        /\ WholeInv /\ CountedOnce /\ DrawInv

------------------------------------------------------------------------------
(* Facts every action's lemma uses.                                        *)

LEMMA Constant ==
  /\ Cardinality(Ids) \in Nat /\ Ids = 1 .. Cardinality(Ids)
  /\ None \notin Threads /\ None \notin Dates
  BY ThreadsAssumption, FS_CardinalityType

LEMMA Longer ==
  ASSUME NEW n \in Nat, NEW m \in Nat, n <= m
  PROVE  1 .. n - 1 \subseteq 1 .. m - 1
  OBVIOUS

LEMMA DrawnGrows ==
  ASSUME nextId \in Nat, nextId' \in Nat, nextId <= nextId'
  PROVE  Drawn \subseteq Drawn' /\ nextId \notin Drawn
<1>1. Drawn \subseteq Drawn'
  BY Longer DEF Drawn
<1>2. nextId \notin Drawn
  BY DEF Drawn
<1> QED
  BY <1>1, <1>2

\* A thread that goes elsewhere is the only one that moves.
LEMMA Moves ==
  ASSUME TypeOK, NEW t \in Threads, NEW place \in Places, Goto(t, place)
  PROVE  /\ pc'[t] = place /\ \A u \in Threads : u # t => pc'[u] = pc[u]
         /\ pc' \in [Threads -> Places] /\ pc \in [Threads -> Places]
<1>1. pc' = [pc EXCEPT ![t] = place] /\ pc \in [Threads -> Places]
  BY DEF Goto, TypeOK, Places, Adding
<1> QED
  BY <1>1

\* The lock follows the thread that moves.
LEMMA Locks ==
  ASSUME TypeOK, LockInv, NEW t \in Threads, NEW place \in Places, Goto(t, place),
         \/ place \in Held /\ (LockAlone(t) \/ (pc[t] \in Held /\ UNCHANGED lock))
         \/ place = "filter" /\ LockShared(t) /\ pc[t] \notin Held
         \/ place \notin Held \cup {"filter"} /\ Unlock(t)
         \/ place \notin Held \cup {"filter"} /\ pc[t] \notin Held \cup {"filter"} /\ UNCHANGED lock
  PROVE  LockInv' /\ writer' \in Threads \cup {None} /\ readers' \subseteq Threads
<1>1. pc'[t] = place /\ \A u \in Threads : u # t => pc'[u] = pc[u]
  BY Moves
<1>2. None \notin Threads
  BY Constant
<1>3. /\ \A u \in Threads : writer = u <=> pc[u] \in Held
      /\ \A u \in Threads : u \in readers <=> pc[u] = "filter"
      /\ writer # None => readers = {}
      /\ writer \in Threads \cup {None} /\ readers \subseteq Threads
  BY DEF LockInv, TypeOK
<1>4. "filter" \notin Held
  BY DEF Held
<1>5. CASE place \in Held /\ LockAlone(t)
  <2>1. writer = None /\ readers = {} /\ writer' = t /\ readers' = {}
    BY <1>5 DEF LockAlone
  <2>2. \A u \in Threads : writer' = u <=> pc'[u] \in Held
    BY <1>1, <1>2, <1>3, <1>5, <2>1
  <2>3. \A u \in Threads : u \in readers' <=> pc'[u] = "filter"
    BY <1>1, <1>3, <1>4, <1>5, <2>1
  <2> QED
    BY <2>1, <2>2, <2>3 DEF LockInv
<1>6. CASE place \in Held /\ pc[t] \in Held /\ UNCHANGED lock
  <2>1. writer' = writer /\ readers' = readers
    BY <1>6 DEF lock
  <2>2. \A u \in Threads : writer' = u <=> pc'[u] \in Held
    BY <1>1, <1>3, <1>6, <2>1
  <2>3. \A u \in Threads : u \in readers' <=> pc'[u] = "filter"
    BY <1>1, <1>3, <1>4, <1>6, <2>1
  <2> QED
    BY <1>3, <2>1, <2>2, <2>3 DEF LockInv
<1>7. CASE place = "filter" /\ LockShared(t) /\ pc[t] \notin Held
  <2>1. writer = None /\ writer' = None /\ readers' = readers \cup {t}
    BY <1>7 DEF LockShared
  <2>2. \A u \in Threads : writer' = u <=> pc'[u] \in Held
    BY <1>1, <1>2, <1>3, <1>4, <1>7, <2>1
  <2>3. \A u \in Threads : u \in readers' <=> pc'[u] = "filter"
    BY <1>1, <1>3, <1>7, <2>1
  <2> QED
    BY <1>3, <2>1, <2>2, <2>3 DEF LockInv
<1>8. CASE place \notin Held \cup {"filter"} /\ Unlock(t)
  <2>1. writer' = (IF writer = t THEN None ELSE writer) /\ readers' = readers \ {t}
    BY <1>8 DEF Unlock
  <2>2. \A u \in Threads : writer' = u <=> pc'[u] \in Held
    BY <1>1, <1>2, <1>3, <1>8, <2>1
  <2>3. \A u \in Threads : u \in readers' <=> pc'[u] = "filter"
    BY <1>1, <1>3, <1>8, <2>1
  <2> QED
    BY <1>3, <2>1, <2>2, <2>3 DEF LockInv
<1>9. CASE place \notin Held \cup {"filter"} /\ pc[t] \notin Held \cup {"filter"} /\ UNCHANGED lock
  <2>1. writer' = writer /\ readers' = readers
    BY <1>9 DEF lock
  <2>2. \A u \in Threads : writer' = u <=> pc'[u] \in Held
    BY <1>1, <1>3, <1>9, <2>1
  <2>3. \A u \in Threads : u \in readers' <=> pc'[u] = "filter"
    BY <1>1, <1>3, <1>9, <2>1
  <2> QED
    BY <1>3, <2>1, <2>2, <2>3 DEF LockInv
<1> QED
  BY <1>5, <1>6, <1>7, <1>8, <1>9

\* A thread that has the lock, or takes it, to change the parts is alone.
LEMMA Alone ==
  ASSUME TypeOK, LockInv, NEW t \in Threads,
         pc[t] \in Held \/ (writer = None /\ readers = {})
  PROVE  \A u \in Threads : u # t => pc[u] \notin Held \cup {"filter"}
<1>1. None \notin Threads
  BY Constant
<1> QED
  BY <1>1 DEF LockInv, TypeOK

\* What another thread's step leaves of a call.
LEMMA Bystanders ==
  ASSUME IInv, NEW t \in Threads, NEW u \in Threads, u # t,
         pc'[u] = pc[u], call'[u] = call[u], reply'[u] = reply[u],
         nextId' \in Nat, nextId' >= nextId, indexed' \subseteq indexed \cup {nextId},
         pc[u] \in Held \cup {"filter"} => UNCHANGED <<indexed, stored, metadata, late>>,
         \A v \in Threads : v # t => call'[v] = call[v],
         call'[t].op \in Removals /\ pc[t] # "unindexed" =>
            call'[t].got = {} \/ (call'[t].got = call[t].got /\ call[t].op \in Removals)
  PROVE  OwnInv(u)' /\ PartInv(u)' /\ FoundInv(u)'
<1>1. OwnInv(u) /\ PartInv(u) /\ FoundInv(u) /\ nextId \in Nat
  BY Constant DEF IInv, TypeOK
<1>2. Drawn \subseteq Drawn' /\ nextId \notin Drawn
  <2>1. nextId \in Nat /\ nextId' \in Nat /\ nextId <= nextId'
    BY <1>1
  <2> QED
    BY <2>1, DrawnGrows
<1>3. OwnInv(u)'
  BY <1>1, <1>2 DEF OwnInv
<1>4. call[u].got \subseteq Drawn /\ call[u].found \subseteq Drawn
  BY <1>1 DEF OwnInv
<1>5. call'[u].op \in Removals => call'[u].got \cap indexed' = {}
  BY <1>1, <1>2, <1>4 DEF PartInv
<1>6. ASSUME pc[u] = "unindexed"
      PROVE  \A v \in Threads : call'[v].op \in Removals => call'[u].id \notin call'[v].got
  <2>1. pc[t] # "unindexed"
    BY <1>6 DEF IInv, LockInv, Held
  <2>2. \A v \in Threads : call[v].op \in Removals => call[u].id \notin call[v].got
    BY <1>1, <1>6 DEF PartInv
  <2> QED
    BY <2>1, <2>2
<1>7. PartInv(u)'
  BY <1>1, <1>5, <1>6 DEF PartInv, Held
<1>8. FoundInv(u)'
  BY <1>1, <1>2, <1>4 DEF FoundInv
<1> QED
  BY <1>3, <1>7, <1>8

\* Calls of removals that have not removed anything more are counted once still.
LEMMA StillCountedOnce ==
  ASSUME CountedOnce, NEW t \in Threads,
         \A u \in Threads : u # t => call'[u] = call[u],
         call'[t].op \in Removals =>
            call'[t].got = {} \/ (call'[t].got = call[t].got /\ call[t].op \in Removals)
  PROVE  CountedOnce'
<1>1. ASSUME NEW v \in Threads, NEW u \in Threads, Counted(v, u)'
      PROVE  call'[v].got \cap call'[u].got = {}
  <2>1. /\ \A w \in Threads : w # t => call'[w] = call[w]
        /\ v # u /\ call'[v].op \in Removals /\ call'[u].op \in Removals
    BY <1>1 DEF Counted
  <2>2. CASE call'[t].got = {} /\ t \in {u, v}
    BY <2>2
  <2>3. CASE t \notin {u, v} \/ (call'[t].got = call[t].got /\ call[t].op \in Removals)
    <3>1. call'[v].got = call[v].got /\ call'[u].got = call[u].got /\ Counted(v, u)
      BY <2>1, <2>3 DEF Counted
    <3> QED
      BY <3>1 DEF CountedOnce
  <2> QED
    BY <2>1, <2>2, <2>3
<1> QED
  BY <1>1 DEF CountedOnce

LEMMA DrawsFinite == IsFiniteSet(Draws) /\ Cardinality(Draws) \in Nat
<1>1. IsFiniteSet(Threads \X (1 .. 2))
  <2>1. 1 \in Int /\ 2 \in Int
    OBVIOUS
  <2>2. IsFiniteSet(1 .. 2)
    BY <2>1, FS_Interval
  <2>3. IsFiniteSet(Threads)
    BY ThreadsAssumption
  <2> QED
    BY <2>2, <2>3, FS_Product
<1>2. Draws \subseteq Threads \X (1 .. 2)
  BY DEF Draws
<1> QED
  BY <1>1, <1>2, FS_Subset, FS_CardinalityType

\* Adds under way that end, and calls of other kinds, need no ids.
LEMMA StillDraws ==
  ASSUME TypeOK, DrawInv, nextId' = nextId, NEW t \in Threads,
         \A u \in Threads : u # t => call'[u] = call[u] /\ pc'[u] = pc[u],
         pc'[t] = "idle" \/ call'[t].op # "add"
            \/ (pc[t] # "idle" /\ call'[t].left = call[t].left /\ call[t].op = "add")
  PROVE  DrawInv'
<1>1. IsFiniteSet(Draws) /\ Cardinality(Draws) \in Nat
  BY DrawsFinite
<1>2. Draws' \subseteq Draws
  BY DEF Draws, At
<1>3. Cardinality(Draws') <= Cardinality(Draws) /\ Cardinality(Draws') \in Nat
  BY <1>1, <1>2, FS_Subset, FS_CardinalityType
<1>4. nextId \in Nat /\ Cardinality(Ids) \in Nat
  BY Constant DEF TypeOK
<1> QED
  BY <1>1, <1>3, <1>4 DEF DrawInv, ToDraw

\* The parts of the invariant speak of every thread; a step is that of one.
LEMMA Together ==
  ASSUME IInv, NEW t \in Threads, TypeOK', LockInv', WholeInv', CountedOnce', DrawInv',
         OwnInv(t)' /\ PartInv(t)' /\ FoundInv(t)',
         \A u \in Threads : u # t => OwnInv(u)' /\ PartInv(u)' /\ FoundInv(u)'
  PROVE  IInv'
<1>1. \A u \in Threads : OwnInv(u)' /\ PartInv(u)' /\ FoundInv(u)'
  OBVIOUS
<1> QED
  BY <1>1 DEF IInv

LEMMA InitIInv == Init => IInv
<1> SUFFICES ASSUME Init PROVE IInv
  OBVIOUS
<1> USE DEF Init
<1>1. NoCall \in Calls /\ NoCall.op = "query" /\ NoCall.got = {} /\ NoCall.found = {} /\ NoCall.todo = {}
  BY ThreadsAssumption DEF NoCall, New, Calls
<1>2. TypeOK
  BY <1>1, Constant, ThreadsAssumption DEF TypeOK
<1>3. LockInv
  BY Constant DEF LockInv, Held
<1>4. \A t \in Threads : pc[t] = "idle" /\ call[t] = NoCall
  OBVIOUS
<1>5. \A t \in Threads : OwnInv(t) /\ PartInv(t) /\ FoundInv(t)
  BY <1>1, <1>4 DEF OwnInv, PartInv, FoundInv, Adding, Held, Removals
<1>6. WholeInv
  BY DEF WholeInv, Whole
<1>7. CountedOnce
  BY <1>1, <1>4 DEF CountedOnce, Counted, Removals
<1>8. Draws = {}
  BY <1>4 DEF Draws, At
<1>9. DrawInv
  <2>1. ToDraw = 0
    BY <1>8, FS_EmptySet DEF ToDraw
  <2> QED
    BY <2>1, Constant DEF DrawInv
<1> QED
  BY <1>2, <1>3, <1>5, <1>6, <1>7, <1>9 DEF IInv

------------------------------------------------------------------------------
(* One lemma for each action.                                              *)

LEMMA AddIndexIInv ==
  ASSUME IInv, NEW t \in Threads, AddIndex(t)
  PROVE  IInv'
<1>1. TypeOK /\ LockInv /\ OwnInv(t) /\ PartInv(t) /\ WholeInv
  BY DEF IInv
<1>2. /\ pc[t] = "add" /\ LockAlone(t) /\ Goto(t, "store") /\ writer = None /\ readers = {}
      /\ nextId' = nextId + 1 /\ indexed' = indexed \cup {nextId}
      /\ call' = [call EXCEPT ![t].id = nextId, ![t].left = @ - 1]
      /\ stored' = stored /\ metadata' = metadata /\ late' = late /\ failed' = failed /\ efSearch' = efSearch
      /\ answer' = answer /\ reply' = reply /\ calls' = calls
  BY DEF AddIndex, LockAlone, At, told, history
<1>3. /\ call[t] \in Calls /\ call[t].op = "add" /\ call[t].left >= 1 /\ call[t].left \in 0 .. 2
      /\ nextId \in Nat /\ nextId >= 1
  BY <1>1, <1>2, Constant DEF TypeOK, Calls, OwnInv, Adding
<1>4. /\ IsFiniteSet(Draws) /\ ToDraw \in Nat
      /\ <<t, call[t].left>> \in Draws
  BY <1>2, <1>3, DrawsFinite DEF Draws, At, ToDraw
<1>5. nextId \in Ids /\ nextId' \in 1 .. Cardinality(Ids) + 1
  <2>1. Draws # {} /\ Cardinality(Draws) # 0
    BY <1>4, FS_EmptySet
  <2>2. nextId + ToDraw <= Cardinality(Ids) + 1
    BY DEF IInv, DrawInv
  <2> QED
    BY <1>2, <1>3, <1>4, <2>1, <2>2, Constant DEF ToDraw
<1>6. /\ call'[t] = [call[t] EXCEPT !.id = nextId, !.left = @ - 1]
      /\ \A u \in Threads : u # t => call'[u] = call[u]
      /\ call' \in [Threads -> Calls]
  BY <1>1, <1>2, <1>3, <1>5 DEF TypeOK, Calls
<1>7. pc'[t] = "store" /\ \A u \in Threads : u # t => pc'[u] = pc[u]
  BY <1>1, <1>2, Moves DEF Places, Adding
<1>8. TypeOK' /\ LockInv'
  <2>1. LockInv' /\ writer' \in Threads \cup {None} /\ readers' \subseteq Threads
    BY <1>1, <1>2, Locks DEF Places, Adding, Held
  <2>2. pc' \in [Threads -> Places]
    BY <1>1, <1>2, Moves DEF Places, Adding
  <2> QED
    BY <1>1, <1>2, <1>5, <1>6, <2>1, <2>2 DEF TypeOK, Places, Adding
<1>9. Drawn \subseteq Drawn' /\ nextId \notin Drawn /\ nextId \in Drawn'
  <2>1. nextId \in Drawn'
    BY <1>2, <1>3 DEF Drawn
  <2> QED
    BY <1>2, <1>3, <2>1, DrawnGrows
<1>10. /\ nextId \notin stored /\ nextId \notin indexed /\ nextId \notin failed
       /\ metadata[nextId] # None => nextId \in late
  <2>1. nextId \notin stored /\ nextId \notin indexed /\ nextId \notin failed
    BY <1>1, <1>9 DEF WholeInv
  <2>2. \A u \in Threads : pc[u] \notin Held
    BY <1>1, <1>2, Alone DEF Held
  <2>3. Whole(nextId)
    BY <1>1, <1>5, <2>2 DEF WholeInv, Held
  <2> QED
    BY <2>1, <2>3 DEF Whole
<1>11. OwnInv(t)' /\ PartInv(t)' /\ FoundInv(t)'
  BY <1>1, <1>2, <1>3, <1>6, <1>7, <1>9, <1>10 DEF OwnInv, PartInv, FoundInv, Adding, Held, Removals
<1>12. \A u \in Threads : u # t => OwnInv(u)' /\ PartInv(u)' /\ FoundInv(u)'
  BY <1>1, <1>2, <1>3, <1>6, <1>7, Alone, Bystanders DEF Removals
<1>13. WholeInv'
  <2>1. \A u \in Threads : pc[u] \notin Held
    BY <1>1, <1>2, Alone DEF Held
  <2>2. \A i \in Ids : Whole(i)
    BY <1>1, <2>1 DEF WholeInv, Held
  <2>3. \A i \in Ids : i # nextId => Whole(i)'
    BY <1>2, <2>2 DEF Whole
  <2> QED
    BY <1>1, <1>2, <1>6, <1>7, <1>9, <1>10, <2>3 DEF WholeInv
<1>14. CountedOnce'
  <2>1. CountedOnce /\ call'[t].op \notin Removals
    BY <1>3, <1>6 DEF IInv, Removals
  <2> QED
    BY <1>6, <2>1, StillCountedOnce
<1>15. DrawInv'
  <2>1. Draws' = Draws \ {<<t, call[t].left>>}
    <3>1. ASSUME NEW d \in Threads \X (1 .. 2)
          PROVE  d \in Draws' <=> d \in Draws /\ d # <<t, call[t].left>>
      <4>1. d = <<d[1], d[2]>> /\ d[1] \in Threads /\ d[2] \in 1 .. 2
        OBVIOUS
      <4>2. CASE d[1] # t
        BY <1>6, <1>7, <4>1, <4>2 DEF Draws, At
      <4>3. CASE d[1] = t
        <5>1. call'[t].left = call[t].left - 1 /\ call'[t].op = "add"
          BY <1>3, <1>6 DEF Calls
        <5>2. d \in Draws' <=> d[2] <= call[t].left - 1
          BY <1>7, <4>1, <4>3, <5>1 DEF Draws, At
        <5>3. d \in Draws <=> d[2] <= call[t].left
          BY <1>2, <1>3, <4>1, <4>3 DEF Draws, At
        <5>4. d # <<t, call[t].left>> <=> d[2] # call[t].left
          BY <4>1, <4>3
        <5> QED
          BY <1>3, <4>1, <5>2, <5>3, <5>4
      <4> QED
        BY <4>2, <4>3
    <3> QED
      BY <3>1 DEF Draws
  <2>2. Cardinality(Draws') = ToDraw - 1
    BY <1>4, <2>1, FS_RemoveElement DEF ToDraw
  <2>3. ToDraw' = ToDraw - 1
    BY <2>2 DEF ToDraw
  <2> QED
    BY <1>2, <1>3, <1>4, <2>3, Constant DEF IInv, DrawInv
<1> QED
  BY <1>8, <1>11, <1>12, <1>13, <1>14, <1>15, Together

LEMMA AddStoreIInv ==
  ASSUME IInv, NEW t \in Threads, AddStore(t)
  PROVE  IInv'
<1>1. TypeOK /\ LockInv /\ OwnInv(t) /\ PartInv(t) /\ FoundInv(t) /\ WholeInv
  BY DEF IInv
<1>2. /\ pc[t] = "store" /\ nextId' = nextId /\ metadata' = metadata /\ efSearch' = efSearch
      /\ call' = call /\ late' = late /\ failed' = failed
  BY DEF AddStore, At, history
<1>3. /\ call[t].op = "add" /\ call[t].id \in Drawn /\ call[t].id \in indexed /\ call[t].id \notin stored
      /\ metadata[call[t].id] # None => call[t].id \in late
      /\ call[t].id \in Ids
  BY <1>1, <1>2 DEF OwnInv, PartInv, Adding, Held, TypeOK
<1>4. nextId \in Nat /\ Drawn' = Drawn
  BY <1>1, <1>2, Constant DEF TypeOK, Drawn
<1>5. \A u \in Threads : u # t => pc[u] \notin Held \cup {"filter"}
  BY <1>1, <1>2, Alone DEF Held
<1>6. \A i \in Ids : i # call[t].id => Whole(i)
  BY <1>1, <1>2, <1>5 DEF WholeInv, Held
<1>7. CountedOnce'
  BY <1>2 DEF IInv, CountedOnce, Counted
<1>8. CASE stored' = stored \cup {call[t].id} /\ Goto(t, "metadata") /\ UNCHANGED <<lock, indexed, told>>
  <2>1. pc'[t] = "metadata" /\ \A u \in Threads : u # t => pc'[u] = pc[u]
    BY <1>1, <1>8, Moves DEF Places, Adding
  <2>2. LockInv' /\ writer' \in Threads \cup {None} /\ readers' \subseteq Threads
    BY <1>1, <1>2, <1>8, Locks DEF Places, Adding, Held
  <2>3. indexed' = indexed /\ answer' = answer /\ reply' = reply /\ calls' = calls
    BY <1>8 DEF told
  <2>4. TypeOK'
    <3>1. pc' \in [Threads -> Places]
      BY <1>1, <1>8, Moves DEF Places, Adding
    <3> QED
      BY <1>1, <1>2, <1>3, <1>8, <2>2, <2>3, <3>1 DEF TypeOK, Places, Adding
  <2>5. OwnInv(t)' /\ PartInv(t)' /\ FoundInv(t)'
    BY <1>1, <1>2, <1>3, <1>4, <1>8, <2>1, <2>3 DEF OwnInv, PartInv, FoundInv, Adding, Held, Removals
  <2>6. \A u \in Threads : u # t => OwnInv(u)' /\ PartInv(u)' /\ FoundInv(u)'
    BY <1>2, <1>3, <1>4, <1>5, <2>1, <2>3, Bystanders DEF Removals
  <2>7. WholeInv'
    <3>1. \A i \in Ids : i # call[t].id => Whole(i)'
      BY <1>2, <1>6, <1>8, <2>3 DEF Whole
    <3> QED
      BY <1>1, <1>2, <1>3, <1>4, <1>8, <2>1, <2>3, <3>1 DEF WholeInv
  <2>8. DrawInv'
    BY <1>1, <1>2, <1>3, <2>1, StillDraws DEF IInv
  <2> QED
    BY <1>7, <2>2, <2>4, <2>5, <2>6, <2>7, <2>8, Together
<1>9. CASE indexed' = indexed \ {call[t].id} /\ Unlock(t) /\ Return(t, "error") /\ UNCHANGED stored
  <2>1. /\ Goto(t, "idle") /\ reply' = [reply EXCEPT ![t] = "error"] /\ answer' = answer /\ calls' = calls
        /\ stored' = stored
    BY <1>9 DEF Return
  <2>2. pc'[t] = "idle" /\ \A u \in Threads : u # t => pc'[u] = pc[u]
    BY <1>1, <2>1, Moves DEF Places, Adding
  <2>3. LockInv' /\ writer' \in Threads \cup {None} /\ readers' \subseteq Threads
    BY <1>1, <1>9, <2>1, Locks DEF Places, Adding, Held
  <2>4. TypeOK'
    <3>1. pc' \in [Threads -> Places]
      BY <1>1, <2>1, Moves DEF Places, Adding
    <3> QED
      BY <1>1, <1>2, <1>9, <2>1, <2>3, <3>1 DEF TypeOK, Places, Adding
  <2>5. OwnInv(t)' /\ PartInv(t)' /\ FoundInv(t)'
    BY <1>1, <1>2, <1>3, <1>4, <2>2 DEF OwnInv, PartInv, FoundInv, Adding, Held, Removals
  <2>6. \A u \in Threads : u # t => OwnInv(u)' /\ PartInv(u)' /\ FoundInv(u)'
    <3>1. \A u \in Threads : u # t => reply'[u] = reply[u]
      BY <1>1, <2>1 DEF TypeOK
    <3> QED
      BY <1>2, <1>3, <1>4, <1>5, <1>9, <2>2, <3>1, Bystanders DEF Removals
  <2>7. WholeInv'
    <3>1. \A i \in Ids : i # call[t].id => Whole(i)'
      BY <1>2, <1>6, <1>9, <2>1 DEF Whole
    <3>2. Whole(call[t].id)'
      BY <1>2, <1>3, <1>9, <2>1 DEF Whole
    <3> QED
      BY <1>1, <1>2, <1>4, <1>9, <2>1, <3>1, <3>2 DEF WholeInv
  <2>8. DrawInv'
    BY <1>1, <1>2, <2>2, StillDraws DEF IInv
  <2> QED
    BY <1>7, <2>3, <2>4, <2>5, <2>6, <2>7, <2>8, Together
<1> QED
  BY <1>8, <1>9 DEF AddStore

LEMMA AddMetadataIInv ==
  ASSUME IInv, NEW t \in Threads, AddMetadata(t)
  PROVE  IInv'
<1>1. TypeOK /\ LockInv /\ OwnInv(t) /\ PartInv(t) /\ FoundInv(t) /\ WholeInv
  BY DEF IInv
<1>2. /\ pc[t] = "metadata" /\ nextId' = nextId /\ efSearch' = efSearch
      /\ call' = call /\ late' = late
      /\ metadata' = [metadata EXCEPT ![call[t].id] = call[t].date]
  BY DEF AddMetadata, At
<1>3. /\ call[t].op = "add" /\ call[t].id \in Drawn /\ call[t].id \in indexed
      /\ call[t].id \in stored /\ call[t].id \in Ids /\ call[t].date \in Dates
      /\ metadata'[call[t].id] # None /\ \A i \in Ids : i # call[t].id => metadata'[i] = metadata[i]
      /\ metadata' \in [Ids -> Dates \cup {None}]
  BY <1>1, <1>2, Constant DEF OwnInv, PartInv, Adding, Held, TypeOK, Calls
<1>4. nextId \in Nat /\ Drawn' = Drawn
  BY <1>1, <1>2, Constant DEF TypeOK, Drawn
<1>5. \A u \in Threads : u # t => pc[u] \notin Held \cup {"filter"}
  BY <1>1, <1>2, Alone DEF Held
<1>6. \A i \in Ids : i # call[t].id => Whole(i)
  BY <1>1, <1>2, <1>5 DEF WholeInv, Held
<1>7. CountedOnce'
  BY <1>2 DEF IInv, CountedOnce, Counted
<1>8. ASSUME NEW place \in {"sync", "added"}, Goto(t, place),
             UNCHANGED <<lock, indexed, stored, told, failed>>
      PROVE  IInv'
  <2>1. pc'[t] = place /\ \A u \in Threads : u # t => pc'[u] = pc[u]
    BY <1>1, <1>8, Moves DEF Places, Adding
  <2>2. LockInv' /\ writer' \in Threads \cup {None} /\ readers' \subseteq Threads
    BY <1>1, <1>2, <1>8, Locks DEF Places, Adding, Held
  <2>3. /\ indexed' = indexed /\ stored' = stored /\ answer' = answer /\ reply' = reply /\ calls' = calls
        /\ failed' = failed
    BY <1>8 DEF told
  <2>4. TypeOK'
    <3>1. pc' \in [Threads -> Places]
      BY <1>1, <1>8, Moves DEF Places, Adding
    <3> QED
      BY <1>1, <1>2, <1>3, <2>2, <2>3, <3>1 DEF TypeOK, Places, Adding
  <2>5. OwnInv(t)' /\ PartInv(t)' /\ FoundInv(t)'
    BY <1>1, <1>2, <1>3, <1>4, <1>8, <2>1, <2>3 DEF OwnInv, PartInv, FoundInv, Adding, Held, Removals
  <2>6. \A u \in Threads : u # t => OwnInv(u)' /\ PartInv(u)' /\ FoundInv(u)'
    BY <1>2, <1>3, <1>4, <1>5, <2>1, <2>3, Bystanders DEF Removals
  <2>7. WholeInv'
    <3>1. \A i \in Ids : i # call[t].id => Whole(i)'
      BY <1>2, <1>3, <1>6, <2>3 DEF Whole
    <3>2. Whole(call[t].id)'
      BY <1>2, <1>3, <1>8, <2>3 DEF Whole
    <3> QED
      BY <1>1, <1>2, <1>3, <1>4, <2>3, <3>1, <3>2 DEF WholeInv
  <2>8. DrawInv'
    BY <1>1, <1>2, <1>3, <2>1, StillDraws DEF IInv
  <2> QED
    BY <1>7, <2>2, <2>4, <2>5, <2>6, <2>7, <2>8, Together
<1>9. CASE /\ indexed' = indexed \ {call[t].id} /\ stored' = stored \ {call[t].id}
           /\ failed' = failed \cup {call[t].id} /\ Unlock(t) /\ Return(t, "error")
  <2>1. /\ Goto(t, "idle") /\ reply' = [reply EXCEPT ![t] = "error"] /\ answer' = answer /\ calls' = calls
    BY <1>9 DEF Return
  <2>2. pc'[t] = "idle" /\ \A u \in Threads : u # t => pc'[u] = pc[u]
    BY <1>1, <2>1, Moves DEF Places, Adding
  <2>3. LockInv' /\ writer' \in Threads \cup {None} /\ readers' \subseteq Threads
    BY <1>1, <1>9, <2>1, Locks DEF Places, Adding, Held
  <2>4. TypeOK'
    <3>1. pc' \in [Threads -> Places]
      BY <1>1, <2>1, Moves DEF Places, Adding
    <3> QED
      BY <1>1, <1>2, <1>3, <1>9, <2>1, <2>3, <3>1 DEF TypeOK, Places, Adding
  <2>5. OwnInv(t)' /\ PartInv(t)' /\ FoundInv(t)'
    BY <1>1, <1>2, <1>3, <1>4, <2>2 DEF OwnInv, PartInv, FoundInv, Adding, Held, Removals
  <2>6. \A u \in Threads : u # t => OwnInv(u)' /\ PartInv(u)' /\ FoundInv(u)'
    <3>1. \A u \in Threads : u # t => reply'[u] = reply[u]
      BY <1>1, <2>1 DEF TypeOK
    <3> QED
      BY <1>2, <1>3, <1>4, <1>5, <1>9, <2>2, <3>1, Bystanders DEF Removals
  <2>7. WholeInv'
    <3>1. \A i \in Ids : i # call[t].id => Whole(i)'
      BY <1>2, <1>3, <1>6, <1>9, <2>1 DEF Whole
    <3>2. Whole(call[t].id)'
      BY <1>2, <1>3, <1>9, <2>1 DEF Whole
    <3> QED
      BY <1>1, <1>2, <1>3, <1>4, <1>9, <2>1, <3>1, <3>2 DEF WholeInv
  <2>8. DrawInv'
    BY <1>1, <1>2, <2>2, StillDraws DEF IInv
  <2> QED
    BY <1>7, <2>3, <2>4, <2>5, <2>6, <2>7, <2>8, Together
<1> QED
  <2>1. CASE /\ Goto(t, IF AutoSync /\ call[t].text THEN "sync" ELSE "added")
             /\ UNCHANGED <<lock, indexed, stored, told, failed>>
    <3>1. Goto(t, "sync") \/ Goto(t, "added")
      BY <2>1
    <3> QED
      BY <1>8, <2>1, <3>1
  <2> QED
    BY <1>9, <2>1 DEF AddMetadata

LEMMA SyncAgainIInv ==
  ASSUME IInv, NEW t \in Threads, SyncAgain(t)
  PROVE  IInv'
<1>1. TypeOK /\ LockInv /\ OwnInv(t) /\ PartInv(t) /\ FoundInv(t) /\ WholeInv
  BY DEF IInv
<1>2. /\ pc[t] = "sync" /\ call' = call /\ late' = late /\ failed' = failed /\ efSearch' = efSearch
      /\ nextId' = nextId /\ indexed' = indexed /\ stored' = stored /\ metadata' = metadata
  BY DEF SyncAgain, At, parts, history
<1>3. call[t].op = "add" /\ nextId \in Nat /\ Drawn' = Drawn
  BY <1>1, <1>2, Constant DEF OwnInv, Adding, TypeOK, Drawn
<1>4. PICK place \in {"stuck", "idle"} :
         /\ Goto(t, place) /\ calls' = calls /\ answer' = answer
         /\ \/ place = "stuck" /\ UNCHANGED lock /\ reply' = reply
            \/ place = "idle" /\ Unlock(t) /\ reply' = [reply EXCEPT ![t] = "thrown"]
  BY DEF SyncAgain, told, Return
<1>5. pc'[t] = place /\ \A u \in Threads : u # t => pc'[u] = pc[u]
  BY <1>1, <1>4, Moves DEF Places, Adding
<1>6. LockInv' /\ writer' \in Threads \cup {None} /\ readers' \subseteq Threads
  BY <1>1, <1>2, <1>4, Locks DEF Places, Adding, Held
<1>7. TypeOK'
  <2>1. pc' \in [Threads -> Places]
    BY <1>1, <1>4, Moves DEF Places, Adding
  <2> QED
    BY <1>1, <1>2, <1>4, <1>6, <2>1 DEF TypeOK, Places, Adding
<1>8. OwnInv(t)' /\ PartInv(t)' /\ FoundInv(t)'
  BY <1>1, <1>2, <1>3, <1>4, <1>5 DEF OwnInv, PartInv, FoundInv, Adding, Held, Removals
<1>9. \A u \in Threads : u # t => OwnInv(u)' /\ PartInv(u)' /\ FoundInv(u)'
  <2>1. \A u \in Threads : u # t => reply'[u] = reply[u]
    BY <1>1, <1>4 DEF TypeOK
  <2> QED
    BY <1>2, <1>3, <1>5, <2>1, Bystanders DEF Removals
<1>10. WholeInv'
  <2>1. \A i \in Ids : Whole(i) <=> Whole(i)'
    BY <1>2 DEF Whole
  <2> QED
    BY <1>1, <1>2, <1>3, <1>5, <2>1 DEF WholeInv
<1>11. CountedOnce' /\ DrawInv'
  <2>1. CountedOnce'
    BY <1>2 DEF IInv, CountedOnce, Counted
  <2> QED
    BY <1>1, <1>2, <1>3, <1>5, <2>1, StillDraws DEF IInv
<1> QED
  BY <1>6, <1>7, <1>8, <1>9, <1>10, <1>11, Together

LEMMA AddDoneIInv ==
  ASSUME IInv, NEW t \in Threads, AddDone(t)
  PROVE  IInv'
<1>1. TypeOK /\ LockInv /\ OwnInv(t) /\ PartInv(t) /\ FoundInv(t) /\ WholeInv
  BY DEF IInv
<1>2. /\ pc[t] = "added" /\ Unlock(t) /\ late' = late /\ failed' = failed /\ efSearch' = efSearch
      /\ call' = [call EXCEPT ![t].got = @ \cup {call[t].id}]
      /\ nextId' = nextId /\ indexed' = indexed /\ stored' = stored /\ metadata' = metadata
  BY DEF AddDone, At, parts, history
<1>3. /\ call[t].op = "add" /\ nextId \in Nat /\ Drawn' = Drawn
      /\ call[t] \in Calls /\ call[t].id \in Drawn /\ call[t].id \in Ids /\ call[t].left \in 0 .. 2
  BY <1>1, <1>2, Constant DEF OwnInv, Adding, Held, TypeOK, Drawn, Calls
<1>4. PICK place \in {"add", "idle"} :
         /\ Goto(t, place) /\ calls' = calls /\ answer' = answer
         /\ \/ place = "add" /\ call[t].left # 0 /\ reply' = reply
            \/ place = "idle" /\ reply' = [reply EXCEPT ![t] = "ok"]
  BY DEF AddDone, told, Return
<1>5. pc'[t] = place /\ \A u \in Threads : u # t => pc'[u] = pc[u]
  BY <1>1, <1>4, Moves DEF Places, Adding
<1>6. LockInv' /\ writer' \in Threads \cup {None} /\ readers' \subseteq Threads
  BY <1>1, <1>2, <1>4, Locks DEF Places, Adding, Held
<1>7. /\ call'[t] = [call[t] EXCEPT !.got = @ \cup {call[t].id}]
      /\ \A u \in Threads : u # t => call'[u] = call[u]
      /\ call' \in [Threads -> Calls]
  BY <1>1, <1>2, <1>3 DEF TypeOK, Calls
<1>8. /\ call'[t].op = "add" /\ call'[t].left = call[t].left /\ call'[t].id = call[t].id
      /\ call'[t].got = call[t].got \cup {call[t].id}
      /\ call'[t].found = call[t].found /\ call'[t].todo = call[t].todo
  BY <1>3, <1>7 DEF Calls
<1>9. TypeOK'
  <2>1. pc' \in [Threads -> Places]
    BY <1>1, <1>4, Moves DEF Places, Adding
  <2> QED
    BY <1>1, <1>2, <1>4, <1>6, <1>7, <2>1 DEF TypeOK, Places, Adding
<1>10. OwnInv(t)' /\ PartInv(t)' /\ FoundInv(t)'
  BY <1>1, <1>2, <1>3, <1>4, <1>5, <1>8 DEF OwnInv, PartInv, FoundInv, Adding, Held, Removals
<1>11. \A u \in Threads : u # t => OwnInv(u)' /\ PartInv(u)' /\ FoundInv(u)'
  <2>1. \A u \in Threads : u # t => reply'[u] = reply[u]
    BY <1>1, <1>4 DEF TypeOK
  <2> QED
    BY <1>2, <1>3, <1>5, <1>7, <1>8, <2>1, Bystanders DEF Removals
<1>12. WholeInv'
  <2>1. \A i \in Ids : Whole(i) <=> Whole(i)'
    BY <1>2 DEF Whole
  <2> QED
    BY <1>1, <1>2, <1>3, <1>5, <1>7, <2>1 DEF WholeInv
<1>13. CountedOnce'
  <2>1. CountedOnce /\ call'[t].op \notin Removals
    BY <1>8 DEF IInv, Removals
  <2> QED
    BY <1>7, <2>1, StillCountedOnce
<1>14. DrawInv'
  BY <1>1, <1>2, <1>3, <1>5, <1>7, <1>8, StillDraws DEF IInv
<1> QED
  BY <1>6, <1>9, <1>10, <1>11, <1>12, <1>13, <1>14, Together

LEMMA RemoveIndexIInv ==
  ASSUME IInv, NEW t \in Threads, RemoveIndex(t)
  PROVE  IInv'
<1>1. TypeOK /\ LockInv /\ OwnInv(t) /\ PartInv(t) /\ FoundInv(t) /\ WholeInv
  BY DEF IInv
<1>2. /\ pc[t] = "remove" /\ LockAlone(t) /\ Goto(t, "unindexed") /\ writer = None /\ readers = {}
      /\ call[t].id \in indexed /\ indexed' = indexed \ {call[t].id}
      /\ call' = call /\ late' = late /\ failed' = failed /\ efSearch' = efSearch /\ nextId' = nextId
      /\ stored' = stored /\ metadata' = metadata
      /\ answer' = answer /\ reply' = reply /\ calls' = calls
  BY DEF RemoveIndex, LockAlone, At, told, history
<1>3. /\ call[t].op \in Removals /\ call[t].id \in Drawn /\ call[t].id \in Ids
      /\ nextId \in Nat /\ Drawn' = Drawn
  <2>1. call[t].op \in Removals
    BY <1>1, <1>2 DEF OwnInv
  <2>2. indexed \subseteq Drawn /\ indexed \subseteq Ids
    BY <1>1 DEF WholeInv, TypeOK
  <2>3. nextId \in Nat /\ Drawn' = Drawn
    BY <1>1, <1>2, Constant DEF TypeOK, Drawn
  <2> QED
    BY <1>2, <2>1, <2>2, <2>3
<1>4. pc'[t] = "unindexed" /\ \A u \in Threads : u # t => pc'[u] = pc[u]
  BY <1>1, <1>2, Moves DEF Places, Adding
<1>5. TypeOK' /\ LockInv'
  <2>1. LockInv' /\ writer' \in Threads \cup {None} /\ readers' \subseteq Threads
    BY <1>1, <1>2, Locks DEF Places, Adding, Held
  <2>2. pc' \in [Threads -> Places]
    BY <1>1, <1>2, Moves DEF Places, Adding
  <2> QED
    BY <1>1, <1>2, <2>1, <2>2 DEF TypeOK, Places, Adding
<1>6. \A u \in Threads : call[u].op \in Removals => call[t].id \notin call[u].got
  BY <1>2 DEF IInv, PartInv
<1>7. OwnInv(t)' /\ PartInv(t)' /\ FoundInv(t)'
  <2>1. OwnInv(t)' /\ PartInv(t)'
    BY <1>1, <1>2, <1>3, <1>4, <1>6 DEF OwnInv, PartInv, Adding, Held, Removals
  <2>2. pc[t] # "idle" /\ reply[t] = "none"
    BY <1>1, <1>2 DEF OwnInv
  <2>3. FoundInv(t)'
    BY <1>1, <1>2, <1>4, <2>2 DEF FoundInv
  <2> QED
    BY <2>1, <2>3
<1>8. \A u \in Threads : u # t => OwnInv(u)' /\ PartInv(u)' /\ FoundInv(u)'
  BY <1>1, <1>2, <1>3, <1>4, Alone, Bystanders
<1>9. WholeInv'
  <2>1. \A i \in Ids : Whole(i)
    <3>1. \A u \in Threads : pc[u] \notin Held
      BY <1>1, <1>2, Alone DEF Held
    <3> QED
      BY <1>1, <3>1 DEF WholeInv, Held
  <2>2. \A i \in Ids : i # call[t].id => Whole(i)'
    BY <1>2, <2>1 DEF Whole
  <2> QED
    BY <1>1, <1>2, <1>3, <1>4, <2>2 DEF WholeInv
<1>10. CountedOnce' /\ DrawInv'
  <2>1. CountedOnce'
    BY <1>2 DEF IInv, CountedOnce, Counted
  <2> QED
    BY <1>1, <1>2, <1>3, <1>4, <2>1, StillDraws DEF IInv, Removals
<1> QED
  BY <1>5, <1>7, <1>8, <1>9, <1>10, Together

\* Steps that change neither the parts nor the lock, taken without it.
LEMMA UnlockedIInv ==
  ASSUME IInv, NEW t \in Threads, NEW place \in {"idle", "next", "remove"}, Goto(t, place),
         UNCHANGED <<lock, parts, efSearch, history>>,
         pc[t] \notin Held \cup {"filter", "idle"}, call[t].op \in Removals,
         call' \in [Threads -> Calls], \A u \in Threads : u # t => call'[u] = call[u],
         call'[t].op = call[t].op, call'[t].got = call[t].got,
         OwnInv(t)', FoundInv(t)',
         answer' = answer, calls' = calls, reply' = reply
            \/ (\E what \in {"ok", "missing"} : reply' = [reply EXCEPT ![t] = what]),
         \A u \in Threads : u # t => reply'[u] = reply[u]
  PROVE  IInv'
<1>1. TypeOK /\ LockInv /\ PartInv(t) /\ WholeInv
  BY DEF IInv
<1>2. /\ late' = late /\ failed' = failed /\ efSearch' = efSearch /\ nextId' = nextId
      /\ indexed' = indexed /\ stored' = stored /\ metadata' = metadata
  BY DEF parts, history
<1>3. pc'[t] = place /\ \A u \in Threads : u # t => pc'[u] = pc[u]
  BY <1>1, Moves DEF Places, Adding
<1>4. nextId \in Nat /\ Drawn' = Drawn
  BY <1>1, <1>2, Constant DEF TypeOK, Drawn
<1>5. TypeOK' /\ LockInv'
  <2>1. LockInv' /\ writer' \in Threads \cup {None} /\ readers' \subseteq Threads
    BY <1>1, Locks DEF Places, Adding, Held
  <2>2. pc' \in [Threads -> Places]
    BY <1>1, Moves DEF Places, Adding
  <2> QED
    BY <1>1, <1>2, <2>1, <2>2 DEF TypeOK, Places, Adding
<1>6. PartInv(t)'
  BY <1>1, <1>2, <1>3 DEF PartInv, Held
<1>7. \A u \in Threads : u # t => OwnInv(u)' /\ PartInv(u)' /\ FoundInv(u)'
  BY <1>2, <1>3, <1>4, Bystanders
<1>8. WholeInv'
  <2>1. \A i \in Ids : Whole(i) <=> Whole(i)'
    BY <1>2 DEF Whole
  <2>2. \A u \in Threads : pc[u] \in Held => pc'[u] = pc[u] /\ call'[u] = call[u]
    BY <1>3
  <2> QED
    BY <1>1, <1>2, <1>4, <2>1, <2>2 DEF WholeInv, Held
<1>9. CountedOnce'
  BY StillCountedOnce DEF IInv
<1>10. DrawInv'
  BY <1>1, <1>2, <1>3, StillDraws DEF IInv, Removals
<1> QED
  BY <1>5, <1>6, <1>7, <1>8, <1>9, <1>10, Together

LEMMA RemoveMissingIInv ==
  ASSUME IInv, NEW t \in Threads, RemoveMissing(t)
  PROVE  IInv'
<1>1. TypeOK /\ LockInv /\ OwnInv(t) /\ PartInv(t) /\ FoundInv(t) /\ WholeInv
  BY DEF IInv
<1>2. /\ pc[t] = "remove" /\ call[t].id \notin indexed /\ call' = call
      /\ UNCHANGED <<lock, parts, efSearch, history>> /\ nextId' = nextId /\ indexed' = indexed
  BY DEF RemoveMissing, At, parts
<1>3. call[t].op \in Removals /\ Drawn' = Drawn
  BY <1>1, <1>2 DEF OwnInv, Drawn
<1>4. PICK place \in {"idle", "next"} :
         /\ Goto(t, place) /\ calls' = calls /\ answer' = answer
         /\ \/ place = "next" /\ reply' = reply /\ call[t].op = "removeByDate"
            \/ place = "idle" /\ reply' = [reply EXCEPT ![t] = "missing"] /\ call[t].op = "remove"
  BY <1>3 DEF RemoveMissing, told, Return, Removals
<1>5. pc'[t] = place
  BY <1>1, <1>4, Moves DEF Places, Adding
<1>6. reply[t] = "none" /\ OwnInv(t)'
  BY <1>1, <1>2, <1>3, <1>4, <1>5 DEF OwnInv, Adding, Held
<1>7. FoundInv(t)'
  BY <1>1, <1>2, <1>4, <1>5, <1>6 DEF FoundInv
<1>8. call' \in [Threads -> Calls]
  BY <1>1, <1>2 DEF TypeOK
<1>9. /\ \A u \in Threads : u # t => reply'[u] = reply[u]
      /\ reply' = reply \/ (\E what \in {"ok", "missing"} : reply' = [reply EXCEPT ![t] = what])
  BY <1>1, <1>4 DEF TypeOK
<1> QED
  BY <1>2, <1>3, <1>4, <1>6, <1>7, <1>8, <1>9, UnlockedIInv DEF Held

LEMMA RemoveNextIInv ==
  ASSUME IInv, NEW t \in Threads, RemoveNext(t)
  PROVE  IInv'
<1>1. TypeOK /\ LockInv /\ OwnInv(t) /\ PartInv(t) /\ FoundInv(t) /\ WholeInv
  BY DEF IInv
<1>2. /\ pc[t] = "next" /\ UNCHANGED <<lock, parts, efSearch, history>>
      /\ nextId' = nextId /\ indexed' = indexed
  BY DEF RemoveNext, At, parts
<1>3. /\ call[t].op = "removeByDate" /\ call[t] \in Calls
      /\ Drawn' = Drawn /\ reply[t] = "none" /\ call[t].todo \subseteq Ids
      /\ call[t].found \cap indexed \subseteq call[t].todo
  BY <1>1, <1>2 DEF OwnInv, FoundInv, TypeOK, Calls, Drawn
<1>4. CASE \E i \in call[t].todo : /\ call' = [call EXCEPT ![t].id = i, ![t].todo = @ \ {i}]
                                   /\ Goto(t, "remove") /\ UNCHANGED told
  <2>1. PICK i \in call[t].todo : /\ call' = [call EXCEPT ![t].id = i, ![t].todo = @ \ {i}]
                                  /\ Goto(t, "remove") /\ UNCHANGED told
    BY <1>4
  <2>2. pc'[t] = "remove" /\ reply' = reply /\ calls' = calls /\ answer' = answer
    BY <1>1, <2>1, Moves DEF Places, Adding, told
  <2>3. /\ call'[t] = [call[t] EXCEPT !.id = i, !.todo = @ \ {i}]
        /\ \A u \in Threads : u # t => call'[u] = call[u]
        /\ call' \in [Threads -> Calls]
    BY <1>1, <1>3, <2>1 DEF TypeOK, Calls
  <2>4. /\ call'[t].op = call[t].op /\ call'[t].got = call[t].got /\ call'[t].found = call[t].found
        /\ call'[t].id = i /\ call'[t].todo = call[t].todo \ {i}
    BY <1>3, <2>3 DEF Calls
  <2>5. OwnInv(t)' /\ FoundInv(t)'
    <3>1. OwnInv(t)'
      BY <1>1, <1>2, <1>3, <2>2, <2>4 DEF OwnInv, Adding, Held, Removals
    <3>2. call'[t].found \cap indexed' \subseteq call'[t].todo \cup {call'[t].id}
      BY <1>2, <1>3, <2>4
    <3> QED
      BY <1>3, <2>2, <3>1, <3>2 DEF FoundInv
  <2> QED
    BY <1>2, <1>3, <2>1, <2>2, <2>3, <2>4, <2>5, UnlockedIInv DEF Held, Removals
<1>5. CASE call[t].todo = {} /\ Return(t, "ok") /\ UNCHANGED call
  <2>1. /\ Goto(t, "idle") /\ reply' = [reply EXCEPT ![t] = "ok"] /\ answer' = answer /\ calls' = calls
        /\ call' = call
    BY <1>5 DEF Return
  <2>2. pc'[t] = "idle"
    BY <1>1, <2>1, Moves DEF Places, Adding
  <2>3. OwnInv(t)' /\ FoundInv(t)'
    BY <1>1, <1>2, <1>3, <1>5, <2>1, <2>2 DEF OwnInv, FoundInv, Adding, Held
  <2>4. call' \in [Threads -> Calls] /\ \A u \in Threads : u # t => reply'[u] = reply[u]
    BY <1>1, <2>1 DEF TypeOK
  <2> QED
    BY <1>2, <1>3, <2>1, <2>3, <2>4, UnlockedIInv DEF Held, Removals
<1> QED
  BY <1>4, <1>5 DEF RemoveNext

LEMMA FindByDateIInv ==
  ASSUME IInv, NEW t \in Threads, FindByDate(t)
  PROVE  IInv'
<1>1. TypeOK /\ LockInv /\ OwnInv(t) /\ PartInv(t) /\ FoundInv(t) /\ WholeInv
  BY DEF IInv
<1> DEFINE dated == {i \in Ids : metadata[i] = call[t].date}
<1>2. /\ pc[t] = "removeByDate" /\ UNCHANGED <<lock, parts, efSearch, history>> /\ UNCHANGED told
      /\ nextId' = nextId /\ indexed' = indexed /\ Goto(t, "next")
      /\ call' = [call EXCEPT ![t].found = dated \cap indexed, ![t].todo = dated]
  BY DEF FindByDate, At, parts
<1>3. /\ call[t].op = "removeByDate" /\ call[t] \in Calls /\ call[t].date \in Dates
      /\ Drawn' = Drawn /\ reply[t] = "none"
  BY <1>1, <1>2 DEF OwnInv, TypeOK, Calls, Drawn
<1>4. dated \subseteq Ids /\ dated \cap indexed \subseteq Drawn
  BY <1>1, <1>3, Constant DEF WholeInv
<1> HIDE DEF dated
<1>5. pc'[t] = "next" /\ reply' = reply /\ calls' = calls /\ answer' = answer
  BY <1>1, <1>2, Moves DEF Places, Adding, told
<1>6. /\ call'[t] = [call[t] EXCEPT !.found = dated \cap indexed, !.todo = dated]
      /\ \A u \in Threads : u # t => call'[u] = call[u]
      /\ call' \in [Threads -> Calls]
  BY <1>1, <1>2, <1>3, <1>4 DEF TypeOK, Calls
<1>7. /\ call'[t].op = call[t].op /\ call'[t].got = call[t].got
      /\ call'[t].found = dated \cap indexed /\ call'[t].todo = dated
  BY <1>3, <1>6 DEF Calls
<1>8. OwnInv(t)' /\ FoundInv(t)'
  BY <1>1, <1>2, <1>3, <1>4, <1>5, <1>7 DEF OwnInv, FoundInv, Adding, Held, Removals
<1> QED
  BY <1>2, <1>3, <1>5, <1>6, <1>7, <1>8, UnlockedIInv DEF Held, Removals

LEMMA RemoveRestIInv ==
  ASSUME IInv, NEW t \in Threads, RemoveRest(t)
  PROVE  IInv'
<1>1. TypeOK /\ LockInv /\ OwnInv(t) /\ PartInv(t) /\ FoundInv(t) /\ WholeInv
  BY DEF IInv
<1>2. /\ pc[t] = "unindexed" /\ Unlock(t) /\ late' = late \ {call[t].id} /\ failed' = failed
      /\ efSearch' = efSearch
      /\ nextId' = nextId /\ indexed' = indexed /\ stored' = stored \ {call[t].id}
      /\ metadata' = [metadata EXCEPT ![call[t].id] = None]
      /\ call' = [call EXCEPT ![t].got = @ \cup {call[t].id}]
  BY DEF RemoveRest, At
<1>3. /\ call[t].op \in Removals /\ nextId \in Nat /\ Drawn' = Drawn /\ reply[t] = "none"
      /\ call[t] \in Calls /\ call[t].id \in Drawn /\ call[t].id \in Ids /\ call[t].id \notin indexed
  BY <1>1, <1>2, Constant DEF OwnInv, PartInv, Held, TypeOK, Drawn
<1>4. \A u \in Threads : u # t => pc[u] \notin Held \cup {"filter"}
  BY <1>1, <1>2, Alone DEF Held
<1>5. PICK place \in {"next", "idle"} :
         /\ Goto(t, place) /\ calls' = calls /\ answer' = answer
         /\ \/ place = "next" /\ reply' = reply /\ call[t].op = "removeByDate"
            \/ place = "idle" /\ reply' = [reply EXCEPT ![t] = "ok"] /\ call[t].op = "remove"
  BY <1>3 DEF RemoveRest, told, Return, Removals
<1>6. pc'[t] = place /\ \A u \in Threads : u # t => pc'[u] = pc[u]
  BY <1>1, <1>5, Moves DEF Places, Adding
<1>7. LockInv' /\ writer' \in Threads \cup {None} /\ readers' \subseteq Threads
  BY <1>1, <1>2, <1>5, Locks DEF Places, Adding, Held
<1>8. /\ call'[t] = [call[t] EXCEPT !.got = @ \cup {call[t].id}]
      /\ \A u \in Threads : u # t => call'[u] = call[u]
      /\ call' \in [Threads -> Calls]
  BY <1>1, <1>2, <1>3 DEF TypeOK, Calls
<1>9. /\ call'[t].op = call[t].op /\ call'[t].left = call[t].left /\ call'[t].id = call[t].id
      /\ call'[t].got = call[t].got \cup {call[t].id}
      /\ call'[t].found = call[t].found /\ call'[t].todo = call[t].todo
  BY <1>3, <1>8 DEF Calls
<1>10. /\ metadata'[call[t].id] = None /\ \A i \in Ids : i # call[t].id => metadata'[i] = metadata[i]
       /\ metadata' \in [Ids -> Dates \cup {None}]
  BY <1>1, <1>2, <1>3 DEF TypeOK
<1>11. TypeOK'
  <2>1. pc' \in [Threads -> Places]
    BY <1>1, <1>5, Moves DEF Places, Adding
  <2> QED
    BY <1>1, <1>2, <1>5, <1>7, <1>8, <1>10, <2>1 DEF TypeOK, Places, Adding
<1>12. OwnInv(t)' /\ PartInv(t)' /\ FoundInv(t)'
  <2>1. OwnInv(t)' /\ PartInv(t)'
    BY <1>1, <1>2, <1>3, <1>5, <1>6, <1>9 DEF OwnInv, PartInv, Adding, Held, Removals
  <2>2. FoundInv(t)'
    BY <1>1, <1>2, <1>3, <1>5, <1>6, <1>9 DEF FoundInv
  <2> QED
    BY <2>1, <2>2
<1>13. \A u \in Threads : u # t => OwnInv(u)' /\ PartInv(u)' /\ FoundInv(u)'
  <2>1. \A u \in Threads : u # t => reply'[u] = reply[u]
    BY <1>1, <1>5 DEF TypeOK
  <2> QED
    BY <1>2, <1>3, <1>4, <1>6, <1>8, <2>1, Bystanders
<1>14. WholeInv'
  <2>1. \A i \in Ids : i # call[t].id => Whole(i)
    BY <1>1, <1>2, <1>4 DEF WholeInv, Held
  <2>2. \A i \in Ids : i # call[t].id => Whole(i)'
    BY <1>2, <1>10, <2>1 DEF Whole
  <2>3. Whole(call[t].id)'
    BY <1>2, <1>3, <1>10 DEF Whole
  <2> QED
    BY <1>1, <1>2, <1>3, <1>10, <2>2, <2>3 DEF WholeInv
<1>15. CountedOnce'
  <2>1. \A u \in Threads : call[u].op \in Removals => call[t].id \notin call[u].got
    BY <1>1, <1>2 DEF PartInv
  <2>2. ASSUME NEW u \in Threads, u # t, call[u].op \in Removals
        PROVE  call'[t].got \cap call'[u].got = {}
    <3>1. call[t].got \cap call[u].got = {}
      BY <1>3, <2>2 DEF IInv, CountedOnce, Counted
    <3> QED
      BY <1>8, <1>9, <2>1, <2>2, <3>1
  <2>3. ASSUME NEW v \in Threads, NEW u \in Threads, Counted(v, u)'
        PROVE  call'[v].got \cap call'[u].got = {}
    <3>1. v # u /\ call'[v].op \in Removals /\ call'[u].op \in Removals
      BY <2>3 DEF Counted
    <3>2. CASE v # t /\ u # t
      BY <1>8, <3>1, <3>2 DEF IInv, CountedOnce, Counted
    <3>3. CASE v = t \/ u = t
      BY <1>8, <2>2, <3>1, <3>3
    <3> QED
      BY <3>2, <3>3
  <2> QED
    BY <2>3 DEF CountedOnce
<1>16. DrawInv'
  BY <1>1, <1>2, <1>3, <1>6, <1>8, <1>9, StillDraws DEF IInv, Removals
<1> QED
  BY <1>7, <1>11, <1>12, <1>13, <1>14, <1>15, <1>16, Together

LEMMA UpdateIInv ==
  ASSUME IInv, NEW t \in Threads, Update(t)
  PROVE  IInv'
<1>1. TypeOK /\ LockInv /\ OwnInv(t) /\ PartInv(t) /\ FoundInv(t) /\ WholeInv
  BY DEF IInv
<1>2. /\ pc[t] = "update" /\ writer = None /\ readers = {} /\ UNCHANGED lock /\ efSearch' = efSearch
      /\ failed' = failed
      /\ nextId' = nextId /\ indexed' = indexed /\ stored' = stored /\ call' = call
      /\ metadata' = [metadata EXCEPT ![call[t].id] = call[t].date]
      /\ late' = IF call[t].id \in indexed THEN late ELSE late \cup {call[t].id}
      /\ Goto(t, "idle") /\ reply' = [reply EXCEPT ![t] = "ok"] /\ answer' = answer /\ calls' = calls
  BY DEF Update, At, Return
<1>3. /\ nextId \in Nat /\ Drawn' = Drawn /\ reply[t] = "none" /\ call[t].date \in Dates
      /\ call[t] \in Calls /\ call[t].id \in Ids
  BY <1>1, <1>2, Constant DEF OwnInv, TypeOK, Drawn, Calls
<1>4. pc'[t] = "idle" /\ \A u \in Threads : u # t => pc'[u] = pc[u] /\ reply'[u] = reply[u]
  BY <1>1, <1>2, Moves DEF Places, Adding, TypeOK
<1>5. LockInv' /\ writer' \in Threads \cup {None} /\ readers' \subseteq Threads
  BY <1>1, <1>2, Locks DEF Places, Adding, Held
<1>6. /\ metadata'[call[t].id] # None /\ \A i \in Ids : i # call[t].id => metadata'[i] = metadata[i]
      /\ metadata' \in [Ids -> Dates \cup {None}]
  BY <1>1, <1>2, <1>3, Constant DEF TypeOK
<1>7. TypeOK'
  <2>1. pc' \in [Threads -> Places]
    BY <1>1, <1>2, Moves DEF Places, Adding
  <2> QED
    BY <1>1, <1>2, <1>3, <1>5, <1>6, <2>1 DEF TypeOK, Places, Adding
<1>8. OwnInv(t)' /\ PartInv(t)'
  BY <1>1, <1>2, <1>3, <1>4 DEF OwnInv, PartInv, Adding, Held, Removals
<1>9. FoundInv(t)'
  <2>1. call[t].op = "update"
    BY <1>1, <1>2 DEF OwnInv
  <2> QED
    BY <1>2, <2>1 DEF FoundInv
<1>10. \A u \in Threads : u # t => OwnInv(u)' /\ PartInv(u)' /\ FoundInv(u)'
  BY <1>1, <1>2, <1>3, <1>4, Alone, Bystanders DEF Removals
<1>11. WholeInv'
  <2>1. \A i \in Ids : Whole(i)
    <3>1. \A u \in Threads : pc[u] \notin Held
      BY <1>1, <1>2, Alone DEF Held
    <3> QED
      BY <1>1, <3>1 DEF WholeInv, Held
  <2>2. \A i \in Ids : Whole(i)'
    BY <1>2, <1>3, <1>6, <2>1 DEF Whole
  <2> QED
    BY <1>1, <1>2, <1>3, <1>6, <2>2 DEF WholeInv
<1>12. CountedOnce' /\ DrawInv'
  <2>1. CountedOnce'
    BY <1>2 DEF IInv, CountedOnce, Counted
  <2> QED
    BY <1>1, <1>2, <1>4, <2>1, StillDraws DEF IInv
<1> QED
  BY <1>5, <1>7, <1>8, <1>9, <1>10, <1>11, <1>12, Together

LEMMA QuerySearchIInv ==
  ASSUME IInv, NEW t \in Threads, QuerySearch(t)
  PROVE  IInv'
<1>1. TypeOK /\ LockInv /\ OwnInv(t) /\ PartInv(t) /\ FoundInv(t) /\ WholeInv
  BY DEF IInv
<1>2. /\ pc[t] = "query" /\ LockShared(t) /\ Goto(t, "filter") /\ late' = late /\ failed' = failed
      /\ efSearch' = IF call[t].text THEN "wide" ELSE efSearch
      /\ nextId' = nextId /\ indexed' = indexed /\ stored' = stored /\ metadata' = metadata
      /\ call' = [call EXCEPT ![t].got = indexed]
      /\ answer' = answer /\ reply' = reply /\ calls' = calls
  BY DEF QuerySearch, At, parts, told, history
<1>3. /\ nextId \in Nat /\ Drawn' = Drawn /\ reply[t] = "none" /\ call[t].op = "query"
      /\ call[t] \in Calls /\ indexed \subseteq Drawn /\ indexed \subseteq Ids
  BY <1>1, <1>2, Constant DEF OwnInv, WholeInv, TypeOK, Drawn
<1>4. pc'[t] = "filter" /\ \A u \in Threads : u # t => pc'[u] = pc[u]
  BY <1>1, <1>2, Moves DEF Places, Adding
<1>5. LockInv' /\ writer' \in Threads \cup {None} /\ readers' \subseteq Threads
  BY <1>1, <1>2, Locks DEF Places, Adding, Held
<1>6. /\ call'[t] = [call[t] EXCEPT !.got = indexed]
      /\ \A u \in Threads : u # t => call'[u] = call[u]
      /\ call' \in [Threads -> Calls]
  BY <1>1, <1>2, <1>3 DEF TypeOK, Calls
<1>7. /\ call'[t].op = "query" /\ call'[t].got = indexed
      /\ call'[t].found = call[t].found /\ call'[t].todo = call[t].todo
  BY <1>3, <1>6 DEF Calls
<1>8. TypeOK'
  <2>1. pc' \in [Threads -> Places]
    BY <1>1, <1>2, Moves DEF Places, Adding
  <2> QED
    BY <1>1, <1>2, <1>5, <1>6, <2>1 DEF TypeOK, Places, Adding
<1>9. OwnInv(t)' /\ PartInv(t)' /\ FoundInv(t)'
  BY <1>1, <1>2, <1>3, <1>4, <1>7 DEF OwnInv, PartInv, FoundInv, Adding, Held, Removals
<1>10. \A u \in Threads : u # t => OwnInv(u)' /\ PartInv(u)' /\ FoundInv(u)'
  BY <1>2, <1>3, <1>4, <1>6, <1>7, Bystanders DEF Removals
<1>11. WholeInv'
  <2>1. \A i \in Ids : Whole(i) <=> Whole(i)'
    BY <1>2 DEF Whole
  <2> QED
    BY <1>1, <1>2, <1>3, <1>4, <1>6, <2>1 DEF WholeInv
<1>12. CountedOnce'
  <2>1. CountedOnce /\ call'[t].op \notin Removals
    BY <1>7 DEF IInv, Removals
  <2> QED
    BY <1>6, <2>1, StillCountedOnce
<1>13. DrawInv'
  BY <1>1, <1>2, <1>4, <1>6, <1>7, StillDraws DEF IInv
<1> QED
  BY <1>5, <1>8, <1>9, <1>10, <1>11, <1>12, <1>13, Together

LEMMA QueryFilterIInv ==
  ASSUME IInv, NEW t \in Threads, QueryFilter(t)
  PROVE  IInv'
<1>1. TypeOK /\ LockInv /\ OwnInv(t) /\ PartInv(t) /\ FoundInv(t) /\ WholeInv
  BY DEF IInv
<1>2. /\ pc[t] = "filter" /\ Unlock(t) /\ Goto(t, "idle") /\ late' = late /\ failed' = failed /\ efSearch' = efSearch
      /\ nextId' = nextId /\ indexed' = indexed /\ stored' = stored /\ metadata' = metadata
      /\ call' = call /\ calls' = calls /\ reply' = [reply EXCEPT ![t] = "ok"]
      /\ answer' = [answer EXCEPT ![t] = {i \in call[t].got : metadata[i] = call[t].date}]
  BY DEF QueryFilter, At, parts, history
<1>3. /\ nextId \in Nat /\ Drawn' = Drawn /\ call[t].got = indexed
  BY <1>1, <1>2, Constant DEF PartInv, TypeOK, Drawn
<1>4. pc'[t] = "idle" /\ \A u \in Threads : u # t => pc'[u] = pc[u] /\ reply'[u] = reply[u]
  BY <1>1, <1>2, Moves DEF Places, Adding, TypeOK
<1>5. LockInv' /\ writer' \in Threads \cup {None} /\ readers' \subseteq Threads
  BY <1>1, <1>2, Locks DEF Places, Adding, Held
<1>6. TypeOK'
  <2>1. pc' \in [Threads -> Places]
    BY <1>1, <1>2, Moves DEF Places, Adding
  <2>2. answer' \in [Threads -> SUBSET Ids]
    BY <1>1, <1>2, <1>3 DEF TypeOK
  <2> QED
    BY <1>1, <1>2, <1>5, <2>1, <2>2 DEF TypeOK, Places, Adding
<1>7. call[t].op = "query"
  BY <1>1, <1>2 DEF OwnInv
<1>8. OwnInv(t)' /\ PartInv(t)' /\ FoundInv(t)'
  BY <1>1, <1>2, <1>3, <1>4, <1>7 DEF OwnInv, PartInv, FoundInv, Adding, Held, Removals
<1>9. \A u \in Threads : u # t => OwnInv(u)' /\ PartInv(u)' /\ FoundInv(u)'
  BY <1>2, <1>3, <1>4, <1>7, Bystanders DEF Removals
<1>10. WholeInv'
  <2>1. \A i \in Ids : Whole(i) <=> Whole(i)'
    BY <1>2 DEF Whole
  <2> QED
    BY <1>1, <1>2, <1>3, <1>4, <2>1 DEF WholeInv
<1>11. CountedOnce' /\ DrawInv'
  <2>1. CountedOnce'
    BY <1>2 DEF IInv, CountedOnce, Counted
  <2> QED
    BY <1>1, <1>2, <1>4, <2>1, StillDraws DEF IInv
<1> QED
  BY <1>5, <1>6, <1>8, <1>9, <1>10, <1>11, Together

LEMMA BeginIInv ==
  ASSUME IInv, NEW t \in Threads, NEW c \in Calls, Begin(t, c), DrawInv',
         c.got = {}, c.found = {}, c.todo = {},
         c.op = "add" => c.left >= 1, c.op = "update" => c.id \in Ids
  PROVE  IInv'
<1>1. TypeOK /\ LockInv /\ WholeInv
  BY DEF IInv
<1>2. /\ pc[t] = "idle" /\ Goto(t, c.op) /\ UNCHANGED lock /\ late' = late /\ failed' = failed /\ efSearch' = efSearch
      /\ nextId' = nextId /\ indexed' = indexed /\ stored' = stored /\ metadata' = metadata
      /\ call' = [call EXCEPT ![t] = c] /\ reply' = [reply EXCEPT ![t] = "none"]
      /\ answer' = [answer EXCEPT ![t] = {}] /\ calls' = [calls EXCEPT ![t] = @ + 1]
      /\ calls[t] < MaxCalls
  BY DEF Begin, At, parts, history
<1>3. /\ nextId \in Nat /\ Drawn' = Drawn
      /\ c.op \in {"add", "remove", "removeByDate", "update", "query"}
  BY <1>1, <1>2, Constant DEF TypeOK, Drawn, Calls
<1>4. pc'[t] = c.op /\ \A u \in Threads : u # t => pc'[u] = pc[u] /\ reply'[u] = reply[u]
  BY <1>1, <1>2, <1>3, Moves DEF Places, Adding, TypeOK
<1>5. LockInv' /\ writer' \in Threads \cup {None} /\ readers' \subseteq Threads
  BY <1>1, <1>2, <1>3, Locks DEF Places, Adding, Held
<1>6. call'[t] = c /\ \A u \in Threads : u # t => call'[u] = call[u]
  BY <1>1, <1>2 DEF TypeOK
<1>7. TypeOK'
  <2>1. pc' \in [Threads -> Places]
    BY <1>1, <1>2, <1>3, Moves DEF Places, Adding
  <2>2. calls' \in [Threads -> 0 .. MaxCalls]
    BY <1>1, <1>2, ThreadsAssumption DEF TypeOK
  <2> QED
    BY <1>1, <1>2, <1>5, <2>1, <2>2 DEF TypeOK, Places, Adding
<1>8. reply'[t] = "none"
  BY <1>1, <1>2 DEF TypeOK
<1>9. OwnInv(t)' /\ PartInv(t)' /\ FoundInv(t)'
  BY <1>2, <1>3, <1>4, <1>6, <1>8 DEF OwnInv, PartInv, FoundInv, Adding, Held, Removals
<1>10. \A u \in Threads : u # t => OwnInv(u)' /\ PartInv(u)' /\ FoundInv(u)'
  BY <1>2, <1>3, <1>4, <1>6, Bystanders
<1>11. WholeInv'
  <2>1. \A i \in Ids : Whole(i) <=> Whole(i)'
    BY <1>2 DEF Whole
  <2> QED
    BY <1>1, <1>2, <1>3, <1>4, <1>6, <2>1 DEF WholeInv
<1>12. CountedOnce'
  BY <1>6, StillCountedOnce DEF IInv
<1> QED
  BY <1>5, <1>7, <1>9, <1>10, <1>11, <1>12, Together

LEMMA NewCall ==
  ASSUME NEW op \in {"add", "remove", "removeByDate", "update", "query"}, NEW d \in Dates,
         NEW i \in Ids \cup {0}, NEW text \in BOOLEAN, NEW n \in 0 .. 2
  PROVE  /\ New(op, d, i, text, n) \in Calls
         /\ New(op, d, i, text, n).op = op /\ New(op, d, i, text, n).id = i
         /\ New(op, d, i, text, n).left = n /\ New(op, d, i, text, n).got = {}
         /\ New(op, d, i, text, n).found = {} /\ New(op, d, i, text, n).todo = {}
  BY DEF New, Calls

\* A call of another kind than add draws no ids.
LEMMA BeginOtherIInv ==
  ASSUME IInv, NEW t \in Threads, NEW op \in {"remove", "removeByDate", "update", "query"}, NEW d \in Dates,
         NEW i \in Ids \cup {0}, NEW text \in BOOLEAN, Begin(t, New(op, d, i, text, 0)),
         op = "update" => i \in Ids
  PROVE  IInv'
<1> DEFINE c == New(op, d, i, text, 0)
<1>1. /\ c \in Calls /\ c.op = op /\ c.id = i /\ c.left = 0 /\ c.got = {} /\ c.found = {} /\ c.todo = {}
  BY NewCall
<1> HIDE DEF c
<1>2. TypeOK /\ Begin(t, c)
  BY DEF IInv, c
<1>3. pc[t] = "idle" /\ nextId' = nextId /\ call' = [call EXCEPT ![t] = c] /\ Goto(t, op)
  BY <1>1, <1>2 DEF Begin, At, parts
<1>4. \A u \in Threads : u # t => call'[u] = call[u] /\ pc'[u] = pc[u]
  BY <1>2, <1>3, Moves DEF Places, Adding, TypeOK
<1>5. call'[t].op # "add"
  BY <1>1, <1>2, <1>3 DEF TypeOK
<1>6. DrawInv'
  BY <1>2, <1>3, <1>4, <1>5, StillDraws DEF IInv
<1> QED
  BY <1>1, <1>2, <1>6, BeginIInv

LEMMA BeginAddIInv ==
  ASSUME IInv, NEW t \in Threads, BeginAdd(t)
  PROVE  IInv'
<1>1. PICK d \in Dates, text \in BOOLEAN, n \in {1, 2} :
         /\ nextId + ToDraw + n <= Cardinality(Ids) + 1 /\ Begin(t, New("add", d, 0, text, n))
  BY DEF BeginAdd
<1> DEFINE c == New("add", d, 0, text, n)
<1>2. /\ c \in Calls /\ c.op = "add" /\ c.id = 0 /\ c.left = n /\ c.got = {} /\ c.found = {} /\ c.todo = {}
  BY NewCall
<1> HIDE DEF c
<1>3. TypeOK /\ Begin(t, c)
  BY <1>1 DEF IInv, c
<1>4. pc[t] = "idle" /\ nextId' = nextId /\ call' = [call EXCEPT ![t] = c] /\ Goto(t, "add")
  BY <1>2, <1>3 DEF Begin, At, parts
<1>5. /\ pc'[t] = "add" /\ call'[t] = c
      /\ \A u \in Threads : u # t => call'[u] = call[u] /\ pc'[u] = pc[u]
  BY <1>3, <1>4, Moves DEF Places, Adding, TypeOK
<1>6. Draws' = Draws \cup {<<t, k>> : k \in 1 .. n}
  <2>1. ASSUME NEW e \in Threads \X (1 .. 2)
        PROVE  e \in Draws' <=> e \in Draws \/ (e[1] = t /\ e[2] <= n)
    <3>1. e = <<e[1], e[2]>> /\ e[1] \in Threads /\ e[2] \in 1 .. 2
      OBVIOUS
    <3>2. CASE e[1] # t
      BY <1>5, <3>1, <3>2 DEF Draws, At
    <3>3. CASE e[1] = t
      BY <1>2, <1>4, <1>5, <3>1, <3>3 DEF Draws, At
    <3> QED
      BY <3>2, <3>3
  <2>2. Draws' \subseteq Threads \X (1 .. 2) /\ Draws \subseteq Threads \X (1 .. 2)
    BY DEF Draws
  <2>3. {<<t, k>> : k \in 1 .. n} = {e \in Threads \X (1 .. 2) : e[1] = t /\ e[2] <= n}
    <3>1. \A k \in 1 .. n : k \in 1 .. 2
      BY <1>1
    <3>2. ASSUME NEW e \in Threads \X (1 .. 2), e[1] = t, e[2] <= n
          PROVE  e \in {<<t, k>> : k \in 1 .. n}
      <4>1. e = <<t, e[2]>> /\ e[2] \in 1 .. n
        BY <3>2, <1>1
      <4> QED
        BY <4>1
    <3> QED
      BY <3>1, <3>2
  <2> QED
    BY <2>1, <2>2, <2>3
<1>7. ToDraw' <= ToDraw + n /\ ToDraw' \in Nat
  <2>1. IsFiniteSet(Draws) /\ Cardinality(Draws) \in Nat
    BY DrawsFinite
  <2>2. CASE n = 1
    <3>1. Draws' = Draws \cup {<<t, 1>>}
      BY <1>6, <2>2
    <3>2. Cardinality(Draws') = IF <<t, 1>> \in Draws THEN Cardinality(Draws) ELSE Cardinality(Draws) + 1
      BY <2>1, <3>1, FS_AddElement
    <3>3. ToDraw' = Cardinality(Draws') /\ ToDraw = Cardinality(Draws)
      BY DEF ToDraw
    <3> QED
      BY <2>1, <2>2, <3>2, <3>3
  <2>3. CASE n = 2
    <3>1. Draws' = (Draws \cup {<<t, 1>>}) \cup {<<t, 2>>}
      BY <1>6, <2>3
    <3>2. /\ IsFiniteSet(Draws \cup {<<t, 1>>})
          /\ Cardinality(Draws \cup {<<t, 1>>})
                = IF <<t, 1>> \in Draws THEN Cardinality(Draws) ELSE Cardinality(Draws) + 1
      BY <2>1, FS_AddElement
    <3>3. Cardinality(Draws') = IF <<t, 2>> \in Draws \cup {<<t, 1>>} THEN Cardinality(Draws \cup {<<t, 1>>})
                                ELSE Cardinality(Draws \cup {<<t, 1>>}) + 1
      BY <3>1, <3>2, FS_AddElement
    <3>4. ToDraw' = Cardinality(Draws') /\ ToDraw = Cardinality(Draws)
      BY DEF ToDraw
    <3> QED
      BY <2>1, <2>3, <3>2, <3>3, <3>4
  <2> QED
    BY <1>1, <2>2, <2>3
<1>8. DrawInv'
  <2>1. nextId \in Nat /\ Cardinality(Ids) \in Nat /\ ToDraw \in Nat
    BY <1>3, Constant, DrawsFinite DEF TypeOK, ToDraw
  <2> DEFINE drawn == ToDraw'
  <2>3. drawn \in Nat /\ drawn <= ToDraw + n
    BY <1>7
  <2> HIDE DEF drawn
  <2>4. nextId + drawn <= Cardinality(Ids) + 1
    BY <1>1, <2>1, <2>3
  <2> QED
    BY <1>4, <2>4 DEF DrawInv, drawn
<1> QED
  BY <1>1, <1>2, <1>3, <1>8, BeginIInv

LEMMA NextIInv ==
  ASSUME IInv, Next
  PROVE  IInv'
<1>1. PICK t \in Threads : BeginAdd(t) \/ BeginById(t) \/ BeginByDate(t) \/ Step(t)
  BY DEF Next
<1>2. CASE BeginAdd(t)
  BY <1>2, BeginAddIInv
<1>3. CASE BeginById(t)
  <2>1. NoCall.date \in Dates
    BY ThreadsAssumption DEF NoCall, New
  <2>2. PICK i \in Ids, d \in Dates, op \in {"remove", "update"} : Begin(t, New(op, d, i, FALSE, 0))
    BY <1>3, <2>1 DEF BeginById
  <2> QED
    BY <2>2, BeginOtherIInv
<1>4. CASE BeginByDate(t)
  <2>1. PICK d \in Dates, own \in BOOLEAN, op \in {"removeByDate", "query"} :
           Begin(t, New(op, d, 0, own, 0))
    BY <1>4 DEF BeginByDate
  <2> QED
    BY <2>1, BeginOtherIInv
<1>5. CASE Step(t)
  BY <1>5, AddIndexIInv, AddStoreIInv, AddMetadataIInv, SyncAgainIInv, AddDoneIInv, RemoveIndexIInv,
     RemoveMissingIInv, RemoveRestIInv, FindByDateIInv, RemoveNextIInv, UpdateIInv, QuerySearchIInv,
     QueryFilterIInv DEF Step, Add, Remove, RemoveByDate, QueryVector
<1> QED
  BY <1>1, <1>2, <1>3, <1>4, <1>5

LEMMA StutterIInv ==
  ASSUME IInv, UNCHANGED vars
  PROVE  IInv'
<1>1. /\ writer' = writer /\ readers' = readers /\ nextId' = nextId /\ indexed' = indexed
      /\ stored' = stored /\ metadata' = metadata /\ efSearch' = efSearch /\ pc' = pc /\ call' = call
      /\ answer' = answer /\ reply' = reply /\ calls' = calls /\ late' = late /\ failed' = failed
  BY DEF vars, lock, parts, told, history
<1>2. TypeOK' /\ LockInv' /\ CountedOnce'
  BY <1>1 DEF IInv, TypeOK, LockInv, CountedOnce, Counted
<1>3. \A t \in Threads : OwnInv(t)' /\ PartInv(t)' /\ FoundInv(t)'
  BY <1>1 DEF IInv, OwnInv, PartInv, FoundInv, Drawn
<1>4. WholeInv'
  BY <1>1 DEF IInv, WholeInv, Whole, Drawn
<1>5. DrawInv'
  BY <1>1 DEF IInv, DrawInv, ToDraw, Draws, At
<1> QED
  BY <1>2, <1>3, <1>4, <1>5 DEF IInv

LEMMA Invariant == Spec => []IInv
<1>1. Init => IInv
  BY InitIInv
<1>2. IInv /\ [Next]_vars => IInv'
  BY NextIInv, StutterIInv
<1> QED
  BY <1>1, <1>2, PTL DEF Spec

\* Types, and with them that the ids suffice for all adds that have begun: for
\* any number of threads, with any faults and with or without auto_sync.
THEOREM TypeCorrect == Spec => []TypeOK
<1>1. IInv => TypeOK
  BY DEF IInv
<1> QED
  BY <1>1, Invariant, PTL

\* "Concurrent reads with exclusive writes": a thread that gets the lock finds
\* every document whole, whichever threads failed in the middle of theirs; an
\* entry without a document is one update_metadata wrote late or one a refused
\* add left behind, and no refused add has put a document in the index.
THEOREM Wholeness == Spec => []WholeWhenUnlocked
<1>1. ASSUME IInv, writer = None
      PROVE  \A i \in Ids : Whole(i)
  <2>1. \A t \in Threads : pc[t] \notin Held
    BY <1>1, Constant DEF IInv, LockInv
  <2> QED
    BY <1>1, <2>1 DEF IInv, WholeInv, Held
<1>2. IInv => WholeWhenUnlocked
  <2> SUFFICES ASSUME IInv, writer = None
               PROVE  /\ indexed = stored
                      /\ \A i \in Ids : i \in indexed => metadata[i] # None
                      /\ \A i \in Ids \ indexed : metadata[i] # None => i \in late \cup failed
                      /\ failed \cap indexed = {}
    <3>1. ASSUME IInv
          PROVE  indexed \subseteq Ids
      BY <3>1 DEF IInv, TypeOK
    <3> QED
      BY <3>1 DEF WholeWhenUnlocked
  <2>1. indexed \subseteq Ids /\ stored \subseteq Ids
    BY DEF IInv, TypeOK
  <2>2. failed \cap indexed = {}
    BY DEF IInv, WholeInv
  <2> QED
    BY <1>1, <2>1, <2>2 DEF Whole
<1> QED
  BY <1>2, Invariant, PTL

\* However removals meet that look documents up under one lock and remove them
\* under another, each document is counted by one of them, and none is left that
\* remove_by_date saw.
THEOREM NoneCountedTwice == Spec => []RemovalsAddUp
<1>1. IInv => RemovalsAddUp
  BY DEF IInv, CountedOnce, Counted, FoundInv, RemovalsAddUp, Removals
<1> QED
  BY <1>1, Invariant, PTL

------------------------------------------------------------------------------
(* Seen from outside, each step of a thread is one of the dictionary's or   *)
(* none.                                                                   *)

Docs == [i \in Ids |-> IF i \in indexed /\ ~UnderWay(i) THEN metadata[i] ELSE None]
Outside == <<Docs, answer>>

\* The ids outside sees, with their metadata.
Visible(i) == i \in indexed /\ ~UnderWay(i)

LEMMA Unseen ==
  ASSUME answer' = answer,
         \A i \in Ids : Visible(i)' <=> Visible(i),
         \A i \in Ids : Visible(i) => metadata'[i] = metadata[i]
  PROVE  UNCHANGED Outside
<1>1. \A i \in Ids : (IF Visible(i)' THEN metadata'[i] ELSE None)
                        = (IF Visible(i) THEN metadata[i] ELSE None)
  OBVIOUS
<1>2. Docs' = Docs
  BY <1>1 DEF Docs, Visible
<1> QED
  BY <1>2 DEF Outside

\* A thread that is not adding, and does not begin to, hides no document.
LEMMA StillVisible ==
  ASSUME TypeOK, NEW t \in Threads, NEW place \in Places \ {"store", "metadata"}, Goto(t, place),
         pc[t] \notin {"store", "metadata"}, \A u \in Threads : u # t => call'[u].id = call[u].id
  PROVE  /\ \A i \in Ids : UnderWay(i)' <=> UnderWay(i)
         /\ indexed' = indexed => \A i \in Ids : Visible(i)' <=> Visible(i)
<1>1. pc'[t] = place /\ \A u \in Threads : u # t => pc'[u] = pc[u]
  BY Moves
<1>2. \A i \in Ids : UnderWay(i)' <=> UnderWay(i)
  BY <1>1 DEF UnderWay
<1> QED
  BY <1>2 DEF Visible

LEMMA Seen ==
  /\ \A i \in Ids, d \in Dates : Documents!Put(i, d) => Documents!Next
  /\ \A i \in Ids, d \in Dates : Documents!Change(i, d) => Documents!Next
  /\ \A i \in Ids : Documents!Delete(i) => Documents!Next
  /\ \A t \in Threads, d \in Dates : Documents!Query(t, d) => Documents!Next
  /\ \A t \in Threads : Documents!Call(t) => Documents!Next
  BY DEF Documents!Next

LEMMA AddRefines ==
  ASSUME IInv, NEW t \in Threads, Add(t)
  PROVE  Documents!Next \/ UNCHANGED Outside
<1>1. TypeOK /\ LockInv /\ OwnInv(t) /\ PartInv(t) /\ WholeInv
  BY DEF IInv
<1>2. CASE AddIndex(t)
  <2>1. /\ pc[t] = "add" /\ Goto(t, "store") /\ writer = None /\ readers = {}
        /\ indexed' = indexed \cup {nextId} /\ metadata' = metadata /\ answer' = answer
        /\ call' = [call EXCEPT ![t].id = nextId, ![t].left = @ - 1]
    BY <1>2 DEF AddIndex, LockAlone, At, told
  <2>2. pc'[t] = "store" /\ \A u \in Threads : u # t => pc'[u] = pc[u]
    BY <1>1, <2>1, Moves DEF Places, Adding
  <2>3. call'[t].id = nextId /\ \A u \in Threads : u # t => call'[u] = call[u]
    BY <1>1, <2>1 DEF TypeOK, Calls
  <2>4. \A u \in Threads : pc[u] \notin {"store", "metadata"}
    BY <1>1, <2>1, Alone DEF Held
  <2>5. nextId \notin indexed
    BY <1>1, Constant DEF WholeInv, Drawn, TypeOK
  <2>6. \A i \in Ids : ~UnderWay(i) /\ (UnderWay(i)' <=> i = nextId)
    BY <2>2, <2>3, <2>4 DEF UnderWay
  <2>7. \A i \in Ids : Visible(i)' <=> Visible(i)
    BY <2>1, <2>5, <2>6 DEF Visible
  <2> QED
    BY <2>1, <2>7, Unseen
<1>3. ASSUME pc[t] \in {"store", "metadata"}, call' = call
      PROVE  /\ call[t].id \in Ids /\ UnderWay(call[t].id)
             /\ \A u \in Threads : u # t => pc[u] \notin {"store", "metadata"}
  <2>1. call[t].id \in indexed /\ indexed \subseteq Ids
    BY <1>1, <1>3 DEF PartInv, TypeOK
  <2>2. \A u \in Threads : u # t => pc[u] \notin Held \cup {"filter"}
    BY <1>1, <1>3, Alone DEF Held
  <2> QED
    BY <1>3, <2>1, <2>2 DEF UnderWay, Held
<1>4. ASSUME pc[t] \in {"store", "metadata"}, call' = call,
             NEW place \in Places \ {"store", "metadata"}, Goto(t, place)
      PROVE  \A i \in Ids : ~UnderWay(i)' /\ (i # call[t].id => ~UnderWay(i))
  <2>1. pc'[t] = place /\ \A u \in Threads : u # t => pc'[u] = pc[u]
    BY <1>1, <1>4, Moves
  <2> QED
    BY <1>3, <1>4, <2>1 DEF UnderWay
<1>5. CASE AddStore(t)
  <2>1. pc[t] = "store" /\ call' = call /\ metadata' = metadata
    BY <1>5 DEF AddStore, At
  <2>2. CASE Goto(t, "metadata") /\ UNCHANGED <<lock, indexed, told>>
    <3>1. pc'[t] = "metadata" /\ \A u \in Threads : u # t => pc'[u] = pc[u]
      BY <1>1, <2>2, Moves DEF Places, Adding
    <3>2. \A i \in Ids : Visible(i)' <=> Visible(i)
      BY <2>1, <2>2, <3>1 DEF Visible, UnderWay
    <3> QED
      BY <2>1, <2>2, <3>2, Unseen DEF told
  <2>3. CASE indexed' = indexed \ {call[t].id} /\ Return(t, "error")
    <3>1. Goto(t, "idle") /\ answer' = answer /\ "idle" \in Places \ {"store", "metadata"}
      BY <2>3 DEF Return, Places, Adding
    <3>2. \A i \in Ids : Visible(i)' <=> Visible(i)
      BY <1>3, <1>4, <2>1, <2>3, <3>1 DEF Visible
    <3> QED
      BY <2>1, <3>1, <3>2, Unseen
  <2> QED
    BY <1>5, <2>2, <2>3 DEF AddStore
<1>6. CASE AddMetadata(t)
  <2>1. /\ pc[t] = "metadata" /\ call' = call
        /\ metadata' = [metadata EXCEPT ![call[t].id] = call[t].date]
    BY <1>6 DEF AddMetadata, At
  <2>2. /\ call[t].id \in Ids /\ UnderWay(call[t].id) /\ call[t].id \in indexed
        /\ call[t].date \in Dates
    BY <1>1, <1>3, <2>1 DEF PartInv, TypeOK, Calls
  <2>3. \A i \in Ids : i # call[t].id => metadata'[i] = metadata[i]
    BY <1>1, <2>1 DEF TypeOK
  <2>4. CASE /\ Goto(t, IF AutoSync /\ call[t].text THEN "sync" ELSE "added")
             /\ UNCHANGED <<lock, indexed, stored, told, failed>>
    <3>1. /\ indexed' = indexed /\ answer' = answer
          /\ \E place \in Places \ {"store", "metadata"} : Goto(t, place)
      BY <2>4 DEF told, Places, Adding
    <3>2. \A i \in Ids : ~UnderWay(i)' /\ (i # call[t].id => ~UnderWay(i))
      BY <1>4, <2>1, <3>1
    <3>3. metadata'[call[t].id] = call[t].date
      BY <1>1, <2>1, <2>2 DEF TypeOK
    <3>4. Docs[call[t].id] = None /\ Docs' = [Docs EXCEPT ![call[t].id] = call[t].date]
      BY <2>2, <2>3, <3>1, <3>2, <3>3 DEF Docs
    <3>5. PICK i \in Ids, d \in Dates : i = call[t].id /\ d = call[t].date
      BY <2>2
    <3>6. Documents!Put(i, d)
      BY <3>1, <3>4, <3>5 DEF Documents!Put, Docs
    <3> QED
      BY <3>6, Seen
  <2>5. CASE indexed' = indexed \ {call[t].id} /\ Return(t, "error")
    <3>1. Goto(t, "idle") /\ answer' = answer /\ "idle" \in Places \ {"store", "metadata"}
      BY <2>5 DEF Return, Places, Adding
    <3>2. \A i \in Ids : Visible(i)' <=> Visible(i)
      BY <1>4, <2>1, <2>2, <2>5, <3>1 DEF Visible
    <3>3. \A i \in Ids : Visible(i) => metadata'[i] = metadata[i]
      BY <2>2, <2>3 DEF Visible
    <3> QED
      BY <3>1, <3>2, <3>3, Unseen
  <2> QED
    BY <1>6, <2>4, <2>5 DEF AddMetadata
<1>7. CASE SyncAgain(t) \/ AddDone(t)
  <2>1. /\ indexed' = indexed /\ metadata' = metadata /\ answer' = answer
        /\ pc[t] \notin {"store", "metadata"}
        /\ call' = call \/ call' = [call EXCEPT ![t].got = @ \cup {call[t].id}]
        /\ \E place \in Places \ {"store", "metadata"} : Goto(t, place)
    BY <1>7 DEF SyncAgain, AddDone, At, parts, told, Return, Places, Adding
  <2>2. \A u \in Threads : u # t => call'[u].id = call[u].id
    BY <1>1, <2>1 DEF TypeOK
  <2>3. \A i \in Ids : Visible(i)' <=> Visible(i)
    BY <1>1, <2>1, <2>2, StillVisible
  <2> QED
    BY <2>1, <2>3, Unseen
<1> QED
  BY <1>2, <1>5, <1>6, <1>7 DEF Add

LEMMA RemoveRefines ==
  ASSUME IInv, NEW t \in Threads, Remove(t)
  PROVE  Documents!Next \/ UNCHANGED Outside
<1>1. TypeOK /\ LockInv /\ OwnInv(t) /\ PartInv(t)
  BY DEF IInv
<1>2. CASE RemoveIndex(t)
  <2>1. /\ call[t].id \in Ids /\ indexed' = indexed \ {call[t].id} /\ metadata' = metadata /\ answer' = answer
        /\ pc[t] = "remove" /\ Goto(t, "unindexed") /\ call' = call
    BY <1>1, <1>2 DEF RemoveIndex, At, told, TypeOK
  <2>2. \A i \in Ids : UnderWay(i)' <=> UnderWay(i)
    BY <1>1, <2>1, StillVisible DEF Places, Adding
  <2>3. Docs' = [Docs EXCEPT ![call[t].id] = None]
    BY <2>1, <2>2 DEF Docs
  <2>4. PICK i \in Ids : i = call[t].id
    BY <2>1
  <2>5. Documents!Delete(i)
    BY <2>1, <2>3, <2>4 DEF Documents!Delete, Docs
  <2> QED
    BY <2>5, Seen
<1>3. CASE RemoveMissing(t)
  <2>1. /\ indexed' = indexed /\ metadata' = metadata /\ answer' = answer /\ call' = call
        /\ pc[t] = "remove" /\ \E place \in Places \ {"store", "metadata"} : Goto(t, place)
    BY <1>3 DEF RemoveMissing, At, parts, told, Return, Places, Adding
  <2>2. \A i \in Ids : Visible(i)' <=> Visible(i)
    BY <1>1, <2>1, StillVisible
  <2> QED
    BY <2>1, <2>2, Unseen
<1>4. CASE RemoveRest(t)
  <2>1. /\ call[t].id \notin indexed /\ indexed' = indexed /\ answer' = answer /\ pc[t] = "unindexed"
        /\ metadata' = [metadata EXCEPT ![call[t].id] = None]
        /\ call' = [call EXCEPT ![t].got = @ \cup {call[t].id}]
        /\ \E place \in Places \ {"store", "metadata"} : Goto(t, place)
    BY <1>1, <1>4 DEF RemoveRest, PartInv, At, told, Return, Places, Adding
  <2>2. \A i \in Ids : i \in indexed => metadata'[i] = metadata[i]
    BY <1>1, <2>1 DEF TypeOK
  <2>3. \A u \in Threads : u # t => call'[u].id = call[u].id
    BY <1>1, <2>1 DEF TypeOK
  <2>4. \A i \in Ids : Visible(i)' <=> Visible(i)
    BY <1>1, <2>1, <2>3, StillVisible
  <2>5. \A i \in Ids : Visible(i) => metadata'[i] = metadata[i]
    BY <2>2 DEF Visible
  <2> QED
    BY <2>1, <2>4, <2>5, Unseen
<1> QED
  BY <1>2, <1>3, <1>4 DEF Remove

LEMMA OtherRefines ==
  ASSUME IInv, NEW t \in Threads, RemoveByDate(t) \/ Update(t) \/ QueryVector(t)
  PROVE  Documents!Next \/ UNCHANGED Outside
<1>1. TypeOK /\ LockInv /\ OwnInv(t) /\ PartInv(t)
  BY DEF IInv
<1>2. ASSUME indexed' = indexed, pc[t] \notin {"store", "metadata"},
             \E place \in Places \ {"store", "metadata"} : Goto(t, place),
             \A u \in Threads : u # t => call'[u] = call[u]
      PROVE  \A i \in Ids : (UnderWay(i)' <=> UnderWay(i)) /\ (Visible(i)' <=> Visible(i))
  BY <1>1, <1>2, StillVisible
<1>3. CASE RemoveByDate(t) \/ QuerySearch(t)
  <2>1. /\ indexed' = indexed /\ metadata' = metadata /\ answer' = answer
        /\ pc[t] \notin {"store", "metadata"}
        /\ \E place \in Places \ {"store", "metadata"} : Goto(t, place)
    BY <1>3 DEF RemoveByDate, FindByDate, RemoveNext, QuerySearch, At, parts, told, Return, Places, Adding
  <2>2. \A u \in Threads : u # t => call'[u] = call[u]
    BY <1>1, <1>3 DEF RemoveByDate, FindByDate, RemoveNext, QuerySearch, TypeOK
  <2>3. \A i \in Ids : Visible(i)' <=> Visible(i)
    BY <1>2, <2>1, <2>2
  <2> QED
    BY <2>1, <2>3, Unseen
<1>4. CASE Update(t)
  <2>1. /\ metadata' = [metadata EXCEPT ![call[t].id] = call[t].date]
        /\ indexed' = indexed /\ answer' = answer /\ call' = call
        /\ pc[t] = "update" /\ \E place \in Places \ {"store", "metadata"} : Goto(t, place)
        /\ writer = None /\ call[t].id \in Ids /\ call[t].date \in Dates
    <3>1. pc[t] = "update" /\ call[t] \in Calls
      BY <1>1, <1>4 DEF Update, At, TypeOK
    <3>2. call[t].id \in Ids
      BY <1>1, <3>1 DEF OwnInv
    <3> QED
      BY <1>4, <3>1, <3>2 DEF Update, Return, Calls, Places, Adding
  <2>2. \A i \in Ids : (UnderWay(i)' <=> UnderWay(i)) /\ (Visible(i)' <=> Visible(i))
    BY <1>2, <2>1
  <2>3. CASE call[t].id \in indexed
    <3>1. \A u \in Threads : pc[u] \notin Held
      BY <1>1, <2>1, Constant DEF LockInv
    <3>2. ~UnderWay(call[t].id)
      BY <3>1 DEF UnderWay, Held
    <3>3. Docs[call[t].id] # None
      BY <2>1, <2>3, <3>1, <3>2 DEF IInv, WholeInv, Whole, Held, Docs
    <3>4. Docs' = [Docs EXCEPT ![call[t].id] = call[t].date]
      <4>1. metadata'[call[t].id] = call[t].date /\ \A i \in Ids : i # call[t].id => metadata'[i] = metadata[i]
        BY <1>1, <2>1 DEF TypeOK
      <4> QED
        BY <2>1, <2>2, <2>3, <3>2, <4>1 DEF Docs
    <3>5. PICK i \in Ids, d \in Dates : i = call[t].id /\ d = call[t].date
      BY <2>1
    <3>6. Documents!Change(i, d)
      BY <2>1, <3>3, <3>4, <3>5 DEF Documents!Change, Docs
    <3> QED
      BY <3>6, Seen
  <2>4. CASE call[t].id \notin indexed
    <3>1. \A i \in Ids : Visible(i) => metadata'[i] = metadata[i]
      BY <1>1, <2>1, <2>4 DEF TypeOK, Visible
    <3> QED
      BY <2>1, <2>2, <3>1, Unseen
  <2> QED
    BY <2>3, <2>4
<1>5. CASE QueryFilter(t)
  <2>1. /\ indexed' = indexed /\ metadata' = metadata /\ call[t].got = indexed /\ call[t].date \in Dates
        /\ answer' = [answer EXCEPT ![t] = {i \in call[t].got : metadata[i] = call[t].date}]
        /\ pc[t] = "filter" /\ call' = call /\ Goto(t, "idle") /\ "idle" \in Places \ {"store", "metadata"}
    BY <1>1, <1>5 DEF QueryFilter, At, parts, PartInv, TypeOK, Calls, Places, Adding
  <2>2. \A i \in Ids : ~UnderWay(i) /\ (UnderWay(i)' <=> UnderWay(i))
    <3>1. \A u \in Threads : pc[u] \notin Held
      BY <1>1, <2>1, Constant DEF LockInv
    <3> QED
      BY <1>2, <2>1, <3>1 DEF UnderWay, Held
  <2>3. Docs' = Docs
    BY <2>1, <2>2 DEF Docs
  <2>4. {i \in call[t].got : metadata[i] = call[t].date} = {i \in Ids : Docs[i] = call[t].date}
    <3>1. indexed \subseteq Ids /\ call[t].date # None
      BY <1>1, <2>1, Constant DEF TypeOK
    <3>2. \A i \in Ids : Docs[i] = call[t].date <=> i \in indexed /\ metadata[i] = call[t].date
      BY <2>2, <3>1 DEF Docs
    <3> QED
      BY <2>1, <3>1, <3>2
  <2>5. PICK d \in Dates : d = call[t].date
    BY <2>1
  <2>6. Documents!Query(t, d)
    BY <2>1, <2>3, <2>4, <2>5 DEF Documents!Query, Docs
  <2> QED
    BY <2>6, Seen
<1> QED
  BY <1>3, <1>4, <1>5 DEF QueryVector

\* With the parts of several operations interleaved, the documents change and
\* are found as if each were added, changed, removed or looked up in one step.
THEOREM Refinement == Spec => ImplementsDocuments
<1>1. Init => Documents!Init
  <2>1. Init => \A i \in Ids : i \notin indexed
    BY DEF Init
  <2> QED
    BY <2>1 DEF Init, Documents!Init
<1>2. IInv /\ [Next]_vars => [Documents!Next]_Outside
  <2> SUFFICES ASSUME IInv, [Next]_vars
               PROVE  Documents!Next \/ UNCHANGED Outside
    OBVIOUS
  <2>1. CASE UNCHANGED vars
    <3>1. indexed' = indexed /\ metadata' = metadata /\ answer' = answer /\ pc' = pc /\ call' = call
      BY <2>1 DEF vars, parts, told
    <3>2. \A i \in Ids : Visible(i)' <=> Visible(i)
      BY <3>1 DEF Visible, UnderWay
    <3> QED
      BY <3>1, <3>2, Unseen
  <2>2. CASE Next
    <3>1. PICK t \in Threads : BeginAdd(t) \/ BeginById(t) \/ BeginByDate(t) \/ Step(t)
      BY <2>2 DEF Next
    <3>2. ASSUME NEW c, c.op \in {"add", "remove", "removeByDate", "update", "query"}, Begin(t, c)
          PROVE  Documents!Next
      <4>1. /\ indexed' = indexed /\ metadata' = metadata /\ answer' = [answer EXCEPT ![t] = {}]
            /\ pc[t] = "idle" /\ Goto(t, c.op) /\ call' = [call EXCEPT ![t] = c]
        BY <3>2 DEF Begin, At, parts
      <4>2. Docs' = Docs
        <5>1. TypeOK /\ c.op \in Places \ {"store", "metadata"}
          BY <3>2 DEF IInv, Places, Adding
        <5>2. \A u \in Threads : u # t => call'[u].id = call[u].id
          BY <4>1, <5>1 DEF TypeOK
        <5>3. \A i \in Ids : UnderWay(i)' <=> UnderWay(i)
          BY <4>1, <5>1, <5>2, StillVisible
        <5> QED
          BY <4>1, <5>3 DEF Docs
      <4>3. Documents!Call(t)
        BY <4>1, <4>2 DEF Documents!Call, Docs
      <4> QED
        BY <4>3, Seen
    <3>3. CASE BeginAdd(t) \/ BeginById(t) \/ BeginByDate(t)
      <4>1. ASSUME NEW op \in {"add", "remove", "removeByDate", "update", "query"},
                   NEW d, NEW i, NEW text, NEW n, Begin(t, New(op, d, i, text, n))
            PROVE  Documents!Next
        <5>1. New(op, d, i, text, n).op = op
          BY DEF New
        <5> QED
          BY <3>2, <4>1, <5>1
      <4>2. CASE BeginAdd(t)
        BY <4>1, <4>2 DEF BeginAdd
      <4>3. CASE BeginById(t)
        BY <4>1, <4>3 DEF BeginById
      <4>4. CASE BeginByDate(t)
        BY <4>1, <4>4 DEF BeginByDate
      <4> QED
        BY <3>3, <4>2, <4>3, <4>4
    <3>4. CASE Step(t)
      BY <3>4, AddRefines, RemoveRefines, OtherRefines DEF Step
    <3> QED
      BY <3>1, <3>3, <3>4
  <2> QED
    BY <2>1, <2>2
<1>3. [Documents!Next]_Outside
        => [Documents!Next]_<<[i \in Ids |-> IF i \in indexed /\ ~UnderWay(i) THEN metadata[i] ELSE None],
                              answer>>
  BY DEF Outside, Docs
<1>4. IInv /\ [Next]_vars
         => [Documents!Next]_<<[i \in Ids |-> IF i \in indexed /\ ~UnderWay(i) THEN metadata[i] ELSE None],
                              answer>>
  BY <1>2, <1>3
<1> QED
  BY <1>1, <1>4, Invariant, PTL DEF Spec, ImplementsDocuments, Documents!Spec
==============================================================================
