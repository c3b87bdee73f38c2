------------------------ MODULE FlowCollectorProofs -------------------------
(***************************************************************************)
(* Proofs about FlowCollector, for any set of records, any number of stop  *)
(* requests and any limit: type correctness, the bound on memory, the drop *)
(* counter, the refinement of FlowLedger, and what a stop may lose.        *)
(***************************************************************************)
EXTENDS FlowCollector, FiniteSetTheorems, TLAPS

\* The places of a record do not overlap ...
Disjoint ==
    /\ todo \cap Received = {}
    /\ stored \cap dropped = {}
    /\ buffer \cap (stored \cup dropped) = {}
    /\ \A t \in Threads : batch[t] \cap (buffer \cup stored \cup dropped) = {}
    /\ \A t, u \in Threads : t # u => batch[t] \cap batch[u] = {}

\* ... and a thread holds a batch only while it writes it.
BatchInHand == \A t \in Threads : pc[t] \notin {"persist", "count"} => batch[t] = {}

\* Everything in memory is finite; a count in progress started from a count
\* that was not too high.
Finite ==
    /\ IsFiniteSet(buffer) /\ IsFiniteSet(dropped)
    /\ \A t \in Threads : IsFiniteSet(batch[t])
CountsBehind == \A t \in Threads : pc[t] = "count" => read[t] <= Cardinality(dropped)

IInv == /\ TypeOK /\ Disjoint /\ BatchInHand
        /\ Finite /\ MemoryBounded /\ CountsBehind /\ NeverOvercounted

LEMMA ThreadNames == "serve" \in Threads /\ "flush" \in Threads /\ Stoppers \subseteq Threads
BY DEF Threads

LEMMA InitIInv == Init => IInv
<1> SUFFICES ASSUME Init PROVE IInv
  OBVIOUS
<1>1. IsFiniteSet({}) /\ Cardinality({}) = 0
  BY FS_EmptySet
<1>2. Limit \in Nat \ {0}
  BY LimitAssumption
<1>3. TypeOK
  BY DEF Init, TypeOK, PC
<1>4. Disjoint /\ BatchInHand
  BY DEF Init, Disjoint, BatchInHand, Received, InFlight
<1>5. Finite /\ MemoryBounded
  BY <1>1, <1>2 DEF Init, Finite, MemoryBounded
<1>6. CountsBehind /\ NeverOvercounted
  BY <1>1 DEF Init, CountsBehind, NeverOvercounted
<1> QED  BY <1>3, <1>4, <1>5, <1>6 DEF IInv

\* A step that moves no record and counts nothing.
LEMMA QuietStep ==
    ASSUME IInv, NEW t \in Threads, NEW l \in PC \ {"persist", "count"},
           pc[t] \notin {"persist", "count"}, Goto(t, l), running' \in BOOLEAN,
           todo' \subseteq Flow, todo' \cap Received = {},
           UNCHANGED <<buffer, batch, stored, dropped, counted, read>>
    PROVE  IInv'
<1>1. /\ \A u \in Threads : u # t => pc'[u] = pc[u]
      /\ pc'[t] = l /\ pc' \in [Threads -> PC]
  BY DEF Goto, IInv, TypeOK
<1>2. TypeOK'
  BY <1>1 DEF IInv, TypeOK
<1>3. Disjoint'
  BY DEF IInv, Disjoint, Received, InFlight
<1>4. BatchInHand'
  BY <1>1 DEF IInv, BatchInHand
<1>5. Finite' /\ MemoryBounded' /\ NeverOvercounted'
  BY DEF IInv, Finite, MemoryBounded, NeverOvercounted
<1>6. CountsBehind'
  BY <1>1 DEF IInv, CountsBehind
<1> QED  BY <1>2, <1>3, <1>4, <1>5, <1>6 DEF IInv

\* A thread that takes the whole buffer, or finds it empty.
LEMMA FlushStep ==
    ASSUME IInv, NEW t \in Threads, NEW next \in PC \ {"persist", "count"},
           pc[t] \notin {"persist", "count"}, Flush(t, next)
    PROVE  IInv'
<1>1. /\ \A u \in Threads : u # t => pc'[u] = pc[u] /\ batch'[u] = batch[u]
      /\ pc'[t] = (IF buffer = {} THEN next ELSE "persist")
      /\ batch'[t] = buffer /\ buffer' = {}
      /\ UNCHANGED <<running, todo, stored, dropped, counted, read>>
  BY DEF Flush, Goto, IInv, TypeOK
<1>2. batch[t] = {}
  BY DEF IInv, BatchInHand
<1>3. TypeOK'
  BY DEF Flush, Goto, IInv, TypeOK, PC
<1>4. Disjoint'
  <2>1. \A f \in Received' : f \in Received
    BY <1>1 DEF Received, InFlight
  <2>2. \A u, v \in Threads : u # v => batch'[u] \cap batch'[v] = {}
    BY <1>1 DEF IInv, Disjoint
  <2>3. \A u \in Threads : batch'[u] \cap (buffer' \cup stored' \cup dropped') = {}
    BY <1>1 DEF IInv, Disjoint
  <2> QED  BY <1>1, <2>1, <2>2, <2>3 DEF IInv, Disjoint
<1>5. BatchInHand'
  BY <1>1 DEF IInv, BatchInHand
<1>6. IsFiniteSet({}) /\ Cardinality({}) = 0
  BY FS_EmptySet
<1>7. Cardinality(buffer) \in Nat /\ Limit \in Nat \ {0}
  BY FS_CardinalityType, LimitAssumption DEF IInv, Finite
<1>8. Finite' /\ MemoryBounded'
  BY <1>1, <1>6, <1>7 DEF IInv, Finite, MemoryBounded
<1>9. CountsBehind' /\ NeverOvercounted'
  BY <1>1 DEF IInv, CountsBehind, NeverOvercounted
<1> QED  BY <1>3, <1>4, <1>5, <1>8, <1>9 DEF IInv

\* A record that is queued, and may fill the buffer.
LEMMA EnqueueStep ==
    ASSUME IInv, NEW f \in Flow, Enqueue(f)
    PROVE  IInv'
<1> DEFINE B == buffer \cup {f}
<1>1. f \in todo /\ pc["serve"] = "busy" /\ todo' = todo \ {f}
      /\ UNCHANGED <<running, stored, dropped, counted, read>>
  BY DEF Enqueue
<1>2. f \notin Received /\ f \notin buffer /\ batch["serve"] = {}
  BY <1>1, ThreadNames DEF IInv, Disjoint, BatchInHand, Received
<1>3. IsFiniteSet(B) /\ Cardinality(B) = Cardinality(buffer) + 1
      /\ Cardinality(buffer) \in Nat /\ Limit \in Nat \ {0}
  BY <1>2, FS_AddElement, FS_CardinalityType, LimitAssumption DEF IInv, Finite
<1>4. CASE Full(B)
  <2>1. /\ \A u \in Threads : u # "serve" => pc'[u] = pc[u] /\ batch'[u] = batch[u]
        /\ pc'["serve"] = "persist" /\ batch'["serve"] = B /\ buffer' = {}
        /\ pc' \in [Threads -> PC] /\ batch' \in [Threads -> SUBSET Flow]
    BY <1>4, ThreadNames DEF Enqueue, Goto, IInv, TypeOK, PC
  <2>2. TypeOK'
    BY <1>1, <2>1 DEF IInv, TypeOK
  <2>3. Received' \subseteq Received \cup {f}
    BY <1>1, <2>1 DEF Received, InFlight
  <2>4. \A u, v \in Threads : u # v => batch'[u] \cap batch'[v] = {}
    <3>1. \A u \in Threads : batch[u] \cap B = {}
      BY <1>2 DEF IInv, Disjoint, Received, InFlight
    <3>2. \A u, v \in Threads : u # v => batch[u] \cap batch[v] = {}
      BY DEF IInv, Disjoint
    <3> QED  BY <2>1, <3>1, <3>2
  <2>5. \A u \in Threads : batch'[u] \cap (buffer' \cup stored' \cup dropped') = {}
    BY <1>1, <1>2, <2>1 DEF IInv, Disjoint, Received
  <2>6. Disjoint'
    BY <1>1, <2>1, <2>3, <2>4, <2>5 DEF IInv, Disjoint
  <2>7. BatchInHand' /\ CountsBehind' /\ NeverOvercounted'
    BY <1>1, <2>1 DEF IInv, BatchInHand, CountsBehind, NeverOvercounted
  <2>8. IsFiniteSet({}) /\ Cardinality({}) = 0
    BY FS_EmptySet
  <2>9. Cardinality(B) <= Limit
    BY <1>3 DEF IInv, MemoryBounded
  <2>10. Finite' /\ MemoryBounded'
    <3> HIDE DEF B
    <3>1. Finite'
      BY <1>1, <1>3, <2>1, <2>8 DEF IInv, Finite
    <3>2. Cardinality(buffer') < Limit
      BY <1>3, <2>1, <2>8
    <3>3. ASSUME NEW u \in Threads PROVE Cardinality(batch'[u]) <= Limit
      BY <2>1, <2>9 DEF IInv, MemoryBounded
    <3> QED  BY <3>1, <3>2, <3>3 DEF MemoryBounded
  <2> QED  BY <2>2, <2>6, <2>7, <2>10 DEF IInv
<1>5. CASE ~Full(B)
  <2>1. buffer' = B /\ UNCHANGED <<batch, pc>>
    BY <1>5 DEF Enqueue
  <2>2. TypeOK'
    BY <1>1, <2>1 DEF IInv, TypeOK
  <2>3. Received' \subseteq Received \cup {f}
    BY <1>1, <2>1 DEF Received, InFlight
  <2>4. \A u \in Threads : batch'[u] \cap (buffer' \cup stored' \cup dropped') = {}
    BY <1>1, <1>2, <2>1 DEF IInv, Disjoint, Received, InFlight
  <2>5. Disjoint'
    BY <1>1, <1>2, <2>1, <2>3, <2>4 DEF IInv, Disjoint, Received
  <2>6. BatchInHand' /\ CountsBehind' /\ NeverOvercounted'
    BY <1>1, <2>1 DEF IInv, BatchInHand, CountsBehind, NeverOvercounted
  <2>7. Finite' /\ MemoryBounded'
    BY <1>1, <1>3, <1>5, <2>1 DEF IInv, Finite, MemoryBounded, Full
  <2> QED  BY <2>2, <2>5, <2>6, <2>7 DEF IInv
<1> QED  BY <1>4, <1>5

\* A batch that the database takes, or whose loss is counted.
LEMMA SettleStep ==
    ASSUME IInv, NEW t \in Threads, Persist(t) \/ CountDropped(t)
    PROVE  IInv'
<1>1. Resume(t) \in PC \ {"persist", "count"}
  BY DEF Resume, PC
<1>2. /\ \A u \in Threads : u # t => pc'[u] = pc[u] /\ batch'[u] = batch[u]
      /\ pc'[t] = Resume(t) /\ batch'[t] = {}
      /\ pc' \in [Threads -> PC] /\ batch' \in [Threads -> SUBSET Flow]
      /\ UNCHANGED <<running, buffer, todo, read>>
  BY <1>1 DEF Persist, CountDropped, Goto, IInv, TypeOK
<1>3. /\ stored' \cup dropped' = stored \cup dropped \cup batch[t]
      /\ stored' \cap dropped' = {}
  BY DEF Persist, CountDropped, IInv, Disjoint
<1>4. \A f \in Received' : f \in Received
  BY <1>2, <1>3 DEF Received, InFlight
<1>5. Disjoint'
  <2>1. \A u, v \in Threads : u # v => batch'[u] \cap batch'[v] = {}
    BY <1>2 DEF IInv, Disjoint
  <2>2. \A u \in Threads : batch'[u] \cap (buffer' \cup stored' \cup dropped') = {}
    <3> TAKE u \in Threads
    <3>1. CASE u = t
      BY <1>2, <3>1
    <3>2. CASE u # t
      BY <1>2, <1>3, <3>2 DEF IInv, Disjoint
    <3> QED  BY <3>1, <3>2
  <2>3. buffer' \cap (stored' \cup dropped') = {}
    BY <1>2, <1>3 DEF IInv, Disjoint
  <2> QED  BY <1>2, <1>3, <1>4, <2>1, <2>2, <2>3 DEF IInv, Disjoint
<1>6. BatchInHand'
  BY <1>1, <1>2 DEF IInv, BatchInHand
<1>7. /\ IsFiniteSet({}) /\ Cardinality({}) = 0
      /\ Limit \in Nat \ {0}
  BY FS_EmptySet, LimitAssumption
<1>8. /\ IsFiniteSet(dropped) /\ IsFiniteSet(batch[t])
      /\ Cardinality(dropped) \in Nat /\ Cardinality(batch[t]) \in Nat
  BY FS_CardinalityType DEF IInv, Finite
<1>9. /\ IsFiniteSet(dropped \cup batch[t])
      /\ Cardinality(dropped \cup batch[t]) = Cardinality(dropped) + Cardinality(batch[t])
  <2>1. dropped \cap batch[t] = {}
    BY DEF IInv, Disjoint
  <2>2. /\ IsFiniteSet(dropped \cup batch[t])
        /\ Cardinality(dropped \cup batch[t])
             = Cardinality(dropped) + Cardinality(batch[t]) - Cardinality(dropped \cap batch[t])
    BY <1>8, FS_Union
  <2>3. Cardinality(dropped \cap batch[t]) = 0
    BY <1>7, <2>1, Zenon
  <2> DEFINE b == Cardinality(batch[t])
             d == Cardinality(dropped)
             c == Cardinality(dropped \cap batch[t])
             s == Cardinality(dropped \cup batch[t])
  <2>4. s = d + b - c /\ c = 0 /\ d \in Nat /\ b \in Nat
    BY <1>8, <2>2, <2>3, Zenon
  <2>5. s = d + b
    <3> HIDE DEF b, d, c, s
    <3> QED  BY <2>4
  <2> QED  BY <2>2, <2>5
<1>10. dropped' \in {dropped, dropped \cup batch[t]}
  BY DEF Persist, CountDropped
<1>11. Finite' /\ MemoryBounded'
  <2>1. IsFiniteSet(dropped')
    BY <1>8, <1>9, <1>10
  <2>2. Finite'
    BY <1>2, <1>7, <2>1 DEF IInv, Finite
  <2>3. ASSUME NEW u \in Threads PROVE Cardinality(batch'[u]) <= Limit
    BY <1>2, <1>7 DEF IInv, MemoryBounded
  <2> QED  BY <1>2, <2>2, <2>3 DEF IInv, MemoryBounded
<1>12. Cardinality(dropped) <= Cardinality(dropped') /\ Cardinality(dropped') \in Nat
  BY <1>8, <1>9, <1>10
<1>13. CountsBehind'
  <2> SUFFICES ASSUME NEW u \in Threads, pc'[u] = "count"
               PROVE  read'[u] <= Cardinality(dropped')
    BY DEF CountsBehind
  <2>1. u # t /\ pc[u] = "count" /\ read'[u] = read[u]
    BY <1>1, <1>2
  <2>2. read[u] <= Cardinality(dropped) /\ read[u] \in Nat
    BY <2>1 DEF IInv, CountsBehind, TypeOK
  <2> QED  BY <1>8, <1>12, <2>1, <2>2
<1>14. counted' \in Nat /\ NeverOvercounted'
  <2>1. CASE Persist(t)
    BY <2>1 DEF Persist, IInv, NeverOvercounted, TypeOK
  <2>2. CASE CountDropped(t)
    <3>1. /\ pc[t] = "count" /\ dropped' = dropped \cup batch[t]
          /\ counted' = read[t] + Cardinality(batch[t])
      BY <2>2 DEF CountDropped
    <3>2. read[t] \in Nat /\ read[t] <= Cardinality(dropped)
      BY <3>1 DEF IInv, CountsBehind, TypeOK
    <3> QED  BY <1>8, <1>9, <3>1, <3>2 DEF NeverOvercounted
  <2> QED  BY <2>1, <2>2
<1>15. TypeOK'
  BY <1>2, <1>10, <1>14 DEF Persist, CountDropped, IInv, TypeOK
<1> QED  BY <1>5, <1>6, <1>11, <1>13, <1>14, <1>15 DEF IInv

\* A refused batch: the counter is read.
LEMMA RefusedStep ==
    ASSUME IInv, NEW t \in Threads, PersistFails(t)
    PROVE  IInv'
<1>1. /\ \A u \in Threads : u # t => pc'[u] = pc[u] /\ read'[u] = read[u]
      /\ pc[t] = "persist" /\ pc'[t] = "count" /\ read'[t] = counted
      /\ pc' \in [Threads -> PC] /\ read' \in [Threads -> Nat]
      /\ UNCHANGED <<running, buffer, todo, batch, stored, dropped, counted>>
  BY DEF PersistFails, Goto, IInv, TypeOK, PC
<1>2. TypeOK' /\ BatchInHand' /\ Finite' /\ MemoryBounded' /\ NeverOvercounted'
  BY <1>1 DEF IInv, TypeOK, BatchInHand, Finite, MemoryBounded, NeverOvercounted
<1>3. Disjoint'
  BY <1>1 DEF IInv, Disjoint, Received, InFlight
<1>4. CountsBehind'
  BY <1>1 DEF IInv, CountsBehind, NeverOvercounted
<1> QED  BY <1>2, <1>3, <1>4 DEF IInv

LEMMA WriteStep ==
    ASSUME IInv, NEW t \in Threads, Write(t)
    PROVE  IInv'
BY SettleStep, RefusedStep DEF Write

LEMMA NextIInv == IInv /\ [Next]_vars => IInv'
<1> SUFFICES ASSUME IInv, [Next]_vars PROVE IInv'
  OBVIOUS
<1> USE ThreadNames
<1>1. running \in BOOLEAN /\ todo \subseteq Flow /\ todo \cap Received = {}
  BY DEF IInv, TypeOK, Disjoint
<1>2. CASE Bind
  BY <1>1, <1>2, QuietStep DEF Bind, PC
<1>3. CASE Packet
  BY <1>1, <1>3, QuietStep DEF Packet, PC
<1>4. CASE ServeEnd
  BY <1>1, <1>4, QuietStep DEF ServeEnd, PC
<1>5. ASSUME NEW f \in Flow, Enqueue(f) PROVE IInv'
  BY <1>5, EnqueueStep
<1>6. CASE EndPacket
  BY <1>1, <1>6, QuietStep DEF EndPacket, PC
<1>7. CASE Sleep
  BY <1>1, <1>7, QuietStep DEF Sleep, PC
<1>8. CASE WakeUp
  BY <1>8, FlushStep DEF WakeUp, PC
<1>9. ASSUME NEW t \in Stoppers, Stop(t) PROVE IInv'
  BY <1>1, <1>9, QuietStep DEF Stop, PC
<1>10. ASSUME NEW t \in Stoppers, StopFlush(t) PROVE IInv'
  BY <1>10, FlushStep DEF StopFlush, PC
<1>11. ASSUME NEW t \in Threads, Write(t) PROVE IInv'
  BY <1>11, WriteStep
<1>12. CASE UNCHANGED vars
  BY <1>12 DEF vars, IInv, TypeOK, Disjoint, BatchInHand, Finite, MemoryBounded,
               CountsBehind, NeverOvercounted, Received, InFlight
<1> QED
  BY <1>2, <1>3, <1>4, <1>5, <1>6, <1>7, <1>8, <1>9, <1>10, <1>11, <1>12
  DEF Next, Serve, FlushLoop, Finish

LEMMA Invariant == Spec => []IInv
<1>1. IInv /\ [Next]_vars => IInv'
  BY NextIInv
<1> QED  BY InitIInv, <1>1, PTL DEF Spec

\* The flags, the buffers, the batches and the counters stay in their types.
THEOREM CollectorTypeCorrect == Spec => []TypeOK
<1>1. IInv => TypeOK
  BY DEF IInv
<1> QED  BY Invariant, <1>1, PTL

\* However long the database is away, the buffer stays below the limit and no
\* thread holds more than the limit (_enqueue).
THEOREM MemoryIsBounded == Spec => []MemoryBounded
<1>1. IInv => MemoryBounded
  BY DEF IInv
<1> QED  BY Invariant, <1>1, PTL

\* However many threads count at once, status() never reports more dropped
\* records than were dropped (_persist).
THEOREM DropsNeverOvercounted == Spec => []NeverOvercounted
<1>1. IInv => NeverOvercounted
  BY DEF IInv
<1> QED  BY Invariant, <1>1, PTL

\* What has been received changes only by the record that is queued.
LEMMA SwapKeepsReceived ==
    ASSUME IInv, NEW t \in Threads, NEW next \in PC, Flush(t, next),
           pc[t] \notin {"persist", "count"}
    PROVE  UNCHANGED <<Received, stored, dropped>>
<1>1. /\ \A u \in Threads : u # t => batch'[u] = batch[u]
      /\ batch[t] = {} /\ batch'[t] = buffer /\ buffer' = {}
      /\ UNCHANGED <<stored, dropped>>
  BY DEF Flush, IInv, TypeOK, BatchInHand
<1>2. Received' = Received
  <2>1. \A f : f \in Received' <=> f \in Received
    BY <1>1 DEF Received, InFlight
  <2> QED  BY <2>1
<1> QED  BY <1>1, <1>2

LEMMA SettleKeepsReceived ==
    ASSUME IInv, NEW t \in Threads, Persist(t) \/ CountDropped(t)
    PROVE  Received' = Received
<1>1. /\ \A u \in Threads : u # t => batch'[u] = batch[u]
      /\ batch'[t] = {} /\ UNCHANGED buffer
      /\ stored' \cup dropped' = stored \cup dropped \cup batch[t]
  BY DEF Persist, CountDropped, IInv, TypeOK
<1>2. \A f : f \in Received' <=> f \in Received
  BY <1>1 DEF Received, InFlight
<1> QED  BY <1>2

LEMMA EnqueueReceives ==
    ASSUME IInv, NEW f \in Flow, Enqueue(f)
    PROVE  Ledger!Receive(f)
<1>1. f \in todo /\ f \notin Received /\ UNCHANGED <<stored, dropped>>
  BY DEF Enqueue, IInv, Disjoint
<1>2. batch["serve"] = {}
  BY ThreadNames DEF Enqueue, IInv, BatchInHand
<1>3. Received' = Received \cup {f}
  <2>1. CASE Full(buffer \cup {f})
    <3>1. /\ \A u \in Threads : u # "serve" => batch'[u] = batch[u]
          /\ batch'["serve"] = buffer \cup {f} /\ buffer' = {}
      BY <2>1, ThreadNames DEF Enqueue, IInv, TypeOK
    <3>2. \A g : g \in Received' <=> g \in Received \cup {f}
      BY <1>1, <1>2, <3>1, ThreadNames DEF Received, InFlight
    <3> QED  BY <3>2
  <2>2. CASE ~Full(buffer \cup {f})
    BY <1>1, <2>2 DEF Enqueue, Received, InFlight
  <2> QED  BY <2>1, <2>2
<1> QED  BY <1>1, <1>3 DEF Ledger!Receive

\* The records of a batch are received and not yet settled.
LEMMA BatchIsOpen ==
    ASSUME IInv, NEW t \in Threads
    PROVE  batch[t] \in SUBSET (Received \ Ledger!Settled)
BY DEF IInv, Disjoint, Received, InFlight, Ledger!Settled

LEMMA LedgerStep == IInv /\ [Next]_vars => [Ledger!Next]_(Ledger!lvars)
<1> SUFFICES ASSUME IInv, [Next]_vars PROVE [Ledger!Next]_(Ledger!lvars)
  OBVIOUS
<1> USE ThreadNames
<1>1. ASSUME UNCHANGED <<buffer, batch, stored, dropped>>
      PROVE  UNCHANGED Ledger!lvars
  BY <1>1 DEF Ledger!lvars, Received, InFlight
<1>2. ASSUME NEW t \in Threads, Persist(t) PROVE Ledger!Next
  <2>1. Ledger!Store(batch[t])
    BY <1>2, SettleKeepsReceived DEF Persist, Ledger!Store
  <2> QED  BY <2>1, BatchIsOpen DEF Ledger!Next
<1>3. ASSUME NEW t \in Threads, CountDropped(t) PROVE Ledger!Next
  <2>1. Ledger!Drop(batch[t])
    BY <1>3, SettleKeepsReceived DEF CountDropped, Ledger!Drop
  <2> QED  BY <2>1, BatchIsOpen DEF Ledger!Next
<1>4. ASSUME NEW t \in Threads, Write(t) PROVE [Ledger!Next]_(Ledger!lvars)
  BY <1>1, <1>2, <1>3, <1>4 DEF Write, PersistFails
<1>5. ASSUME NEW f \in Flow, Enqueue(f) PROVE Ledger!Next
  BY <1>5, EnqueueReceives DEF Ledger!Next
<1>6. CASE WakeUp
  <2>1. UNCHANGED <<Received, stored, dropped>>
    BY <1>6, SwapKeepsReceived DEF WakeUp, PC
  <2> QED  BY <2>1 DEF Ledger!lvars
<1>7. ASSUME NEW t \in Stoppers, StopFlush(t) PROVE UNCHANGED Ledger!lvars
  <2>1. UNCHANGED <<Received, stored, dropped>>
    BY <1>7, SwapKeepsReceived DEF StopFlush, PC
  <2> QED  BY <2>1 DEF Ledger!lvars
<1>8. CASE Bind \/ Packet \/ ServeEnd \/ EndPacket \/ Sleep
           \/ UNCHANGED vars \/ \E t \in Stoppers : Stop(t)
  BY <1>1, <1>8 DEF Bind, Packet, ServeEnd, EndPacket, Sleep, Stop, vars
<1> QED
  BY <1>4, <1>5, <1>6, <1>7, <1>8 DEF Next, Serve, FlushLoop, Finish

\* Seen from outside, the collector accounts for every record at most once, a
\* batch as a whole: it implements FlowLedger.
THEOREM LedgerImplemented == Spec => LedgerSpec
<1>1. Init => Ledger!Init
  BY DEF Init, Ledger!Init, Received, InFlight
<1>2. IInv /\ [Next]_vars => [Ledger!Next]_(Ledger!lvars)
  BY LedgerStep
<1> QED  BY Invariant, <1>1, <1>2, PTL DEF Spec, LedgerSpec, Ledger!Spec
-----------------------------------------------------------------------------
(* What a stop may lose                                                    *)

\* A packet is small, and nothing is buffered before the port is bound.
PacketInv == /\ IsFiniteSet(todo) /\ Cardinality(todo) <= MaxPacket
             /\ pc["serve"] = "bind" => buffer = {} /\ todo = {}

StopInv == PacketInv /\ StopLosesOnePacket

LEMMA InitStop == Init => StopInv
<1> SUFFICES ASSUME Init PROVE StopInv
  OBVIOUS
<1>1. IsFiniteSet({}) /\ Cardinality({}) = 0 /\ MaxPacket \in Nat
  BY FS_EmptySet, LimitAssumption
<1> QED  BY <1>1 DEF Init, StopInv, PacketInv, StopLosesOnePacket

\* A smaller set of records is no larger than a packet either.
LEMMA Fewer ==
    ASSUME NEW S, IsFiniteSet(S), Cardinality(S) <= MaxPacket, NEW T, T \subseteq S
    PROVE  IsFiniteSet(T) /\ Cardinality(T) <= MaxPacket
<1>1. IsFiniteSet(T) /\ Cardinality(T) <= Cardinality(S)
  BY FS_Subset
<1>2. Cardinality(T) \in Nat /\ Cardinality(S) \in Nat /\ MaxPacket \in Nat
  BY <1>1, FS_CardinalityType, LimitAssumption
<1> DEFINE c == Cardinality(T)
           d == Cardinality(S)
<1>3. c <= d /\ d <= MaxPacket /\ c \in Nat /\ d \in Nat /\ MaxPacket \in Nat
  BY <1>1, <1>2
<1>4. c <= MaxPacket
  <2> HIDE DEF c, d
  <2> QED  BY <1>3
<1> QED  BY <1>1, <1>4

\* A step that takes in no record, stops nothing and ends no flush of a stop.
LEMMA NothingNew ==
    ASSUME IInv, StopInv, todo' \subseteq todo, buffer' \cup todo' \subseteq buffer \cup todo,
           running' = running, pc'["serve"] = "bind" => pc["serve"] = "bind",
           \A t \in Stoppers : pc[t] = "flushing" => pc'[t] = "flushing"
    PROVE  StopInv'
<1>1. IsFiniteSet(todo') /\ Cardinality(todo') <= MaxPacket
  BY Fewer DEF StopInv, PacketInv
<1>2. pc'["serve"] = "bind" => buffer' = {} /\ todo' = {}
  BY DEF StopInv, PacketInv
<1>3. ASSUME ~running', \A t \in Stoppers : pc'[t] # "flushing"
      PROVE  Cardinality(buffer' \cup todo') <= MaxPacket
  <2>1. IsFiniteSet(buffer \cup todo)
    BY FS_Union DEF IInv, Finite, StopInv, PacketInv
  <2>2. Cardinality(buffer \cup todo) <= MaxPacket
    BY <1>3 DEF StopInv, StopLosesOnePacket
  <2> QED  BY <2>1, <2>2, Fewer
<1> QED  BY <1>1, <1>2, <1>3 DEF StopInv, PacketInv, StopLosesOnePacket

\* A step of thread t that leaves the records where they are.
LEMMA StaysHere ==
    ASSUME IInv, StopInv, NEW t \in Threads, NEW l, l # "bind", Goto(t, l),
           pc[t] # "flushing", UNCHANGED <<running, todo>>, buffer' \subseteq buffer
    PROVE  StopInv'
<1>1. /\ pc'[t] = l /\ \A u \in Threads : u # t => pc'[u] = pc[u]
  BY DEF Goto, IInv, TypeOK
<1>2. /\ pc'["serve"] = "bind" => pc["serve"] = "bind"
      /\ \A u \in Stoppers : pc[u] = "flushing" => pc'[u] = "flushing"
  BY <1>1, ThreadNames
<1> QED  BY <1>2, NothingNew

LEMMA BindStop == ASSUME IInv, StopInv, Bind PROVE StopInv'
<1>1. /\ UNCHANGED <<buffer, todo>> /\ buffer = {} /\ todo = {} /\ pc["serve"] = "bind"
      /\ pc'["serve"] # "bind"
  BY ThreadNames DEF Bind, Goto, IInv, TypeOK, StopInv, PacketInv
<1>2. /\ IsFiniteSet({}) /\ Cardinality({}) = 0 /\ MaxPacket \in Nat
      /\ buffer' \cup todo' = {} /\ todo' = {}
  BY <1>1, FS_EmptySet, LimitAssumption
<1> QED  BY <1>1, <1>2 DEF StopInv, PacketInv, StopLosesOnePacket

LEMMA NextStop == IInv /\ StopInv /\ [Next]_vars => StopInv'
<1> SUFFICES ASSUME IInv, StopInv, [Next]_vars PROVE StopInv'
  OBVIOUS
<1> USE ThreadNames
<1>1. CASE Packet
  <2>1. /\ running' /\ pc'["serve"] = "busy"
        /\ IsFiniteSet(todo') /\ Cardinality(todo') <= MaxPacket
    BY <1>1, LimitAssumption DEF Packet, Goto, IInv, TypeOK
  <2> QED  BY <2>1 DEF StopInv, PacketInv, StopLosesOnePacket
<1>2. ASSUME NEW f \in Flow, Enqueue(f) PROVE StopInv'
  <2>1. /\ f \in todo /\ todo' = todo \ {f} /\ buffer' \subseteq buffer \cup {f}
        /\ running' = running /\ pc["serve"] = "busy"
    BY <1>2 DEF Enqueue
  <2>2. pc'["serve"] # "bind" /\ \A u \in Threads : u # "serve" => pc'[u] = pc[u]
    BY <1>2, <2>1 DEF Enqueue, Goto, IInv, TypeOK
  <2> QED  BY <2>1, <2>2, StoppersAssumption, NothingNew
<1>3. CASE EndPacket
  <2>1. /\ todo' = {} /\ UNCHANGED <<running, buffer>>
        /\ pc'["serve"] # "bind" /\ \A u \in Threads : u # "serve" => pc'[u] = pc[u]
    BY <1>3 DEF EndPacket, Goto, IInv, TypeOK
  <2> QED  BY <2>1, StoppersAssumption, NothingNew
<1>4. CASE ServeEnd \/ Sleep
  BY <1>4, StaysHere DEF ServeEnd, Sleep
<1>5. CASE WakeUp
  <2>1. PICK l \in {"wait", "persist"} : Goto("flush", l)
    BY <1>5 DEF WakeUp, Flush
  <2>2. pc["flush"] # "flushing" /\ buffer' = {} /\ UNCHANGED <<running, todo>>
    BY <1>5 DEF WakeUp, Flush
  <2> QED  BY <2>1, <2>2, StaysHere
<1>6. ASSUME NEW t \in Stoppers, Stop(t) PROVE StopInv'
  <2>1. /\ pc'[t] = "flushing" /\ UNCHANGED <<buffer, todo>>
        /\ pc'["serve"] = "bind" => pc["serve"] = "bind"
    BY <1>6, StoppersAssumption DEF Stop, Goto, IInv, TypeOK
  <2> QED  BY <2>1 DEF StopInv, PacketInv, StopLosesOnePacket
<1>7. ASSUME NEW t \in Stoppers, StopFlush(t) PROVE StopInv'
  <2>1. /\ buffer' = {} /\ todo' = todo /\ buffer' \cup todo' = todo
        /\ pc'["serve"] = pc["serve"]
    BY <1>7, StoppersAssumption DEF StopFlush, Flush, Goto, IInv, TypeOK
  <2> QED  BY <2>1 DEF StopInv, PacketInv, StopLosesOnePacket
<1>8. ASSUME NEW t \in Threads, Write(t) PROVE StopInv'
  <2>1. PICK l : l # "bind" /\ Goto(t, l)
    BY <1>8 DEF Write, Persist, PersistFails, CountDropped, Resume
  <2>2. pc[t] # "flushing" /\ UNCHANGED <<running, buffer, todo>>
    BY <1>8 DEF Write, Persist, PersistFails, CountDropped
  <2> QED  BY <2>1, <2>2, StaysHere
<1>9. CASE UNCHANGED vars
  BY <1>9, NothingNew DEF vars
<1> QED
  BY <1>1, <1>2, <1>3, <1>4, <1>5, <1>6, <1>7, <1>8, <1>9, BindStop
  DEF Next, Serve, FlushLoop, Finish

\* Wherever the threads of the collector are when it is stopped, and however many
\* requests stop it: once the stops have flushed, no more than the rest of one
\* packet is left unwritten (stop, _flush).
THEOREM StopLosesLittle == Spec => []StopLosesOnePacket
<1>1. StopInv => StopLosesOnePacket
  BY DEF StopInv
<1> QED  BY InitStop, NextStop, Invariant, <1>1, PTL DEF Spec

=============================================================================
