--------------------------- MODULE FlowCollector ----------------------------
(***************************************************************************)
(* One NetFlowCollector (services/netflow_service.py): the thread that     *)
(* reads packets and buffers their flow records, the thread that flushes   *)
(* the buffer periodically, and the requests that stop the collector.      *)
(*                                                                         *)
(* The lock protects the buffer only: whoever takes its content writes it  *)
(* to the database outside the lock, so batches of all threads are in      *)
(* flight at once.                                                         *)
(***************************************************************************)
EXTENDS Naturals, FiniteSets

CONSTANTS
    Flow,        \* flow records that may arrive, each one distinct
    Stoppers,    \* request threads that may call stop()
    Limit,       \* records in the buffer that make it be written (5000)
    MaxPacket    \* bound on the records of a packet

ASSUME LimitAssumption    == Limit \in Nat \ {0} /\ MaxPacket \in Nat \ {0}
ASSUME StoppersAssumption == {"serve", "flush"} \cap Stoppers = {}

VARIABLES
    running,     \* self._running
    buffer,      \* self._buffer
    todo,        \* records of the current packet that are still to be queued
    batch,       \* what each thread has taken and is writing
    pc,          \* where each thread is
    stored,      \* rows of netflow_records
    dropped,     \* records whose batch the database refused
    counted,     \* self.dropped
    read         \* self.dropped as a thread read it, to add to it

vars == <<running, buffer, todo, batch, pc, stored, dropped, counted, read>>

Threads == {"serve", "flush"} \cup Stoppers
PC      == {"bind", "wait", "busy", "sleep", "flushing", "persist", "count", "done"}

InFlight == UNION {batch[t] : t \in Threads}
Received == buffer \cup InFlight \cup stored \cup dropped

-----------------------------------------------------------------------------
\* start: both threads are running.
Init ==
    /\ running = TRUE
    /\ buffer = {} /\ todo = {}
    /\ batch = [t \in Threads |-> {}]
    /\ pc = [t \in Threads |-> IF t = "serve" THEN "bind" ELSE "wait"]
    /\ stored = {} /\ dropped = {}
    /\ counted = 0
    /\ read = [t \in Threads |-> 0]

Goto(t, label) == pc' = [pc EXCEPT ![t] = label]

\* _serve: without its port the collector ends.
Bind ==
    /\ pc["serve"] = "bind"
    /\ \/ Goto("serve", "wait") /\ running' = running
       \/ Goto("serve", "done") /\ running' = FALSE
    /\ UNCHANGED <<buffer, todo, batch, stored, dropped, counted, read>>

\* A packet with some flow records, in whatever protocol.
Packet ==
    /\ pc["serve"] = "wait" /\ running
    /\ \E records \in SUBSET (Flow \ Received) :
          /\ IsFiniteSet(records) /\ Cardinality(records) \in 1 .. MaxPacket
          /\ todo' = records
    /\ Goto("serve", "busy")
    /\ UNCHANGED <<running, buffer, batch, stored, dropped, counted, read>>

ServeEnd ==
    /\ pc["serve"] = "wait" /\ ~running
    /\ Goto("serve", "done")
    /\ UNCHANGED <<running, buffer, todo, batch, stored, dropped, counted, read>>

\* Mutant of Full: the buffer grows while the database is away.
FullNever(records) == FALSE

Full(records) == Cardinality(records) >= Limit

\* _enqueue: the record that fills the buffer takes all of it to be written.
Enqueue(f) ==
    /\ pc["serve"] = "busy" /\ f \in todo
    /\ todo' = todo \ {f}
    /\ IF Full(buffer \cup {f})
         THEN /\ batch' = [batch EXCEPT !["serve"] = buffer \cup {f}]
              /\ buffer' = {}
              /\ Goto("serve", "persist")
         ELSE /\ buffer' = buffer \cup {f}
              /\ UNCHANGED <<batch, pc>>
    /\ UNCHANGED <<running, stored, dropped, counted, read>>

\* The packet is done, or its rest cannot be parsed.
EndPacket ==
    /\ pc["serve"] = "busy"
    /\ todo' = {}
    /\ Goto("serve", "wait")
    /\ UNCHANGED <<running, buffer, batch, stored, dropped, counted, read>>

-----------------------------------------------------------------------------
\* Mutant of Sleep: the loop does not look whether the collector was stopped.
SleepAlways ==
    /\ pc["flush"] = "wait"
    /\ Goto("flush", "sleep")
    /\ UNCHANGED <<running, buffer, todo, batch, stored, dropped, counted, read>>

\* _flush_loop
Sleep ==
    /\ pc["flush"] = "wait"
    /\ Goto("flush", IF running THEN "sleep" ELSE "done")
    /\ UNCHANGED <<running, buffer, todo, batch, stored, dropped, counted, read>>

\* Mutant of Flush: the buffer keeps what was taken from it.
FlushKeeps(t, next) ==
    /\ batch' = [batch EXCEPT ![t] = buffer]
    /\ Goto(t, IF buffer = {} THEN next ELSE "persist")
    /\ UNCHANGED <<running, buffer, todo, stored, dropped, counted, read>>

\* _flush: takes the whole buffer; an empty one is not written.
Flush(t, next) ==
    /\ batch' = [batch EXCEPT ![t] = buffer]
    /\ buffer' = {}
    /\ Goto(t, IF buffer = {} THEN next ELSE "persist")
    /\ UNCHANGED <<running, todo, stored, dropped, counted, read>>

WakeUp == pc["flush"] = "sleep" /\ Flush("flush", "wait")

\* Mutant of Stop: the last records are left to the flush thread.
StopOnly(t) ==
    /\ pc[t] = "wait"
    /\ running' = FALSE
    /\ Goto(t, "done")
    /\ UNCHANGED <<buffer, todo, batch, stored, dropped, counted, read>>

\* stop: also closes the socket, which ends a recvfrom that is under way.
Stop(t) ==
    /\ pc[t] = "wait"
    /\ running' = FALSE
    /\ Goto(t, "flushing")
    /\ UNCHANGED <<buffer, todo, batch, stored, dropped, counted, read>>

StopFlush(t) == pc[t] = "flushing" /\ Flush(t, "done")

-----------------------------------------------------------------------------
\* Mutant of Resume: a stop returns to a place that does not exist.
ResumeNowhere(t) == CASE t = "serve" -> "busy" [] t = "flush" -> "wait" [] OTHER -> "stopped"

\* Where a thread goes on after _persist.
Resume(t) == CASE t = "serve" -> "busy" [] t = "flush" -> "wait" [] OTHER -> "done"

\* _persist: one insert of the batch, which the database takes or refuses.
Persist(t) ==
    /\ pc[t] = "persist"
    /\ stored' = stored \cup batch[t]
    /\ batch' = [batch EXCEPT ![t] = {}]
    /\ Goto(t, Resume(t))
    /\ UNCHANGED <<running, buffer, todo, dropped, counted, read>>

\* self.dropped += len(records) reads, then writes.
PersistFails(t) ==
    /\ pc[t] = "persist"
    /\ read' = [read EXCEPT ![t] = counted]
    /\ Goto(t, "count")
    /\ UNCHANGED <<running, buffer, todo, batch, stored, dropped, counted>>

\* Mutant of CountDropped: a batch is counted with one record too many.
CountOneMore(t) ==
    /\ pc[t] = "count"
    /\ counted' = read[t] + Cardinality(batch[t]) + 1
    /\ dropped' = dropped \cup batch[t]
    /\ batch' = [batch EXCEPT ![t] = {}]
    /\ Goto(t, Resume(t))
    /\ UNCHANGED <<running, buffer, todo, stored, read>>

CountDropped(t) ==
    /\ pc[t] = "count"
    /\ counted' = read[t] + Cardinality(batch[t])
    /\ dropped' = dropped \cup batch[t]
    /\ batch' = [batch EXCEPT ![t] = {}]
    /\ Goto(t, Resume(t))
    /\ UNCHANGED <<running, buffer, todo, stored, read>>

Write(t) == Persist(t) \/ PersistFails(t) \/ CountDropped(t)
Serve    == ServeEnd \/ Bind \/ EndPacket \/ Write("serve") \/ \E f \in Flow : Enqueue(f)
FlushLoop == Sleep \/ WakeUp \/ Write("flush")
Finish(t) == StopFlush(t) \/ Write(t)

Next ==
    \/ Serve \/ Packet \/ FlushLoop
    \/ \E t \in Stoppers : Stop(t) \/ Finish(t)

Spec == Init /\ [][Next]_vars

\* The threads of the collector run, the database answers or fails, and a
\* request that has begun to stop the collector goes on.  Packets and requests
\* need not come.
FairSpec == /\ Spec
            /\ WF_vars(Serve) /\ WF_vars(FlushLoop)
            /\ \A t \in Stoppers : WF_vars(Finish(t))
-----------------------------------------------------------------------------
(* Properties                                                              *)

TypeOK ==
    /\ running \in BOOLEAN
    /\ buffer \subseteq Flow /\ todo \subseteq Flow
    /\ batch \in [Threads -> SUBSET Flow]
    /\ pc \in [Threads -> PC]
    /\ stored \subseteq Flow /\ dropped \subseteq Flow
    /\ counted \in Nat
    /\ read \in [Threads -> Nat]

\* Whatever the database does, the collector never holds more than the limit
\* of records per writer, and never a full buffer that nobody takes.
MemoryBounded ==
    /\ Cardinality(buffer) < Limit
    /\ \A t \in Threads : Cardinality(batch[t]) <= Limit

\* The counter that the status page shows never exceeds what was really lost,
\* though two threads may count at once (they may lose a count).
NeverOvercounted == counted <= Cardinality(dropped)

\* Batches in flight, the buffer and the outcome are disjoint: this collector
\* implements FlowLedger.
Ledger == INSTANCE FlowLedger WITH received <- Received
LedgerSpec == Ledger!Spec

\* A stop loses at most the rest of one packet: once no stop is about to flush,
\* what is left in the buffer, or still comes into it, is of the packet that the
\* UDP thread was at when the collector was stopped.
StopLosesOnePacket ==
    ~running /\ (\A t \in Stoppers : pc[t] # "flushing")
        => Cardinality(buffer \cup todo) <= MaxPacket

\* Every record that was queued while the collector ran reaches the database or
\* the count of dropped records, even if the collector is stopped meanwhile.
QueuedRecordsSettle ==
    \A f \in Flow : (f \in buffer /\ running) ~> f \in stored \cup dropped

\* After a stop the threads of the collector end.
StopEnds == ~running ~> pc["serve"] = "done" /\ pc["flush"] = "done"
=============================================================================
