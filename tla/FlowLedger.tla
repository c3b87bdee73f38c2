----------------------------- MODULE FlowLedger -----------------------------
(***************************************************************************)
(* What a NetFlow collector promises about the flow records it decodes,    *)
(* seen from outside: every record is accounted for at most once, either   *)
(* in the table netflow_records or in the counter of dropped records, and  *)
(* a batch is accounted for as a whole.                                    *)
(***************************************************************************)
CONSTANT Flow    \* the decoded flow records, each one distinct

VARIABLES
    received,    \* taken in so far
    stored,      \* rows of netflow_records
    dropped      \* given up, because the database failed

lvars == <<received, stored, dropped>>

Settled == stored \cup dropped

Init == received = {} /\ stored = {} /\ dropped = {}

Receive(f) ==
    /\ f \notin received
    /\ received' = received \cup {f}
    /\ UNCHANGED <<stored, dropped>>

Store(batch) ==
    /\ stored' = stored \cup batch
    /\ UNCHANGED <<received, dropped>>

Drop(batch) ==
    /\ dropped' = dropped \cup batch
    /\ UNCHANGED <<received, stored>>

Next ==
    \/ \E f \in Flow : Receive(f)
    \/ \E batch \in SUBSET (received \ Settled) : Store(batch) \/ Drop(batch)

Spec == Init /\ [][Next]_lvars
=============================================================================
