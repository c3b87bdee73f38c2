-------------------------- MODULE StagedDecisions ---------------------------
(***************************************************************************)
(* What the approval of a change promises about its rows, seen from        *)
(* outside and whatever requests overlap: a chain appears as a whole, with *)
(* nothing decided in it; rows are decided one at a time, stage by stage,  *)
(* each by the person it was made for; and a decision may be replaced by   *)
(* another one, but is never taken back.                                   *)
(***************************************************************************)
EXTENDS Naturals

CONSTANTS
    Users,
    Open,      \* slot of a row that anybody may decide
    Chains     \* names of chains

VARIABLE rows  \* <<stage, slot, chain>> -> [status, approver]

ChainOf(k)   == k[3]
MayBeBy(k, u) == k[2] \in {Open, u}

\* Rows of the same chain that come before row k.
Before(k) == {l \in DOMAIN rows : ChainOf(l) = ChainOf(k) /\ l[1] < k[1]}
Decided(k) == rows[k].status # "pending"

Init == DOMAIN rows = {}

\* A chain is submitted.
Appear(c) ==
    /\ \A k \in DOMAIN rows : ChainOf(k) # c
    /\ DOMAIN rows \subseteq DOMAIN rows'
    /\ \A k \in DOMAIN rows : rows'[k] = rows[k]
    /\ \A k \in DOMAIN rows' \ DOMAIN rows :
          ChainOf(k) = c /\ rows'[k] = [status |-> "pending", approver |-> k[2]]

Decide(k, u, st) ==
    /\ \A l \in Before(k) : Decided(l)
    /\ MayBeBy(k, u)
    /\ rows' = [rows EXCEPT ![k] = [status |-> st, approver |-> u]]

\* The change is deleted, with its chains.
Disappear == DOMAIN rows' = {}

Next ==
    \/ \E c \in Chains : Appear(c)
    \/ \E k \in DOMAIN rows, u \in Users, st \in {"approved", "rejected"} : Decide(k, u, st)
    \/ Disappear

Spec == Init /\ [][Next]_rows

-----------------------------------------------------------------------------
\* A stage begins when the ones before it are decided, and a row that was made
\* for somebody bears no other name.
InOrder == \A k \in DOMAIN rows : Decided(k) => \A l \in Before(k) : Decided(l)
ByTheRightPerson == \A k \in DOMAIN rows : MayBeBy(k, rows[k].approver)
=============================================================================
