--------------------------- MODULE CabChainProofs ---------------------------
(***************************************************************************)
(* Proofs about CabChain, for any number of threads and users and for any  *)
(* set of configurations: type correctness, that the stages of a chain are *)
(* decided in their order, for requests that do not overlap that an        *)
(* approved change has a complete chain and an open one can be decided,    *)
(* and that the chain implements the abstract StagedDecisions.             *)
(***************************************************************************)
EXTENDS CabChain, WellFoundedInduction, SequenceTheorems, TLAPS

-----------------------------------------------------------------------------
(* What the helpers return                                                 *)

LEMMA LeastProperty ==
    ASSUME NEW S, S \subseteq Nat, S # {}
    PROVE  Least(S) \in S /\ \A u \in S : Least(S) <= u
<1>1. \E x \in S : \A y \in S : ~(<<y, x>> \in OpToRel(<, Nat))
  BY WFMin, NatLessThanWellFounded
<1>2. PICK x \in S : \A y \in S : ~(<<y, x>> \in OpToRel(<, Nat))
  BY <1>1
<1>3. \A y \in S : x <= y
  <2> TAKE y \in S
  <2>1. ~(y < x)
    BY <1>2 DEF OpToRel
  <2> QED  BY <2>1
<1> QED  BY <1>3 DEF Least

LEMMA SomeStage ==
    ASSUME NEW rows, ChainOK(rows)
    PROVE  Stages(rows) \subseteq Nat \ {0}
BY DEF Stages, StageOf, ChainOK, RowId

LEMMA RecomputeType ==
    ASSUME NEW ch \in Change, NEW rows, ChainOK(rows)
    PROVE  /\ Recompute(ch, rows) \in Change
           /\ Recompute(ch, rows).status \in {ch.status, "approved", "rejected"}
<1> DEFINE blocking == {s \in Stages(rows) : \/ With(rows, s, "rejected") # {}
                                            \/ ~Satisfied(rows, s)}
           st(d) == [ch EXCEPT !.status = d, !.approval = d]
           wait  == [ch EXCEPT !.approval = "pending", !.stage = Least(blocking)]
<1>1. blocking \subseteq Nat
  BY SomeStage
<1>2. blocking # {} => Least(blocking) \in Nat
  BY <1>1, LeastProperty
<1>3. \A d \in {"approved", "rejected"} : st(d) \in Change /\ st(d).status = d
  BY DEF Change, Status, Decision
<1>4. blocking # {} => wait \in Change /\ wait.status = ch.status
  BY <1>2 DEF Change, Decision
<1>5. \/ Recompute(ch, rows) \in {ch, st("approved"), st("rejected")}
      \/ blocking # {} /\ Recompute(ch, rows) = wait
  BY DEF Recompute
<1> QED  BY <1>3, <1>4, <1>5

\* The built rows are pending, and belong to the thread that built them.
LEMMA BuildType ==
    ASSUME NEW t \in Threads, NEW c \in Configs
    PROVE  /\ ChainOK(Build(t, c))
           /\ \A k \in DOMAIN Build(t, c) : k[3] = t /\ Build(t, c)[k].status = "pending"
<1> DEFINE K == UNION {{<<s, u, t>> : u \in Slots(c[s])} : s \in 1 .. Len(c)}
<1>1. c \in Seq(StageDef)
  BY ConfigAssumption
<1>2. ASSUME NEW s \in 1 .. Len(c)
      PROVE  s \in Nat \ {0} /\ Slots(c[s]) \subseteq Users \cup {Open}
  <2>1. c[s] \in StageDef
    BY <1>1, ElementOfSeq
  <2> QED  BY <1>1, <2>1 DEF StageDef, Slots
<1>3. \A k \in K : k \in RowId /\ k[3] = t /\ k[2] \in Users \cup {Open}
  BY <1>2 DEF RowId
<1>4. Build(t, c) = [k \in K |-> [status |-> "pending", approver |-> k[2]]]
  BY Zenon DEF Build
<1>5. DOMAIN Build(t, c) = K
  BY <1>4, Zenon
<1>6. \A k \in K : Build(t, c)[k] = [status |-> "pending", approver |-> k[2]]
  BY <1>4, Zenon
<1> HIDE DEF K
<1>7. ASSUME NEW k \in K
      PROVE  Build(t, c)[k] \in Row /\ Build(t, c)[k].status = "pending"
  <2>1. k[2] \in Users \cup {Open}
    BY <1>3
  <2>2. Build(t, c)[k] = [status |-> "pending", approver |-> k[2]]
    BY <1>6
  <2> QED  BY <2>1, <2>2 DEF Row, Decision
<1> QED  BY <1>3, <1>5, <1>7 DEF ChainOK

LEMMA EmptyChain == ChainOK(NoRows) /\ DOMAIN NoRows = {}
BY DEF ChainOK, NoRows

\* The row of the active stage: all rows of earlier stages are approved.
LEMMA EarlierApproved ==
    ASSUME ChainOK(chain), NEW k \in DOMAIN chain, ActiveStage(chain) = StageOf(k),
           NEW l \in DOMAIN chain, StageOf(l) < StageOf(k)
    PROVE  chain[l].status = "approved"
<1> DEFINE open == {s \in Stages(chain) : With(chain, s, "approved") # OfStage(chain, s)}
<1>1. StageOf(k) \in Nat \ {0} /\ StageOf(l) \in Nat \ {0}
  BY DEF ChainOK, RowId, StageOf
<1>2. open # {} /\ Least(open) = StageOf(k)
  BY <1>1 DEF ActiveStage
<1>3. open \subseteq Nat
  BY SomeStage
<1>4. \A s \in open : StageOf(k) <= s
  BY <1>2, <1>3, LeastProperty
<1>5. StageOf(l) \notin open
  BY <1>1, <1>4
<1>6. StageOf(l) \in Stages(chain)
  BY DEF Stages
<1>7. l \in With(chain, StageOf(l), "approved")
  BY <1>5, <1>6 DEF OfStage
<1> QED  BY <1>7 DEF With

-----------------------------------------------------------------------------
(* Type correctness                                                        *)

ThreadOK(s) ==
    /\ s.pc \in {"idle", "build", "update"}
    /\ s.seen \in Change /\ s.new \in Change
    /\ s.drop \subseteq RowId
    /\ ChainOK(s.rows)

LEMMA InitType == Init => TypeOK
<1> SUFFICES ASSUME Init PROVE TypeOK
  OBVIOUS
<1>1. NoChange \in Change
  BY DEF NoChange, Change, Status, Decision
<1>2. cfg \in Configs
  BY ConfigAssumption DEF Init
<1> QED  BY <1>1, <1>2, EmptyChain DEF Init, TypeOK, Idle, NoChange

\* What a request loads is of the right type.
LEMMA BeginType ==
    ASSUME TypeOK, NEW t \in Threads, NEW pc \in {"build", "update"}, NEW new \in Change,
           NEW drop, drop \subseteq RowId, NEW rows, ChainOK(rows),
           Begin(t, pc, new, drop, rows)
    PROVE  TypeOK'
<1> DEFINE s == [pc |-> pc, seen |-> change, new |-> new, drop |-> drop, rows |-> rows]
<1>1. ThreadOK(s)
  BY DEF ThreadOK, TypeOK
<1>2. /\ thr' = [thr EXCEPT ![t] = s]
      /\ UNCHANGED <<cfg, change, chain>>
  BY DEF Begin
<1>6. lone' \in BOOLEAN
  BY DEF Begin, TypeOK
<1> HIDE DEF s
<1>3. DOMAIN thr' = Threads
  BY <1>2 DEF TypeOK
<1>4. \A u \in Threads : thr'[u] = IF u = t THEN s ELSE thr[u]
  BY <1>2 DEF TypeOK
<1>5. \A u \in Threads : ThreadOK(thr'[u])
  BY <1>1, <1>4 DEF TypeOK, ThreadOK
<1> QED  BY <1>2, <1>3, <1>5, <1>6 DEF TypeOK, ThreadOK, ChainOK

-----------------------------------------------------------------------------
(* The inductive invariant                                                 *)

\* A change leaves 'draft' for good: what a thread is about to write says so.
NeverBackToDraft ==
    \A t \in Threads : /\ thr[t].new.status = "draft" => thr[t].seen.status = "draft"
                       /\ thr[t].pc = "build" => /\ thr[t].seen.status = "draft"
                                                 /\ thr[t].new.status = "submitted"

\* While it is a draft it has no chain and nobody decides a row of it.
DraftHasNoChain ==
    change.status = "draft" =>
        /\ DOMAIN chain = {}
        /\ \A t \in Threads : thr[t].pc = "update" => DOMAIN thr[t].rows = {}

\* A chain about to be written is pending, and its rows are new.
NewRows ==
    \A t \in Threads : thr[t].pc = "build" =>
        /\ \A k \in DOMAIN thr[t].rows : k[3] = t /\ thr[t].rows[k].status = "pending"
        /\ \A k \in DOMAIN chain : k[3] # t
        /\ \A u \in Threads : thr[u].pc = "update" => \A k \in DOMAIN thr[u].rows : k[3] # t

\* A decision about to be written has no pending row before it.
DecisionInOrder ==
    \A t \in Threads : thr[t].pc = "update" =>
        \A k \in DOMAIN thr[t].rows :
           /\ thr[t].rows[k].status # "pending"
           /\ \A l \in DOMAIN chain :
                 StageOf(l) < StageOf(k) /\ k[3] = l[3] => chain[l].status # "pending"

IInv == /\ TypeOK /\ NeverBackToDraft /\ DraftHasNoChain
        /\ NewRows /\ DecisionInOrder /\ StageOrder

LEMMA InitIInv == Init => IInv
BY InitType, EmptyChain DEF Init, IInv, NeverBackToDraft, DraftHasNoChain, NewRows,
                            DecisionInOrder, StageOrder, Idle

\* A request that loads the row and decides nothing of the chain.
LEMMA BeginUpdate ==
    ASSUME IInv, NEW t \in Threads, NEW new \in Change,
           new.status = "draft" => change.status = "draft",
           Begin(t, "update", new, {}, NoRows)
    PROVE  IInv'
<1>1. TypeOK'
  BY BeginType, EmptyChain DEF IInv
<1>2. /\ \A u \in Threads : u # t => thr'[u] = thr[u]
      /\ thr'[t] = [pc |-> "update", seen |-> change, new |-> new, drop |-> {}, rows |-> NoRows]
      /\ UNCHANGED <<cfg, change, chain>>
  BY DEF Begin, IInv, TypeOK
<1>3. NeverBackToDraft'
  BY <1>2 DEF IInv, NeverBackToDraft
<1>4. DraftHasNoChain'
  BY <1>2, EmptyChain DEF IInv, DraftHasNoChain
<1>5. NewRows'
  BY <1>2, EmptyChain DEF IInv, NewRows
<1>6. DecisionInOrder'
  BY <1>2, EmptyChain DEF IInv, DecisionInOrder
<1>7. StageOrder'
  BY <1>2 DEF IInv, StageOrder
<1> QED  BY <1>1, <1>3, <1>4, <1>5, <1>6, <1>7 DEF IInv

\* A submission that builds the chain.
LEMMA SubmitForApprovalStep ==
    ASSUME IInv, NEW t \in Threads, SubmitForApproval(t)
    PROVE  IInv'
<1> DEFINE new == [change EXCEPT !.status = "submitted", !.approval = "pending", !.stage = 1]
           rows == Build(t, cfg)
<1>1. change \in Change /\ ChainOK(chain) /\ cfg \in Configs
  BY DEF IInv, TypeOK
<1>2. new \in Change /\ new.status = "submitted"
  BY <1>1 DEF Change, Status, Decision
<1>3. /\ ChainOK(rows)
      /\ \A k \in DOMAIN rows : k[3] = t /\ rows[k].status = "pending"
  BY <1>1, BuildType
<1>4. change.status = "draft" /\ Begin(t, "build", new, DOMAIN chain, rows)
  BY DEF SubmitForApproval
<1>5. DOMAIN chain = {} /\ \A u \in Threads : thr[u].pc = "update" => DOMAIN thr[u].rows = {}
  BY <1>4 DEF IInv, DraftHasNoChain
<1> HIDE DEF new, rows
<1>6. TypeOK'
  BY <1>2, <1>3, <1>4, <1>5, BeginType DEF IInv
<1>7. /\ \A u \in Threads : u # t => thr'[u] = thr[u]
      /\ thr'[t] = [pc |-> "build", seen |-> change, new |-> new, drop |-> DOMAIN chain, rows |-> rows]
      /\ UNCHANGED <<cfg, change, chain>>
  BY <1>4 DEF Begin, IInv, TypeOK
<1>8. NeverBackToDraft'
  BY <1>2, <1>4, <1>7 DEF IInv, NeverBackToDraft
<1>9. DraftHasNoChain'
  BY <1>5, <1>7 DEF DraftHasNoChain
<1>10. NewRows'
  BY <1>3, <1>5, <1>7 DEF IInv, NewRows
<1>11. DecisionInOrder'
  BY <1>5, <1>7 DEF IInv, DecisionInOrder
<1>12. StageOrder'
  BY <1>7 DEF IInv, StageOrder
<1> QED  BY <1>6, <1>8, <1>9, <1>10, <1>11, <1>12 DEF IInv

\* A decision about a row of the active stage.
LEMMA DecideStep ==
    ASSUME IInv, NEW t \in Threads, NEW k \in DOMAIN chain, NEW u \in Users,
           NEW st \in {"approved", "rejected"},
           MayDecide(k, u), Decide(t, k, u, st)
    PROVE  IInv'
<1> DEFINE row  == [status |-> st, approver |-> u]
           seen == [chain EXCEPT ![k] = row]
           new  == Recompute(change, seen)
           rows == [x \in {k} |-> row]
<1>1. change \in Change /\ ChainOK(chain)
  BY DEF IInv, TypeOK
<1>2. row \in Row /\ row.status = st
  BY DEF Row, Decision
<1>3. ChainOK(seen)
  BY <1>1, <1>2 DEF ChainOK
<1>4. ChainOK(rows) /\ DOMAIN rows = {k} /\ rows[k].status = st
  BY <1>1, <1>2 DEF ChainOK
<1> HIDE DEF row, seen
<1>5. new \in Change /\ new.status # "draft"
  BY <1>1, <1>3, RecomputeType DEF MayDecide
<1>6. Begin(t, "update", new, {}, rows)
  BY DEF Decide, row, seen
<1>7. \A l \in DOMAIN chain : StageOf(l) < StageOf(k) => chain[l].status # "pending"
  BY <1>1, EarlierApproved DEF MayDecide
<1> HIDE DEF new, rows
<1>8. TypeOK'
  BY <1>4, <1>5, <1>6, BeginType DEF IInv
<1>9. /\ \A v \in Threads : v # t => thr'[v] = thr[v]
      /\ thr'[t] = [pc |-> "update", seen |-> change, new |-> new, drop |-> {}, rows |-> rows]
      /\ UNCHANGED <<cfg, change, chain>>
  BY <1>6 DEF Begin, IInv, TypeOK
<1>10. NeverBackToDraft'
  BY <1>5, <1>9 DEF IInv, NeverBackToDraft
<1>11. DraftHasNoChain'
  BY <1>9 DEF DraftHasNoChain, MayDecide
<1>12. NewRows'
  BY <1>4, <1>9 DEF IInv, NewRows
<1>13. DecisionInOrder'
  BY <1>4, <1>7, <1>9 DEF IInv, DecisionInOrder
<1>14. StageOrder'
  BY <1>9 DEF IInv, StageOrder
<1> QED  BY <1>8, <1>10, <1>11, <1>12, <1>13, <1>14 DEF IInv

\* What a commit makes of the change.
LEMMA FlushedChange ==
    ASSUME NEW t \in Threads, IInv,
           change' = [c \in DOMAIN change |->
                         IF thr[t].new[c] = thr[t].seen[c] THEN change[c] ELSE thr[t].new[c]]
    PROVE  /\ change' \in Change
           /\ change'.status = "draft" => change.status = "draft"
           /\ thr[t].pc = "build" => change'.status # "draft"
<1>1. change \in Change /\ thr[t].new \in Change /\ thr[t].seen \in Change
  BY DEF IInv, TypeOK
<1>2. DOMAIN change = {"status", "approval", "stage"}
  BY <1>1 DEF Change
<1>3. change'.status = IF thr[t].new.status = thr[t].seen.status THEN change.status
                                                             ELSE thr[t].new.status
  BY <1>2
<1>4. change' \in Change
  BY <1>1, <1>2 DEF Change
<1> QED  BY <1>3, <1>4 DEF IInv, NeverBackToDraft

LEMMA CommitStep ==
    ASSUME IInv, NEW t \in Threads, Commit(t)
    PROVE  IInv'
<1> DEFINE mine == DOMAIN thr[t].rows
           kept == DOMAIN chain \ thr[t].drop
           gone == \/ change.status = "deleted"
                   \/ thr[t].pc = "update" /\ ~(mine \subseteq DOMAIN chain)
           Flushed == [c \in DOMAIN change |->
                         IF thr[t].new[c] = thr[t].seen[c] THEN change[c] ELSE thr[t].new[c]]
<1>1. /\ thr[t].pc \in {"build", "update"}
      /\ ChainOK(chain) /\ change \in Change /\ ChainOK(thr[t].rows)
  BY DEF IInv, TypeOK, Commit
<1>2. /\ \A u \in Threads : u # t => thr'[u] = thr[u]
      /\ DOMAIN thr' = Threads /\ thr'[t] = Idle /\ cfg' = cfg /\ lone' = lone
  BY DEF Commit, IInv, TypeOK
<1>3. Idle.pc = "idle" /\ Idle.new.status = Idle.seen.status /\ ThreadOK(Idle)
  BY EmptyChain DEF Idle, ThreadOK, NoChange, Change, Status, Decision
<1>4. NeverBackToDraft'
  BY <1>2, <1>3 DEF IInv, NeverBackToDraft
<1>5. \A u \in Threads : ThreadOK(thr'[u])
  BY <1>2, <1>3 DEF IInv, TypeOK, ThreadOK
<1>6. CASE gone
  <2>1. UNCHANGED <<change, chain>>
    BY <1>6 DEF Commit
  <2>2. TypeOK'
    BY <1>2, <1>5, <2>1 DEF IInv, TypeOK, ThreadOK, ChainOK
  <2>3. DraftHasNoChain' /\ NewRows' /\ DecisionInOrder' /\ StageOrder'
    BY <1>2, <1>3, <2>1 DEF IInv, DraftHasNoChain, NewRows, DecisionInOrder, StageOrder
  <2> QED  BY <1>4, <2>2, <2>3 DEF IInv
<1>7. CASE ~gone
  <2>1. /\ change' = Flushed
        /\ chain' = [k \in kept \cup mine |-> IF k \in mine THEN thr[t].rows[k] ELSE chain[k]]
    BY <1>7 DEF Commit
  <2>2. /\ DOMAIN chain' = kept \cup mine
        /\ \A k \in mine : chain'[k] = thr[t].rows[k]
        /\ \A k \in kept \ mine : chain'[k] = chain[k]
    BY <2>1
  <2>3. change' \in Change /\ (change'.status = "draft" => change.status = "draft")
        /\ (thr[t].pc = "build" => change'.status # "draft")
    BY <2>1, FlushedChange
  <2>4. ChainOK(chain')
    BY <1>1, <2>2 DEF ChainOK
  <2>5. TypeOK'
    BY <1>2, <1>5, <2>3, <2>4 DEF IInv, TypeOK, ThreadOK, ChainOK
  <2>6. DraftHasNoChain'
    BY <1>1, <1>2, <1>3, <2>2, <2>3 DEF IInv, DraftHasNoChain
  <2>7. CASE thr[t].pc = "update"
    <3>1. mine \subseteq DOMAIN chain /\ \A k \in mine : chain'[k].status # "pending"
      BY <1>7, <2>2, <2>7 DEF IInv, DecisionInOrder
    <3>2. \A k \in DOMAIN chain' : k \in DOMAIN chain
      BY <2>2, <3>1
    <3>3. \A k \in DOMAIN chain' : chain[k].status # "pending" => chain'[k].status # "pending"
      BY <2>2, <3>1
    <3>4. NewRows'
      BY <1>2, <1>3, <3>2 DEF IInv, NewRows
    <3>5. DecisionInOrder'
      BY <1>2, <1>3, <3>2, <3>3 DEF IInv, DecisionInOrder
    <3>6. StageOrder'
      <4> SUFFICES ASSUME NEW k \in DOMAIN chain', NEW l \in DOMAIN chain',
                          StageOf(l) < StageOf(k), k[3] = l[3], chain'[k].status # "pending"
                   PROVE  chain'[l].status # "pending"
        BY DEF StageOrder, StageOf
      <4>1. k \in DOMAIN chain /\ l \in DOMAIN chain
        BY <3>2
      <4>2. CASE k \in mine
        BY <2>7, <3>3, <4>1, <4>2 DEF IInv, DecisionInOrder
      <4>3. CASE k \notin mine
        BY <2>2, <3>3, <4>1, <4>3 DEF IInv, StageOrder
      <4> QED  BY <4>2, <4>3
    <3> QED  BY <1>4, <2>5, <2>6, <3>4, <3>5, <3>6 DEF IInv
  <2>8. CASE thr[t].pc = "build"
    <3>1. /\ \A k \in mine : k[3] = t /\ chain'[k].status = "pending"
          /\ \A k \in DOMAIN chain : k[3] # t
          /\ \A u \in Threads : thr[u].pc = "update" => \A k \in DOMAIN thr[u].rows : k[3] # t
      BY <2>2, <2>8 DEF IInv, NewRows
    <3>2. \A k \in DOMAIN chain' : k[3] # t => k \in DOMAIN chain /\ chain'[k] = chain[k]
      BY <2>2, <3>1
    <3>3. \A k \in DOMAIN chain' : k[3] # t \/ chain'[k].status = "pending"
      BY <2>2, <3>1
    <3>4. \A k \in DOMAIN chain' : k \notin DOMAIN chain => k[3] = t
      BY <2>2, <3>1
    <3>5. NewRows'
      BY <1>2, <1>3, <3>1, <3>4 DEF IInv, NewRows
    <3>6. DecisionInOrder'
      <4> SUFFICES ASSUME NEW u \in Threads, thr'[u].pc = "update", NEW k \in DOMAIN thr'[u].rows
                   PROVE  /\ thr'[u].rows[k].status # "pending"
                          /\ \A l \in DOMAIN chain' : StageOf(l) < StageOf(k) /\ k[3] = l[3]
                                                      => chain'[l].status # "pending"
        BY DEF DecisionInOrder, StageOf
      <4>1. thr'[u] = thr[u]
        BY <1>2, <1>3
      <4>2. k[3] # t
        BY <3>1, <4>1
      <4> QED  BY <3>2, <4>1, <4>2 DEF IInv, DecisionInOrder
    <3>7. StageOrder'
      <4> SUFFICES ASSUME NEW k \in DOMAIN chain', NEW l \in DOMAIN chain',
                          StageOf(l) < StageOf(k), k[3] = l[3], chain'[k].status # "pending"
                   PROVE  chain'[l].status # "pending"
        BY DEF StageOrder, StageOf
      <4>1. k[3] # t
        BY <3>3
      <4> QED  BY <3>2, <4>1 DEF IInv, StageOrder
    <3> QED  BY <1>4, <2>5, <2>6, <3>5, <3>6, <3>7 DEF IInv
  <2> QED  BY <1>1, <2>7, <2>8
<1> QED  BY <1>6, <1>7

\* A request that only moves the status of the change.
LEMMA StatusStep ==
    ASSUME IInv, NEW t \in Threads, NEW st \in Status \ {"draft"},
           Begin(t, "update", [change EXCEPT !.status = st], {}, NoRows)
    PROVE  IInv'
<1>1. change \in Change
  BY DEF IInv, TypeOK
<1>2. [change EXCEPT !.status = st] \in Change /\ [change EXCEPT !.status = st].status = st
  BY <1>1 DEF Change
<1> QED  BY <1>2, BeginUpdate

LEMMA NextIInv == IInv /\ [Next]_vars => IInv'
<1> SUFFICES ASSUME IInv, [Next]_vars PROVE IInv'
  OBVIOUS
<1>1. ASSUME NEW t \in Threads, Submit(t) PROVE IInv'
  BY <1>1, StatusStep DEF Submit, Status
<1>2. ASSUME NEW t \in Threads, SubmitForApproval(t) PROVE IInv'
  BY <1>2, SubmitForApprovalStep
<1>3. ASSUME NEW t \in Threads, DecideDirectly(t) PROVE IInv'
  <2>1. PICK st \in {"approved", "rejected"} :
           Begin(t, "update", [change EXCEPT !.status = st, !.approval = st], {}, NoRows)
    BY <1>3 DEF DecideDirectly
  <2> DEFINE new == [change EXCEPT !.status = st, !.approval = st]
  <2>2. change \in Change
    BY DEF IInv, TypeOK
  <2>3. new \in Change /\ new.status = st
    BY <2>2 DEF Change, Status, Decision
  <2> QED  BY <2>1, <2>3, BeginUpdate
<1>4. ASSUME NEW t \in Threads, Schedule(t) \/ Start(t) \/ Complete(t) PROVE IInv'
  BY <1>4, StatusStep DEF Schedule, Start, Complete, Status
<1>5. ASSUME NEW t \in Threads, Commit(t) PROVE IInv'
  BY <1>5, CommitStep
<1>6. ASSUME NEW t \in Threads, NEW u \in Users, NEW k \in DOMAIN chain,
             ApproveStage(t, k, u) \/ RejectStage(t, k, u)
      PROVE  IInv'
  BY <1>6, DecideStep DEF ApproveStage, RejectStage
<1>7. ASSUME Delete PROVE IInv'
  <2>1. /\ change' \in Change /\ change'.status = "deleted"
        /\ chain' = NoRows /\ UNCHANGED <<cfg, thr, lone>>
    BY <1>7 DEF Delete, IInv, TypeOK, Change, Status
  <2>2. TypeOK' /\ NeverBackToDraft' /\ DraftHasNoChain'
    BY <2>1, EmptyChain DEF IInv, TypeOK, ChainOK, NeverBackToDraft, DraftHasNoChain
  <2>3. NewRows' /\ DecisionInOrder' /\ StageOrder'
    BY <2>1, EmptyChain DEF IInv, NewRows, DecisionInOrder, StageOrder
  <2> QED  BY <2>2, <2>3 DEF IInv
<1>8. ASSUME SetConfig PROVE IInv'
  BY <1>8 DEF SetConfig, IInv, TypeOK, ChainOK, NeverBackToDraft, DraftHasNoChain,
              NewRows, DecisionInOrder, StageOrder
<1>9. ASSUME UNCHANGED vars PROVE IInv'
  BY <1>9 DEF vars, IInv, TypeOK, ChainOK, NeverBackToDraft, DraftHasNoChain,
              NewRows, DecisionInOrder, StageOrder
<1> QED  BY <1>1, <1>2, <1>3, <1>4, <1>5, <1>6, <1>7, <1>8, <1>9 DEF Next

LEMMA Invariant == Spec => []IInv
<1>1. IInv /\ [Next]_vars => IInv'
  BY NextIInv
<1> QED  BY InitIInv, <1>1, PTL DEF Spec

\* Every column of the change, every approval row, and what every request
\* thread is about to write, stays in its type (the rows of CabChain.TypeOK).
THEOREM ChainTypeCorrect == Spec => []TypeOK
<1>1. IInv => TypeOK
  BY DEF IInv
<1> QED  BY Invariant, <1>1, PTL

\* However many approvers decide at once, on however many stages, and however
\* often the configuration changes under them: no row of a stage is decided
\* before the rows of the stages in front of it (get_active_stage).
THEOREM StagesInOrder == Spec => []StageOrder
<1>1. IInv => StageOrder
  BY DEF IInv
<1> QED  BY Invariant, <1>1, PTL

-----------------------------------------------------------------------------
(* Requests that come one at a time                                        *)

Carried == {"approved", "scheduled", "in_progress", "completed"}

AllApproved(rows) == \A s \in Stages(rows) : /\ With(rows, s, "approved") # {}
                                             /\ With(rows, s, "rejected") = {}

\* The status of a change is the one that its chain calls for.
Right(status, rows) ==
    /\ status \in Carried => AllApproved(rows)
    /\ status = "submitted" /\ DOMAIN rows # {} => ActiveStage(rows) # 0

\* The chain that a commit leaves.
Over(drop, rows) ==
    [k \in (DOMAIN chain \ drop) \cup DOMAIN rows |->
        IF k \in DOMAIN rows THEN rows[k] ELSE chain[k]]

OneRequest == \A t, u \in Threads : thr[t].pc # "idle" /\ thr[u].pc # "idle" => t = u

ChainRight == Right(change.status, chain)

\* A request has seen the change as it is, and what it will write is right.
WritesRight ==
    \A t \in Threads : thr[t].pc # "idle" /\ change.status # "deleted" =>
        /\ thr[t].seen = change
        /\ Right(thr[t].new.status, Over(thr[t].drop, thr[t].rows))

LoneInv == lone => OneRequest /\ ChainRight /\ WritesRight

\* Right looks at the rows only.
LEMMA SameRows ==
    ASSUME NEW a, NEW b, DOMAIN a = DOMAIN b, \A k \in DOMAIN a : a[k] = b[k],
           NEW st, Right(st, a)
    PROVE  Right(st, b)
<1>1. Stages(a) = Stages(b) /\ \A s : OfStage(a, s) = OfStage(b, s)
  BY DEF Stages, OfStage
<1>2. \A s, d : With(a, s, d) = With(b, s, d)
  BY DEF With, OfStage
<1>3. ActiveStage(a) = ActiveStage(b)
  <2>1. {s \in Stages(a) : With(a, s, "approved") # OfStage(a, s)}
          = {s \in Stages(b) : With(b, s, "approved") # OfStage(b, s)}
    BY <1>1, <1>2
  <2> QED  BY <1>2, <2>1, Zenon DEF ActiveStage
<1> QED  BY <1>1, <1>2, <1>3 DEF Right, AllApproved

\* What keeps a chain from being decided is in its first open stage.
LEMMA OpenStage ==
    ASSUME NEW rows, ChainOK(rows), NEW b \in Stages(rows),
           With(rows, b, "approved") # OfStage(rows, b),
           \A s \in Stages(rows) : s <= b => With(rows, s, "rejected") = {}
    PROVE  ActiveStage(rows) # 0
<1> DEFINE open == {s \in Stages(rows) : With(rows, s, "approved") # OfStage(rows, s)}
<1>1. open \subseteq Nat \ {0} /\ b \in open
  BY SomeStage
<1>2. Least(open) \in open /\ Least(open) <= b
  BY <1>1, LeastProperty
<1>3. With(rows, Least(open), "rejected") = {}
  BY <1>2
<1> QED  BY <1>1, <1>2, <1>3 DEF ActiveStage

LEMMA RecomputeRight ==
    ASSUME NEW ch \in Change, ch.status = "submitted", NEW rows, ChainOK(rows),
           DOMAIN rows # {}
    PROVE  Right(Recompute(ch, rows).status, rows)
<1> DEFINE blocking == {s \in Stages(rows) : \/ With(rows, s, "rejected") # {}
                                            \/ ~Satisfied(rows, s)}
           st(d) == [ch EXCEPT !.status = d, !.approval = d]
           wait  == [ch EXCEPT !.approval = "pending", !.stage = Least(blocking)]
<1>1. rows # NoRows /\ blocking \subseteq Nat
  BY EmptyChain, SomeStage
<1>2. \A d \in {"approved", "rejected"} : st(d).status = d
  BY DEF Change
<1>3. wait.status = "submitted"
  BY DEF Change
<1>4. \A s \in Stages(rows) : OfStage(rows, s) # {}
  BY DEF Stages, OfStage
<1>5. CASE blocking = {}
  <2>1. AllApproved(rows)
    BY <1>4, <1>5 DEF AllApproved, Satisfied
  <2>2. Recompute(ch, rows) = st("approved")
    BY <1>1, <1>5 DEF Recompute
  <2> QED  BY <1>2, <2>1, <2>2 DEF Right
<1>6. CASE blocking # {} /\ With(rows, Least(blocking), "rejected") # {}
  <2>1. Recompute(ch, rows) = st("rejected")
    BY <1>1, <1>6 DEF Recompute
  <2> QED  BY <1>2, <2>1 DEF Right, Carried
<1>7. CASE blocking # {} /\ With(rows, Least(blocking), "rejected") = {}
  <2>1. Recompute(ch, rows) = wait
    BY <1>1, <1>7 DEF Recompute
  <2>2. Least(blocking) \in blocking /\ \A s \in blocking : Least(blocking) <= s
    BY <1>1, <1>7, LeastProperty
  <2>3. With(rows, Least(blocking), "approved") # OfStage(rows, Least(blocking))
    BY <1>4, <1>7, <2>2 DEF Satisfied
  <2>4. \A s \in Stages(rows) : s <= Least(blocking) => With(rows, s, "rejected") = {}
    <3> TAKE s \in Stages(rows)
    <3> SUFFICES ASSUME s <= Least(blocking), s # Least(blocking)
                 PROVE  With(rows, s, "rejected") = {}
      BY <1>7
    <3>1. s \notin blocking
      BY <1>1, <2>2, SomeStage
    <3> QED  BY <3>1
  <2>5. ActiveStage(rows) # 0
    BY <2>2, <2>3, <2>4, OpenStage
  <2> QED  BY <1>3, <2>1, <2>5 DEF Right, Carried
<1> QED  BY <1>5, <1>6, <1>7

LEMMA BuildRight ==
    ASSUME NEW rows, ChainOK(rows), \A k \in DOMAIN rows : rows[k].status = "pending"
    PROVE  Right("submitted", rows)
<1> SUFFICES ASSUME DOMAIN rows # {} PROVE ActiveStage(rows) # 0
  BY DEF Right, Carried
<1>1. PICK b \in Stages(rows) : OfStage(rows, b) # {}
  BY DEF Stages, OfStage
<1>2. \A s : With(rows, s, "approved") = {} /\ With(rows, s, "rejected") = {}
  BY DEF With, OfStage
<1> QED  BY <1>1, <1>2, OpenStage

\* A request that begins and will write what is right.
LEMMA BeginLone ==
    ASSUME IInv, LoneInv, NEW t \in Threads, NEW pc, NEW new, NEW drop, NEW rows,
           Begin(t, pc, new, drop, rows),
           lone => Right(new.status, Over(drop, rows))
    PROVE  LoneInv'
<1> DEFINE s == [pc |-> pc, seen |-> change, new |-> new, drop |-> drop, rows |-> rows]
<1>1. thr' = [thr EXCEPT ![t] = s] /\ UNCHANGED <<change, chain>> /\ (lone' => lone /\ Quiet)
  BY DEF Begin
<1>2. s.seen = change /\ s.new = new /\ s.drop = drop /\ s.rows = rows
  OBVIOUS
<1> HIDE DEF s
<1>3. thr'[t] = s /\ \A u \in Threads \ {t} : thr'[u] = thr[u]
  BY <1>1 DEF IInv, TypeOK
<1> SUFFICES ASSUME lone' PROVE (OneRequest /\ ChainRight /\ WritesRight)'
  BY DEF LoneInv
<1>4. \A u \in Threads \ {t} : thr'[u].pc = "idle"
  BY <1>1, <1>3 DEF Quiet
<1>5. \A u \in Threads : thr'[u].pc # "idle" => u = t
  BY <1>4
<1>6. ChainRight'
  BY <1>1 DEF LoneInv, ChainRight
<1>7. Over(drop, rows)' = Over(drop, rows)
  BY <1>1 DEF Over
<1>8. WritesRight'
  BY <1>1, <1>2, <1>3, <1>5, <1>7 DEF WritesRight
<1> QED  BY <1>5, <1>6, <1>8 DEF OneRequest

LEMMA OverNothing ==
    /\ DOMAIN Over({}, NoRows) = DOMAIN chain
    /\ \A k \in DOMAIN chain : Over({}, NoRows)[k] = chain[k]
BY EmptyChain DEF Over

\* A request that only moves the status, of a change that has no chain ...
LEMMA NoChainStep ==
    ASSUME IInv, LoneInv, NEW t \in Threads, NEW new, DOMAIN chain = {},
           Begin(t, "update", new, {}, NoRows)
    PROVE  LoneInv'
<1>1. Right(new.status, Over({}, NoRows))
  BY OverNothing DEF Right, AllApproved, Stages
<1> QED  BY <1>1, BeginLone

\* ... or that is being carried out.
LEMMA CarriedStep ==
    ASSUME IInv, LoneInv, NEW t \in Threads, NEW st \in Carried, change.status \in Carried,
           Begin(t, "update", [change EXCEPT !.status = st], {}, NoRows)
    PROVE  LoneInv'
<1> DEFINE new == [change EXCEPT !.status = st]
<1>1. new.status = st
  BY DEF IInv, TypeOK, Change
<1>2. lone => Right(st, chain)
  BY DEF LoneInv, ChainRight, Right, Carried
<1>3. lone => Right(st, Over({}, NoRows))
  BY <1>2, OverNothing, SameRows
<1> QED  BY <1>1, <1>3, BeginLone

LEMMA SubmitForApprovalLone ==
    ASSUME IInv, LoneInv, NEW t \in Threads, SubmitForApproval(t)
    PROVE  LoneInv'
<1> DEFINE new == [change EXCEPT !.status = "submitted", !.approval = "pending", !.stage = 1]
           rows == Build(t, cfg)
           over == Over(DOMAIN chain, rows)
<1>1. new.status = "submitted" /\ cfg \in Configs
  BY DEF IInv, TypeOK, Change
<1>2. ChainOK(rows) /\ \A k \in DOMAIN rows : rows[k].status = "pending"
  BY <1>1, BuildType
<1>3. Begin(t, "build", new, DOMAIN chain, rows)
  BY DEF SubmitForApproval
<1> HIDE DEF new, rows
<1>4. DOMAIN rows = DOMAIN over /\ \A k \in DOMAIN rows : rows[k] = over[k]
  BY DEF Over
<1>5. Right("submitted", over)
  BY <1>2, <1>4, BuildRight, SameRows
<1> QED  BY <1>1, <1>3, <1>5, BeginLone

LEMMA DecideLone ==
    ASSUME IInv, LoneInv, NEW t \in Threads, NEW k \in DOMAIN chain, NEW u \in Users,
           NEW st \in {"approved", "rejected"},
           MayDecide(k, u), Decide(t, k, u, st)
    PROVE  LoneInv'
<1> DEFINE row  == [status |-> st, approver |-> u]
           seen == [chain EXCEPT ![k] = row]
           rows == [x \in {k} |-> row]
           over == Over({}, rows)
<1>1. change \in Change /\ change.status = "submitted" /\ ChainOK(chain)
  BY DEF IInv, TypeOK, MayDecide
<1>2. row \in Row
  BY DEF Row, Decision
<1>3. ChainOK(seen) /\ DOMAIN seen = DOMAIN chain
  BY <1>1, <1>2 DEF ChainOK
<1>4. Begin(t, "update", Recompute(change, seen), {}, rows)
  BY DEF Decide
<1> HIDE DEF row
<1>5. DOMAIN seen = DOMAIN over /\ \A x \in DOMAIN seen : seen[x] = over[x]
  BY DEF Over
<1> HIDE DEF seen, rows
<1>6. Right(Recompute(change, seen).status, seen)
  BY <1>1, <1>3, RecomputeRight
<1>7. Right(Recompute(change, seen).status, over)
  BY <1>5, <1>6, SameRows
<1> QED  BY <1>4, <1>7, BeginLone

LEMMA CommitLone ==
    ASSUME IInv, LoneInv, NEW t \in Threads, Commit(t)
    PROVE  LoneInv'
<1> SUFFICES ASSUME lone' PROVE (OneRequest /\ ChainRight /\ WritesRight)'
  BY DEF LoneInv
<1>1. lone /\ OneRequest /\ ChainRight /\ WritesRight
  BY DEF Commit, LoneInv
<1>2. thr[t].pc # "idle" /\ thr' = [thr EXCEPT ![t] = Idle]
  BY DEF Commit
<1>3. \A u \in Threads : thr'[u].pc = "idle"
  BY <1>1, <1>2 DEF OneRequest, IInv, TypeOK, Idle
<1>4. ChainRight'
  <2> DEFINE f == [c \in DOMAIN change |->
                     IF thr[t].new[c] = thr[t].seen[c] THEN change[c] ELSE thr[t].new[c]]
  <2>1. CASE change' = change /\ chain' = chain
    BY <1>1, <2>1 DEF ChainRight
  <2>2. CASE /\ change.status # "deleted" /\ change' = f
             /\ chain' = Over(thr[t].drop, thr[t].rows)
    <3>1. thr[t].seen = change /\ Right(thr[t].new.status, Over(thr[t].drop, thr[t].rows))
      BY <1>1, <1>2, <2>2 DEF WritesRight
    <3>2. "status" \in DOMAIN change
      BY DEF IInv, TypeOK, Change
    <3>3. change'.status = thr[t].new.status
      BY <2>2, <3>1, <3>2
    <3> QED  BY <2>2, <3>1, <3>3 DEF ChainRight
  <2>3. \/ change' = change /\ chain' = chain
        \/ /\ change.status # "deleted" /\ change' = f
           /\ chain' = Over(thr[t].drop, thr[t].rows)
    BY DEF Commit, Over
  <2> QED  BY <2>1, <2>2, <2>3
<1> QED  BY <1>3, <1>4 DEF OneRequest, WritesRight

LEMMA NextLone == IInv /\ LoneInv /\ [Next]_vars => LoneInv'
<1> SUFFICES ASSUME IInv, LoneInv, [Next]_vars PROVE LoneInv'
  OBVIOUS
<1>1. ASSUME NEW t \in Threads, Submit(t) PROVE LoneInv'
  BY <1>1, NoChainStep DEF Submit, IInv, DraftHasNoChain
<1>2. ASSUME NEW t \in Threads, SubmitForApproval(t) PROVE LoneInv'
  BY <1>2, SubmitForApprovalLone
<1>3. ASSUME NEW t \in Threads, DecideDirectly(t) PROVE LoneInv'
  BY <1>3, NoChainStep DEF DecideDirectly
<1>4. ASSUME NEW t \in Threads, Schedule(t) \/ Start(t) \/ Complete(t) PROVE LoneInv'
  BY <1>4, CarriedStep DEF Schedule, Start, Complete, Carried
<1>5. ASSUME NEW t \in Threads, Commit(t) PROVE LoneInv'
  BY <1>5, CommitLone
<1>6. ASSUME NEW t \in Threads, NEW u \in Users, NEW k \in DOMAIN chain,
             ApproveStage(t, k, u) \/ RejectStage(t, k, u)
      PROVE  LoneInv'
  BY <1>6, DecideLone DEF ApproveStage, RejectStage
<1>7. ASSUME Delete PROVE LoneInv'
  <2>1. /\ change'.status = "deleted" /\ chain' = NoRows /\ UNCHANGED <<thr, lone>>
    BY <1>7 DEF Delete, IInv, TypeOK, Change
  <2>2. ChainRight' /\ WritesRight'
    BY <2>1 DEF ChainRight, WritesRight, Right, Carried
  <2> QED  BY <2>1, <2>2 DEF LoneInv, OneRequest
<1>8. ASSUME UNCHANGED <<change, chain, thr, lone>> PROVE LoneInv'
  <2>1. \A drop, rows : Over(drop, rows)' = Over(drop, rows)
    BY <1>8 DEF Over
  <2>2. OneRequest' = OneRequest /\ ChainRight' = ChainRight
    BY <1>8 DEF OneRequest, ChainRight
  <2>3. WritesRight => WritesRight'
    BY <1>8, <2>1 DEF WritesRight
  <2> QED  BY <1>8, <2>2, <2>3 DEF LoneInv
<1>9. SetConfig \/ UNCHANGED vars => UNCHANGED <<change, chain, thr, lone>>
  BY DEF SetConfig, vars
<1> QED  BY <1>1, <1>2, <1>3, <1>4, <1>5, <1>6, <1>7, <1>8, <1>9 DEF Next

LEMMA LoneInvariant == Spec => []LoneInv
<1>1. Init => LoneInv
  BY EmptyChain DEF Init, LoneInv, OneRequest, ChainRight, WritesRight, Right, Carried, Idle
<1> QED  BY <1>1, NextLone, Invariant, PTL DEF Spec

\* As long as requests come one at a time, and however often the configuration
\* is replaced meanwhile, a change that is being carried out has an approval and
\* no rejection in every stage of its chain (recompute_change_approval).
THEOREM ApprovalIsComplete == Spec => []ApprovedInEveryStage
<1>1. LoneInv => ApprovedInEveryStage
  BY DEF LoneInv, ChainRight, Right, Carried, AllApproved, ApprovedInEveryStage
<1> QED  BY LoneInvariant, <1>1, PTL

\* ... and a submitted change has a stage that somebody can decide
\* (get_active_stage).
THEOREM AlwaysDecidable == Spec => []NoDeadEnd
<1>1. LoneInv => NoDeadEnd
  BY DEF LoneInv, ChainRight, Right, NoDeadEnd
<1> QED  BY LoneInvariant, <1>1, PTL

-----------------------------------------------------------------------------
(* The chain implements StagedDecisions.                                   *)

\* What a request may be about to write: a chain with nothing decided, or at
\* most one decision, by somebody whom the row was made for.
Writes(pc, drop, rows) ==
    /\ pc = "build" =>
          /\ drop = {}
          /\ \A k \in DOMAIN rows : rows[k] = [status |-> "pending", approver |-> k[2]]
    /\ pc = "update" =>
          /\ drop = {}
          /\ \/ DOMAIN rows = {}
             \/ \E k \in RowId, u \in Users, st \in {"approved", "rejected"} :
                   /\ DOMAIN rows = {k} /\ rows[k] = [status |-> st, approver |-> u]
                   /\ Staged!MayBeBy(k, u)

WritesStaged == \A t \in Threads : Writes(thr[t].pc, thr[t].drop, thr[t].rows)

\* A row bears the name it was made for, and the chain is no more than its rows.
RowsStaged ==
    /\ Staged!ByTheRightPerson
    /\ chain = [k \in DOMAIN chain |-> chain[k]]

StagedInv == IInv /\ WritesStaged /\ RowsStaged

\* One request changes what it is about to write.
LEMMA WritesKept ==
    ASSUME WritesStaged, NEW t \in Threads, \A u \in Threads \ {t} : thr'[u] = thr[u],
           Writes(thr'[t].pc, thr'[t].drop, thr'[t].rows)
    PROVE  WritesStaged'
<1> SUFFICES ASSUME NEW u \in Threads PROVE Writes(thr'[u].pc, thr'[u].drop, thr'[u].rows)
  BY DEF WritesStaged
<1>1. CASE u = t
  BY <1>1
<1>2. CASE u # t
  BY <1>2 DEF WritesStaged
<1> QED  BY <1>1, <1>2

\* A request begins; the chain stays.
LEMMA BeginStaged ==
    ASSUME TypeOK, WritesStaged, RowsStaged, NEW t \in Threads, NEW pc, NEW new, NEW drop, NEW rows,
           Begin(t, pc, new, drop, rows), Writes(pc, drop, rows)
    PROVE  WritesStaged' /\ RowsStaged' /\ chain' = chain
<1> DEFINE s == [pc |-> pc, seen |-> change, new |-> new, drop |-> drop, rows |-> rows]
<1>1. thr' = [thr EXCEPT ![t] = s] /\ chain' = chain
  BY DEF Begin
<1>2. s.pc = pc /\ s.drop = drop /\ s.rows = rows
  OBVIOUS
<1> HIDE DEF s
<1>3. thr'[t] = s /\ \A u \in Threads \ {t} : thr'[u] = thr[u]
  BY <1>1 DEF TypeOK
<1>4. WritesStaged'
  BY <1>2, <1>3, WritesKept
<1>5. RowsStaged'
  BY <1>1 DEF RowsStaged, Staged!ByTheRightPerson
<1> QED  BY <1>1, <1>4, <1>5

LEMMA NothingWritten == Writes("update", {}, NoRows)
BY EmptyChain DEF Writes

LEMMA BuildStaged ==
    ASSUME NEW t \in Threads, NEW c \in Configs, NEW k \in DOMAIN Build(t, c)
    PROVE  Build(t, c)[k] = [status |-> "pending", approver |-> k[2]]
<1> DEFINE K == UNION {{<<s, u, t>> : u \in Slots(c[s])} : s \in 1 .. Len(c)}
<1>1. Build(t, c) = [x \in K |-> [status |-> "pending", approver |-> x[2]]]
  BY Zenon DEF Build
<1> HIDE DEF K
<1> QED  BY <1>1

\* Whom a row was made for decides it, whoever decided it before.
LEMMA DecideStaged ==
    ASSUME TypeOK, RowsStaged, NEW k \in DOMAIN chain, NEW u \in Users,
           NEW st \in {"approved", "rejected"}, MayDecide(k, u)
    PROVE  Writes("update", {}, [x \in {k} |-> [status |-> st, approver |-> u]])
<1>1. Staged!MayBeBy(k, chain[k].approver) /\ chain[k].approver \in {Open, u}
  BY DEF RowsStaged, Staged!ByTheRightPerson, MayDecide
<1>2. Staged!MayBeBy(k, u) /\ k \in RowId
  BY <1>1 DEF Staged!MayBeBy, TypeOK, ChainOK
<1> DEFINE rows == [x \in {k} |-> [status |-> st, approver |-> u]]
<1>3. DOMAIN rows = {k} /\ rows[k] = [status |-> st, approver |-> u]
  OBVIOUS
<1> HIDE DEF rows
<1>4. Writes("update", {}, rows)
  BY <1>2, <1>3 DEF Writes
<1> QED  BY <1>4 DEF rows

\* A commit makes a chain appear, or one decision, or nothing.
LEMMA CommitStaged ==
    ASSUME StagedInv, NEW t \in Threads, Commit(t)
    PROVE  WritesStaged' /\ RowsStaged' /\ [Staged!Next]_chain
<1> DEFINE rows == thr[t].rows
           mine == DOMAIN rows
           kept == DOMAIN chain \ thr[t].drop
<1>1. /\ TypeOK /\ thr[t].pc \in {"build", "update"} /\ Writes(thr[t].pc, thr[t].drop, rows)
      /\ Staged!ByTheRightPerson /\ chain = [k \in DOMAIN chain |-> chain[k]]
  BY DEF StagedInv, IInv, TypeOK, Commit, WritesStaged, RowsStaged
<1>2. WritesStaged'
  <2>1. /\ \A u \in Threads : u # t => thr'[u] = thr[u]
        /\ thr'[t].pc = "idle"
    BY <1>1 DEF Commit, TypeOK, Idle
  <2>2. Writes(thr'[t].pc, thr'[t].drop, thr'[t].rows)
    BY <2>1 DEF Writes
  <2> QED  BY <2>1, <2>2, WritesKept DEF StagedInv
<1>3. CASE chain' = chain
  BY <1>1, <1>2, <1>3 DEF RowsStaged, Staged!ByTheRightPerson
<1>4. CASE chain' # chain
  <2>1. /\ thr[t].pc = "update" => mine \subseteq DOMAIN chain
        /\ chain' = [k \in kept \cup mine |-> IF k \in mine THEN rows[k] ELSE chain[k]]
    BY <1>4 DEF Commit
  <2>2. thr[t].drop = {} /\ kept = DOMAIN chain
    BY <1>1 DEF Writes
  <2>3. /\ DOMAIN chain' = DOMAIN chain \cup mine
        /\ chain' = [k \in DOMAIN chain' |-> chain'[k]]
        /\ \A k \in DOMAIN chain' : chain'[k] = IF k \in mine THEN rows[k] ELSE chain[k]
    BY <2>1, <2>2
  <2> HIDE DEF rows, mine, kept
  <2>4. CASE thr[t].pc = "build"
    <3>1. \A k \in mine : k[3] = t /\ rows[k] = [status |-> "pending", approver |-> k[2]]
      BY <1>1, <2>4 DEF StagedInv, IInv, NewRows, Writes, mine, rows
    <3>2. \A k \in DOMAIN chain : k[3] # t
      BY <2>4 DEF StagedInv, IInv, NewRows
    <3>3. Staged!Appear(t)
      <4>1. \A k \in DOMAIN chain : k \notin mine
        BY <3>1, <3>2
      <4>2. \A k \in DOMAIN chain : chain'[k] = chain[k]
        BY <2>3, <4>1
      <4>3. \A k \in DOMAIN chain' \ DOMAIN chain :
               k[3] = t /\ chain'[k] = [status |-> "pending", approver |-> k[2]]
        BY <2>3, <3>1
      <4> QED  BY <2>3, <3>2, <4>2, <4>3 DEF Staged!Appear, Staged!ChainOf
    <3>4. Staged!ByTheRightPerson'
      <4> SUFFICES ASSUME NEW k \in DOMAIN chain' PROVE Staged!MayBeBy(k, chain'[k].approver)
        BY DEF Staged!ByTheRightPerson
      <4>1. CASE k \in mine
        <5>1. chain'[k].approver = k[2]
          <6>1. chain'[k] = rows[k]
            BY <2>3, <4>1
          <6>2. rows[k] = [status |-> "pending", approver |-> k[2]]
            BY <3>1, <4>1
          <6>3. rows[k].approver = k[2]
            BY <6>2
          <6> QED  BY <6>1, <6>3
        <5> QED  BY <5>1 DEF Staged!MayBeBy
      <4>2. CASE k \notin mine
        BY <1>1, <2>3, <4>2 DEF Staged!ByTheRightPerson
      <4> QED  BY <4>1, <4>2
    <3> QED  BY <1>2, <2>3, <3>3, <3>4 DEF RowsStaged, Staged!Next
  <2>5. CASE thr[t].pc = "update"
    <3>1. mine # {}
      BY <1>1, <1>4, <2>1, <2>2 DEF mine, rows
    <3>2. PICK k \in RowId : \E u \in Users, st \in {"approved", "rejected"} :
                    /\ mine = {k} /\ rows[k] = [status |-> st, approver |-> u]
                    /\ Staged!MayBeBy(k, u)
      BY <1>1, <2>5, <3>1 DEF Writes, mine
    <3>3. PICK u \in Users, st \in {"approved", "rejected"} :
                    /\ mine = {k} /\ rows[k] = [status |-> st, approver |-> u]
                    /\ Staged!MayBeBy(k, u)
      BY <3>2
    <3>4. k \in DOMAIN chain /\ DOMAIN chain' = DOMAIN chain
      BY <2>1, <2>3, <2>5, <3>3
    <3>5. chain' = [chain EXCEPT ![k] = [status |-> st, approver |-> u]]
      BY <2>3, <3>3, <3>4
    <3>6. \A l \in Staged!Before(k) : Staged!Decided(l)
      BY <2>5, <3>3, <3>4 DEF StagedInv, IInv, DecisionInOrder, StageOf, Staged!Before,
         Staged!Decided, Staged!ChainOf, mine, rows
    <3>7. Staged!Decide(k, u, st)
      BY <3>3, <3>5, <3>6 DEF Staged!Decide
    <3>8. Staged!ByTheRightPerson'
      <4> SUFFICES ASSUME NEW l \in DOMAIN chain' PROVE Staged!MayBeBy(l, chain'[l].approver)
        BY DEF Staged!ByTheRightPerson
      <4>1. CASE l = k
        BY <2>3, <3>3, <4>1
      <4>2. CASE l # k
        BY <1>1, <2>3, <3>3, <3>4, <4>2 DEF Staged!ByTheRightPerson
      <4> QED  BY <4>1, <4>2
    <3> QED  BY <1>2, <2>3, <3>4, <3>7, <3>8 DEF RowsStaged, Staged!Next
  <2> QED  BY <1>1, <2>4, <2>5
<1> QED  BY <1>3, <1>4

LEMMA NextStaged ==
    StagedInv /\ [Next]_vars => WritesStaged' /\ RowsStaged' /\ [Staged!Next]_chain
<1> DEFINE Good == WritesStaged' /\ RowsStaged' /\ [Staged!Next]_chain
<1> SUFFICES ASSUME StagedInv, [Next]_vars PROVE Good
  OBVIOUS
<1>1. TypeOK /\ WritesStaged /\ RowsStaged /\ DraftHasNoChain
  BY DEF StagedInv, IInv
<1>2. ASSUME NEW t \in Threads, NEW pc, NEW new, NEW drop, NEW rows,
             Begin(t, pc, new, drop, rows), Writes(pc, drop, rows)
      PROVE  Good
  BY <1>1, <1>2, BeginStaged
<1>3. ASSUME NEW t \in Threads, Submit(t) \/ DecideDirectly(t) \/ Schedule(t) \/ Start(t) \/ Complete(t)
      PROVE  Good
  <2>1. PICK new : Begin(t, "update", new, {}, NoRows)
    BY <1>3 DEF Submit, DecideDirectly, Schedule, Start, Complete
  <2> QED  BY <1>2, <2>1, NothingWritten
<1>4. ASSUME NEW t \in Threads, SubmitForApproval(t) PROVE Good
  <2>1. PICK new : Begin(t, "build", new, DOMAIN chain, Build(t, cfg))
    BY <1>4 DEF SubmitForApproval
  <2>2. DOMAIN chain = {} /\ cfg \in Configs
    BY <1>1, <1>4 DEF SubmitForApproval, DraftHasNoChain, TypeOK
  <2>3. Writes("build", DOMAIN chain, Build(t, cfg))
    BY <2>2, BuildStaged DEF Writes
  <2> QED  BY <1>2, <2>1, <2>3
<1>5. ASSUME NEW t \in Threads, NEW u \in Users, NEW k \in DOMAIN chain,
             ApproveStage(t, k, u) \/ RejectStage(t, k, u)
      PROVE  Good
  <2>1. PICK st \in {"approved", "rejected"} : MayDecide(k, u) /\ Decide(t, k, u, st)
    BY <1>5 DEF ApproveStage, RejectStage
  <2> DEFINE row == [status |-> st, approver |-> u]
  <2>2. Begin(t, "update", Recompute(change, [chain EXCEPT ![k] = row]), {}, [x \in {k} |-> row])
    BY <2>1 DEF Decide
  <2>3. Writes("update", {}, [x \in {k} |-> row])
    BY <1>1, <2>1, DecideStaged
  <2> HIDE DEF row
  <2> QED  BY <1>2, <2>2, <2>3
<1>6. ASSUME NEW t \in Threads, Commit(t) PROVE Good
  BY <1>6, CommitStaged
<1>7. ASSUME Delete PROVE Good
  <2>1. chain' = NoRows /\ thr' = thr
    BY <1>7 DEF Delete
  <2>2. RowsStaged' /\ DOMAIN chain' = {}
    BY <2>1, EmptyChain DEF RowsStaged, Staged!ByTheRightPerson, NoRows
  <2>3. WritesStaged'
    BY <1>1, <2>1 DEF WritesStaged
  <2> QED  BY <2>2, <2>3 DEF Staged!Next, Staged!Disappear
<1>8. ASSUME UNCHANGED <<chain, thr>> PROVE Good
  BY <1>1, <1>8 DEF WritesStaged, RowsStaged, Staged!ByTheRightPerson
<1>9. SetConfig \/ UNCHANGED vars => UNCHANGED <<chain, thr>>
  BY DEF SetConfig, vars
<1> HIDE DEF Good
<1> QED  BY <1>3, <1>4, <1>5, <1>6, <1>7, <1>8, <1>9 DEF Next

LEMMA InitStaged == Init => WritesStaged /\ RowsStaged /\ Staged!Init
<1> SUFFICES ASSUME Init PROVE WritesStaged /\ RowsStaged /\ Staged!Init
  OBVIOUS
<1>1. chain = NoRows /\ \A t \in Threads : thr[t].pc = "idle"
  BY DEF Init, Idle
<1> QED  BY <1>1, EmptyChain DEF WritesStaged, Writes, RowsStaged, Staged!ByTheRightPerson,
            Staged!Init, NoRows

LEMMA StagedInvariant == Spec => []StagedInv
<1>1. StagedInv <=> IInv /\ WritesStaged /\ RowsStaged
  BY DEF StagedInv
<1> QED  BY <1>1, InitStaged, NextStaged, Invariant, PTL DEF Spec

\* However requests overlap, chains appear whole and undecided, and their rows
\* are decided one at a time, stage by stage, each by the person it was made for
\* (cab_chain.py:43-234).
THEOREM ChainImplementsStages == Spec => StagedSpec
BY StagedInvariant, InitStaged, NextStaged, PTL DEF Spec, StagedSpec, Staged!Spec

\* No row that the configuration assigned to somebody ever bears the name of
\* anybody else, through decisions that replace each other and configurations
\* that change (approve_change_stage, reject_change_stage).
THEOREM RightPerson == Spec => []Staged!ByTheRightPerson
<1>1. StagedInv => Staged!ByTheRightPerson
  BY DEF StagedInv, RowsStaged
<1> QED  BY StagedInvariant, <1>1, PTL
=============================================================================
