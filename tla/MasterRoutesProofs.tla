-------------------------- MODULE MasterRoutesProofs --------------------------
(***************************************************************************)
(* Proofs about MasterRoutes and PrefixIndex, for any sets of keys, nodes, *)
(* put ids and handlers and any number of registrations and departures.    *)
(***************************************************************************)
EXTENDS PrefixIndex, TLAPS

\* A tag is a node and a registration number.
LEMMA TagParts ==
  /\ \A t \in Tag : t[1] \in Node /\ t[2] \in 1..MaxGen /\ t = <<t[1], t[2]>>
  /\ \A n \in Node, g \in 1..MaxGen : <<n, g>> \in Tag /\ <<n, g>>[1] = n /\ <<n, g>>[2] = g
  /\ NoTag \notin Tag
BY DEF Tag, NoTag

\* A handler that ends leaves well-typed locals behind.
LEMMA FinishType ==
  ASSUME TaskType, NEW c \in Task, Finish(c) PROVE TaskType'
BY DEF TaskType, Finish

\* So does a get that is through with its clean-up.
LEMMA AfterCleanType ==
  ASSUME TaskType, NEW c \in Task, pc[c] \in {"clean", "remove"}, AfterClean(c) PROVE TaskType'
<1>1. CASE Finish(c)
  BY <1>1, FinishType
<1>2. CASE ~Finish(c)
  BY <1>2 DEF AfterClean, TaskType
<1> QED BY <1>1, <1>2

\* Every step preserves the types.
LEMMA TypeStep == TypeOK /\ [Next]_vars => TypeOK'
<1> SUFFICES ASSUME TypeOK, [Next]_vars PROVE TypeOK'
  OBVIOUS
<1> USE RoutesAssumption DEF TypeOK, PutStates, Published
<1>1. ASSUME NEW n \in Node, Register(n) PROVE TypeOK'
  <2>1. NodeType'
    BY <1>1 DEF Register, NodeType
  <2>2. RouteType' /\ PutType' /\ SweepType' /\ TaskType'
    BY <1>1 DEF Register, RouteType, PutType, SweepType, TaskType, putVars, sweepVars, taskVars
  <2> QED BY <2>1, <2>2
<1>2. ASSUME NEW n \in Node, MemberLeft(n) PROVE TypeOK'
  <2>1. NodeType'
    BY <1>2, TagParts DEF MemberLeft, NodeType, CurrentLive
  <2>2. SweepType'
    BY <1>2, TagParts, Zenon DEF MemberLeft, SweepType
  <2>3. RouteType' /\ PutType' /\ TaskType'
    BY <1>2 DEF MemberLeft, RouteType, PutType, TaskType, putVars, taskVars
  <2> QED BY <2>1, <2>2, <2>3
<1>3. ASSUME NEW t \in Tag, NEW k \in Key, SweepSnapshot(t, k) PROVE TypeOK'
  <2>1. SweepType'
    BY <1>3 DEF SweepSnapshot, SweepType, RouteType
  <2>2. NodeType' /\ RouteType' /\ PutType' /\ TaskType'
    BY <1>3 DEF SweepSnapshot, NodeType, RouteType, PutType, TaskType, nodeVars, putVars,
           taskVars
  <2> QED BY <2>1, <2>2
<1>4. ASSUME NEW t \in Tag, NEW p \in Put, SweepRoute(t, p) PROVE TypeOK'
  <2>1. RouteType'
    BY <1>4, TagParts DEF SweepRoute, RouteType, putVars
  <2>2. SweepType'
    BY <1>4, TagParts DEF SweepRoute, SweepType
  <2>3. NodeType' /\ PutType' /\ TaskType'
    BY <1>4 DEF SweepRoute, NodeType, PutType, TaskType, nodeVars, putVars, taskVars
  <2> QED BY <2>1, <2>2, <2>3
<1>5. ASSUME NEW t \in Tag, SweepRemove(t) PROVE TypeOK'
  <2>1. RouteType'
    <3>1. CASE UNCHANGED kv_routes
      BY <1>5, <3>1 DEF SweepRemove, RouteType, putVars
    <3>2. CASE kv_routes' = [kv_routes EXCEPT ![put_key[sweep_empty[t]]] = NoPut]
      BY <1>5, <3>2, Zenon DEF SweepRemove, RouteType, putVars
    <3> QED BY <1>5, <3>1, <3>2 DEF SweepRemove
  <2>2. SweepType'
    BY <1>5 DEF SweepRemove, SweepType
  <2>3. NodeType' /\ PutType' /\ TaskType'
    BY <1>5 DEF SweepRemove, NodeType, PutType, TaskType, nodeVars, putVars, taskVars
  <2> QED BY <2>1, <2>2, <2>3
<1>6. ASSUME NEW p \in Put, NEW n \in Node, PutStart(p, n) PROVE TypeOK'
  <2>1. PutType'
    BY <1>6, TagParts DEF PutStart, PutType, CurrentLive
  <2>2. NodeType' /\ RouteType' /\ SweepType' /\ TaskType'
    BY <1>6 DEF PutStart, NodeType, RouteType, SweepType, TaskType, nodeVars, putVars,
           sweepVars, taskVars
  <2> QED BY <2>1, <2>2
<1>7. ASSUME NEW p \in Put, PutRevoke(p) PROVE TypeOK'
  <2>1. PutType'
    BY <1>7 DEF PutRevoke, PutType, SetPutState
  <2>2. NodeType' /\ RouteType' /\ SweepType' /\ TaskType'
    BY <1>7 DEF PutRevoke, SetPutState, NodeType, RouteType, SweepType, TaskType, nodeVars,
           putVars, sweepVars, taskVars
  <2> QED BY <2>1, <2>2
<1>8. ASSUME NEW p \in Put, PutDone(p) PROVE TypeOK'
  <2>1. PutType'
    BY <1>8 DEF PutDone, PutType, SetPutState
  <2>2. NodeType' /\ RouteType' /\ SweepType' /\ TaskType'
    BY <1>8 DEF PutDone, SetPutState, NodeType, RouteType, SweepType, TaskType, nodeVars,
           putVars, sweepVars, taskVars
  <2> QED BY <2>1, <2>2
<1>9. ASSUME NEW p \in Put, PutRejected(p) PROVE TypeOK'
  <2>1. PutType'
    BY <1>9 DEF PutRejected, PutType, SetPutState
  <2>2. NodeType' /\ RouteType' /\ SweepType' /\ TaskType'
    BY <1>9 DEF PutRejected, SetPutState, NodeType, RouteType, SweepType, TaskType, nodeVars,
           putVars, sweepVars, taskVars
  <2> QED BY <2>1, <2>2
<1>10. ASSUME NEW p \in Put, PublishEnter(p) PROVE TypeOK'
  <2>1. PutType'
    BY <1>10 DEF PublishEnter, PutType, SetPutState
  <2>2. NodeType' /\ RouteType' /\ SweepType' /\ TaskType'
    BY <1>10 DEF PublishEnter, SetPutState, NodeType, RouteType, SweepType, TaskType,
           nodeVars, putVars, sweepVars, taskVars
  <2> QED BY <2>1, <2>2
<1>11. ASSUME NEW p \in Put, PublishRoute(p) PROVE TypeOK'
  <2>1. RouteType'
    BY <1>11 DEF PublishRoute, RouteType, PutType
  <2>2. PutType'
    BY <1>11 DEF PublishRoute, PutType
  <2>3. NodeType' /\ SweepType' /\ TaskType'
    BY <1>11 DEF PublishRoute, NodeType, SweepType, TaskType, nodeVars, sweepVars, taskVars
  <2> QED BY <2>1, <2>2, <2>3
<1>12. ASSUME NEW p \in Put, PublishRestored(p) PROVE TypeOK'
  <2>1. PutType'
    BY <1>12 DEF PublishRestored, PutType, SetPutState
  <2>2. NodeType' /\ RouteType' /\ SweepType' /\ TaskType'
    BY <1>12 DEF PublishRestored, SetPutState, NodeType, RouteType, SweepType, TaskType,
           nodeVars, putVars, sweepVars, taskVars
  <2> QED BY <2>1, <2>2
<1>13. ASSUME NEW p \in Put, PublishLate(p) PROVE TypeOK'
  <2>1. RouteType'
    BY <1>13 DEF PublishLate, RouteType, PutType, SetPutState
  <2>2. PutType'
    BY <1>13 DEF PublishLate, PutType, SetPutState
  <2>3. NodeType' /\ SweepType' /\ TaskType'
    BY <1>13 DEF PublishLate, SetPutState, NodeType, SweepType, TaskType, nodeVars, sweepVars,
           taskVars
  <2> QED BY <2>1, <2>2, <2>3
<1>14. ASSUME NEW p \in Put, PublishRollback(p) PROVE TypeOK'
  <2>1. RouteType'
    BY <1>14 DEF PublishRollback, RouteType, PutType, SetPutState
  <2>2. PutType'
    BY <1>14 DEF PublishRollback, PutType, SetPutState
  <2>3. NodeType' /\ SweepType' /\ TaskType'
    BY <1>14 DEF PublishRollback, SetPutState, NodeType, SweepType, TaskType, nodeVars,
           sweepVars, taskVars
  <2> QED BY <2>1, <2>2, <2>3
<1>15. ASSUME NEW k \in Key, Delete(k) PROVE TypeOK'
  <2>1. RouteType'
    BY <1>15 DEF Delete, RouteType
  <2>2. PutType'
    BY <1>15 DEF Delete, PutType, RouteType
  <2>3. NodeType' /\ SweepType' /\ TaskType'
    BY <1>15 DEF Delete, NodeType, SweepType, TaskType, nodeVars, sweepVars, taskVars
  <2> QED BY <2>1, <2>2, <2>3
<1>16. ASSUME NEW c \in Task, NEW k \in Key, NEW n \in Node, GetStart(c, k, n) PROVE TypeOK'
  <2>1. TaskType'
    BY <1>16, TagParts DEF GetStart, TaskType, NodeType, RouteType, CurrentLive
  <2>2. NodeType' /\ RouteType' /\ PutType' /\ SweepType'
    BY <1>16 DEF GetStart, NodeType, RouteType, PutType, SweepType, nodeVars, putVars, sweepVars
  <2> QED BY <2>1, <2>2
<1>17. ASSUME NEW c \in Task, NEW k \in Key, NEW n \in Node, AppendStart(c, k, n) PROVE TypeOK'
  <2>1. TaskType'
    BY <1>17, TagParts DEF AppendStart, TaskType, RouteType, CurrentLive
  <2>2. NodeType' /\ RouteType' /\ PutType' /\ SweepType'
    BY <1>17 DEF AppendStart, NodeType, RouteType, PutType, SweepType, nodeVars, putVars,
           sweepVars
  <2> QED BY <2>1, <2>2
<1>18. ASSUME NEW c \in Task, GetClean(c) PROVE TypeOK'
  <2>1. RouteType'
    BY <1>18, TagParts DEF GetClean, RouteType, PutType, TaskType, WithoutTombs, putVars
  <2>2. TaskType'
    <3>1. CASE AfterClean(c)
      BY <1>18, <3>1, AfterCleanType DEF GetClean
    <3>2. CASE pc' = [pc EXCEPT ![c] = "remove"] /\ UNCHANGED <<task_put, tombs, target>>
      BY <1>18, <3>2 DEF GetClean, TaskType
    <3> QED BY <1>18, <3>1, <3>2 DEF GetClean
  <2>3. NodeType' /\ PutType' /\ SweepType'
    BY <1>18 DEF GetClean, NodeType, PutType, SweepType, nodeVars, putVars, sweepVars
  <2> QED BY <2>1, <2>2, <2>3
<1>19. ASSUME NEW c \in Task, GetRemove(c) PROVE TypeOK'
  <2>1. RouteType'
    BY <1>19, TagParts DEF GetRemove, RouteType, PutType, TaskType, putVars
  <2>2. TaskType'
    BY <1>19, AfterCleanType DEF GetRemove, TaskType
  <2>3. NodeType' /\ PutType' /\ SweepType'
    BY <1>19 DEF GetRemove, NodeType, PutType, SweepType, nodeVars, putVars, sweepVars
  <2> QED BY <2>1, <2>2, <2>3
<1>20. ASSUME NEW c \in Task, CopyRevoke(c) PROVE TypeOK'
  <2>1. TaskType'
    BY <1>20, FinishType DEF CopyRevoke
  <2>2. NodeType' /\ RouteType' /\ PutType' /\ SweepType'
    BY <1>20 DEF CopyRevoke, NodeType, RouteType, PutType, SweepType, nodeVars, putVars,
           sweepVars
  <2> QED BY <2>1, <2>2
<1>21. ASSUME NEW c \in Task, CopyDone(c) PROVE TypeOK'
  <2>1. TaskType'
    <3>1. CASE Finish(c)
      BY <3>1, FinishType
    <3>2. CASE pc' = [pc EXCEPT ![c] = "publish"] /\ UNCHANGED <<task_put, tombs, target>>
      BY <1>21, <3>2 DEF CopyDone, TaskType
    <3> QED BY <1>21, <3>1, <3>2 DEF CopyDone
  <2>2. NodeType' /\ RouteType' /\ PutType' /\ SweepType'
    BY <1>21 DEF CopyDone, NodeType, RouteType, PutType, SweepType, nodeVars, putVars, sweepVars
  <2> QED BY <2>1, <2>2
<1>22. ASSUME NEW c \in Task, CopyPublish(c) PROVE TypeOK'
  <2>1. RouteType'
    BY <1>22, TagParts DEF CopyPublish, RouteType, TaskType, putVars
  <2>2. TaskType'
    BY <1>22, FinishType DEF CopyPublish
  <2>3. NodeType' /\ PutType' /\ SweepType'
    BY <1>22 DEF CopyPublish, NodeType, PutType, SweepType, nodeVars, putVars, sweepVars
  <2> QED BY <2>1, <2>2, <2>3
<1>23. CASE UNCHANGED vars
  BY <1>23 DEF vars, nodeVars, putVars, sweepVars, taskVars,
              NodeType, RouteType, PutType, SweepType, TaskType
<1> QED
  BY <1>1, <1>2, <1>3, <1>4, <1>5, <1>6, <1>7, <1>8, <1>9, <1>10, <1>11, <1>12,
     <1>13, <1>14, <1>15, <1>16, <1>17, <1>18, <1>19, <1>20, <1>21, <1>22, <1>23
     DEF Next, SweepStep, PutStep, TaskStep

\* Whatever handlers and sweeps do, the table and their own state keep their
\* types: a key routes only to its own versions, and a route has one replica
\* per node.
THEOREM TypeCorrect == Spec => []TypeOK
<1>1. Init => TypeOK
  BY RoutesAssumption DEF Init, TypeOK, NodeType, RouteType, PutType, SweepType, TaskType,
                          PutStates, Published
<1> QED BY <1>1, TypeStep, PTL DEF Spec

-----------------------------------------------------------------------------
\* Every step keeps the replicas of departed generations in somebody's hands.
LEMMA CoveredStep == TypeOK /\ DepartedCovered /\ [Next]_vars => DepartedCovered'
<1> SUFFICES ASSUME TypeOK, DepartedCovered, [Next]_vars PROVE DepartedCovered'
  OBVIOUS
<1> USE RoutesAssumption, TagParts DEF TypeOK, RouteType, DepartedCovered
<1>1. ASSUME NEW n \in Node, Register(n) PROVE DepartedCovered'
  BY <1>1 DEF Register, nodeVars, putVars, sweepVars, taskVars
<1>2. ASSUME NEW n \in Node, MemberLeft(n) PROVE DepartedCovered'
  BY <1>2 DEF MemberLeft, CurrentLive, NodeType, SweepType, putVars
<1>3. ASSUME NEW t \in Tag, NEW k \in Key, SweepSnapshot(t, k) PROVE DepartedCovered'
  BY <1>3 DEF SweepSnapshot, SweepType, nodeVars, putVars
<1>4. ASSUME NEW t \in Tag, NEW p \in Put, SweepRoute(t, p) PROVE DepartedCovered'
  BY <1>4 DEF SweepRoute, nodeVars, putVars, sweepVars, taskVars
<1>5. ASSUME NEW t \in Tag, SweepRemove(t) PROVE DepartedCovered'
  BY <1>5 DEF SweepRemove, nodeVars, putVars, sweepVars, taskVars
<1>6. ASSUME NEW p \in Put, NEW n \in Node, PutStart(p, n) PROVE DepartedCovered'
  BY <1>6 DEF PutStart, nodeVars, putVars, sweepVars, taskVars
<1>7. ASSUME NEW p \in Put, PutRevoke(p) PROVE DepartedCovered'
  BY <1>7 DEF PutRevoke, SetPutState, nodeVars, putVars, sweepVars, taskVars
<1>8. ASSUME NEW p \in Put, PutDone(p) PROVE DepartedCovered'
  BY <1>8 DEF PutDone, SetPutState, nodeVars, putVars, sweepVars, taskVars
<1>9. ASSUME NEW p \in Put, PutRejected(p) PROVE DepartedCovered'
  BY <1>9 DEF PutRejected, SetPutState, nodeVars, putVars, sweepVars, taskVars
<1>10. ASSUME NEW p \in Put, PublishEnter(p) PROVE DepartedCovered'
  BY <1>10 DEF PublishEnter, SetPutState, nodeVars, putVars, sweepVars, taskVars
<1>11. ASSUME NEW p \in Put, PublishRoute(p) PROVE DepartedCovered'
  BY <1>11 DEF PublishRoute, nodeVars, putVars, sweepVars, taskVars
<1>12. ASSUME NEW p \in Put, PublishRestored(p) PROVE DepartedCovered'
  BY <1>12 DEF PublishRestored, SetPutState, nodeVars, putVars, sweepVars, taskVars
<1>13. ASSUME NEW p \in Put, PublishLate(p) PROVE DepartedCovered'
  BY <1>13 DEF PublishLate, SetPutState, PutType, nodeVars, sweepVars
<1>14. ASSUME NEW p \in Put, PublishRollback(p) PROVE DepartedCovered'
  BY <1>14 DEF PublishRollback, SetPutState, nodeVars, putVars, sweepVars, taskVars
<1>15. ASSUME NEW k \in Key, Delete(k) PROVE DepartedCovered'
  BY <1>15 DEF Delete, nodeVars, putVars, sweepVars, taskVars
<1>16. ASSUME NEW c \in Task, NEW k \in Key, NEW n \in Node, GetStart(c, k, n) PROVE DepartedCovered'
  BY <1>16 DEF GetStart, nodeVars, putVars, sweepVars, taskVars
<1>17. ASSUME NEW c \in Task, NEW k \in Key, NEW n \in Node, AppendStart(c, k, n) PROVE DepartedCovered'
  BY <1>17 DEF AppendStart, nodeVars, putVars, sweepVars, taskVars
<1>18. ASSUME NEW c \in Task, GetClean(c) PROVE DepartedCovered'
  BY <1>18 DEF GetClean, AfterClean, Finish, WithoutTombs, nodeVars, putVars, sweepVars,
         taskVars
<1>19. ASSUME NEW c \in Task, GetRemove(c) PROVE DepartedCovered'
  BY <1>19 DEF GetRemove, AfterClean, Finish, nodeVars, putVars, sweepVars, taskVars
<1>20. ASSUME NEW c \in Task, CopyRevoke(c) PROVE DepartedCovered'
  BY <1>20 DEF CopyRevoke, Finish, nodeVars, putVars, sweepVars, taskVars
<1>21. ASSUME NEW c \in Task, CopyDone(c) PROVE DepartedCovered'
  BY <1>21 DEF CopyDone, Finish, nodeVars, putVars, sweepVars, taskVars
<1>22. ASSUME NEW c \in Task, CopyPublish(c) PROVE DepartedCovered'
  BY <1>22 DEF CopyPublish, Finish, nodeVars, putVars, sweepVars, taskVars
<1>23. CASE UNCHANGED vars
  BY <1>23 DEF vars, nodeVars, putVars, sweepVars, taskVars
<1> QED
  BY <1>1, <1>2, <1>3, <1>4, <1>5, <1>6, <1>7, <1>8, <1>9, <1>10, <1>11, <1>12,
     <1>13, <1>14, <1>15, <1>16, <1>17, <1>18, <1>19, <1>20, <1>21, <1>22, <1>23, Zenon
     DEF Next, SweepStep, PutStep, TaskStep

\* No replica of a departed generation escapes the sweep: for any number of
\* nodes, registrations and concurrent publications, what a route still holds
\* of a departed node is waiting for the sweep or for its publisher's rollback.
THEOREM NoEscapedReplica == Spec => []DepartedCovered
<1>1. Init => DepartedCovered
  BY DEF Init, DepartedCovered
<1> QED BY <1>1, TypeCorrect, CoveredStep, PTL DEF Spec

-----------------------------------------------------------------------------
\* Only departed generations are swept.
SweepsDeparted ==
  \A t \in Tag : sweep_keys[t] # {} \/ sweep_todo[t] # {} => t \in tomb

\* Routes and handlers know only versions whose publication was attempted.
OnlyPublished ==
  /\ \A k \in Key : kv_routes[k] \in Put => put_state[kv_routes[k]] \in Published
  /\ \A c \in Task : task_put[c] \in Put => put_state[task_put[c]] \in Published

\* A get about to remove a route has seen the end of the put behind it.
RemovalsJustified ==
  \A c \in Task :
    pc[c] = "remove" /\ put_state[task_put[c]] = "acked" => put_tag[task_put[c]] \in tomb

\* AckedPutRouted made inductive.
AckedInv == AckedPutRouted /\ SweepsDeparted /\ OnlyPublished /\ RemovalsJustified

\* AckedInv survives a step that leaves nodes and handlers alone if it acks no
\* put, keeps the route and the live replicas of an acked put with a live tag,
\* and routes only to versions whose publication was attempted.
LEMMA AckedRouteFrame ==
  ASSUME TypeOK, AckedInv, SweepsDeparted', UNCHANGED <<nodeVars, put_key, put_tag, taskVars>>,
         \A p \in Put : put_state'[p] = "acked" =>
           /\ put_state[p] = "acked"
           /\ put_tag[p] \notin tomb /\ kv_routes[put_key[p]] = p
                /\ put_tag[p] \in node_replicas[p]
              => kv_routes'[put_key[p]] = p /\ put_tag[p] \in node_replicas'[p],
         \A p \in Put : put_state[p] \in Published => put_state'[p] \in Published,
         \A k \in Key : kv_routes'[k] \in Put =>
           kv_routes'[k] = kv_routes[k] \/ put_state'[kv_routes'[k]] \in Published
  PROVE  AckedInv'
<1>1. AckedPutRouted'
  BY DEF AckedInv, AckedPutRouted, nodeVars
<1>2. OnlyPublished'
  BY DEF AckedInv, OnlyPublished, taskVars
<1>3. RemovalsJustified'
  BY DEF AckedInv, RemovalsJustified, TypeOK, TaskType, nodeVars, taskVars
<1> QED BY <1>1, <1>2, <1>3 DEF AckedInv

\* It survives a put that moves on without touching the routes or getting
\* acked.
LEMMA AckedPutFrame ==
  ASSUME TypeOK, AckedInv, NEW p \in Put, NEW s \in PutStates, s # "acked",
         put_state[p] \notin Published, SetPutState(p, s), UNCHANGED <<kv_routes, node_replicas>>
  PROVE  AckedInv'
<1>1. \A q \in Put : put_state'[q] = IF q = p THEN s ELSE put_state[q]
  BY DEF SetPutState, TypeOK, PutType
<1>2. SweepsDeparted'
  BY DEF AckedInv, SweepsDeparted, SetPutState, nodeVars, sweepVars
<1> QED BY <1>1, <1>2, AckedRouteFrame DEF SetPutState

\* And it survives a handler that keeps the live replicas, holds versions whose
\* publication was attempted, and goes on to a removal only where justified.
LEMMA AckedTaskFrame ==
  ASSUME AckedInv, UNCHANGED <<nodeVars, kv_routes, putVars, sweepVars>>,
         \A p \in Put : node_replicas[p] \ tomb \subseteq node_replicas'[p],
         \A c \in Task : task_put'[c] \in Put => put_state[task_put'[c]] \in Published,
         \A c \in Task : \/ pc'[c] # "remove"
                         \/ pc[c] = "remove" /\ task_put'[c] = task_put[c]
                         \/ put_state[task_put'[c]] # "acked"
                         \/ put_tag[task_put'[c]] \in tomb
  PROVE  AckedInv'
<1>1. AckedPutRouted'
  BY DEF AckedInv, AckedPutRouted, nodeVars, putVars
<1>2. SweepsDeparted'
  BY DEF AckedInv, SweepsDeparted, nodeVars, sweepVars
<1>3. OnlyPublished'
  BY DEF AckedInv, OnlyPublished, putVars
<1>4. RemovalsJustified'
  BY DEF AckedInv, RemovalsJustified, nodeVars, putVars
<1> QED BY <1>1, <1>2, <1>3, <1>4 DEF AckedInv

\* No step loses an acknowledged put.
LEMMA AckedStep == TypeOK /\ AckedInv /\ [Next]_vars => AckedInv'
<1> SUFFICES ASSUME TypeOK, AckedInv, [Next]_vars PROVE AckedInv'
  OBVIOUS
<1>1. ASSUME NEW n \in Node, Register(n) PROVE AckedInv'
  BY <1>1 DEF Register, putVars, sweepVars, taskVars, AckedInv, AckedPutRouted, SweepsDeparted,
         OnlyPublished, RemovalsJustified
<1>2. ASSUME NEW n \in Node, MemberLeft(n) PROVE AckedInv'
  <2>1. AckedPutRouted' /\ OnlyPublished' /\ RemovalsJustified'
    BY <1>2 DEF MemberLeft, putVars, taskVars, AckedInv, AckedPutRouted, OnlyPublished,
           RemovalsJustified
  <2>2. SweepsDeparted'
    BY <1>2 DEF MemberLeft, AckedInv, SweepsDeparted, TypeOK, SweepType
  <2> QED BY <2>1, <2>2 DEF AckedInv
<1>3. ASSUME NEW t \in Tag, NEW k \in Key, SweepSnapshot(t, k) PROVE AckedInv'
  <2>1. SweepsDeparted'
    BY <1>3 DEF SweepSnapshot, AckedInv, SweepsDeparted, TypeOK, SweepType, nodeVars
  <2> QED BY <1>3, <2>1, AckedRouteFrame DEF SweepSnapshot, putVars
<1>4. ASSUME NEW t \in Tag, NEW p \in Put, SweepRoute(t, p) PROVE AckedInv'
  <2>1. SweepsDeparted' /\ t \in tomb
    BY <1>4 DEF SweepRoute, AckedInv, SweepsDeparted, TypeOK, SweepType, nodeVars
  <2>2. \A q \in Put : node_replicas[q] \ tomb \subseteq node_replicas'[q]
    BY <1>4, <2>1 DEF SweepRoute, TypeOK, RouteType
  <2> QED BY <1>4, <2>1, <2>2, AckedRouteFrame DEF SweepRoute, putVars
<1>5. ASSUME NEW t \in Tag, SweepRemove(t) PROVE AckedInv'
  <2>1. SweepsDeparted'
    BY <1>5 DEF SweepRemove, AckedInv, SweepsDeparted, nodeVars
  <2>2. \A k \in Key : \/ kv_routes'[k] = kv_routes[k]
                       \/ kv_routes'[k] = NoPut /\ node_replicas[kv_routes[k]] = {}
    BY <1>5 DEF SweepRemove, TypeOK, RouteType
  <2> QED BY <1>5, <2>1, <2>2, RoutesAssumption, AckedRouteFrame
             DEF SweepRemove, putVars, TypeOK, PutType
<1>6. ASSUME NEW p \in Put, NEW n \in Node, PutStart(p, n) PROVE AckedInv'
  <2>1. /\ put_state[p] = "new"
        /\ \A q \in Put : put_state'[q] = IF q = p THEN "inflight" ELSE put_state[q]
        /\ \A q \in Put \ {p} : put_tag'[q] = put_tag[q]
    BY <1>6 DEF PutStart, TypeOK, PutType
  <2>2. AckedPutRouted' /\ SweepsDeparted'
    BY <1>6, <2>1 DEF PutStart, AckedInv, AckedPutRouted, SweepsDeparted, nodeVars, sweepVars
  <2>3. OnlyPublished'
    BY <1>6, <2>1 DEF PutStart, AckedInv, OnlyPublished, taskVars, Published
  <2>4. RemovalsJustified'
    BY <1>6, <2>1 DEF PutStart, AckedInv, RemovalsJustified, nodeVars, taskVars, TypeOK, TaskType
  <2> QED BY <2>2, <2>3, <2>4 DEF AckedInv
<1>7. ASSUME NEW p \in Put, PutRevoke(p) PROVE AckedInv'
  BY <1>7, AckedPutFrame DEF PutRevoke, Published, PutStates
<1>8. ASSUME NEW p \in Put, PutDone(p) PROVE AckedInv'
  BY <1>8, AckedPutFrame DEF PutDone, Published, PutStates
<1>9. ASSUME NEW p \in Put, PutRejected(p) PROVE AckedInv'
  BY <1>9, AckedPutFrame DEF PutRejected, Published, PutStates
<1>10. ASSUME NEW p \in Put, PublishEnter(p) PROVE AckedInv'
  BY <1>10, AckedPutFrame DEF PublishEnter, Published, PutStates
<1>11. ASSUME NEW p \in Put, PublishRoute(p) PROVE AckedInv'
  <2>1. \A q \in Put : put_state'[q] = "acked" =>
          q = p \/ (put_state[q] = "acked" /\ q # kv_routes[put_key[p]])
    BY <1>11 DEF PublishRoute
  <2>2. /\ \A q \in Put \ {p} : node_replicas'[q] = node_replicas[q]
        /\ \A k \in Key \ {put_key[p]} : kv_routes'[k] = kv_routes[k]
        /\ kv_routes'[put_key[p]] = p /\ node_replicas'[p] = {put_tag[p]}
        /\ put_state'[p] = "acked" /\ put_state[p] \notin Published
    BY <1>11 DEF PublishRoute, TypeOK, RouteType, PutType, Published
  <2>3. AckedPutRouted'
    BY <1>11, <2>1, <2>2 DEF PublishRoute, AckedInv, AckedPutRouted, nodeVars, TypeOK, PutType
  <2>4. SweepsDeparted'
    BY <1>11 DEF PublishRoute, AckedInv, SweepsDeparted, sweepVars, nodeVars
  <2>5. \A q \in Put : put_state[q] \in Published => put_state'[q] \in Published
    BY <1>11 DEF PublishRoute, Published
  <2>6. OnlyPublished'
    <3>1. "acked" \in Published
      BY DEF Published
    <3> QED BY <1>11, <2>2, <2>5, <3>1 DEF PublishRoute, AckedInv, OnlyPublished, taskVars
  <2>7. \A c \in Task : pc[c] = "remove" => task_put[c] \in Put \ {p}
    BY <1>11, <2>2 DEF AckedInv, OnlyPublished, TypeOK, TaskType
  <2>8. RemovalsJustified'
    BY <1>11, <2>1, <2>7 DEF PublishRoute, AckedInv, RemovalsJustified, taskVars, nodeVars
  <2> QED BY <2>3, <2>4, <2>6, <2>8 DEF AckedInv
<1>12. ASSUME NEW p \in Put, PublishRestored(p) PROVE AckedInv'
  BY <1>12, AckedPutFrame DEF PublishRestored, Published, PutStates
<1>13. ASSUME NEW p \in Put, PublishLate(p) PROVE AckedInv'
  <2>1. SweepsDeparted'
    BY <1>13 DEF PublishLate, SetPutState, AckedInv, SweepsDeparted, sweepVars, nodeVars
  <2>2. /\ put_state[p] = "entered"
        /\ \A q \in Put : put_state'[q] = IF q = p THEN "late" ELSE put_state[q]
        /\ \A q \in Put \ {p} : node_replicas'[q] = node_replicas[q]
    BY <1>13 DEF PublishLate, SetPutState, TypeOK, PutType, RouteType
  <2>3. /\ kv_routes[put_key[p]] = NoPut
        /\ \A k \in Key : kv_routes'[k] = IF k = put_key[p] THEN p ELSE kv_routes[k]
    BY <1>13 DEF PublishLate, TypeOK, RouteType
  <2>4. "late" \in Published /\ "entered" \notin Published
    BY DEF Published
  <2>5. \A q \in Put : put_state'[q] = "acked" =>
          /\ put_state[q] = "acked"
          /\ kv_routes[put_key[q]] = q /\ put_tag[q] \in node_replicas[q] =>
               kv_routes'[put_key[q]] = q /\ put_tag[q] \in node_replicas'[q]
    BY <2>2, <2>3, RoutesAssumption DEF TypeOK, PutType
  <2> QED BY <1>13, <2>1, <2>2, <2>3, <2>4, <2>5, AckedRouteFrame DEF PublishLate, SetPutState
<1>14. ASSUME NEW p \in Put, PublishRollback(p) PROVE AckedInv'
  <2>1. SweepsDeparted'
    BY <1>14 DEF PublishRollback, SetPutState, AckedInv, SweepsDeparted, sweepVars, nodeVars
  <2>2. /\ put_state[p] = "late"
        /\ \A q \in Put : put_state'[q] = IF q = p THEN "failed" ELSE put_state[q]
    BY <1>14 DEF PublishRollback, SetPutState, TypeOK, PutType
  <2>3. \A k \in Key : \/ kv_routes'[k] = kv_routes[k]
                       \/ kv_routes'[k] = NoPut /\ kv_routes[k] = p
    BY <1>14 DEF PublishRollback, TypeOK, RouteType
  <2>4. "failed" \in Published
    BY DEF Published
  <2>5. \A q \in Put : put_state'[q] = "acked" =>
          /\ put_state[q] = "acked"
          /\ kv_routes[put_key[q]] = q => kv_routes'[put_key[q]] = q
    BY <2>2, <2>3 DEF TypeOK, PutType
  <2>6. \A q \in Put : put_state[q] \in Published => put_state'[q] \in Published
    BY <2>2, <2>4
  <2>7. \A k \in Key : kv_routes'[k] \in Put => kv_routes'[k] = kv_routes[k]
    BY <2>3, RoutesAssumption
  <2>8. UNCHANGED <<nodeVars, put_key, put_tag, taskVars, node_replicas>>
    BY <1>14 DEF PublishRollback, SetPutState
  <2> QED BY <2>1, <2>5, <2>6, <2>7, <2>8, AckedRouteFrame
<1>15. ASSUME NEW k \in Key, Delete(k) PROVE AckedInv'
  <2>1. SweepsDeparted'
    BY <1>15 DEF Delete, AckedInv, SweepsDeparted, sweepVars, nodeVars
  <2>2. /\ kv_routes[k] \in Put /\ put_state'[kv_routes[k]] # "acked"
        /\ \A q \in Put : put_state'[q] \in {put_state[q], "deleted"}
    BY <1>15 DEF Delete, TypeOK, PutType, RouteType
  <2>3. \A j \in Key : kv_routes'[j] = IF j = k THEN NoPut ELSE kv_routes[j]
    BY <1>15 DEF Delete, TypeOK, RouteType
  <2>4. "deleted" \in Published
    BY DEF Published
  <2>5. \A q \in Put : put_state'[q] = "acked" =>
          /\ put_state[q] = "acked"
          /\ kv_routes[put_key[q]] = q => kv_routes'[put_key[q]] = q
    BY <2>2, <2>3 DEF TypeOK, PutType
  <2> QED BY <1>15, <2>1, <2>2, <2>3, <2>4, <2>5, RoutesAssumption, AckedRouteFrame DEF Delete
<1>16. ASSUME NEW c \in Task, NEW k \in Key, NEW n \in Node, GetStart(c, k, n) PROVE AckedInv'
  <2>1. kv_routes[k] \in Put /\ put_state[kv_routes[k]] \in Published
    BY <1>16 DEF GetStart, AckedInv, OnlyPublished, TypeOK, RouteType
  <2>2. \A d \in Task : d # c => pc'[d] = pc[d] /\ task_put'[d] = task_put[d]
    BY <1>16 DEF GetStart, TypeOK, TaskType
  <2>3. pc'[c] # "remove" /\ task_put'[c] = kv_routes[k]
    BY <1>16 DEF GetStart, TypeOK, TaskType
  <2>4. \A d \in Task : task_put'[d] \in Put => put_state[task_put'[d]] \in Published
    BY <2>1, <2>2, <2>3 DEF AckedInv, OnlyPublished
  <2> QED BY <1>16, <2>2, <2>3, <2>4, AckedTaskFrame DEF GetStart
<1>17. ASSUME NEW c \in Task, NEW k \in Key, NEW n \in Node, AppendStart(c, k, n) PROVE AckedInv'
  <2>1. kv_routes[k] \in Put /\ put_state[kv_routes[k]] \in Published
    BY <1>17 DEF AppendStart, AckedInv, OnlyPublished, TypeOK, RouteType
  <2>2. \A d \in Task : d # c => pc'[d] = pc[d] /\ task_put'[d] = task_put[d]
    BY <1>17 DEF AppendStart, TypeOK, TaskType
  <2>3. pc'[c] # "remove" /\ task_put'[c] = kv_routes[k]
    BY <1>17 DEF AppendStart, TypeOK, TaskType
  <2>4. \A d \in Task : task_put'[d] \in Put => put_state[task_put'[d]] \in Published
    BY <2>1, <2>2, <2>3 DEF AckedInv, OnlyPublished
  <2> QED BY <1>17, <2>2, <2>3, <2>4, AckedTaskFrame DEF AppendStart
<1>18. ASSUME NEW c \in Task, GetClean(c) PROVE AckedInv'
  <2> DEFINE p == task_put[c]
  <2>0. /\ pc[c] = "clean"
        /\ UNCHANGED <<nodeVars, kv_routes, putVars, sweepVars>>
    BY <1>18 DEF GetClean
  <2>1. p \in Put
    BY <2>0 DEF TypeOK, TaskType
  <2>2. /\ \A d \in Task : task_put'[d] \in {task_put[d], NoPut}
        /\ \A d \in Task \ {c} : task_put'[d] = task_put[d] /\ pc'[d] = pc[d]
        /\ pc'[c] = "remove" => task_put'[c] = p
    <3>1. CASE AfterClean(c)
      BY <3>1 DEF AfterClean, Finish, TypeOK, TaskType
    <3>2. CASE pc' = [pc EXCEPT ![c] = "remove"] /\ UNCHANGED <<task_put, tombs, target>>
      BY <3>2 DEF TypeOK, TaskType
    <3>3. \/ AfterClean(c)
          \/ pc' = [pc EXCEPT ![c] = "remove"] /\ UNCHANGED <<task_put, tombs, target>>
      BY <1>18 DEF GetClean
    <3> QED BY <3>1, <3>2, <3>3
  <2>3. \A q \in Put : node_replicas[q] \ tomb \subseteq node_replicas'[q]
    <3>1. \/ node_replicas' = node_replicas
          \/ node_replicas' = [node_replicas EXCEPT ![p] = WithoutTombs(node_replicas[p], tombs[c])]
      BY <1>18 DEF GetClean
    <3> QED BY <2>1, <3>1 DEF WithoutTombs, TypeOK, RouteType
  <2>4. ASSUME pc'[c] = "remove", put_state[p] = "acked" PROVE put_tag[p] \in tomb
    <3>1. ~AfterClean(c)
      BY <2>4 DEF AfterClean, Finish, TypeOK, TaskType
    <3>2. CASE kv_routes[put_key[p]] = p
      <4>1. WithoutTombs(node_replicas[p], tombs[c]) = {}
        BY <1>18, <3>1, <3>2 DEF GetClean
      <4> QED BY <2>1, <2>4, <4>1 DEF WithoutTombs, AckedInv, AckedPutRouted
    <3> QED BY <2>1, <2>4, <3>2 DEF AckedInv, AckedPutRouted
  <2>5. \A d \in Task : task_put'[d] \in Put => put_state[task_put'[d]] \in Published
    BY <2>2, RoutesAssumption DEF AckedInv, OnlyPublished
  <2> QED BY <2>0, <2>2, <2>3, <2>4, <2>5, AckedTaskFrame
<1>19. ASSUME NEW c \in Task, GetRemove(c) PROVE AckedInv'
  <2>1. UNCHANGED <<nodeVars, node_replicas, putVars, sweepVars>>
    BY <1>19 DEF GetRemove
  <2>2. \A k \in Key : \/ kv_routes'[k] = kv_routes[k]
                       \/ kv_routes'[k] = NoPut /\ kv_routes[k] = task_put[c]
    BY <1>19, Zenon DEF GetRemove, TypeOK, RouteType
  <2>3. put_state[task_put[c]] = "acked" => put_tag[task_put[c]] \in tomb
    BY <1>19 DEF GetRemove, AckedInv, RemovalsJustified
  <2>4. AckedPutRouted'
    BY <2>1, <2>2, <2>3 DEF AckedInv, AckedPutRouted, nodeVars, putVars, TypeOK, PutType
  <2>5. SweepsDeparted'
    BY <2>1 DEF AckedInv, SweepsDeparted, sweepVars, nodeVars
  <2>6. /\ \A d \in Task : task_put'[d] \in {task_put[d], NoPut}
        /\ \A d \in Task : pc'[d] = "remove" => pc[d] = "remove" /\ task_put'[d] = task_put[d]
    BY <1>19 DEF GetRemove, AfterClean, Finish, TypeOK, TaskType
  <2>7. OnlyPublished'
    BY <2>1, <2>2, <2>6, RoutesAssumption DEF AckedInv, OnlyPublished, putVars
  <2>8. RemovalsJustified'
    BY <2>1, <2>6 DEF AckedInv, RemovalsJustified, nodeVars, putVars
  <2> QED BY <2>4, <2>5, <2>7, <2>8 DEF AckedInv
<1>20. ASSUME NEW c \in Task, CopyRevoke(c) PROVE AckedInv'
  <2>1. /\ \A d \in Task : task_put'[d] \in {task_put[d], NoPut}
        /\ \A d \in Task : pc'[d] = "remove" => pc[d] = "remove" /\ task_put'[d] = task_put[d]
    BY <1>20 DEF CopyRevoke, Finish, TypeOK, TaskType
  <2>2. \A d \in Task : task_put'[d] \in Put => put_state[task_put'[d]] \in Published
    BY <2>1, RoutesAssumption DEF AckedInv, OnlyPublished
  <2> QED BY <1>20, <2>1, <2>2, AckedTaskFrame DEF CopyRevoke
<1>21. ASSUME NEW c \in Task, CopyDone(c) PROVE AckedInv'
  <2>1. /\ \A d \in Task : task_put'[d] \in {task_put[d], NoPut}
        /\ \A d \in Task : pc'[d] = "remove" => pc[d] = "remove" /\ task_put'[d] = task_put[d]
    BY <1>21 DEF CopyDone, Finish, TypeOK, TaskType
  <2>2. \A d \in Task : task_put'[d] \in Put => put_state[task_put'[d]] \in Published
    BY <2>1, RoutesAssumption DEF AckedInv, OnlyPublished
  <2>3. UNCHANGED <<nodeVars, kv_routes, node_replicas, putVars, sweepVars>>
    BY <1>21 DEF CopyDone
  <2> QED BY <2>1, <2>2, <2>3, AckedTaskFrame
<1>22. ASSUME NEW c \in Task, CopyPublish(c) PROVE AckedInv'
  <2>1. /\ \A d \in Task : task_put'[d] \in {task_put[d], NoPut}
        /\ \A d \in Task : pc'[d] = "remove" => pc[d] = "remove" /\ task_put'[d] = task_put[d]
    BY <1>22 DEF CopyPublish, Finish, TypeOK, TaskType
  <2>2. \A d \in Task : task_put'[d] \in Put => put_state[task_put'[d]] \in Published
    BY <2>1, RoutesAssumption DEF AckedInv, OnlyPublished
  <2>3. \A q \in Put : node_replicas[q] \ tomb \subseteq node_replicas'[q]
    BY <1>22 DEF CopyPublish, TypeOK, RouteType
  <2> QED BY <1>22, <2>1, <2>2, <2>3, AckedTaskFrame DEF CopyPublish
<1>23. CASE UNCHANGED vars
  BY <1>23 DEF vars, nodeVars, putVars, sweepVars, taskVars, AckedInv, AckedPutRouted,
         SweepsDeparted, OnlyPublished, RemovalsJustified
<1> QED
  BY <1>1, <1>2, <1>3, <1>4, <1>5, <1>6, <1>7, <1>8, <1>9, <1>10, <1>11, <1>12,
     <1>13, <1>14, <1>15, <1>16, <1>17, <1>18, <1>19, <1>20, <1>21, <1>22, <1>23
     DEF Next, SweepStep, PutStep, TaskStep

\* An acknowledged put is not lost while its node stays: only a delete or a
\* later put of the key takes its route away.
THEOREM AckedPutSurvives == Spec => []AckedPutRouted
<1>1. Init => AckedInv
  BY RoutesAssumption DEF Init, AckedInv, AckedPutRouted, SweepsDeparted, OnlyPublished,
         RemovalsJustified
<1>2. AckedInv => AckedPutRouted
  BY DEF AckedInv
<1> QED BY <1>1, <1>2, TypeCorrect, AckedStep, PTL DEF Spec

-----------------------------------------------------------------------------
\* A put or a copy under way is bound to a departed generation or to the
\* current one.
BoundTagsCurrent ==
  /\ \A p \in Put : put_tag[p] \in Tag => put_tag[p] \in tomb \/ CurrentLive(put_tag[p])
  /\ \A c \in Task : target[c] \in Tag => target[c] \in tomb \/ CurrentLive(target[c])

CurrentInv == LiveReplicaIsCurrent /\ BoundTagsCurrent

\* What CurrentInv speaks of changes only with the nodes, the replicas and the
\* tags that puts and copies are bound to.
LEMMA CurrentStill ==
  ASSUME CurrentInv, UNCHANGED <<nodeVars, node_replicas, put_tag, target>> PROVE CurrentInv'
BY DEF CurrentInv, LiveReplicaIsCurrent, BoundTagsCurrent, CurrentLive, nodeVars

\* While the nodes stay, a step keeps CurrentInv if each tag it writes down was
\* there before or is departed or current.
LEMMA CurrentFrame ==
  ASSUME CurrentInv, UNCHANGED nodeVars,
         \A p \in Put : \A t \in node_replicas'[p] :
           t \in node_replicas[p] \/ t \in tomb \/ CurrentLive(t),
         \A p \in Put : put_tag'[p] = put_tag[p] \/ CurrentLive(put_tag'[p]),
         \A c \in Task : target'[c] \in {target[c], NoTag} \/ CurrentLive(target'[c])
  PROVE  CurrentInv'
<1>1. LiveReplicaIsCurrent'
  BY DEF CurrentInv, LiveReplicaIsCurrent, CurrentLive, nodeVars
<1>2. BoundTagsCurrent'
  BY TagParts DEF CurrentInv, BoundTagsCurrent, CurrentLive, nodeVars
<1> QED BY <1>1, <1>2 DEF CurrentInv

\* No step makes a former registration look alive.
LEMMA CurrentStep == TypeOK /\ CurrentInv /\ [Next]_vars => CurrentInv'
<1> SUFFICES ASSUME TypeOK, CurrentInv, [Next]_vars PROVE CurrentInv'
  OBVIOUS
<1>1. ASSUME NEW n \in Node, Register(n) PROVE CurrentInv'
  <2> USE DEF CurrentLive
  <2>1. \A t \in Tag : CurrentLive(t) => t[1] # n
    BY <1>1, TagParts, RoutesAssumption DEF Register, TypeOK, NodeType
  <2>2. \A t \in Tag : CurrentLive(t) => CurrentLive(t)'
    BY <1>1, <2>1, TagParts DEF Register, TypeOK, NodeType
  <2> HIDE DEF CurrentLive
  <2>3. LiveReplicaIsCurrent'
    BY <1>1, <2>2 DEF Register, CurrentInv, LiveReplicaIsCurrent, TypeOK, RouteType
  <2>4. BoundTagsCurrent'
    BY <1>1, <2>2, Zenon DEF Register, CurrentInv, BoundTagsCurrent, putVars, taskVars
  <2> QED BY <2>3, <2>4 DEF CurrentInv
<1>2. ASSUME NEW n \in Node, MemberLeft(n) PROVE CurrentInv'
  <2>1. \A t \in Tag : t \in tomb \/ CurrentLive(t) => t \in tomb' \/ CurrentLive(t)'
    BY <1>2 DEF MemberLeft, CurrentLive
  <2>2. LiveReplicaIsCurrent'
    BY <1>2, <2>1 DEF MemberLeft, CurrentInv, LiveReplicaIsCurrent, TypeOK, RouteType
  <2>3. BoundTagsCurrent'
    BY <1>2, <2>1 DEF MemberLeft, CurrentInv, BoundTagsCurrent, putVars, taskVars
  <2> QED BY <2>2, <2>3 DEF CurrentInv
<1>3. ASSUME NEW t \in Tag, NEW k \in Key, SweepSnapshot(t, k) PROVE CurrentInv'
  BY <1>3, CurrentStill DEF SweepSnapshot, putVars, taskVars
<1>4. ASSUME NEW t \in Tag, NEW p \in Put, SweepRoute(t, p) PROVE CurrentInv'
  <2>1. \A q \in Put : node_replicas'[q] \subseteq node_replicas[q]
    BY <1>4 DEF SweepRoute, TypeOK, RouteType
  <2> QED BY <1>4, <2>1, CurrentFrame DEF SweepRoute, putVars, taskVars
<1>5. ASSUME NEW t \in Tag, SweepRemove(t) PROVE CurrentInv'
  BY <1>5, CurrentStill DEF SweepRemove, putVars, taskVars
<1>6. ASSUME NEW p \in Put, NEW n \in Node, PutStart(p, n) PROVE CurrentInv'
  <2>1. \A q \in Put : put_tag'[q] = put_tag[q] \/ CurrentLive(put_tag'[q])
    BY <1>6 DEF PutStart, TypeOK, PutType
  <2> QED BY <1>6, <2>1, CurrentFrame DEF PutStart, taskVars
<1>7. ASSUME NEW p \in Put, PutRevoke(p) PROVE CurrentInv'
  BY <1>7, CurrentStill DEF PutRevoke, SetPutState, taskVars
<1>8. ASSUME NEW p \in Put, PutDone(p) PROVE CurrentInv'
  BY <1>8, CurrentStill DEF PutDone, SetPutState, taskVars
<1>9. ASSUME NEW p \in Put, PutRejected(p) PROVE CurrentInv'
  BY <1>9, CurrentStill DEF PutRejected, SetPutState, taskVars
<1>10. ASSUME NEW p \in Put, PublishEnter(p) PROVE CurrentInv'
  BY <1>10, CurrentStill DEF PublishEnter, SetPutState, taskVars
<1>11. ASSUME NEW p \in Put, PublishRoute(p) PROVE CurrentInv'
  <2>1. put_tag[p] \in tomb \/ CurrentLive(put_tag[p])
    BY <1>11 DEF PublishRoute, CurrentInv, BoundTagsCurrent, TypeOK, PutType
  <2>2. \A q \in Put : node_replicas'[q] \in {node_replicas[q], {put_tag[q]}}
        /\ (q # p => node_replicas'[q] = node_replicas[q])
    BY <1>11 DEF PublishRoute, TypeOK, RouteType
  <2> QED BY <1>11, <2>1, <2>2, CurrentFrame DEF PublishRoute, taskVars
<1>12. ASSUME NEW p \in Put, PublishRestored(p) PROVE CurrentInv'
  BY <1>12, CurrentStill DEF PublishRestored, SetPutState, taskVars
<1>13. ASSUME NEW p \in Put, PublishLate(p) PROVE CurrentInv'
  <2>1. \A q \in Put : node_replicas'[q] = node_replicas[q] \/ node_replicas'[q] \subseteq tomb
    BY <1>13 DEF PublishLate, TypeOK, RouteType
  <2> QED BY <1>13, <2>1, CurrentFrame DEF PublishLate, SetPutState, taskVars
<1>14. ASSUME NEW p \in Put, PublishRollback(p) PROVE CurrentInv'
  BY <1>14, CurrentStill DEF PublishRollback, SetPutState, taskVars
<1>15. ASSUME NEW k \in Key, Delete(k) PROVE CurrentInv'
  BY <1>15, CurrentStill DEF Delete, taskVars
<1>16. ASSUME NEW c \in Task, NEW k \in Key, NEW n \in Node, GetStart(c, k, n) PROVE CurrentInv'
  <2>1. \A d \in Task : target'[d] = target[d] \/ CurrentLive(target'[d])
    BY <1>16 DEF GetStart, TypeOK, TaskType
  <2> QED BY <1>16, <2>1, CurrentFrame DEF GetStart, putVars
<1>17. ASSUME NEW c \in Task, NEW k \in Key, NEW n \in Node, AppendStart(c, k, n) PROVE CurrentInv'
  <2>1. \A d \in Task : target'[d] = target[d] \/ CurrentLive(target'[d])
    BY <1>17 DEF AppendStart, TypeOK, TaskType
  <2> QED BY <1>17, <2>1, CurrentFrame DEF AppendStart, putVars
<1>18. ASSUME NEW c \in Task, GetClean(c) PROVE CurrentInv'
  <2>1. \A q \in Put : node_replicas'[q] \subseteq node_replicas[q]
    BY <1>18, Zenon DEF GetClean, WithoutTombs, TypeOK, RouteType
  <2>2. \A d \in Task : target'[d] \in {target[d], NoTag}
    BY <1>18, Zenon DEF GetClean, AfterClean, Finish, TypeOK, TaskType
  <2> QED BY <1>18, <2>1, <2>2, CurrentFrame, Zenon DEF GetClean, putVars
<1>19. ASSUME NEW c \in Task, GetRemove(c) PROVE CurrentInv'
  <2>1. \A d \in Task : target'[d] \in {target[d], NoTag}
    BY <1>19 DEF GetRemove, AfterClean, Finish, TypeOK, TaskType
  <2> QED BY <1>19, <2>1, CurrentFrame, Zenon DEF GetRemove, putVars
<1>20. ASSUME NEW c \in Task, CopyRevoke(c) PROVE CurrentInv'
  <2>1. \A d \in Task : target'[d] \in {target[d], NoTag}
    BY <1>20 DEF CopyRevoke, Finish, TypeOK, TaskType
  <2> QED BY <1>20, <2>1, CurrentFrame, Zenon DEF CopyRevoke, putVars
<1>21. ASSUME NEW c \in Task, CopyDone(c) PROVE CurrentInv'
  <2>1. \A d \in Task : target'[d] \in {target[d], NoTag}
    BY <1>21 DEF CopyDone, Finish, TypeOK, TaskType
  <2> QED BY <1>21, <2>1, CurrentFrame DEF CopyDone, putVars
<1>22. ASSUME NEW c \in Task, CopyPublish(c) PROVE CurrentInv'
  <2>1. target[c] \in tomb \/ CurrentLive(target[c])
    BY <1>22 DEF CopyPublish, CurrentInv, BoundTagsCurrent, TypeOK, TaskType
  <2>2. \A q \in Put : \A t \in node_replicas'[q] : t \in node_replicas[q] \/ t = target[c]
    BY <1>22 DEF CopyPublish, TypeOK, RouteType
  <2>3. \A d \in Task : target'[d] \in {target[d], NoTag}
    BY <1>22 DEF CopyPublish, Finish, TypeOK, TaskType
  <2> QED BY <1>22, <2>1, <2>2, <2>3, CurrentFrame, Zenon DEF CopyPublish, putVars
<1>23. CASE UNCHANGED vars
  BY <1>23, CurrentStill DEF vars, putVars, taskVars
<1> QED
  BY <1>1, <1>2, <1>3, <1>4, <1>5, <1>6, <1>7, <1>8, <1>9, <1>10, <1>11, <1>12,
     <1>13, <1>14, <1>15, <1>16, <1>17, <1>18, <1>19, <1>20, <1>21, <1>22, <1>23
     DEF Next, SweepStep, PutStep, TaskStep

\* A node that returns under its old name never inherits the replicas of its
\* former memory.
THEOREM NoInheritedReplica == Spec => []LiveReplicaIsCurrent
<1>1. Init => CurrentInv
  BY DEF Init, CurrentInv, LiveReplicaIsCurrent, BoundTagsCurrent, NoTag, Tag
<1>2. CurrentInv => LiveReplicaIsCurrent
  BY DEF CurrentInv
<1> QED BY <1>1, <1>2, TypeCorrect, CurrentStep, PTL DEF Spec

-----------------------------------------------------------------------------
(* The prefix index.                                                       *)

IndexTypes ==
  /\ prefix_index \in [Key -> Put \cup {NoPut}]
  /\ events \subseteq Put /\ removals \subseteq Put
  /\ indexing \in events \cup {NoPut}

\* A removal is queued only for a version that is out of the table for good.
RemovalsAreOld ==
  \A p \in removals : put_state[p] \in Published /\ kv_routes[put_key[p]] # p

\* Without departures a route is an acknowledged version that the index holds
\* or will hear of; the version being inserted hides no later one.
IndexHears ==
  tomb = {} => \A k \in Key : kv_routes[k] # NoPut =>
    /\ put_state[kv_routes[k]] = "acked"
    /\ prefix_index[k] = kv_routes[k] \/ kv_routes[k] \in events
    /\ indexing # NoPut /\ put_key[indexing] = k => kv_routes[k] \in events

IndexInv == IndexTypes /\ RemovalsAreOld /\ IndexHears

\* What a step other than a publication may do to the routes: no put comes back
\* from its publication, an acknowledged put stays acknowledged while it is
\* routed, and only a put that finds its node departed brings a route.
RoutesOnlyLeave ==
  /\ put_key' = put_key /\ tomb \subseteq tomb'
  /\ \A p \in Put : put_state[p] \in Published => put_state'[p] \in Published
  /\ \A p \in Put : put_state[p] = "acked" => put_state'[p] = "acked" \/ kv_routes'[put_key[p]] # p
  /\ \A k \in Key :
       \/ kv_routes'[k] \in {kv_routes[k], NoPut}
       \/ kv_routes'[k] \in Put /\ put_state[kv_routes'[k]] = "entered" /\ tomb # {}

\* The steps the prefix index hears nothing of.
LEMMA OtherLeaves == TypeOK /\ OtherStep => RoutesOnlyLeave
<1> SUFFICES ASSUME TypeOK, OtherStep PROVE RoutesOnlyLeave
  OBVIOUS
<1> USE RoutesAssumption DEF TypeOK, RoutesOnlyLeave
<1>1. ASSUME NEW n \in Node, Register(n) \/ MemberLeft(n) PROVE RoutesOnlyLeave
  BY <1>1, Zenon DEF Register, MemberLeft, putVars
<1>2. ASSUME NEW t \in Tag, NEW k \in Key, SweepSnapshot(t, k) PROVE RoutesOnlyLeave
  BY <1>2, Zenon DEF SweepSnapshot, nodeVars, putVars
<1>3. ASSUME NEW t \in Tag, NEW p \in Put, SweepRoute(t, p) PROVE RoutesOnlyLeave
  BY <1>3 DEF SweepRoute, nodeVars, putVars
<1>4. ASSUME NEW p \in Put, NEW n \in Node, PutStart(p, n) PROVE RoutesOnlyLeave
  BY <1>4 DEF PutStart, PutType, Published, nodeVars
<1>5. ASSUME NEW p \in Put, PutRevoke(p) \/ PutDone(p) \/ PutRejected(p) \/ PublishEnter(p)
                            \/ PublishRestored(p)
      PROVE  RoutesOnlyLeave
  BY <1>5 DEF PutRevoke, PutDone, PutRejected, PublishEnter, PublishRestored, SetPutState, PutType,
     Published, nodeVars
<1>6. ASSUME NEW p \in Put, PublishLate(p) PROVE RoutesOnlyLeave
  BY <1>6 DEF PublishLate, SetPutState, PutType, RouteType, Published, nodeVars
<1>7. ASSUME NEW p \in Put, PublishRollback(p) PROVE RoutesOnlyLeave
  BY <1>7 DEF PublishRollback, SetPutState, PutType, RouteType, Published, nodeVars
<1>8. ASSUME NEW c \in Task, NEW k \in Key, NEW n \in Node, GetStart(c, k, n) \/ AppendStart(c, k, n)
      PROVE  RoutesOnlyLeave
  BY <1>8, Zenon DEF GetStart, AppendStart, nodeVars, putVars
<1>9. ASSUME NEW c \in Task, GetClean(c) \/ CopyRevoke(c) \/ CopyDone(c) \/ CopyPublish(c)
      PROVE  RoutesOnlyLeave
  BY <1>9, Zenon DEF GetClean, CopyRevoke, CopyDone, CopyPublish, nodeVars, putVars
<1>10. ASSUME NEW c \in Task, GetRemove(c) PROVE RoutesOnlyLeave
  BY <1>10, Zenon DEF GetRemove, RouteType, nodeVars, putVars
<1> QED
  BY <1>1, <1>2, <1>3, <1>4, <1>5, <1>6, <1>7, <1>8, <1>9, <1>10, Zenon
     DEF OtherStep, PutStep, TaskStep

\* A delete and a sweep take routes away.
LEMMA DeleteLeaves ==
  ASSUME TypeOK, NEW k \in Key, Delete(k)
  PROVE  RoutesOnlyLeave /\ kv_routes' = [kv_routes EXCEPT ![k] = NoPut]
BY RoutesAssumption DEF TypeOK, RoutesOnlyLeave, Delete, PutType, RouteType, Published, nodeVars

LEMMA SweepLeaves ==
  ASSUME TypeOK, NEW t \in Tag, SweepRemove(t)
  PROVE  RoutesOnlyLeave /\ \A k \in Key : kv_routes'[k] \in {kv_routes[k], NoPut}
BY RoutesAssumption DEF TypeOK, RoutesOnlyLeave, SweepRemove, RouteType, SweepType, nodeVars, putVars

\* A step that brings no route, and queues only versions it took out of the table.
LEMMA LeavingKeepsIndex ==
  ASSUME TypeOK, TypeOK', OnlyPublished, IndexInv, RoutesOnlyLeave,
         UNCHANGED <<prefix_index, events, indexing>>,
         \A p \in removals' : p \in removals \/
           \E k \in Key : p = kv_routes[k] /\ p # NoPut /\ kv_routes'[k] # p
  PROVE  IndexInv'
<1>0. /\ \A k \in Key : kv_routes[k] \in Put \cup {NoPut} /\ kv_routes'[k] \in Put \cup {NoPut}
      /\ \A k \in Key : kv_routes[k] \in Put => put_key[kv_routes[k]] = k
      /\ put_key \in [Put -> Key] /\ put_key' = put_key
  BY DEF TypeOK, RouteType, PutType, RoutesOnlyLeave
<1>1. IndexTypes'
  BY <1>0 DEF IndexInv, IndexTypes
<1>2. RemovalsAreOld'
  <2> SUFFICES ASSUME NEW p \in removals'
               PROVE  put_state'[p] \in Published /\ kv_routes'[put_key[p]] # p
    BY <1>0 DEF RemovalsAreOld
  <2>1. p \in Put /\ put_key[p] \in Key
    BY <1>0, <1>1 DEF IndexTypes
  <2>2. put_state[p] \in Published
    BY <1>0, <2>1 DEF IndexInv, RemovalsAreOld, OnlyPublished
  <2>3. put_state[p] # "entered"
    BY <2>2 DEF Published
  <2>4. CASE p \in removals
    <3>1. kv_routes[put_key[p]] # p
      BY <2>4 DEF IndexInv, RemovalsAreOld
    <3>2. kv_routes'[put_key[p]] # p
      BY <2>1, <2>3, <3>1, RoutesAssumption DEF RoutesOnlyLeave
    <3>3. QED
      BY <2>1, <2>2, <3>2 DEF RoutesOnlyLeave
  <2>5. CASE p \notin removals
    BY <1>0, <2>1, <2>2, <2>5 DEF RoutesOnlyLeave
  <2>6. QED
    BY <2>4, <2>5
<1>3. IndexHears'
  <2> SUFFICES ASSUME tomb' = {}, NEW k \in Key, kv_routes'[k] # NoPut
               PROVE  /\ put_state'[kv_routes'[k]] = "acked"
                      /\ prefix_index[k] = kv_routes'[k] \/ kv_routes'[k] \in events
                      /\ indexing # NoPut /\ put_key[indexing] = k => kv_routes'[k] \in events
    BY <1>0 DEF IndexHears
  <2>1. tomb = {} /\ kv_routes'[k] = kv_routes[k]
    BY DEF RoutesOnlyLeave
  <2>2. /\ kv_routes[k] \in Put /\ put_key[kv_routes[k]] = k /\ put_state[kv_routes[k]] = "acked"
        /\ prefix_index[k] = kv_routes[k] \/ kv_routes[k] \in events
        /\ indexing # NoPut /\ put_key[indexing] = k => kv_routes[k] \in events
    BY <1>0, <2>1 DEF IndexInv, IndexHears
  <2>3. QED
    BY <2>1, <2>2 DEF RoutesOnlyLeave
<1>4. QED
  BY <1>1, <1>2, <1>3 DEF IndexInv

\* A publication brings its event with it (handle_put_done).
LEMMA PublishKeepsIndex ==
  ASSUME TypeOK, TypeOK', IndexInv, NEW p \in Put, PublishAndNotify(p)
  PROVE  IndexInv'
<1>0. /\ put_key' = put_key /\ put_key[p] \in Key /\ tomb' = tomb /\ put_state[p] = "entered"
      /\ events' = events \cup {p} /\ UNCHANGED <<prefix_index, removals, indexing>>
      /\ kv_routes' = [kv_routes EXCEPT ![put_key[p]] = p]
  BY DEF PublishAndNotify, PublishRoute, TypeOK, PutType, nodeVars
<1>1. /\ put_state'[p] = "acked"
      /\ \A q \in Put : put_state[q] \in Published => put_state'[q] \in Published
      /\ \A q \in Put \ {kv_routes[put_key[p]]} : put_state[q] = "acked" => put_state'[q] = "acked"
  BY DEF PublishAndNotify, PublishRoute, TypeOK, PutType, Published
<1>2. /\ \A k \in Key : kv_routes[k] \in Put \cup {NoPut}
      /\ \A k \in Key : kv_routes[k] \in Put => put_key[kv_routes[k]] = k
      /\ kv_routes \in [Key -> Put \cup {NoPut}]
  BY DEF TypeOK, RouteType
<1>3. IndexTypes'
  BY <1>0 DEF IndexInv, IndexTypes
<1>4. RemovalsAreOld'
  <2>1. p \notin removals
    BY <1>0 DEF IndexInv, RemovalsAreOld, Published
  <2>2. QED
    BY <1>0, <1>1, <1>2, <2>1 DEF IndexInv, RemovalsAreOld, IndexTypes, TypeOK, PutType
<1>5. IndexHears'
  <2> SUFFICES ASSUME tomb = {}, NEW k \in Key, kv_routes'[k] # NoPut
               PROVE  /\ put_state'[kv_routes'[k]] = "acked"
                      /\ prefix_index[k] = kv_routes'[k] \/ kv_routes'[k] \in events'
                      /\ indexing # NoPut /\ put_key[indexing] = k => kv_routes'[k] \in events'
    BY <1>0, Zenon DEF IndexHears
  <2>1. CASE k = put_key[p]
    BY <1>0, <1>1, <1>2, <2>1
  <2>2. CASE k # put_key[p]
    <3>1. kv_routes'[k] = kv_routes[k] /\ kv_routes[k] # kv_routes[put_key[p]]
      BY <1>0, <1>2, <2>2, RoutesAssumption
    <3>2. QED
      BY <1>0, <1>1, <1>2, <3>1, Zenon DEF IndexInv, IndexHears
  <2>3. QED
    BY <2>1, <2>2
<1>6. QED
  BY <1>3, <1>4, <1>5 DEF IndexInv

\* The maintenance actor's own steps: an event it drops without recording the
\* version is not of a current route.
LEMMA ActorKeepsIndex ==
  ASSUME TypeOK, AckedPutRouted, IndexInv,
         (\E p \in Put : IndexCheck(p) \/ IndexRemove(p)) \/ IndexInsert
  PROVE  IndexInv'
<1>0. /\ UNCHANGED <<tomb, kv_routes, node_replicas, put_state, put_key, put_tag>>
      /\ \A k \in Key : kv_routes[k] \in Put \cup {NoPut}
      /\ \A k \in Key : kv_routes[k] \in Put => put_key[kv_routes[k]] = k
      /\ put_key \in [Put -> Key]
      /\ NoPut \notin Put
  BY RoutesAssumption, Zenon DEF IndexCheck, IndexRemove, IndexInsert, vars, nodeVars, putVars,
     TypeOK, RouteType, PutType
<1>1. ASSUME NEW p \in Put, IndexCheck(p) PROVE IndexInv'
  <2>1. UNCHANGED <<prefix_index, removals>> /\ indexing = NoPut /\ p \in events
    BY <1>1 DEF IndexCheck
  <2>2. CASE kv_routes[put_key[p]] = p /\ HasLive(p)
    <3>1. indexing' = p /\ events' = events
      BY <1>1, <2>2 DEF IndexCheck
    <3>2. IndexTypes' /\ RemovalsAreOld'
      BY <1>0, <2>1, <3>1 DEF IndexInv, IndexTypes, RemovalsAreOld
    <3>3. IndexHears'
      BY <1>0, <2>1, <2>2, <3>1 DEF IndexInv, IndexHears
    <3>4. QED
      BY <3>2, <3>3 DEF IndexInv
  <2>3. CASE ~(kv_routes[put_key[p]] = p /\ HasLive(p))
    <3>1. indexing' = indexing /\ events' = events \ {p}
      BY <1>1, <2>3, Zenon DEF IndexCheck
    <3>2. IndexTypes' /\ RemovalsAreOld'
      BY <1>0, <2>1, <3>1 DEF IndexInv, IndexTypes, RemovalsAreOld
    <3>3. tomb = {} => \A k \in Key : kv_routes[k] # p
      <4> SUFFICES ASSUME tomb = {}, NEW k \in Key, kv_routes[k] = p PROVE FALSE
        OBVIOUS
      <4>1. put_key[p] = k /\ put_state[p] = "acked"
        BY <1>0 DEF IndexInv, IndexHears
      <4>2. put_tag[p] \in node_replicas[p]
        BY <4>1 DEF AckedPutRouted
      <4>3. QED
        BY <2>3, <4>1, <4>2 DEF HasLive
    <3>4. IndexHears'
      BY <1>0, <2>1, <3>1, <3>3 DEF IndexInv, IndexHears
    <3>5. QED
      BY <3>2, <3>4 DEF IndexInv
  <2>4. QED
    BY <2>2, <2>3, Zenon
<1>2. ASSUME NEW p \in Put, IndexRemove(p) PROVE IndexInv'
  <2>1. /\ UNCHANGED <<events, indexing>> /\ removals' = removals \ {p} /\ p \in removals
        /\ prefix_index' = [prefix_index EXCEPT ![put_key[p]] = IF @ = p THEN NoPut ELSE @]
    BY <1>2, Zenon DEF IndexRemove
  <2>2. IndexTypes' /\ RemovalsAreOld'
    BY <1>0, <2>1 DEF IndexInv, IndexTypes, RemovalsAreOld
  <2>3. kv_routes[put_key[p]] # p /\ prefix_index \in [Key -> Put \cup {NoPut}]
    BY <2>1 DEF IndexInv, IndexTypes, RemovalsAreOld
  <2>4. \A k \in Key : prefix_index[k] = kv_routes[k] => prefix_index'[k] = kv_routes[k]
    BY <1>0, <2>1, <2>3
  <2>5. IndexHears'
    BY <1>0, <2>1, <2>4 DEF IndexInv, IndexHears
  <2>6. QED
    BY <2>2, <2>5 DEF IndexInv
<1>3. ASSUME IndexInsert PROVE IndexInv'
  <2>1. /\ indexing # NoPut /\ indexing' = NoPut /\ removals' = removals
        /\ prefix_index' = [prefix_index EXCEPT ![put_key[indexing]] = indexing]
        /\ events' = events \ {indexing}
    BY <1>3 DEF IndexInsert
  <2>2. indexing \in Put /\ put_key[indexing] \in Key /\ prefix_index \in [Key -> Put \cup {NoPut}]
    BY <1>0, <2>1, Zenon DEF IndexInv, IndexTypes
  <2>3. IndexTypes' /\ RemovalsAreOld'
    BY <1>0, <2>1, <2>2, Zenon DEF IndexInv, IndexTypes, RemovalsAreOld
  <2>4. IndexHears'
    <3> SUFFICES ASSUME tomb = {}, NEW k \in Key, kv_routes[k] # NoPut
                 PROVE  /\ put_state[kv_routes[k]] = "acked"
                        /\ prefix_index'[k] = kv_routes[k] \/ kv_routes[k] \in events'
      BY <1>0, <2>1 DEF IndexHears
    <3>1. /\ put_state[kv_routes[k]] = "acked"
          /\ prefix_index[k] = kv_routes[k] \/ kv_routes[k] \in events
          /\ put_key[indexing] = k => kv_routes[k] \in events
      BY <2>1 DEF IndexInv, IndexHears
    <3>2. QED
      BY <1>0, <2>1, <2>2, <3>1
  <2>5. QED
    BY <2>3, <2>4 DEF IndexInv
<1>4. QED
  BY <1>1, <1>2, <1>3

\* Every step of the composition is a step of the route table or leaves it alone.
LEMMA IndexStepIsRouteStep == [INext]_<<vars, indexVars>> => [Next]_vars
BY Zenon DEF INext, PublishAndNotify, IndexCheck, IndexRemove, DeleteAndNotify, SweepAndNotify, OtherStep,
   IndexInsert, Next, SweepStep, vars

\* Every step preserves the invariant.
LEMMA IndexStep ==
  TypeOK /\ TypeOK' /\ AckedInv /\ IndexInv /\ [INext]_<<vars, indexVars>> => IndexInv'
<1> SUFFICES ASSUME TypeOK, TypeOK', AckedInv, IndexInv, [INext]_<<vars, indexVars>>
             PROVE  IndexInv'
  OBVIOUS
<1>0. AckedPutRouted /\ OnlyPublished
  BY DEF AckedInv
<1>1. ASSUME NEW p \in Put, PublishAndNotify(p) PROVE IndexInv'
  BY <1>1, PublishKeepsIndex
<1>2. ASSUME NEW k \in Key, DeleteAndNotify(k) PROVE IndexInv'
  <2>1. RoutesOnlyLeave /\ kv_routes' = [kv_routes EXCEPT ![k] = NoPut] /\ kv_routes[k] # NoPut
    BY <1>2, DeleteLeaves, Zenon DEF DeleteAndNotify, Delete
  <2>2. kv_routes'[k] = NoPut
    BY <2>1, Zenon DEF TypeOK, RouteType
  <2>3. removals' = removals \cup {kv_routes[k]} /\ UNCHANGED <<prefix_index, events, indexing>>
    BY <1>2 DEF DeleteAndNotify
  <2>4. QED
    BY <1>0, <2>1, <2>2, <2>3, LeavingKeepsIndex
<1>3. ASSUME NEW t \in Tag, SweepAndNotify(t) PROVE IndexInv'
  <2>1. RoutesOnlyLeave /\ \A k \in Key : kv_routes'[k] \in {kv_routes[k], NoPut}
    BY <1>3, SweepLeaves DEF SweepAndNotify
  <2>2. /\ removals' = removals \cup {kv_routes[k] : k \in {j \in Key : kv_routes'[j] # kv_routes[j]}}
        /\ UNCHANGED <<prefix_index, events, indexing>>
    BY <1>3 DEF SweepAndNotify
  <2>3. \A p \in removals' : p \in removals \/
           \E k \in Key : p = kv_routes[k] /\ p # NoPut /\ kv_routes'[k] # p
    BY <2>1, <2>2
  <2>4. QED
    BY <1>0, <2>1, <2>2, <2>3, LeavingKeepsIndex, Zenon
<1>4. ASSUME OtherStep PROVE IndexInv'
  <2>1. RoutesOnlyLeave /\ UNCHANGED <<prefix_index, events, removals, indexing>>
    BY <1>4, OtherLeaves DEF OtherStep, indexVars
  <2>2. QED
    BY <1>0, <2>1, LeavingKeepsIndex
<1>5. CASE (\E p \in Put : IndexCheck(p) \/ IndexRemove(p)) \/ IndexInsert
  BY <1>0, <1>5, ActorKeepsIndex
<1>6. CASE UNCHANGED <<vars, indexVars>>
  BY <1>6 DEF vars, nodeVars, putVars, indexVars, IndexInv, IndexTypes, RemovalsAreOld, IndexHears
<1>7. QED
  BY <1>1, <1>2, <1>3, <1>4, <1>5, <1>6 DEF INext

\* The route table keeps its promises with the index beside it: the maintenance
\* actor and the notifications of handle_put_done, do_delete_one_kv_all_replicas
\* and the sweep add no step of the routes.
THEOREM IndexedRoutesRefine == ISpec => Spec
<1>1. IInit => Init
  BY DEF IInit
<1>2. QED
  BY <1>1, IndexStepIsRouteStep, PTL DEF ISpec, Spec

\* While no node has left, no route is missed by the prefix index once the
\* events of handle_put_done have been applied, in whatever order overwrites,
\* deletes and late removals reach PrefixRadixTree.
THEOREM IndexMissesNothing == ISpec => []IndexFollowsRoutes
<1>1. IInit => IndexInv
  BY RoutesAssumption DEF IInit, Init, IndexInv, IndexTypes, RemovalsAreOld, IndexHears
<1>2. Init => AckedInv
  BY RoutesAssumption DEF Init, AckedInv, AckedPutRouted, SweepsDeparted, OnlyPublished,
         RemovalsJustified
<1>3. IndexInv => IndexFollowsRoutes
  BY Zenon DEF IndexInv, IndexHears, IndexFollowsRoutes
<1>4. IInit => Init
  BY DEF IInit
<1>5. QED
  BY <1>1, <1>2, <1>3, <1>4, IndexedRoutesRefine, TypeCorrect, AckedStep, IndexStepIsRouteStep,
     IndexStep, PTL DEF ISpec, Spec

-----------------------------------------------------------------------------
\* The refinement of RouteTable.  A put that changes its state changes its
\* outcome and no other.
LEMMA OutcomeMoves ==
  ASSUME TypeOK, NEW p \in Put, NEW s, put_state' = [put_state EXCEPT ![p] = s]
  PROVE  [q \in Put |-> Outcome(put_state'[q])]
           = [[q \in Put |-> Outcome(put_state[q])] EXCEPT ![p] = Outcome(s)]
BY DEF TypeOK, PutType

\* A version whose publication was never attempted is not a route.
LEMMA OpenIsUnrouted ==
  ASSUME OnlyPublished, TypeOK, NEW p \in Put, put_state[p] \notin Published
  PROVE  kv_routes[put_key[p]] # p
BY DEF OnlyPublished, TypeOK, PutType

\* A put that fails before it publishes (handle_put_revoke, a departed target,
\* the capacity or the lease refused) leaves every route alone.
LEMMA FailsUnseen ==
  ASSUME OnlyPublished, TypeOK, NEW p \in Put,
         put_state[p] \in {"inflight", "checked", "entered"}, SetPutState(p, "failed"), UNCHANGED kv_routes
  PROVE  Table!Fail(p)
<1>1. kv_routes[put_key[p]] # p
  BY OpenIsUnrouted DEF Published
<1>2. kv_routes' = [kv_routes EXCEPT ![put_key[p]] = IF @ = p THEN NoPut ELSE @]
  BY <1>1 DEF TypeOK, RouteType
<1>3. Outcome(put_state[p]) = "open" /\ Outcome("failed") = "failed"
  BY DEF Outcome
<1>4. [q \in Put |-> Outcome(put_state'[q])]
        = [[q \in Put |-> Outcome(put_state[q])] EXCEPT ![p] = "failed"]
  BY <1>3, OutcomeMoves DEF SetPutState
<1>5. QED
  BY <1>2, <1>3, <1>4 DEF SetPutState, Table!Fail

\* Every step of the route table is a step of RouteTable or changes nothing that
\* RouteTable can see.
LEMMA TableStep == TypeOK /\ OnlyPublished /\ [Next]_vars => [Table!Next]_(Table!vars)
<1> SUFFICES ASSUME TypeOK, OnlyPublished, [Next]_vars PROVE Table!Next \/ UNCHANGED Table!vars
  OBVIOUS
<1> DEFINE o == [q \in Put |-> Outcome(put_state[q])]
           Hidden == UNCHANGED <<kv_routes, put_key, put_state>>
<1>0. Hidden => UNCHANGED Table!vars
  BY DEF Table!vars
<1>1. ASSUME NEW n \in Node, Register(n) \/ MemberLeft(n) PROVE Hidden
  BY <1>1, Zenon DEF Register, MemberLeft, putVars
<1>2. ASSUME NEW t \in Tag, NEW k \in Key, SweepSnapshot(t, k) PROVE Hidden
  BY <1>2, Zenon DEF SweepSnapshot, putVars
<1>3. ASSUME NEW t \in Tag, NEW p \in Put, SweepRoute(t, p) PROVE Hidden
  BY <1>3, Zenon DEF SweepRoute, putVars
<1>4. ASSUME NEW k \in Key, kv_routes[k] # NoPut, kv_routes' = [kv_routes EXCEPT ![k] = NoPut],
             UNCHANGED <<put_key, put_state>>
      PROVE  Table!Next
  BY <1>4, Zenon DEF Table!Remove, Table!Next
<1>5. ASSUME NEW t \in Tag, SweepRemove(t) PROVE Table!Next \/ Hidden
  <2>1. sweep_empty[t] \in Put /\ put_key[sweep_empty[t]] \in Key /\ sweep_empty[t] # NoPut
    BY <1>5 DEF SweepRemove, TypeOK, SweepType, PutType
  <2>2. CASE UNCHANGED kv_routes
    BY <1>5, <2>2, Zenon DEF SweepRemove, putVars
  <2>3. CASE kv_routes[put_key[sweep_empty[t]]] = sweep_empty[t] /\ ~UNCHANGED kv_routes
    BY <1>4, <1>5, <2>1, <2>3, Zenon DEF SweepRemove, putVars
  <2>4. QED
    BY <1>5, <2>2, <2>3, Zenon DEF SweepRemove
<1>6. ASSUME NEW p \in Put, NEW s, NEW r, SetPutState(p, s), put_state[p] = r, Outcome(s) = Outcome(r),
             UNCHANGED kv_routes
      PROVE  UNCHANGED Table!vars
  <2>1. o' = [o EXCEPT ![p] = Outcome(r)]
    BY <1>6, OutcomeMoves DEF SetPutState
  <2>2. o' = o
    BY <1>6, <2>1
  <2>3. QED
    BY <1>6, <2>2 DEF SetPutState, Table!vars
<1>7. ASSUME NEW p \in Put, NEW n \in Node, PutStart(p, n) PROVE UNCHANGED Table!vars
  <2>1. o' = [o EXCEPT ![p] = Outcome("inflight")]
    BY <1>7, OutcomeMoves DEF PutStart
  <2>2. o' = o
    BY <1>7, <2>1 DEF PutStart, Outcome
  <2>3. QED
    BY <1>7, <2>2 DEF PutStart, Table!vars
<1>8. ASSUME NEW p \in Put, PutRevoke(p) \/ PutDone(p) \/ PutRejected(p) \/ PublishEnter(p)
                            \/ PublishRestored(p)
      PROVE  Table!Next \/ UNCHANGED Table!vars
  <2>1. CASE SetPutState(p, "failed")
    <3>1. put_state[p] \in {"inflight", "checked", "entered"} /\ UNCHANGED kv_routes
      BY <1>8 DEF PutRevoke, PutDone, PutRejected, PublishEnter, PublishRestored
    <3>2. QED
      BY <2>1, <3>1, FailsUnseen DEF Table!Next
  <2>2. CASE put_state[p] = "inflight" /\ SetPutState(p, "checked") /\ UNCHANGED kv_routes
    <3>1. Outcome("inflight") = Outcome("checked")
      BY DEF Outcome
    <3>2. QED
      BY <1>6, <2>2, <3>1
  <2>3. CASE put_state[p] = "checked" /\ SetPutState(p, "entered") /\ UNCHANGED kv_routes
    <3>1. Outcome("checked") = Outcome("entered")
      BY DEF Outcome
    <3>2. QED
      BY <1>6, <2>3, <3>1
  <2>4. QED
    BY <1>8, <2>1, <2>2, <2>3, Zenon
       DEF PutRevoke, PutDone, PutRejected, PublishEnter, PublishRestored
<1>9. ASSUME NEW p \in Put, PublishLate(p) PROVE Table!Next
  <2>1. o' = [o EXCEPT ![p] = Outcome("late")]
    BY <1>9, OutcomeMoves DEF PublishLate, SetPutState
  <2>2. Outcome(put_state[p]) = "open" /\ Outcome("late") = "shown"
    BY <1>9 DEF PublishLate, Outcome
  <2>3. Table!Show(p)
    BY <1>9, <2>1, <2>2 DEF PublishLate, SetPutState, Table!Show
  <2>4. QED
    BY <2>3 DEF Table!Next
<1>10. ASSUME NEW p \in Put, PublishRollback(p) PROVE Table!Next
  <2>1. o' = [o EXCEPT ![p] = Outcome("failed")]
    BY <1>10, OutcomeMoves DEF PublishRollback, SetPutState
  <2>2. Outcome(put_state[p]) = "shown" /\ Outcome("failed") = "failed"
    BY <1>10 DEF PublishRollback, Outcome
  <2>3. Table!Fail(p)
    BY <1>10, <2>1, <2>2 DEF PublishRollback, SetPutState, Table!Fail
  <2>4. QED
    BY <2>3 DEF Table!Next
<1>11. ASSUME NEW p \in Put, PublishRoute(p) PROVE Table!Next
  <2>1. /\ put_state[p] = "entered"
        /\ \A q \in Put : put_state'[q] = IF q = p THEN "acked"
                                          ELSE IF q = kv_routes[put_key[p]] /\ put_state[q] = "acked"
                                               THEN "replaced" ELSE put_state[q]
    BY <1>11 DEF PublishRoute
  <2>2. /\ Outcome(put_state[p]) = "open" /\ Outcome(put_state'[p]) = "acked"
        /\ \A q \in Put \ {p} : Outcome(put_state'[q]) = Outcome(put_state[q])
    BY <2>1 DEF Outcome
  <2>3. o' = [o EXCEPT ![p] = "acked"]
    BY <2>2
  <2>4. Table!Publish(p)
    BY <1>11, <2>2, <2>3 DEF PublishRoute, Table!Publish
  <2>5. QED
    BY <2>4 DEF Table!Next
<1>12. ASSUME NEW k \in Key, Delete(k) PROVE Table!Next
  <2>1. \A q \in Put : put_state'[q] = put_state[q] \/ (put_state[q] = "acked" /\ put_state'[q] = "deleted")
    BY <1>12 DEF Delete, TypeOK, PutType
  <2>2. \A q \in Put : Outcome(put_state'[q]) = Outcome(put_state[q])
    BY <2>1 DEF Outcome
  <2>3. o' = o
    BY <2>2
  <2>4. Table!Remove(k)
    BY <1>12, <2>3 DEF Delete, Table!Remove
  <2>5. QED
    BY <2>4 DEF Table!Next
<1>13. ASSUME NEW c \in Task, NEW k \in Key, NEW n \in Node, GetStart(c, k, n) \/ AppendStart(c, k, n)
       PROVE  Hidden
  BY <1>13, Zenon DEF GetStart, AppendStart, putVars
<1>14. ASSUME NEW c \in Task, GetClean(c) \/ CopyRevoke(c) \/ CopyDone(c) \/ CopyPublish(c)
       PROVE  Hidden
  BY <1>14, Zenon DEF GetClean, CopyRevoke, CopyDone, CopyPublish, putVars
<1>15. ASSUME NEW c \in Task, GetRemove(c) PROVE Table!Next \/ Hidden
  <2>1. task_put[c] \in Put /\ put_key[task_put[c]] \in Key /\ task_put[c] # NoPut
    BY <1>15, RoutesAssumption DEF GetRemove, TypeOK, TaskType, PutType
  <2>2. CASE kv_routes[put_key[task_put[c]]] = task_put[c]
    <3>1. kv_routes' = [kv_routes EXCEPT ![put_key[task_put[c]]] = NoPut]
      BY <1>15, <2>2 DEF GetRemove
    <3>2. QED
      BY <1>4, <1>15, <2>1, <2>2, <3>1, Zenon DEF GetRemove, putVars
  <2>3. CASE kv_routes[put_key[task_put[c]]] # task_put[c]
    <3>1. UNCHANGED kv_routes
      BY <1>15, <2>1, <2>3 DEF GetRemove, TypeOK, RouteType
    <3>2. QED
      BY <1>15, <3>1, Zenon DEF GetRemove, putVars
  <2>4. QED
    BY <2>2, <2>3
<1>16. CASE UNCHANGED vars
  BY <1>0, <1>16, Zenon DEF vars, putVars
<1> HIDE DEF Hidden
<1>17. QED
  BY <1>0, <1>1, <1>2, <1>3, <1>5, <1>7, <1>8, <1>9, <1>10, <1>11, <1>12, <1>13, <1>14, <1>15, <1>16,
     Zenon DEF Next, SweepStep, PutStep, TaskStep

\* The route table implements RouteTable: a put is acknowledged in the step in
\* which publish_primary_route_tomb_fenced makes its version the route of its
\* key, a put that fails takes no other route away, and no rollback, sweep or
\* clean_up_tombs brings a former version back.
THEOREM RouteRefinement == Spec => ImplementsRouteTable
<1>1. Init => Table!Init
  BY DEF Init, Table!Init, Outcome
<1>2. Init => AckedInv
  BY RoutesAssumption DEF Init, AckedInv, AckedPutRouted, SweepsDeparted, OnlyPublished,
         RemovalsJustified
<1>3. AckedInv => OnlyPublished
  BY DEF AckedInv
<1>4. QED
  BY <1>1, <1>2, <1>3, TypeCorrect, AckedStep, TableStep, PTL
     DEF Spec, ImplementsRouteTable, Table!Spec

\* So does the route table with the prefix index beside it.
THEOREM IndexedRouteRefinement == ISpec => ImplementsRouteTable
BY IndexedRoutesRefine, RouteRefinement
=============================================================================
