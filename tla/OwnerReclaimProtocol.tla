------------------------- MODULE OwnerReclaimProtocol -------------------------
(***************************************************************************)
(* Proof of Order, the part of the invariant that is not about slots: the  *)
(* types; that the owner releases memory for the master only under the     *)
(* master's fence (ReleaseUnderFence); that what is named has been written,*)
(* that the key's activity counts its gets, that the owner's local fence   *)
(* keeps puts, gets and the index apart, and that generations are routed in*)
(* order.  For any number of generations, reclaim jobs, eviction requests  *)
(* and retries.                                                            *)
(***************************************************************************)
EXTENDS OwnerReclaimInv, TLAPS

-----------------------------------------------------------------------------
\* Where the answer a to request m may take the job.
Moved(m, a) ==
  /\ job.item = m.item /\ job.pc = m.ph
  /\ m.ph = "prepare"  => job'.pc = (IF a = "Committed" THEN "finish" ELSE
                                     IF a = "Prepared" THEN "prepared" ELSE "clear")
  /\ m.ph = "commit"   => job'.pc = (IF a = "Committed" THEN "finish" ELSE "toabort")
  /\ m.ph = "abort"    => \/ a = "Committed" /\ job'.pc = "finish"
                          \/ a \in {"Aborted", "Stale", "Finalized"} /\ job'.pc = "clear"
                          \/ job'.pc \in {"stuck", "toabort"}
  /\ m.ph = "finalize" => IF a = "Finalized" THEN job'.pc = "clear"
                                             ELSE job'.pc \in {"tofinalize", "stuck"}

\* A retry is a job of the same item.
LEMMA RetryMoves ==
  ASSUME job \in Jobs, NEW ph \in JobPcs, NEW t \in Nat
  PROVE  /\ Retry(ph, t) \in Jobs /\ Retry(ph, t).item = job.item
         /\ Retry(ph, t).pc \in {ph, "stuck"}
<1>1. CASE t < MaxTry
  <2>1. t + 1 \in Nat /\ Retry(ph, t) = [job EXCEPT !.pc = ph, !.try = t + 1]
    BY <1>1, BoundAssumption DEF Retry
  <2>2. QED
    BY <2>1, Zenon DEF Jobs
<1>2. CASE ~(t < MaxTry)
  BY <1>2, Zenon DEF Retry, Jobs, JobPcs
<1>3. QED
  BY <1>1, <1>2, Zenon

\* The answer to a request leaves the job alone or moves it along OnAnswer.
LEMMA AnswerMoves ==
  ASSUME Types, NEW m \in Requests, NEW a \in Answers, Answer(m, a)
  PROVE  job' \in Jobs /\ job'.item = job.item /\ (job' = job \/ Moved(m, a))
<1>1. CASE UNCHANGED job
  BY <1>1, Zenon DEF Types, MasterTypes
<1>2. CASE job.item = m.item /\ job.pc = m.ph /\ job' = OnAnswer(m.ph, m.try, a)
  <2>1. job \in Jobs /\ m.try \in Nat /\ m.ph \in Phases
    BY Zenon DEF Requests, Types, MasterTypes
  <2>2. CASE m.ph = "prepare"
    BY <1>2, <2>1, <2>2, Zenon DEF OnAnswer, Moved, Jobs, JobPcs, Phases
  <2>3. CASE m.ph = "commit"
    BY <1>2, <2>1, <2>3, Zenon DEF OnAnswer, Moved, Jobs, JobPcs, Phases
  <2>4. CASE m.ph = "abort"
    <3>1. /\ Retry("toabort", m.try) \in Jobs /\ Retry("toabort", m.try).item = job.item
          /\ Retry("toabort", m.try).pc \in {"toabort", "stuck"}
      BY <2>1, RetryMoves, Zenon DEF JobPcs
    <3>2. QED
      BY <1>2, <2>1, <2>4, <3>1, Zenon DEF OnAnswer, Moved, Jobs, JobPcs, Phases
  <2>5. CASE m.ph = "finalize"
    <3>1. /\ Retry("tofinalize", m.try) \in Jobs /\ Retry("tofinalize", m.try).item = job.item
          /\ Retry("tofinalize", m.try).pc \in {"tofinalize", "stuck"}
      BY <2>1, RetryMoves, Zenon DEF JobPcs
    <3>2. QED
      BY <1>2, <2>1, <2>5, <3>1, Zenon DEF OnAnswer, Moved, Jobs, JobPcs, Phases
  <2>6. QED
    BY <2>1, <2>2, <2>3, <2>4, <2>5, Zenon DEF Phases
<1>3. QED
  BY <1>1, <1>2, Zenon DEF Answer

\* Sending a request.
LEMMA SendMoves ==
  ASSUME Types, NEW ph \in Phases, NEW t \in Nat, Send(ph, t)
  PROVE  /\ net' = net \cup {Request(ph, job.item, t)} /\ Request(ph, job.item, t) \in Requests
         /\ job' \in Jobs /\ job'.item = job.item /\ job'.pc = ph
<1>1. job \in Jobs /\ job' = [job EXCEPT !.pc = ph, !.try = t] /\ ph \in JobPcs
  BY Zenon DEF Send, Types, MasterTypes, JobPcs
<1>2. job' \in Jobs /\ job'.item = job.item /\ job'.pc = ph
  BY <1>1, Zenon DEF Jobs
<1>3. Request(ph, job.item, t) \in Requests
  BY <1>1, Zenon DEF Request, Requests, Jobs
<1>4. QED
  BY <1>2, <1>3, Zenon DEF Send

\* What a timeout makes of the job.
LEMMA TimeoutMoves ==
  ASSUME Types, JobTimeout
  PROVE  /\ job' \in Jobs /\ job'.item = job.item
         /\ job.pc \in Phases
         /\ job'.pc \in {"toabort", "stuck"} \/ (job.pc = "finalize" /\ job'.pc = "tofinalize")
<1>1. job \in Jobs /\ job.try \in Nat /\ job.pc \in Phases /\ job' = OnTimeout(job.pc, job.try)
  BY Zenon DEF Types, MasterTypes, JobTimeout, Phases, Jobs
<1>2. CASE job.pc \in {"prepare", "commit"}
  BY <1>1, <1>2, Zenon DEF OnTimeout, Jobs, JobPcs, Phases
<1>3. CASE job.pc = "abort"
  BY <1>1, <1>3, RetryMoves, Zenon DEF OnTimeout, JobPcs
<1>4. CASE job.pc = "finalize"
  BY <1>1, <1>4, RetryMoves, Zenon DEF OnTimeout, JobPcs
<1>5. QED
  BY <1>1, <1>2, <1>3, <1>4, Zenon DEF Phases

\* The initial states are typed.
LEMMA InitTypes == Init => Types
BY BoundAssumption DEF Init, Types, MasterTypes, OwnerTypes, NoRoute, NoItem, NoRec, NoJob, NoPut,
   NoEvict, NoLGet, Items, Jobs, JobPcs, Phases, Handlers, Evicts, Outcomes, Records, Probes,
   Requests, Puts, Gets

\* What prepare_one answers, and the records it may leave behind.
LEMMA PrepareTypes ==
  ASSUME Types, NEW i \in Items, NEW st, st = PrepareStep(i), PrepareEffect(i, st)
  PROVE  /\ PrepareAnswer(st) \in Answers
         /\ rec' \in Records /\ idx' \in Nat /\ sel' \in Nat
<1>1. PrepareAnswer(st) \in Answers
  BY Zenon DEF PrepareAnswer, Answers
<1>2. rec' \in Records
  BY Zenon DEF PrepareEffect, Prepared, Types, OwnerTypes, Records
<1>3. idx' \in Nat /\ sel' \in Nat
  BY Zenon DEF PrepareEffect, Types, OwnerTypes
<1>4. QED
  BY <1>1, <1>2, <1>3, Zenon

\* An answered request ends its handler; the worker takes the answer or not.
LEMMA ReplyMoves ==
  ASSUME Types, NEW o \in 1..MaxOp, NEW out \in Outcomes, Reply(o, out)
  PROVE  /\ hand' \in [1..MaxOp -> Handlers] /\ hand'[o].pc = "done"
         /\ \A q \in 1..MaxOp \ {o} : hand'[q] = hand[q]
         /\ evict' \in Evicts
         /\ evict' = evict \/ evict'.pc = "answered"
<1>1. /\ hand' \in [1..MaxOp -> Handlers] /\ hand'[o].pc = "done"
      /\ \A q \in 1..MaxOp \ {o} : hand'[q] = hand[q]
  BY Zenon DEF Reply, Types, MasterTypes, Handlers
<1>2. evict' \in Evicts /\ (evict' = evict \/ evict'.pc = "answered")
  BY Zenon DEF Reply, Types, OwnerTypes, Evicts
<1>3. QED
  BY <1>1, <1>2, Zenon

\* The handler's three steps: it waits, it takes the fence, or it replies.
LEMMA HandlerMoves ==
  ASSUME Types, NEW o \in 1..MaxOp, hand[o].pc \in {"sent", "fenced", "ready"},
         EvictFence(o) \/ EvictReplan(o) \/ (\E out \in EvictDecisions(hand[o]) : EvictApply(o, out))
  PROVE  /\ hand' \in [1..MaxOp -> Handlers] /\ evict' \in Evicts /\ fence' \in Items
         /\ \A q \in 1..MaxOp \ {o} : hand'[q] = hand[q]
         /\ evict' = evict \/ evict'.pc = "answered"
         /\ \/ /\ hand[o].pc = "sent" /\ fence = NoItem
               /\ hand'[o].pc = "fenced" /\ fence' = EvictItem(hand'[o].gen, o)
            \/ /\ hand[o].pc = "sent" /\ hand'[o].pc = "done" /\ fence' = fence
            \/ /\ hand[o].pc = "fenced" /\ hand'[o].pc = "ready" /\ hand'[o].gen = hand[o].gen
               /\ fence' = fence
            \/ /\ hand[o].pc \in {"fenced", "ready"} /\ hand'[o].pc = "done" /\ fence' = NoItem
<1>0. NoItem \in Items /\ hand[o] \in Handlers /\ fence \in Items /\ evict \in Evicts
  BY Zenon DEF NoItem, Items, Types, MasterTypes, OwnerTypes
<1>1. CASE EvictFence(o)
  <2>1. CASE /\ fence = NoItem /\ fence' = EvictItem(hand[o].gen, o)
             /\ hand' = [hand EXCEPT ![o].pc = "fenced"] /\ UNCHANGED evict
    <3>1. EvictItem(hand[o].gen, o) \in Items
      BY <1>0, BoundAssumption DEF EvictItem, Items, Handlers
    <3>2. /\ hand' \in [1..MaxOp -> Handlers] /\ hand'[o].pc = "fenced"
          /\ hand'[o].gen = hand[o].gen /\ \A q \in 1..MaxOp \ {o} : hand'[q] = hand[q]
      BY <2>1, Zenon DEF Types, MasterTypes, Handlers
    <3>3. QED
      BY <1>0, <1>1, <2>1, <3>1, <3>2, Zenon DEF EvictFence
  <2>2. CASE \E out \in Outcomes : Reply(o, out) /\ UNCHANGED fence
    BY <1>0, <1>1, <2>2, ReplyMoves, Zenon DEF EvictFence
  <2>3. QED
    BY <1>1, <2>1, <2>2, Zenon DEF EvictFence, EvictPlan, Outcomes
<1>2. CASE EvictReplan(o)
  <2>1. CASE hand' = [hand EXCEPT ![o].pc = "ready"] /\ UNCHANGED <<fence, evict>>
    <3>1. /\ hand' \in [1..MaxOp -> Handlers] /\ hand'[o].pc = "ready"
          /\ hand'[o].gen = hand[o].gen /\ \A q \in 1..MaxOp \ {o} : hand'[q] = hand[q]
      BY <2>1, Zenon DEF Types, MasterTypes, Handlers
    <3>2. QED
      BY <1>0, <1>2, <2>1, <3>1, Zenon DEF EvictReplan
  <2>2. CASE \E out \in Outcomes : Reply(o, out) /\ fence' = NoItem
    BY <1>0, <1>2, <2>2, ReplyMoves, Zenon DEF EvictReplan
  <2>3. QED
    BY <1>2, <2>1, <2>2, Zenon DEF EvictReplan, EvictPlan, Outcomes
<1>3. CASE \E out \in EvictDecisions(hand[o]) : EvictApply(o, out)
  <2>1. PICK out \in Outcomes : hand[o].pc = "ready" /\ Reply(o, out) /\ fence' = NoItem
    BY <1>3, Zenon DEF EvictApply, EvictDecisions, Outcomes
  <2>2. QED
    BY <1>0, <2>1, ReplyMoves, Zenon
<1>4. QED
  BY <1>1, <1>2, <1>3, Zenon

\* Every step keeps the types.
LEMMA StepTypes == Types /\ [Next]_vars => Types'
\* Puts, deletes, broadcasts, readers and remote reads.
<1>DataTypes. Types /\ (Put \/ MasterDelete \/ Broadcast \/ Read \/ RemoteGet) => Types'
  <2>1. ASSUME Types, OwnerPutStart PROVE Types'
    BY <2>1 DEF OwnerPutStart, Types, MasterTypes, OwnerTypes,
       masterVars, netVars, localVars, evictVars, Puts
  <2>2. ASSUME Types, OwnerPutCommit PROVE Types'
    BY <2>2, Zenon DEF OwnerPutCommit, Types, MasterTypes, OwnerTypes,
       masterVars, netVars, localVars, evictVars, Puts
  <2>3. ASSUME Types, OwnerPutFail PROVE Types'
    BY <2>3, Zenon DEF OwnerPutFail, Types, MasterTypes, OwnerTypes,
       masterVars, netVars, localVars, evictVars, Puts, NoPut
  <2>4. ASSUME Types, OwnerPutPublish PROVE Types'
    BY <2>4, Zenon DEF OwnerPutPublish, Types, MasterTypes, OwnerTypes,
       masterVars, netVars, localVars, evictVars, Puts, NoPut
  <2>5. ASSUME Types, OtherPut PROVE Types'
    BY <2>5 DEF OtherPut, Types, MasterTypes, OwnerTypes,
       masterVars, netVars, localVars, evictVars
  <2>6. ASSUME Types, MasterDelete PROVE Types'
    BY <2>6, Zenon DEF MasterDelete, Types, MasterTypes, OwnerTypes,
       masterVars, netVars, localVars, evictVars, NoRoute
  <2>7. ASSUME Types, NEW g \in Gens, BroadcastSkipped(g) PROVE Types'
    BY <2>7, Zenon DEF BroadcastSkipped, Types, MasterTypes, OwnerTypes,
       masterVars, netVars, localVars, evictVars
  <2>8. ASSUME Types, NEW g \in Gens, BroadcastLost(g) PROVE Types'
    BY <2>8, Zenon DEF BroadcastLost, Types, MasterTypes, OwnerTypes,
       masterVars, netVars, localVars, evictVars
  <2>9. ASSUME Types, NEW g \in Gens, BroadcastApply(g) PROVE Types'
    BY <2>9, Zenon DEF BroadcastApply, Types, MasterTypes, OwnerTypes,
       masterVars, netVars, localVars, evictVars
  <2>10. ASSUME Types, ReadStart PROVE Types'
    BY <2>10, Zenon DEF ReadStart, Types, MasterTypes, OwnerTypes,
       masterVars, netVars, localVars, evictVars
  <2>11. ASSUME Types, NEW g \in Gens, ReadEnd(g) PROVE Types'
    BY <2>11, Zenon DEF ReadEnd, Types, MasterTypes, OwnerTypes,
       masterVars, netVars, localVars, evictVars
  <2>12. ASSUME Types, RemoteGetPlan PROVE Types'
    BY <2>12, Zenon DEF RemoteGetPlan, Types, MasterTypes, OwnerTypes,
       masterVars, netVars, localVars, evictVars
  <2>13. ASSUME Types, RemoteGetAcquire PROVE Types'
    BY <2>13, Zenon DEF RemoteGetAcquire, Types, MasterTypes, OwnerTypes,
       masterVars, netVars, localVars, evictVars
  <2>14. ASSUME Types, RemoteGetDone PROVE Types'
    BY <2>14, Zenon DEF RemoteGetDone, Types, MasterTypes, OwnerTypes,
       masterVars, netVars, localVars, evictVars
  <2>15. ASSUME Types, RemoteGetExpire PROVE Types'
    BY <2>15, Zenon DEF RemoteGetExpire, Types, MasterTypes, OwnerTypes,
       masterVars, netVars, localVars, evictVars
  <2>16. QED
    BY <2>1, <2>2, <2>3, <2>4, <2>5, <2>6, <2>7, <2>8, <2>9, <2>10, <2>11, <2>12, <2>13, <2>14, <2>15, Zenon DEF Put, Broadcast, Read, RemoteGet
\* The owner's gets and the job's own steps.
<1>JobTypes. Types /\ (OwnerGet \/ Job) => Types'
  <2>1. ASSUME Types, NEW ext \in BOOLEAN, OwnerGetPlan(ext) PROVE Types'
    BY <2>1, Zenon DEF OwnerGetPlan, Types, MasterTypes, OwnerTypes,
       masterVars, netVars, localVars, evictVars, Gets
  <2>2. ASSUME Types, OwnerGetExpire PROVE Types'
    BY <2>2, Zenon DEF OwnerGetExpire, Types, MasterTypes, OwnerTypes,
       masterVars, netVars, localVars, evictVars, Gets
  <2>3. ASSUME Types, OwnerGetInstall PROVE Types'
    <3>1. lget' \in Gets
      <4>1. CASE lget' = [lget EXCEPT !.pc = "hidden", !.guard = lput = NoPut]
        <5>1. (lput = NoPut) \in BOOLEAN
          BY Zenon
        <5>2. QED
          BY <2>3, <4>1, <5>1, Zenon DEF Types, OwnerTypes, Gets
      <4>2. CASE lget' = NoLGet
        BY <2>3, <4>2, Zenon DEF NoLGet, Gets
      <4>3. QED
        BY <2>3, <4>1, <4>2, Zenon DEF OwnerGetInstall
    <3>2. pend' \in Nat
      BY <2>3, Zenon DEF OwnerGetInstall, Types, OwnerTypes, Gets
    <3>3. QED
      BY <2>3, <3>1, <3>2, Zenon DEF OwnerGetInstall, Types, MasterTypes, OwnerTypes, netVars, localVars,
         evictVars
  <2>4. ASSUME Types, OwnerGetDone PROVE Types'
    BY <2>4, Zenon DEF OwnerGetDone, Types, MasterTypes, OwnerTypes,
       masterVars, netVars, localVars, evictVars, Gets
  <2>5. ASSUME Types, OwnerGetPromote PROVE Types'
    BY <2>5 DEF OwnerGetPromote, Types, MasterTypes, OwnerTypes,
       masterVars, netVars, localVars, evictVars, Gets, NoLGet
  <2>6. ASSUME Types, OwnerGetAbort PROVE Types'
    BY <2>6, Zenon DEF OwnerGetAbort, Types, MasterTypes, OwnerTypes,
       masterVars, netVars, localVars, evictVars, Gets, NoLGet
  <2>7. ASSUME Types, JobPlan PROVE Types'
    BY <2>7 DEF JobPlan, Types, MasterTypes, OwnerTypes,
       masterVars, netVars, localVars, evictVars, Jobs, JobPcs, Items
  <2>8. ASSUME Types, JobFence PROVE Types'
    <3>1. job' \in Jobs /\ net' \subseteq Requests /\ fence' \in Items
      <4>1. CASE fence' = job.item /\ Send("prepare", 0)
        BY <2>8, <4>1, SendMoves, Zenon DEF Phases, Types, MasterTypes, OwnerTypes, Jobs
      <4>2. CASE job' = NoJob /\ UNCHANGED <<fence, net>>
        BY <2>8, <4>2, Zenon DEF Types, MasterTypes, OwnerTypes, Jobs, JobPcs, NoJob, NoItem, Items
      <4>3. QED
        BY <2>8, <4>1, <4>2, Zenon DEF JobFence
    <3>2. QED
      BY <2>8, <3>1, Zenon DEF JobFence, Types, MasterTypes, OwnerTypes, netVars, localVars, evictVars
  <2>9. ASSUME Types, JobTimeout PROVE Types'
    BY <2>9, TimeoutMoves, Zenon DEF JobTimeout, Types, MasterTypes, OwnerTypes,
       masterVars, netVars, localVars, evictVars
  <2>10. ASSUME Types, JobValidate PROVE Types'
    <3>1. job' \in Jobs /\ net' \subseteq Requests
      <4>1. CASE Send("commit", 0)
        BY <2>10, <4>1, SendMoves, Zenon DEF Phases, Types, OwnerTypes
      <4>2. CASE job' = [job EXCEPT !.pc = "toabort"] /\ net' = net
        BY <2>10, <4>2, Zenon DEF Types, MasterTypes, OwnerTypes, Jobs, JobPcs
      <4>3. QED
        BY <2>10, <4>1, <4>2, Zenon DEF JobValidate
    <3>2. QED
      BY <2>10, <3>1, Zenon DEF JobValidate, Types, MasterTypes, OwnerTypes, netVars, localVars, evictVars
  <2>11. ASSUME Types, JobAbort PROVE Types'
    <3>1. job.try \in Nat
      BY <2>11, Zenon DEF Types, MasterTypes, Jobs
    <3>2. job' \in Jobs /\ net' \subseteq Requests
      BY <2>11, <3>1, SendMoves, Zenon DEF JobAbort, Phases, Types, OwnerTypes
    <3>3. QED
      BY <2>11, <3>2, Zenon DEF JobAbort, Types, MasterTypes, OwnerTypes, netVars, localVars, evictVars
  <2>12. ASSUME Types, JobFinish PROVE Types'
    <3>1. job.try \in Nat
      BY <2>12, Zenon DEF Types, MasterTypes, Jobs
    <3>2. job' \in Jobs /\ net' \subseteq Requests
      BY <2>12, <3>1, SendMoves, Zenon DEF JobFinish, Phases, Types, OwnerTypes
    <3>3. QED
      BY <2>12, <3>2, Zenon DEF JobFinish, Types, MasterTypes, OwnerTypes, netVars, localVars, evictVars, NoRoute
  <2>13. ASSUME Types, JobFinalizeRetry PROVE Types'
    <3>1. job.try \in Nat
      BY <2>13, Zenon DEF Types, MasterTypes, Jobs
    <3>2. job' \in Jobs /\ net' \subseteq Requests
      BY <2>13, <3>1, SendMoves, Zenon DEF JobFinalizeRetry, Phases, Types, OwnerTypes
    <3>3. QED
      BY <2>13, <3>2, Zenon DEF JobFinalizeRetry, Types, MasterTypes, OwnerTypes, netVars, localVars, evictVars
  <2>14. ASSUME Types, JobClear PROVE Types'
    BY <2>14, Zenon DEF JobClear, Types, MasterTypes, OwnerTypes,
       masterVars, netVars, localVars, evictVars, Jobs, JobPcs, NoJob, NoItem, Items
  <2>15. QED
    BY <2>1, <2>2, <2>3, <2>4, <2>5, <2>6, <2>7, <2>8, <2>9, <2>10, <2>11, <2>12, <2>13, <2>14, Zenon DEF OwnerGet, Job
\* The owner's side of a reclaim.
<1>PhaseTypes. Types /\ OwnerPhase => Types'
  <2>1. ASSUME Types, NEW m \in net, HandlePrepare(m) PROVE Types'
    <3>1. m \in Requests /\ m.item \in Items
      BY <2>1, Zenon DEF Types, OwnerTypes, Requests
    <3>2. PrepareEffect(m.item, PrepareStep(m.item)) /\ net' = net \ {m}
      BY <2>1, Zenon DEF HandlePrepare
    <3>3. rec' \in Records /\ idx' \in Nat /\ sel' \in Nat
          /\ PrepareAnswer(PrepareStep(m.item)) \in Answers
      BY <2>1, <3>1, <3>2, PrepareTypes, Zenon
    <3>4. job' \in Jobs /\ probes' \subseteq Probes
      <4>1. CASE probes' = probes \cup {[req |-> m, seen |-> "no"]} /\ UNCHANGED job
        BY <2>1, <3>1, <4>1 DEF Types, MasterTypes, OwnerTypes, Probes
      <4>2. CASE Answer(m, PrepareAnswer(PrepareStep(m.item))) /\ UNCHANGED probes
        BY <2>1, <3>1, <3>3, <4>2, AnswerMoves, Zenon DEF Types, OwnerTypes
      <4>3. QED
        BY <2>1, <4>1, <4>2, Zenon DEF HandlePrepare
    <3>5. QED
      BY <2>1, <3>2, <3>3, <3>4, Zenon DEF HandlePrepare, Types, MasterTypes, OwnerTypes, evictVars
  <2>2. ASSUME Types, NEW m \in net, CommitBegin(m) PROVE Types'
    BY <2>2, Zenon DEF CommitBegin, Types, MasterTypes, OwnerTypes, masterVars, evictVars, Records
  <2>3. ASSUME Types, NEW m \in net, CommitRefused(m) PROVE Types'
    <3>1. m \in Requests
      BY <2>3, Zenon DEF Types, OwnerTypes
    <3>2. job' \in Jobs
      BY <2>3, <3>1, AnswerMoves, Zenon DEF CommitRefused, Answers
    <3>3. QED
      BY <2>3, <3>2, Zenon DEF CommitRefused, Types, MasterTypes, OwnerTypes, localVars, evictVars
  <2>4. ASSUME Types, NEW m \in net, HandleAbort(m) PROVE Types'
    <3>1. m \in Requests
      BY <2>4, Zenon DEF Types, OwnerTypes
    <3>2. PICK a \in Answers : Answer(m, a)
      BY <2>4, Zenon DEF HandleAbort, Answers
    <3>3. job' \in Jobs
      BY <2>4, <3>1, <3>2, AnswerMoves, Zenon
    <3>4. rec' \in Records /\ idx' \in Nat
      BY <2>4, Zenon DEF HandleAbort, Types, OwnerTypes, Records, NoRec, NoItem, Items
    <3>5. QED
      BY <2>4, <3>3, <3>4, Zenon DEF HandleAbort, Types, MasterTypes, OwnerTypes, evictVars
  <2>5. ASSUME Types, NEW m \in net, HandleFinalize(m) PROVE Types'
    <3>1. m \in Requests
      BY <2>5, Zenon DEF Types, OwnerTypes
    <3>2. PICK a \in Answers : Answer(m, a)
      BY <2>5, Zenon DEF HandleFinalize, Answers
    <3>3. job' \in Jobs
      BY <2>5, <3>1, <3>2, AnswerMoves, Zenon
    <3>4. rec' \in Records
      BY <2>5, Zenon DEF HandleFinalize, Types, OwnerTypes, Records, NoRec, NoItem, Items
    <3>5. QED
      BY <2>5, <3>3, <3>4, Zenon DEF HandleFinalize, Types, MasterTypes, OwnerTypes, evictVars
  <2>6. ASSUME Types, NEW p \in probes, ProbeSlot(p) PROVE Types'
    <3>1. probes' \subseteq Probes
      BY <2>6, Zenon DEF ProbeSlot, Types, OwnerTypes, Probes
    <3>2. QED
      BY <2>6, <3>1, Zenon DEF ProbeSlot, Types, MasterTypes, OwnerTypes, masterVars, netVars, evictVars
  <2>7. ASSUME Types, NEW p \in probes, ProbeInstall(p) PROVE Types'
    <3>1. p.req \in Requests /\ p.req.item \in Items
      BY <2>7, Zenon DEF Types, OwnerTypes, Probes, Requests
    <3>2. PICK a \in Answers : Answer(p.req, a)
      BY <2>7, Zenon DEF ProbeInstall, Answers
    <3>3. job' \in Jobs
      BY <2>7, <3>1, <3>2, AnswerMoves, Zenon
    <3>4. rec' \in Records /\ probes' \subseteq Probes
      BY <2>7, <3>1, Zenon DEF ProbeInstall, Types, OwnerTypes, Records, Prepared
    <3>5. QED
      BY <2>7, <3>3, <3>4, Zenon DEF ProbeInstall, Types, MasterTypes, OwnerTypes, netVars, evictVars
  <2>8. ASSUME Types, CommitEnd PROVE Types'
    <3>1. Request("commit", rec.item, 0) \in Requests
      BY <2>8, Zenon DEF Types, OwnerTypes, Records, Request, Requests, Phases
    <3>2. job' \in Jobs
      BY <2>8, <3>1, AnswerMoves, Zenon DEF CommitEnd, Answers
    <3>3. rec' \in Records /\ evict' \in Evicts
      BY <2>8, Zenon DEF CommitEnd, Types, OwnerTypes, Records, Evicts
    <3>4. QED
      BY <2>8, <3>2, <3>3, Zenon DEF CommitEnd, Types, MasterTypes, OwnerTypes, netVars
  <2>9. QED
    BY <2>1, <2>2, <2>3, <2>4, <2>5, <2>6, <2>7, <2>8, Zenon DEF OwnerPhase
\* The eviction worker.
<1>EvictTypes. Types /\ Evict => Types'
  <2>1. ASSUME Types, EvictSelect PROVE Types'
    BY <2>1, Zenon DEF EvictSelect, Types, MasterTypes, OwnerTypes, masterVars, netVars, Evicts, Outcomes
  <2>2. ASSUME Types, NEW r \in BOOLEAN, EvictSend(r) PROVE Types'
    <3>1. hand' \in [1..MaxOp -> Handlers]
      BY <2>2, Zenon DEF EvictSend, Types, MasterTypes, OwnerTypes, Handlers, Evicts
    <3>2. evict' \in Evicts /\ op' \in Nat
      BY <2>2 DEF EvictSend, Types, OwnerTypes, Evicts
    <3>3. QED
      BY <2>2, <3>1, <3>2, Zenon DEF EvictSend, Types, MasterTypes, OwnerTypes, netVars, localVars
  <2>3. ASSUME Types, EvictTimeout PROVE Types'
    BY <2>3, Zenon DEF EvictTimeout, Types, MasterTypes, OwnerTypes, masterVars, netVars, localVars, Evicts
  <2>4. ASSUME Types, FinishSelection PROVE idx' \in Nat /\ sel' \in Nat /\ evict' \in Evicts
                                           /\ rec' \in Records
    BY <2>4, Zenon DEF FinishSelection, Types, OwnerTypes, Evicts, NoEvict, Outcomes
  <2>5. ASSUME Types, EvictLost PROVE Types'
    BY <2>4, <2>5, Zenon DEF EvictLost, Types, MasterTypes, OwnerTypes, masterVars, netVars
  <2>6. ASSUME Types, EvictAnswered PROVE Types'
    <3>1. idx' \in Nat /\ sel' \in Nat /\ evict' \in Evicts /\ rec' \in Records
      <4>1. CASE FinishSelection
        BY <2>4, <2>6, <4>1, Zenon
      <4>2. CASE /\ PrepareEffect(EvictItem(evict.gen, op), PrepareStep(EvictItem(evict.gen, op)))
                 /\ \E pc \in {"commit", "send"} : evict' = [evict EXCEPT !.pc = pc]
        <5>1. EvictItem(evict.gen, op) \in Items
          BY <2>6, Zenon DEF EvictItem, Items, Types, OwnerTypes, Evicts
        <5>2. evict' \in Evicts
          BY <2>6, <4>2, Zenon DEF Types, OwnerTypes, Evicts
        <5>3. QED
          BY <2>6, <4>2, <5>1, <5>2, PrepareTypes, Zenon
      <4>3. CASE evict' = [evict EXCEPT !.pc = "send"] /\ UNCHANGED <<rec, sel, idx>>
        BY <2>6, <4>3, Zenon DEF Types, OwnerTypes, Evicts
      <4>4. QED
        BY <2>6, <4>1, <4>2, <4>3, Zenon DEF EvictAnswered
    <3>2. QED
      BY <2>6, <3>1, Zenon DEF EvictAnswered, Types, MasterTypes, OwnerTypes, masterVars, netVars
  <2>7. ASSUME Types, EvictCommit PROVE Types'
    BY <2>7, Zenon DEF EvictCommit, Types, MasterTypes, OwnerTypes, masterVars, netVars, Evicts, Records
  <2>8. ASSUME Types, EvictRelease PROVE Types'
    BY <2>8, Zenon DEF EvictRelease, Types, MasterTypes, OwnerTypes, masterVars, netVars, Evicts, Records
  <2>9. ASSUME Types, EvictFinalize PROVE Types'
    BY <2>9, Zenon DEF EvictFinalize, Types, MasterTypes, OwnerTypes, masterVars, netVars, Evicts, NoEvict,
       Outcomes, Records, NoRec, NoItem, Items
  <2>10. QED
    BY <2>1, <2>2, <2>3, <2>5, <2>6, <2>7, <2>8, <2>9, Zenon DEF Evict
\* The route a handler leaves behind.
<1>HandlerTypes. Types /\ EvictHandler => Types'
  <2> SUFFICES ASSUME Types, NEW o \in 1..MaxOp,
                      \/ EvictFence(o) \/ EvictReplan(o)
                      \/ \E out \in EvictDecisions(hand[o]) : EvictApply(o, out)
               PROVE  Types'
    BY Zenon DEF EvictHandler
  <2>1. hand[o].pc \in {"sent", "fenced", "ready"}
    BY Zenon DEF EvictFence, EvictReplan, EvictApply
  <2>2. hand' \in [1..MaxOp -> Handlers] /\ evict' \in Evicts /\ fence' \in Items
    BY <2>1, HandlerMoves, Zenon
  <2>3. route' \in [gen : Nat, own : BOOLEAN, indexed : BOOLEAN]
    <3>1. route' \in {route, NoRoute, [route EXCEPT !.indexed = FALSE]}
      BY Zenon DEF EvictFence, EvictReplan, EvictApply
    <3>2. CASE route' = [route EXCEPT !.indexed = FALSE]
      BY <3>2, Zenon DEF Types, MasterTypes
    <3>3. CASE route' = NoRoute
      BY <3>3, Zenon DEF NoRoute
    <3>4. QED
      BY <3>1, <3>2, <3>3, Zenon DEF Types, MasterTypes
  <2>4. UNCHANGED <<nextGen, epoch, job, netVars, localVars, op, lget>>
    BY Zenon DEF EvictFence, EvictReplan, EvictApply
  <2>5. QED
    BY <2>2, <2>3, <2>4, Zenon DEF Types, MasterTypes, OwnerTypes, netVars, localVars
<1>1. Types /\ UNCHANGED vars => Types'
  BY Zenon DEF vars, masterVars, netVars, localVars, evictVars, Types, MasterTypes, OwnerTypes
<1>2. QED
  BY <1>1, <1>DataTypes, <1>JobTypes, <1>PhaseTypes, <1>EvictTypes, <1>HandlerTypes, Zenon DEF Next

-----------------------------------------------------------------------------
protocolVars == <<epoch, fence, job, hand, net, probes, rec, sel, evict>>

\* Nothing is fenced, sent or released at first.
LEMMA InitProtocol == Init => ProtocolInv
<1> SUFFICES ASSUME Init PROVE ProtocolInv
  BY Zenon
<1>1. FenceOwner
  BY Zenon DEF Init, FenceOwner, Active, NoJob, NoItem
<1>2. NetItems /\ PrepareFirst /\ CommitLast
  BY Zenon DEF Init, NetItems, PrepareFirst, CommitLast, Preparing, NoJob, NoRec, NoItem
<1>3. ReleaseHeld /\ LocalReclaim
  BY Zenon DEF Init, ReleaseHeld, LocalReclaim, NoRec, NoItem, NoEvict
<1>4. QED
  BY <1>1, <1>2, <1>3, Zenon DEF ProtocolInv

\* Puts, deletes, broadcasts, readers and gets do not touch the protocol.
LEMMA DataProtocol ==
  Put \/ MasterDelete \/ Broadcast \/ Read \/ RemoteGet \/ OwnerGet => UNCHANGED protocolVars
<1>1. Put \/ MasterDelete => UNCHANGED protocolVars
  BY Zenon DEF Put, OwnerPutStart, OwnerPutCommit, OwnerPutFail, OwnerPutPublish, OtherPut, MasterDelete,
     protocolVars, masterVars, netVars, localVars, evictVars
<1>2. Broadcast \/ Read => UNCHANGED protocolVars
  BY Zenon DEF Broadcast, BroadcastSkipped, BroadcastLost, BroadcastApply, Read, ReadStart, ReadEnd,
     protocolVars, masterVars, netVars, localVars, evictVars
<1>3. RemoteGet => UNCHANGED protocolVars
  BY Zenon DEF RemoteGet, RemoteGetPlan, RemoteGetAcquire, RemoteGetDone, RemoteGetExpire,
     protocolVars, masterVars, netVars, localVars, evictVars
<1>4. OwnerGet => UNCHANGED protocolVars
  BY Zenon DEF OwnerGet, OwnerGetPlan, OwnerGetExpire, OwnerGetInstall, OwnerGetDone, OwnerGetPromote,
     OwnerGetAbort, protocolVars, masterVars, netVars, localVars, evictVars
<1>5. QED
  BY <1>1, <1>2, <1>3, <1>4, Zenon

\* Which side an item belongs to.
LEMMA OwnerItem == \A g, o : EvictItem(g, o).why = "owner" /\ EvictItem(g, o).epoch = o
BY Zenon DEF EvictItem

\* The empty item is nobody's.
LEMMA NoItemWhy == NoItem.why = "none"
BY Zenon DEF NoItem

-----------------------------------------------------------------------------
(* The owner's answers.                                                    *)

\* An answer leaves the fence with its job, and no job goes back to planning.
LEMMA AnswerProtocol ==
  ASSUME Types, ProtocolInv, NEW m \in Requests, NEW a \in Answers, Answer(m, a),
         UNCHANGED <<epoch, fence, hand>>
  PROVE  /\ FenceOwner'
         /\ job'.pc = "planned" => job.pc = "planned"
         /\ job' # job => Moved(m, a) /\ fence = m.item
<1>1. job'.item = job.item /\ (job' = job \/ Moved(m, a)) /\ m.ph \in Phases
  BY AnswerMoves, Zenon DEF Requests
<1>2. CASE job' = job
  BY <1>2, Zenon DEF ProtocolInv, FenceOwner, Active
<1>3. CASE Moved(m, a)
  <2>1. job.pc = m.ph /\ job.item = m.item
    BY <1>3, Zenon DEF Moved
  <2>2. job'.pc \notin {"idle", "planned"} /\ Active
    BY <1>1, <1>3, <2>1, Zenon DEF Moved, Phases, Active
  <2>3. fence = m.item
    BY <2>1, <2>2, Zenon DEF ProtocolInv, FenceOwner
  <2>4. QED
    BY <1>1, <1>3, <2>2, <2>3, Zenon DEF ProtocolInv, FenceOwner, Active
<1>4. QED
  BY <1>1, <1>2, <1>3, Zenon

\* What prepare_one does to the record and the selection.
LEMMA PrepareSteps ==
  ASSUME LocalReclaim, NEW i, NEW st, st = PrepareStep(i), PrepareEffect(i, st)
  PROVE  /\ \/ rec' = rec /\ sel' = sel
            \/ /\ rec = NoRec /\ rec'.item = i /\ rec'.st = "Prepared" /\ sel' = 0
               /\ PrepareAnswer(st) = "Prepared"
         /\ PrepareAnswer(st) = "Prepared" => rec'.item = i /\ rec'.st = "Prepared"
         /\ PrepareAnswer(st) = "Committed" => rec.item = i
<1>1. CASE st = "fromSelection"
  <2>1. rec = NoRec
    BY <1>1, Zenon DEF PrepareStep, LocalReclaim
  <2>2. QED
    BY <1>1, <2>1, Zenon DEF PrepareEffect, PrepareAnswer, Prepared
<1>2. CASE st = "fromIndex"
  <2>1. rec = NoRec /\ sel = 0
    BY <1>2, Zenon DEF PrepareStep
  <2>2. QED
    BY <1>2, <2>1, Zenon DEF PrepareEffect, PrepareAnswer, Prepared
<1>3. CASE st \notin {"fromSelection", "fromIndex"}
  <2>1. st = "prepared" => rec.item = i /\ rec.st = "Prepared"
    BY Zenon DEF PrepareStep
  <2>2. st = "committed" => rec.item = i
    BY Zenon DEF PrepareStep
  <2>3. QED
    BY <1>3, <2>1, <2>2, Zenon DEF PrepareEffect, PrepareAnswer
<1>4. QED
  BY <1>1, <1>2, <1>3, Zenon

-----------------------------------------------------------------------------
(* The eviction.                                                           *)

\* Every step keeps the protocol's invariant.
LEMMA StepProtocol == Types /\ ProtocolInv /\ [Next]_vars => ProtocolInv'
\* A step that leaves the protocol's variables alone.
<1>ProtocolFrame. ProtocolInv /\ UNCHANGED protocolVars => ProtocolInv'
  <2> SUFFICES ASSUME ProtocolInv, UNCHANGED protocolVars PROVE ProtocolInv'
    BY Zenon
  <2>1. FenceOwner' /\ ReleaseHeld' /\ LocalReclaim'
    BY Zenon DEF ProtocolInv, protocolVars, FenceOwner, Active, ReleaseHeld, LocalReclaim
  <2>2. NetItems' /\ PrepareFirst' /\ CommitLast'
    BY Zenon DEF ProtocolInv, protocolVars, NetItems, PrepareFirst, CommitLast, Preparing
  <2>3. QED
    BY <2>1, <2>2, Zenon DEF ProtocolInv
\* Every step of the master's reclaim job (reclaim_items).
<1>JobProtocol. Types /\ ProtocolInv /\ Job => ProtocolInv'
  \* The steps of the job.
  <2>PlanProtocol. Types /\ ProtocolInv /\ JobPlan => ProtocolInv'
    <3> SUFFICES ASSUME Types, ProtocolInv, JobPlan PROVE ProtocolInv'
      BY Zenon
    <3>1. /\ job.pc = "idle" /\ epoch \in Nat /\ epoch' = epoch + 1
          /\ job'.pc = "planned" /\ job'.item.why = "master" /\ job'.item.epoch = epoch'
      BY Zenon DEF JobPlan, NoJob, Types, MasterTypes
    <3>2. UNCHANGED <<fence, hand, net, probes, rec, sel, evict>>
      BY Zenon DEF JobPlan, netVars, localVars, evictVars
    <3>3. /\ \A m \in net : m.item.epoch \in Nat
          /\ \A p \in probes : p.req.item.epoch \in Nat
          /\ rec.item.epoch \in Nat
      BY Zenon DEF Types, OwnerTypes, Requests, Probes, Records, Items
    <3>4. FenceOwner' /\ ReleaseHeld' /\ LocalReclaim'
      BY <3>1, <3>2, Zenon DEF ProtocolInv, FenceOwner, Active, ReleaseHeld, LocalReclaim
    <3>5. NetItems'
      BY <3>1, <3>2, <3>3 DEF ProtocolInv, NetItems
    <3>6. PrepareFirst'
      BY <3>1, <3>2, Zenon DEF ProtocolInv, PrepareFirst, Preparing
    <3>7. \A m \in net : m.item # job'.item
      BY <3>1, <3>3 DEF ProtocolInv, NetItems
    <3>8. CommitLast'
      BY <3>1, <3>2, <3>7, Zenon DEF ProtocolInv, CommitLast
    <3>9. QED
      BY <3>4, <3>5, <3>6, <3>8, Zenon DEF ProtocolInv
  \* A request sent by a job that has the fence.
  <2>SendProtocol. ASSUME Types, ProtocolInv, NEW ph \in {"commit", "abort", "finalize"}, NEW t \in Nat,
                          Active, job.pc # "prepare", ph = "commit" => job.pc = "prepared",
                          ph = "finalize" => job.pc \in {"finish", "tofinalize"},
                          Send(ph, t), UNCHANGED <<epoch, fence, hand, probes, rec, sel, evict>>
                   PROVE  ProtocolInv'
    <3> USE <2>SendProtocol
    <3>1. /\ net' = net \cup {Request(ph, job.item, t)}
          /\ job'.item = job.item /\ job'.pc = ph
      BY SendMoves, Zenon DEF Phases
    <3>2. /\ Request(ph, job.item, t).item = job.item /\ Request(ph, job.item, t).ph = ph
      BY Zenon DEF Request
    <3>3. fence = job.item /\ job.item.why = "master" /\ job.item.epoch = epoch /\ epoch \in Nat
          /\ job.pc # "planned"
      BY Zenon DEF ProtocolInv, FenceOwner, Active, Types, MasterTypes
    <3>4. FenceOwner' /\ ReleaseHeld' /\ LocalReclaim'
      BY <3>1, <3>3, Zenon DEF ProtocolInv, FenceOwner, Active, ReleaseHeld, LocalReclaim
    <3>5. NetItems'
      <4>1. \A m \in net' : m.item.why = "master" /\ m.item.epoch <= epoch
        BY <3>1, <3>2, <3>3 DEF ProtocolInv, NetItems
      <4>2. job'.pc # "planned"
        BY <3>1, Zenon
      <4>3. QED
        BY <4>1, <4>2, Zenon DEF ProtocolInv, NetItems
    <3>6. Preparing' = Preparing
      BY <3>1, <3>2, Zenon DEF Preparing
    <3>7. PrepareFirst'
      BY <3>1, <3>2, <3>6 DEF ProtocolInv, PrepareFirst
    <3>8. CommitLast'
      BY <3>1, <3>2, <3>3, Zenon DEF ProtocolInv, CommitLast
    <3>9. QED
      BY <3>4, <3>5, <3>7, <3>8, Zenon DEF ProtocolInv
  \* The job takes the fence of a planned item (reclaim_items).
  <2>FenceProtocol. Types /\ ProtocolInv /\ JobFence => ProtocolInv'
    <3> SUFFICES ASSUME Types, ProtocolInv, JobFence PROVE ProtocolInv'
      BY Zenon
    <3>1. /\ job.pc = "planned" /\ job.item.why = "master" /\ job.item.epoch = epoch /\ epoch \in Nat
          /\ UNCHANGED <<epoch, hand, probes, rec, sel, evict>>
      BY Zenon DEF JobFence, ProtocolInv, FenceOwner, Types, MasterTypes, localVars, evictVars
    <3>2. CASE job' = NoJob /\ UNCHANGED <<fence, net>>
      <4>1. job'.pc = "idle"
        BY <3>2, Zenon DEF NoJob
      <4>2. FenceOwner' /\ ReleaseHeld' /\ LocalReclaim'
        BY <3>1, <3>2, <4>1, Zenon DEF ProtocolInv, FenceOwner, Active, ReleaseHeld, LocalReclaim
      <4>3. NetItems' /\ PrepareFirst' /\ CommitLast'
        BY <3>1, <3>2, <4>1, Zenon DEF ProtocolInv, NetItems, PrepareFirst, CommitLast, Preparing
      <4>4. QED
        BY <4>2, <4>3, Zenon DEF ProtocolInv
    <3>3. CASE fence = NoItem /\ fence' = job.item /\ Send("prepare", 0)
      <4> DEFINE r == Request("prepare", job.item, 0)
      <4>1. /\ net' = net \cup {r} /\ job'.item = job.item /\ job'.pc = "prepare"
        BY <3>3, SendMoves, Zenon DEF Phases
      <4>2. r.item = job.item /\ r.ph = "prepare"
        BY Zenon DEF Request
      <4> HIDE DEF r
      <4>3. fence.why = "none"
        BY <3>3, Zenon DEF NoItem
      <4>4. /\ \A m \in net : m.item.epoch \in Nat
            /\ \A p \in probes : p.req.item.epoch \in Nat
            /\ rec.item.epoch \in Nat
        BY Zenon DEF Types, OwnerTypes, Requests, Probes, Records, Items
      <4>5. /\ \A m \in net : m.item # job.item
            /\ \A p \in probes : p.req.item # job.item
            /\ rec.item # job.item
        BY <3>1, <4>4 DEF ProtocolInv, NetItems
      <4>6. FenceOwner'
        BY <3>1, <3>3, <4>1, <4>3 DEF ProtocolInv, FenceOwner, Active, EvictItem
      <4>7. NetItems'
        BY <3>1, <4>1, <4>2 DEF ProtocolInv, NetItems
      <4>8. Preparing' = Preparing \cup {r}
        BY <3>1, <4>1, <4>2, Zenon DEF Preparing
      <4>9. PrepareFirst'
        <5>1. ASSUME NEW q \in Preparing
              PROVE  /\ rec'.item # q.item
                     /\ \A m \in net' : m.ph = "commit" => m.item # q.item
                     /\ job'.pc \notin {"prepared", "commit", "finish", "finalize", "tofinalize"}
          BY <3>1, <4>1, <4>2, Zenon DEF ProtocolInv, PrepareFirst
        <5>2. /\ rec'.item # r.item /\ \A m \in net' : m.ph = "commit" => m.item # r.item
          BY <3>1, <4>1, <4>2, <4>5, Zenon
        <5>3. /\ \A m, n \in net' : m.ph = "prepare" /\ n.ph = "prepare" /\ m.item = n.item => m = n
              /\ \A p, q \in probes' : p.req.item = q.req.item => p = q
              /\ \A m \in net', p \in probes' : m.ph = "prepare" => m.item # p.req.item
          BY <3>1, <4>1, <4>2, <4>5 DEF ProtocolInv, PrepareFirst
        <5>4. QED
          BY <4>1, <4>8, <5>1, <5>2, <5>3 DEF PrepareFirst
      <4>10. CommitLast'
        <5>1. \A m \in net : m.ph = "commit" => rec.item # m.item
          BY <4>3, Zenon DEF ProtocolInv, CommitLast, NetItems
        <5>2. QED
          BY <3>1, <4>1, <4>2, <4>5, <5>1, Zenon DEF CommitLast
      <4>11. ReleaseHeld' /\ LocalReclaim'
        BY <3>1, <4>3, Zenon DEF ProtocolInv, ReleaseHeld, LocalReclaim
      <4>12. QED
        BY <4>6, <4>7, <4>9, <4>10, <4>11, Zenon DEF ProtocolInv
    <3>4. QED
      BY <3>2, <3>3, Zenon DEF JobFence
  <2>1. ASSUME Types, ProtocolInv, JobTimeout PROVE ProtocolInv'
    <3>1. /\ job.pc \in Phases /\ job'.item = job.item
          /\ job'.pc \in {"toabort", "stuck"} \/ (job.pc = "finalize" /\ job'.pc = "tofinalize")
      BY <2>1, TimeoutMoves, Zenon
    <3>2. UNCHANGED <<epoch, fence, hand, net, probes, rec, sel, evict>>
      BY <2>1, Zenon DEF JobTimeout, netVars, localVars, evictVars
    <3>3. FenceOwner' /\ ReleaseHeld' /\ LocalReclaim'
      BY <2>1, <3>1, <3>2, Zenon DEF ProtocolInv, FenceOwner, Active, ReleaseHeld, LocalReclaim, Phases
    <3>4. NetItems' /\ CommitLast'
      BY <2>1, <3>1, <3>2, Zenon DEF ProtocolInv, NetItems, CommitLast, Phases
    <3>5. PrepareFirst'
      BY <2>1, <3>1, <3>2, Zenon DEF ProtocolInv, PrepareFirst, Preparing
    <3>6. QED
      BY <3>3, <3>4, <3>5, Zenon DEF ProtocolInv
  <2>2. ASSUME Types, ProtocolInv, JobValidate PROVE ProtocolInv'
    <3>1. job.pc = "prepared" /\ UNCHANGED <<epoch, fence, hand, probes, rec, sel, evict>>
      BY <2>2, Zenon DEF JobValidate, localVars, evictVars
    <3>2. CASE Send("commit", 0)
      BY <2>2, <3>1, <3>2, <2>SendProtocol, Zenon DEF Active
    <3>3. CASE job' = [job EXCEPT !.pc = "toabort"] /\ UNCHANGED net
      <4>1. job'.pc = "toabort" /\ job'.item = job.item
        BY <2>2, <3>3, Zenon DEF Types, MasterTypes, Jobs
      <4>2. FenceOwner' /\ ReleaseHeld' /\ LocalReclaim'
        BY <2>2, <3>1, <4>1, Zenon DEF ProtocolInv, FenceOwner, Active, ReleaseHeld, LocalReclaim
      <4>3. NetItems' /\ CommitLast' /\ PrepareFirst'
        BY <2>2, <3>1, <3>3, <4>1, Zenon DEF ProtocolInv, NetItems, CommitLast, PrepareFirst, Preparing
      <4>4. QED
        BY <4>2, <4>3, Zenon DEF ProtocolInv
    <3>4. QED
      BY <2>2, <3>2, <3>3, Zenon DEF JobValidate
  <2>3. ASSUME Types, ProtocolInv, JobAbort PROVE ProtocolInv'
    <3>1. job.try \in Nat
      BY <2>3, Zenon DEF Types, MasterTypes, Jobs
    <3>2. /\ job.pc = "toabort" /\ Send("abort", job.try)
          /\ UNCHANGED <<epoch, fence, hand, probes, rec, sel, evict>>
      BY <2>3, Zenon DEF JobAbort, localVars, evictVars
    <3>3. QED
      BY <2>3, <3>1, <3>2, <2>SendProtocol, Zenon DEF Active
  <2>4. ASSUME Types, ProtocolInv, JobFinish PROVE ProtocolInv'
    <3>1. /\ job.pc = "finish" /\ Send("finalize", 0)
          /\ UNCHANGED <<epoch, fence, hand, probes, rec, sel, evict>>
      BY <2>4, Zenon DEF JobFinish, localVars, evictVars
    <3>2. QED
      BY <2>4, <3>1, <2>SendProtocol, Zenon DEF Active
  <2>5. ASSUME Types, ProtocolInv, JobFinalizeRetry PROVE ProtocolInv'
    <3>1. job.try \in Nat
      BY <2>5, Zenon DEF Types, MasterTypes, Jobs
    <3>2. /\ job.pc = "tofinalize" /\ Send("finalize", job.try)
          /\ UNCHANGED <<epoch, fence, hand, probes, rec, sel, evict>>
      BY <2>5, Zenon DEF JobFinalizeRetry, localVars, evictVars
    <3>3. QED
      BY <2>5, <3>1, <3>2, <2>SendProtocol, Zenon DEF Active
  <2>6. ASSUME Types, ProtocolInv, JobClear PROVE ProtocolInv'
    <3>0. fence = job.item /\ fence.why = "master" /\ job.pc = "clear"
      BY <2>6, Zenon DEF JobClear, ProtocolInv, FenceOwner, Active
    <3>1. /\ job'.pc = "idle" /\ fence' = NoItem /\ fence'.why = "none"
      BY <2>6, <3>0, Zenon DEF JobClear, NoJob, NoItem
    <3>2. UNCHANGED <<epoch, hand, net, probes, rec, sel, evict>>
      BY <2>6, Zenon DEF JobClear, netVars, localVars, evictVars
    <3>3. FenceOwner'
      <4>1. \A o \in 1..MaxOp : hand[o].pc \notin {"fenced", "ready"}
        BY <2>6, <3>0, OwnerItem DEF ProtocolInv, FenceOwner
      <4>2. QED
        BY <3>1, <3>2, <4>1, Zenon DEF FenceOwner, Active
    <3>4. ReleaseHeld' /\ LocalReclaim'
      BY <2>6, <3>0, <3>1, <3>2, Zenon DEF ProtocolInv, ReleaseHeld, LocalReclaim
    <3>5. NetItems' /\ CommitLast'
      BY <2>6, <3>0, <3>1, <3>2, Zenon DEF ProtocolInv, NetItems, CommitLast
    <3>6. PrepareFirst'
      BY <2>6, <3>0, <3>1, <3>2, Zenon DEF ProtocolInv, PrepareFirst, Preparing
    <3>7. QED
      BY <3>3, <3>4, <3>5, <3>6, Zenon DEF ProtocolInv
  <2>7. QED
    BY <2>1, <2>2, <2>3, <2>4, <2>5, <2>6, <2>PlanProtocol, <2>FenceProtocol, Zenon DEF Job
\* Every phase handled by the owner (handle_batch_owner_reclaim).
<1>PhaseProtocol. Types /\ ProtocolInv /\ OwnerPhase => ProtocolInv'
  \* The first answer to an item: the Prepare (or its probe) is gone, and the
  \* record is what it was or a Prepared record of this item.
  <2>FirstContact. ASSUME Types, ProtocolInv, NEW m \in Requests, NEW a \in Answers, Answer(m, a),
                          m \in Preparing, UNCHANGED <<epoch, fence, hand, evict>>,
                          net' \subseteq net, probes' \subseteq probes, \A q \in Preparing' : q.item # m.item,
                          \/ rec' = rec /\ sel' \in {sel, 0}
                          \/ rec = NoRec /\ rec'.item = m.item /\ rec'.st = "Prepared" /\ sel' = 0
                   PROVE  ProtocolInv'
    <3> USE <2>FirstContact
    <3>1. /\ FenceOwner' /\ (job'.pc = "planned" => job.pc = "planned")
          /\ job'.item = job.item
          /\ job' # job => job.item = m.item /\ fence = m.item
      BY AnswerProtocol, AnswerMoves, Zenon DEF Moved
    <3>2. Preparing' \subseteq Preparing
      BY Zenon DEF Preparing
    <3>3. /\ rec.item # m.item /\ \A n \in net : n.ph = "commit" => n.item # m.item
          /\ m.item.why = "master" /\ m.item.epoch <= epoch
          /\ job.pc = "planned" => m.item.epoch < epoch
      BY Zenon DEF ProtocolInv, PrepareFirst, NetItems, Preparing
    <3>4. NetItems'
      <4>1. CASE rec' = rec
        BY <3>1, <4>1, Zenon DEF ProtocolInv, NetItems
      <4>2. CASE rec'.item = m.item
        BY <3>1, <3>3, <4>2, Zenon DEF ProtocolInv, NetItems
      <4>3. QED
        BY <4>1, <4>2, Zenon
    <3>5. PrepareFirst'
      <4>1. ASSUME NEW q \in Preparing'
            PROVE  /\ rec'.item # q.item
                   /\ \A n \in net' : n.ph = "commit" => n.item # q.item
                   /\ q.item = job'.item =>
                        job'.pc \notin {"prepared", "commit", "finish", "finalize", "tofinalize"}
        BY <3>1, <3>2, <3>3, <4>1, Zenon DEF ProtocolInv, PrepareFirst
      <4>2. QED
        BY <4>1, Zenon DEF ProtocolInv, PrepareFirst
    <3>6. CommitLast'
      <4>1. ASSUME NEW n \in net', n.ph = "commit"
            PROVE  /\ rec'.item = n.item => fence' = n.item /\ job'.pc # "clear"
                   /\ n.item = job'.item => job'.pc \notin {"planned", "prepare", "prepared"}
        <5>1. n \in net /\ n.item # m.item
          BY <3>3, <4>1, Zenon
        <5>2. rec'.item = n.item => fence = n.item /\ job.pc # "clear"
          BY <4>1, <5>1, Zenon DEF ProtocolInv, CommitLast
        <5>3. n.item = job.item => job.pc \notin {"planned", "prepare", "prepared"}
          BY <4>1, <5>1, Zenon DEF ProtocolInv, CommitLast
        <5>4. QED
          BY <3>1, <5>1, <5>2, <5>3, Zenon
      <4>2. QED
        BY <4>1, Zenon DEF CommitLast
    <3>7. ReleaseHeld'
      BY <3>1, <3>3, Zenon DEF ProtocolInv, ReleaseHeld
    <3>8. LocalReclaim'
      BY DEF ProtocolInv, LocalReclaim, NoRec
    <3>9. QED
      BY <3>1, <3>4, <3>5, <3>6, <3>7, <3>8, Zenon DEF ProtocolInv
  \* The answer to a later phase: the record is what it was, has been released, or
  \* is gone; Committed is said only of an item that was prepared, and the job
  \* clears its fence only when its record is gone.
  <2>LaterContact. ASSUME Types, ProtocolInv, NEW m \in Requests, NEW a \in Answers, Answer(m, a),
                          m.ph # "prepare", UNCHANGED <<epoch, fence, hand, probes, sel>>, evict'.pc = evict.pc,
                          net' \subseteq net,
                          \/ rec' = rec
                          \/ rec' = NoRec /\ rec.item.why = "master"
                          \/ /\ rec'.item = rec.item /\ rec.st = "Releasing" /\ rec'.st = "Committed"
                             /\ rec.item.why = "master",
                          a = "Committed" => \A q \in Preparing : q.item # m.item,
                          Moved(m, a) /\ job'.pc = "clear" => rec'.item # m.item
                   PROVE  ProtocolInv'
    <3> USE <2>LaterContact
    <3>1. /\ FenceOwner' /\ (job'.pc = "planned" => job.pc = "planned")
          /\ job'.item = job.item
          /\ job' # job => Moved(m, a) /\ job.item = m.item /\ fence = m.item /\ job.pc = m.ph
      BY AnswerProtocol, AnswerMoves, Zenon DEF Moved
    <3>2. /\ Preparing' \subseteq Preparing /\ \A q \in Preparing : q.item.why = "master"
      BY Zenon DEF Preparing, ProtocolInv, NetItems
    <3>3. \/ rec'.item = rec.item /\ (rec'.st \in {"Releasing", "Committed"} => rec.st \in {"Releasing", "Committed"})
          \/ rec'.item.why = "none"
      <4>1. NoRec.item.why = "none"
        BY Zenon DEF NoRec, NoItem
      <4>2. QED
        BY <4>1, Zenon
    <3>4. job' # job => /\ job'.pc \notin {"planned", "prepare", "prepared"}
                        /\ job'.pc \in {"commit", "finish"} => a = "Committed"
                        /\ job'.pc \in {"finalize", "tofinalize"} => job.pc = "finalize"
      BY <3>1, Zenon DEF Moved, Requests, Phases
    <3>5. NetItems'
      <4>1. rec'.item.why = "master" => rec'.item = rec.item
        BY <3>3, Zenon
      <4>2. QED
        BY <3>1, <4>1, Zenon DEF ProtocolInv, NetItems
    <3>6. PrepareFirst'
      <4>1. ASSUME NEW q \in Preparing'
            PROVE  /\ rec'.item # q.item
                   /\ \A n \in net' : n.ph = "commit" => n.item # q.item
                   /\ q.item = job'.item =>
                        job'.pc \notin {"prepared", "commit", "finish", "finalize", "tofinalize"}
        <5>1. q \in Preparing /\ q.item.why = "master"
          BY <3>2, <4>1, Zenon
        <5>2. /\ rec.item # q.item /\ \A n \in net : n.ph = "commit" => n.item # q.item
              /\ q.item = job.item =>
                   job.pc \notin {"prepared", "commit", "finish", "finalize", "tofinalize"}
          BY <5>1, Zenon DEF ProtocolInv, PrepareFirst
        <5>3. QED
          BY <3>1, <3>3, <3>4, <5>1, <5>2, Zenon
      <4>2. QED
        BY <4>1, Zenon DEF ProtocolInv, PrepareFirst
    <3>7. CommitLast'
      <4>1. ASSUME NEW n \in net', n.ph = "commit"
            PROVE  /\ rec'.item = n.item => fence' = n.item /\ job'.pc # "clear"
                   /\ n.item = job'.item => job'.pc \notin {"planned", "prepare", "prepared"}
        <5>1. n.item.why = "master" /\ (rec'.item = n.item => rec.item = n.item)
          BY <3>3, <4>1, Zenon DEF ProtocolInv, NetItems
        <5>2. /\ rec.item = n.item => fence = n.item /\ job.pc # "clear"
              /\ n.item = job.item => job.pc \notin {"planned", "prepare", "prepared"}
          BY <4>1, Zenon DEF ProtocolInv, CommitLast
        <5>3. QED
          BY <3>1, <3>4, <5>1, <5>2, Zenon
      <4>2. QED
        BY <4>1, Zenon DEF CommitLast
    <3>8. ReleaseHeld'
      BY <3>1, <3>3, Zenon DEF ProtocolInv, ReleaseHeld
    <3>9. LocalReclaim'
      BY DEF ProtocolInv, LocalReclaim, NoRec, NoItem
    <3>10. QED
      BY <3>1, <3>5, <3>6, <3>7, <3>8, <3>9, Zenon DEF ProtocolInv
  <2>1. ASSUME Types, ProtocolInv, NEW m \in net, HandlePrepare(m) PROVE ProtocolInv'
    <3> DEFINE st == PrepareStep(m.item)
    <3>1. /\ m \in Requests /\ m.item \in Items /\ m.ph = "prepare" /\ m \in Preparing
          /\ UNCHANGED <<epoch, fence, hand, evict>> /\ net' = net \ {m}
          /\ PrepareEffect(m.item, st)
      BY <2>1, Zenon DEF HandlePrepare, evictVars, Types, OwnerTypes, Requests, Preparing
    <3>2. /\ \/ rec' = rec /\ sel' = sel
             \/ rec = NoRec /\ rec'.item = m.item /\ rec'.st = "Prepared" /\ sel' = 0
          /\ PrepareAnswer(st) \in Answers
      BY <2>1, <3>1, PrepareSteps, PrepareTypes, Zenon DEF ProtocolInv
    <3>3. CASE st = "probe"
      <4>1. probes' = probes \cup {[req |-> m, seen |-> "no"]} /\ UNCHANGED <<job, rec, sel>>
        BY <2>1, <3>1, <3>3, Zenon DEF HandlePrepare, PrepareEffect
      <4>2. Preparing' \subseteq Preparing
        BY <3>1, <4>1 DEF Preparing
      <4>3. NetItems' /\ CommitLast'
        <5>1. /\ \A p \in probes' : p.req.item.why = "master" /\ p.req.item.epoch <= epoch
              /\ job.pc = "planned" => \A p \in probes' : p.req.item.epoch < epoch
          BY <2>1, <4>1 DEF ProtocolInv, NetItems
        <5>2. NetItems'
          BY <2>1, <3>1, <4>1, <5>1, Zenon DEF ProtocolInv, NetItems
        <5>3. CommitLast'
          BY <2>1, <3>1, <4>1, Zenon DEF ProtocolInv, CommitLast
        <5>4. QED
          BY <5>2, <5>3, Zenon
      <4>4. FenceOwner' /\ ReleaseHeld' /\ LocalReclaim'
        BY <2>1, <3>1, <4>1, Zenon DEF ProtocolInv, FenceOwner, Active, ReleaseHeld, LocalReclaim
      <4>5. PrepareFirst'
        <5>1. \A q \in Preparing' :
                /\ rec'.item # q.item
                /\ \A n \in net' : n.ph = "commit" => n.item # q.item
                /\ q.item = job'.item =>
                     job'.pc \notin {"prepared", "commit", "finish", "finalize", "tofinalize"}
          BY <2>1, <3>1, <4>1, <4>2, Zenon DEF ProtocolInv, PrepareFirst
        <5>2. /\ \A k, n \in net' : k.ph = "prepare" /\ n.ph = "prepare" /\ k.item = n.item => k = n
              /\ \A p, q \in probes' : p.req.item = q.req.item => p = q
              /\ \A n \in net', p \in probes' : n.ph = "prepare" => n.item # p.req.item
          <6>1. \A k, n \in net' : k.ph = "prepare" /\ n.ph = "prepare" /\ k.item = n.item => k = n
            BY <2>1, <3>1, Zenon DEF ProtocolInv, PrepareFirst
          <6>2. \A p, q \in probes' : p.req.item = q.req.item => p = q
            BY <2>1, <3>1, <4>1 DEF ProtocolInv, PrepareFirst
          <6>3. \A n \in net', p \in probes' : n.ph = "prepare" => n.item # p.req.item
            BY <2>1, <3>1, <4>1 DEF ProtocolInv, PrepareFirst
          <6>4. QED
            BY <6>1, <6>2, <6>3, Zenon
        <5>3. QED
          BY <5>1, <5>2, Zenon DEF PrepareFirst
      <4>6. QED
        BY <4>3, <4>4, <4>5, Zenon DEF ProtocolInv
    <3>4. CASE st # "probe"
      <4>1. Answer(m, PrepareAnswer(st)) /\ probes' = probes
        BY <2>1, <3>4, Zenon DEF HandlePrepare
      <4>2. \A q \in Preparing' : q.item # m.item
        BY <2>1, <3>1, <4>1, Zenon DEF ProtocolInv, PrepareFirst, Preparing
      <4> HIDE DEF st
      <4>3. QED
        BY <2>1, <3>1, <3>2, <4>1, <4>2, <2>FirstContact, Zenon
    <3>5. QED
      BY <3>3, <3>4, Zenon
  <2>2. ASSUME Types, ProtocolInv, NEW m \in net, CommitBegin(m) PROVE ProtocolInv'
    <3>1. /\ m.ph = "commit" /\ rec.st = "Prepared" /\ rec.item = m.item
          /\ rec'.st = "Releasing" /\ rec'.item = rec.item /\ net' = net \ {m}
          /\ UNCHANGED <<epoch, fence, job, hand, probes, sel, evict>>
      BY <2>2, Zenon DEF CommitBegin, masterVars, evictVars, Types, OwnerTypes, Records
    <3>2. fence = m.item /\ job.pc # "clear" /\ m.item.why = "master"
      BY <2>2, <3>1, Zenon DEF ProtocolInv, CommitLast, NetItems
    <3>3. FenceOwner' /\ ReleaseHeld' /\ LocalReclaim'
      <4>1. FenceOwner'
        BY <2>2, <3>1, Zenon DEF ProtocolInv, FenceOwner, Active
      <4>2. ReleaseHeld'
        BY <3>1, <3>2, Zenon DEF ReleaseHeld
      <4>3. rec # NoRec /\ rec.item.why # "owner"
        BY <3>1, <3>2 DEF NoRec
      <4>4. LocalReclaim'
        BY <2>2, <3>1, <4>3, Zenon DEF ProtocolInv, LocalReclaim
      <4>5. QED
        BY <4>1, <4>2, <4>4, Zenon
    <3>4. NetItems' /\ CommitLast'
      BY <2>2, <3>1, Zenon DEF ProtocolInv, NetItems, CommitLast
    <3>5. PrepareFirst'
      BY <2>2, <3>1 DEF ProtocolInv, PrepareFirst, Preparing
    <3>6. QED
      BY <3>3, <3>4, <3>5, Zenon DEF ProtocolInv
  <2>3. ASSUME Types, ProtocolInv, NEW m \in net, CommitRefused(m) PROVE ProtocolInv'
    <3>1. /\ m \in Requests /\ m.ph = "commit" /\ net' \subseteq net /\ rec' = rec
          /\ UNCHANGED <<epoch, fence, hand, probes, sel, evict>>
      BY <2>3, Zenon DEF CommitRefused, localVars, evictVars, Types, OwnerTypes
    <3>2. PICK a \in Answers : Answer(m, a)
      BY <2>3, Zenon DEF CommitRefused, Answers
    <3>3. \A q \in Preparing : q.item # m.item
      BY <2>3, <3>1, Zenon DEF ProtocolInv, PrepareFirst
    <3>4. Moved(m, a) => job'.pc # "clear"
      BY <3>1, Zenon DEF Moved
    <3>5. QED
      BY <2>3, <3>1, <3>2, <3>3, <3>4, <2>LaterContact, Zenon
  <2>4. ASSUME Types, ProtocolInv, NEW m \in net, HandleAbort(m) PROVE ProtocolInv'
    <3>1. /\ m \in Requests /\ m.ph = "abort" /\ net' \subseteq net /\ m.item.why = "master"
          /\ UNCHANGED <<epoch, fence, hand, probes, sel, evict>>
      BY <2>4, Zenon DEF HandleAbort, evictVars, Types, OwnerTypes, ProtocolInv, NetItems
    <3>2. rec' = rec \/ (rec' = NoRec /\ rec.item = m.item /\ rec.st = "Prepared")
      BY <2>4, Zenon DEF HandleAbort
    <3>3. PICK a \in Answers : /\ Answer(m, a)
                               /\ a = "Committed" => rec.item = m.item
                               /\ a \in {"Aborted", "Stale", "Finalized"} => rec'.item # m.item
      <4>1. CASE rec = NoRec \/ (rec.item = m.item /\ rec.st = "Prepared")
        <5>1. Answer(m, "Aborted") /\ rec' = NoRec
          BY <2>4, <4>1 DEF HandleAbort, NoRec
        <5>2. rec'.item # m.item
          BY <3>1, <5>1, NoItemWhy, Zenon DEF NoRec
        <5>3. QED
          BY <5>1, <5>2, Zenon DEF Answers
      <4>2. CASE rec # NoRec /\ rec.item = m.item /\ rec.st = "Releasing"
        BY <2>4, <4>2, Zenon DEF HandleAbort, Answers
      <4>3. CASE rec # NoRec /\ rec.item = m.item /\ rec.st = "Committed"
        BY <2>4, <4>3, Zenon DEF HandleAbort, Answers
      <4>4. CASE rec # NoRec /\ rec.item # m.item
        BY <2>4, <4>4, Zenon DEF HandleAbort, Answers
      <4>5. QED
        BY <2>4, <4>1, <4>2, <4>3, <4>4, Zenon DEF ProtocolInv, LocalReclaim
    <3>4. a = "Committed" => \A q \in Preparing : q.item # m.item
      BY <2>4, <3>3, Zenon DEF ProtocolInv, PrepareFirst
    <3>5. Moved(m, a) /\ job'.pc = "clear" => rec'.item # m.item
      BY <3>1, <3>3, Zenon DEF Moved
    <3>6. QED
      BY <2>4, <3>1, <3>2, <3>3, <3>4, <3>5, <2>LaterContact, Zenon
  <2>5. ASSUME Types, ProtocolInv, NEW m \in net, HandleFinalize(m) PROVE ProtocolInv'
    <3>1. /\ m \in Requests /\ m.ph = "finalize" /\ net' \subseteq net /\ m.item.why = "master"
          /\ UNCHANGED <<epoch, fence, hand, probes, sel, evict>>
      BY <2>5, Zenon DEF HandleFinalize, evictVars, Types, OwnerTypes, ProtocolInv, NetItems
    <3>2. rec' = rec \/ (rec' = NoRec /\ rec.item = m.item)
      BY <2>5, Zenon DEF HandleFinalize
    <3>3. PICK a \in Answers : Answer(m, a) /\ a # "Committed" /\ (a = "Finalized" => rec' = NoRec)
      BY <2>5, Zenon DEF HandleFinalize, Answers
    <3>4. Moved(m, a) /\ job'.pc = "clear" => rec'.item # m.item
      BY <3>1, <3>3 DEF Moved, NoRec, NoItem
    <3>5. QED
      BY <2>5, <3>1, <3>2, <3>3, <3>4, <2>LaterContact, Zenon
  <2>6. ASSUME Types, ProtocolInv, NEW p \in probes, ProbeSlot(p) PROVE ProtocolInv'
    <3> DEFINE z == [p EXCEPT !.seen = IF RouteOnly(slot[p.req.item.gen])
                                       THEN "routeOnly" ELSE "changed"]
    <3>1. /\ probes' = (probes \ {p}) \cup {z} /\ z.req = p.req
          /\ UNCHANGED <<epoch, fence, job, hand, net, rec, sel, evict>>
      BY <2>6, Zenon DEF ProbeSlot, masterVars, netVars, evictVars, Types, OwnerTypes, Probes
    <3> HIDE DEF z
    <3>2. FenceOwner' /\ ReleaseHeld' /\ LocalReclaim' /\ CommitLast'
      BY <2>6, <3>1, Zenon DEF ProtocolInv, FenceOwner, Active, ReleaseHeld, LocalReclaim, CommitLast
    <3>3. NetItems' /\ Preparing' \subseteq Preparing
      BY <2>6, <3>1, Zenon DEF ProtocolInv, NetItems, Preparing
    <3>4. PrepareFirst'
      <4>1. \A q \in Preparing' :
              /\ rec'.item # q.item
              /\ \A n \in net' : n.ph = "commit" => n.item # q.item
              /\ q.item = job'.item =>
                   job'.pc \notin {"prepared", "commit", "finish", "finalize", "tofinalize"}
        BY <2>6, <3>1, <3>3, Zenon DEF ProtocolInv, PrepareFirst
      <4>2. /\ \A k, n \in net' : k.ph = "prepare" /\ n.ph = "prepare" /\ k.item = n.item => k = n
            /\ \A q, r \in probes' : q.req.item = r.req.item => q = r
            /\ \A n \in net', q \in probes' : n.ph = "prepare" => n.item # q.req.item
        BY <2>6, <3>1 DEF ProtocolInv, PrepareFirst
      <4>3. QED
        BY <4>1, <4>2, Zenon DEF PrepareFirst
    <3>5. QED
      BY <3>2, <3>3, <3>4, Zenon DEF ProtocolInv
  <2>7. ASSUME Types, ProtocolInv, NEW p \in probes, ProbeInstall(p) PROVE ProtocolInv'
    <3>1. /\ p.req \in Requests /\ p.req \in Preparing
          /\ UNCHANGED <<epoch, fence, hand, net, sel, evict>> /\ probes' = probes \ {p}
      BY <2>7, Zenon DEF ProbeInstall, netVars, evictVars, Types, OwnerTypes, Probes, Preparing
    <3>2. PICK a \in Answers : Answer(p.req, a)
      BY <2>7, Zenon DEF ProbeInstall, Answers
    <3>3. \/ rec' = rec
          \/ rec = NoRec /\ rec'.item = p.req.item /\ rec'.st = "Prepared" /\ sel' = 0
      BY <2>7, <3>1, Zenon DEF ProbeInstall, Fenced, Prepared
    <3>4. \A q \in Preparing' : q.item # p.req.item
      BY <2>7, <3>1, Zenon DEF ProtocolInv, PrepareFirst, Preparing
    <3>5. QED
      BY <2>7, <3>1, <3>2, <3>3, <3>4, <2>FirstContact, Zenon
  <2>8. ASSUME Types, ProtocolInv, CommitEnd PROVE ProtocolInv'
    <3> DEFINE m == Request("commit", rec.item, 0)
    <3>1. m \in Requests /\ m.ph = "commit" /\ m.item = rec.item
      BY <2>8, Zenon DEF Types, OwnerTypes, Records, Request, Requests, Phases
    <3>2. /\ rec.st = "Releasing" /\ rec.item.why = "master" /\ rec'.item = rec.item
          /\ rec'.st = "Committed" /\ Answer(m, "Committed")
          /\ UNCHANGED <<epoch, fence, hand, net, probes, sel>> /\ evict'.pc = evict.pc
      BY <2>8, Zenon DEF CommitEnd, netVars, Types, OwnerTypes, Records, Evicts
    <3> HIDE DEF m
    <3>3. \A q \in Preparing : q.item # m.item
      BY <2>8, <3>1, Zenon DEF ProtocolInv, PrepareFirst
    <3>4. Moved(m, "Committed") => job'.pc # "clear"
      BY <3>1, Zenon DEF Moved
    <3>5. QED
      BY <2>8, <3>1, <3>2, <3>3, <3>4, <2>LaterContact, Zenon DEF Answers
  <2>9. QED
    BY <2>1, <2>2, <2>3, <2>4, <2>5, <2>6, <2>7, <2>8, Zenon DEF OwnerPhase
\* Every step of the owner's own eviction.
<1>EvictProtocol. Types /\ ProtocolInv /\ Evict => ProtocolInv'
  \* A step of the worker: the record is what it was, gone, or the owner's own.
  <2>WorkerProtocol. ASSUME Types, ProtocolInv, UNCHANGED <<epoch, fence, job, net, probes>>,
                            \A o \in 1..MaxOp : hand'[o].pc \in {"fenced", "ready"} => hand'[o] = hand[o],
                            rec' = rec \/ rec' = NoRec \/ rec'.item.why = "owner",
                            LocalReclaim'
                     PROVE  ProtocolInv'
    <3> USE <2>WorkerProtocol
    <3>1. rec' = rec \/ rec'.item.why # "master"
      BY DEF NoRec, NoItem
    <3>2. FenceOwner' /\ ReleaseHeld'
      BY <3>1, Zenon DEF ProtocolInv, FenceOwner, Active, ReleaseHeld
    <3>3. NetItems' /\ CommitLast'
      BY <3>1, Zenon DEF ProtocolInv, NetItems, CommitLast
    <3>4. PrepareFirst'
      <4>1. Preparing' = Preparing /\ \A q \in Preparing : q.item.why = "master"
        BY Zenon DEF Preparing, ProtocolInv, NetItems
      <4>2. QED
        BY <3>1, <4>1, Zenon DEF ProtocolInv, PrepareFirst
    <3>5. QED
      BY <3>2, <3>3, <3>4, Zenon DEF ProtocolInv
  <2>1. ASSUME Types, ProtocolInv, EvictSelect PROVE ProtocolInv'
    <3>1. UNCHANGED <<epoch, fence, job, net, probes, hand, rec>>
      BY <2>1, Zenon DEF EvictSelect, masterVars, netVars
    <3>2. rec = NoRec /\ evict'.pc = "send"
      BY <2>1, Zenon DEF EvictSelect, Fenced
    <3>3. LocalReclaim'
      BY <3>1, <3>2, Zenon DEF LocalReclaim
    <3>4. QED
      BY <2>1, <3>1, <3>3, <2>WorkerProtocol, Zenon
  <2>2. ASSUME Types, ProtocolInv, NEW r \in BOOLEAN, EvictSend(r) PROVE ProtocolInv'
    <3>1. UNCHANGED <<epoch, fence, job, net, probes, rec, sel>> /\ evict'.pc = "wait"
      BY <2>2, Zenon DEF EvictSend, netVars, localVars, Types, OwnerTypes, Evicts
    <3>2. \A o \in 1..MaxOp : hand'[o].pc \in {"fenced", "ready"} => hand'[o] = hand[o]
      BY <2>2, Zenon DEF EvictSend, Types, MasterTypes, Handlers
    <3>3. LocalReclaim'
      BY <2>2, <3>1, Zenon DEF ProtocolInv, LocalReclaim
    <3>4. QED
      BY <2>2, <3>1, <3>2, <3>3, <2>WorkerProtocol, Zenon
  <2>3. ASSUME Types, ProtocolInv, EvictTimeout PROVE ProtocolInv'
    <3>1. UNCHANGED <<epoch, fence, job, net, probes, hand, rec, sel>> /\ evict'.pc = "send"
      BY <2>3, Zenon DEF EvictTimeout, masterVars, netVars, localVars, Types, OwnerTypes, Evicts
    <3>2. LocalReclaim'
      BY <2>3, <3>1, Zenon DEF ProtocolInv, LocalReclaim
    <3>3. QED
      BY <2>3, <3>1, <3>2, <2>WorkerProtocol, Zenon
  <2>4. ASSUME ProtocolInv, FinishSelection
        PROVE  rec' = rec /\ LocalReclaim'
    BY <2>4, Zenon DEF FinishSelection, ProtocolInv, LocalReclaim, NoEvict
  <2>5. ASSUME Types, ProtocolInv, EvictLost PROVE ProtocolInv'
    <3>1. UNCHANGED <<epoch, fence, job, net, probes, hand>> /\ FinishSelection
      BY <2>5, Zenon DEF EvictLost, masterVars, netVars
    <3>2. QED
      BY <2>4, <2>5, <3>1, <2>WorkerProtocol, Zenon
  <2>6. ASSUME Types, ProtocolInv, EvictAnswered PROVE ProtocolInv'
    <3> DEFINE i  == EvictItem(evict.gen, op)
               st == PrepareStep(i)
    <3>1. UNCHANGED <<epoch, fence, job, net, probes, hand>> /\ evict.pc = "answered"
      BY <2>6, Zenon DEF EvictAnswered, masterVars, netVars
    <3>2. CASE FinishSelection
      BY <2>4, <2>6, <3>1, <3>2, <2>WorkerProtocol, Zenon
    <3>3. CASE /\ PrepareEffect(i, st)
               /\ evict' = [evict EXCEPT !.pc = CASE PrepareAnswer(st) = "Prepared" -> "commit"
                                                 [] OTHER -> "send"]
      <4>1. i.why = "owner"
        BY OwnerItem, Zenon
      <4>2. /\ \/ rec' = rec /\ sel' = sel
               \/ rec = NoRec /\ rec'.item = i /\ rec'.st = "Prepared" /\ sel' = 0
            /\ PrepareAnswer(st) = "Prepared" => rec'.item = i /\ rec'.st = "Prepared"
        BY <2>6, <3>3, PrepareSteps, Zenon DEF ProtocolInv
      <4>3. evict'.pc = "send" \/ (evict'.pc = "commit" /\ PrepareAnswer(st) = "Prepared")
        BY <2>6, <3>3, Zenon DEF Types, OwnerTypes, Evicts
      <4> HIDE DEF i, st
      <4>4. LocalReclaim'
        BY <2>6, <4>1, <4>2, <4>3, Zenon DEF ProtocolInv, LocalReclaim
      <4>5. QED
        BY <2>6, <3>1, <4>1, <4>2, <4>4, <2>WorkerProtocol, Zenon
    <3>4. CASE evict' = [evict EXCEPT !.pc = "send"] /\ UNCHANGED <<rec, sel>>
      <4>1. evict'.pc = "send"
        BY <2>6, <3>4, Zenon DEF Types, OwnerTypes, Evicts
      <4>2. LocalReclaim'
        BY <2>6, <3>4, <4>1, Zenon DEF ProtocolInv, LocalReclaim
      <4>3. QED
        BY <2>6, <3>1, <3>4, <4>2, <2>WorkerProtocol, Zenon
    <3>5. QED
      BY <2>6, <3>2, <3>3, <3>4, Zenon DEF EvictAnswered
  <2>7. ASSUME Types, ProtocolInv, EvictCommit PROVE ProtocolInv'
    <3>1. /\ UNCHANGED <<epoch, fence, job, net, probes, hand, sel>> /\ evict.pc = "commit"
          /\ rec'.st = "Releasing" /\ rec'.item = rec.item /\ evict'.pc = "release"
      BY <2>7, Zenon DEF EvictCommit, masterVars, netVars, Types, OwnerTypes, Evicts, Records
    <3>2. rec'.item.why = "owner" /\ LocalReclaim'
      BY <2>7, <3>1 DEF ProtocolInv, LocalReclaim, NoRec
    <3>3. QED
      BY <2>7, <3>1, <3>2, <2>WorkerProtocol, Zenon
  <2>8. ASSUME Types, ProtocolInv, EvictRelease PROVE ProtocolInv'
    <3>1. /\ UNCHANGED <<epoch, fence, job, net, probes, hand, sel>> /\ evict.pc = "release"
          /\ rec'.st = "Committed" /\ rec'.item = rec.item /\ evict'.pc = "finalize"
      BY <2>8, Zenon DEF EvictRelease, masterVars, netVars, Types, OwnerTypes, Evicts, Records
    <3>2. rec'.item.why = "owner" /\ LocalReclaim'
      BY <2>8, <3>1 DEF ProtocolInv, LocalReclaim, NoRec
    <3>3. QED
      BY <2>8, <3>1, <3>2, <2>WorkerProtocol, Zenon
  <2>9. ASSUME Types, ProtocolInv, EvictFinalize PROVE ProtocolInv'
    <3>1. /\ UNCHANGED <<epoch, fence, job, net, probes, hand, sel>>
          /\ rec' = NoRec /\ evict'.pc = "idle"
      BY <2>9, Zenon DEF EvictFinalize, masterVars, netVars, NoEvict
    <3>2. LocalReclaim'
      BY <3>1, Zenon DEF LocalReclaim
    <3>3. QED
      BY <2>9, <3>1, <3>2, <2>WorkerProtocol, Zenon
  <2>10. QED
    BY <2>1, <2>2, <2>3, <2>5, <2>6, <2>7, <2>8, <2>9, Zenon DEF Evict
\* The handler takes the fence from nobody and gives back only its own.
<1>HandlerProtocol. Types /\ ProtocolInv /\ EvictHandler => ProtocolInv'
  <2> SUFFICES ASSUME Types, ProtocolInv, NEW o \in 1..MaxOp,
                      \/ EvictFence(o) \/ EvictReplan(o)
                      \/ \E out \in EvictDecisions(hand[o]) : EvictApply(o, out)
               PROVE  ProtocolInv'
    BY Zenon DEF EvictHandler
  <2>1. hand[o].pc \in {"sent", "fenced", "ready"}
    BY Zenon DEF EvictFence, EvictReplan, EvictApply
  <2>2. UNCHANGED <<epoch, job, net, probes, rec, sel>>
    BY Zenon DEF EvictFence, EvictReplan, EvictApply, netVars, localVars
  <2>3. /\ \A q \in 1..MaxOp \ {o} : hand'[q] = hand[q]
        /\ evict' = evict \/ evict'.pc = "answered"
        /\ \/ /\ fence = NoItem
              /\ hand'[o].pc = "fenced" /\ fence' = EvictItem(hand'[o].gen, o)
           \/ /\ hand'[o].pc = "done" /\ fence' = fence
           \/ /\ hand[o].pc = "fenced" /\ hand'[o].pc = "ready" /\ hand'[o].gen = hand[o].gen
              /\ fence' = fence
           \/ /\ hand[o].pc \in {"fenced", "ready"} /\ hand'[o].pc = "done" /\ fence' = NoItem
    BY <2>1, HandlerMoves, Zenon
  <2>4. LocalReclaim'
    BY <2>2, <2>3, Zenon DEF ProtocolInv, LocalReclaim
  <2>5. NetItems' /\ PrepareFirst'
    BY <2>2, Zenon DEF ProtocolInv, NetItems, PrepareFirst, Preparing
  <2>6. fence' # fence => /\ ~Active /\ fence.why # "master" /\ fence'.why # "master"
                          /\ \A q \in 1..MaxOp \ {o} : hand[q].pc \notin {"fenced", "ready"}
    <3>1. CASE fence = NoItem
      <4>1. fence.why = "none"
        BY <3>1, NoItemWhy, Zenon
      <4>2. ~Active /\ \A q \in 1..MaxOp : hand[q].pc \notin {"fenced", "ready"}
        <5>1. ~Active
          BY <4>1, Zenon DEF ProtocolInv, FenceOwner, Active
        <5>2. ASSUME NEW q \in 1..MaxOp, hand[q].pc \in {"fenced", "ready"} PROVE FALSE
          <6>1. fence = EvictItem(hand[q].gen, q)
            BY <5>2, Zenon DEF ProtocolInv, FenceOwner
          <6>2. QED
            BY <4>1, <6>1, OwnerItem, Zenon
        <5>3. QED
          BY <5>1, <5>2, Zenon
      <4>3. QED
        BY <2>3, <4>1, <4>2, OwnerItem, NoItemWhy, Zenon
    <3>2. CASE hand[o].pc \in {"fenced", "ready"}
      <4>1. fence = EvictItem(hand[o].gen, o)
        BY <3>2, Zenon DEF ProtocolInv, FenceOwner
      <4>2. fence.why = "owner" /\ fence.epoch = o
        BY <4>1, OwnerItem, Zenon
      <4>3. \A q \in 1..MaxOp \ {o} : hand[q].pc \notin {"fenced", "ready"}
        BY <4>2, OwnerItem DEF ProtocolInv, FenceOwner
      <4>4. ~Active
        BY <4>2, Zenon DEF ProtocolInv, FenceOwner, Active
      <4>5. QED
        BY <2>3, <4>2, <4>3, <4>4, OwnerItem, NoItemWhy, Zenon
    <3>3. QED
      BY <2>3, <3>1, <3>2, Zenon
  <2>7. FenceOwner'
    <3>1. \A q \in 1..MaxOp : hand'[q].pc \in {"fenced", "ready"} => fence' = EvictItem(hand'[q].gen, q)
      <4>1. ASSUME NEW q \in 1..MaxOp, hand'[q].pc \in {"fenced", "ready"}
            PROVE  fence' = EvictItem(hand'[q].gen, q)
        <5>1. CASE q = o
          <6>1. hand[o].pc \in {"fenced", "ready"} => fence = EvictItem(hand[o].gen, o)
            BY Zenon DEF ProtocolInv, FenceOwner
          <6>2. QED
            BY <2>3, <4>1, <5>1, <6>1, Zenon
        <5>2. CASE q # o
          <6>1. hand'[q] = hand[q] /\ fence = EvictItem(hand[q].gen, q)
            BY <2>3, <4>1, <5>2, Zenon DEF ProtocolInv, FenceOwner
          <6>2. QED
            BY <2>6, <4>1, <5>2, <6>1, Zenon
        <5>3. QED
          BY <5>1, <5>2, Zenon
      <4>2. QED
        BY <4>1, Zenon
    <3>2. (Active => fence' = job.item) /\ (~Active => fence'.why # "master")
      BY <2>6, Zenon DEF ProtocolInv, FenceOwner
    <3>3. QED
      BY <2>2, <3>1, <3>2, Zenon DEF ProtocolInv, FenceOwner, Active
  <2>8. ReleaseHeld' /\ CommitLast'
    BY <2>2, <2>6, Zenon DEF ProtocolInv, ReleaseHeld, CommitLast, NetItems
  <2>9. QED
    BY <2>4, <2>5, <2>7, <2>8, Zenon DEF ProtocolInv
<1>1. UNCHANGED vars => UNCHANGED protocolVars
  BY Zenon DEF vars, protocolVars, masterVars, netVars, localVars, evictVars
<1>2. QED
  BY <1>1, <1>ProtocolFrame, DataProtocol, <1>JobProtocol, <1>PhaseProtocol, <1>EvictProtocol, Zenon,
     <1>HandlerProtocol DEF Next

-----------------------------------------------------------------------------
\* The reclaim protocol keeps its invariant (reclaim.rs on both sides).
THEOREM ProtocolHolds == Spec => [](Types /\ ProtocolInv)
<1>1. Init => Types /\ ProtocolInv
  BY InitTypes, InitProtocol, Zenon
<1>2. Types /\ ProtocolInv /\ [Next]_vars => (Types /\ ProtocolInv)'
  BY StepTypes, StepProtocol, Zenon
<1>3. QED
  BY <1>1, <1>2, PTL DEF Spec

\* The owner's release_prepared_backing_now runs for the master only while the
\* master's key activity holds exactly this item, whatever is late or lost.
THEOREM ReleaseIsFenced == Spec => []ReleaseUnderFence
<1>1. ProtocolInv => ReleaseUnderFence
  BY Zenon DEF ProtocolInv, ReleaseHeld, ReleaseUnderFence
<1>2. QED
  BY <1>1, ProtocolHolds, PTL

-----------------------------------------------------------------------------
(* What is named has been written.                                         *)

\* A generation that has been written, as a number.
Older(g) == Written(g) /\ g \in Nat

\* The types of the generations that are named.
LEMMA GenTypes ==
  ASSUME Types
  PROVE  /\ nextGen \in Nat /\ route.gen \in Nat /\ fence.gen \in Nat /\ job.item.gen \in Nat
         /\ \A o \in 1..MaxOp : hand[o].gen \in Nat
         /\ \A m \in net : m.item.gen \in Nat
         /\ \A p \in probes : p.req.item.gen \in Nat
         /\ idx \in Nat /\ sel \in Nat /\ pend \in Nat
         /\ lput.gen \in Nat /\ lget.gen \in Nat /\ evict.gen \in Nat /\ rec.item.gen \in Nat
         /\ job.item \in Items /\ rec.item \in Items /\ fence \in Items
         /\ \A m \in net : m \in Requests /\ m.item \in Items
         /\ \A p \in probes : p \in Probes /\ p.req \in Requests /\ p.req.item \in Items
<1>1. /\ nextGen \in Nat /\ route.gen \in Nat /\ fence.gen \in Nat /\ job.item.gen \in Nat
      /\ job.item \in Items /\ fence \in Items
      /\ \A o \in 1..MaxOp : hand[o].gen \in Nat
  BY Zenon DEF Types, MasterTypes, Items, Jobs, Handlers
<1>2. /\ \A m \in net : m \in Requests /\ m.item \in Items /\ m.item.gen \in Nat
      /\ \A p \in probes : p \in Probes /\ p.req \in Requests /\ p.req.item \in Items
                           /\ p.req.item.gen \in Nat
  BY Zenon DEF Types, OwnerTypes, Items, Requests, Probes
<1>3. /\ idx \in Nat /\ sel \in Nat /\ pend \in Nat
      /\ lput.gen \in Nat /\ lget.gen \in Nat /\ evict.gen \in Nat
      /\ rec.item.gen \in Nat /\ rec.item \in Items
  BY Zenon DEF Types, OwnerTypes, Puts, Gets, Evicts, Records, Items
<1>4. QED
  BY <1>1, <1>2, <1>3, Zenon

\* What the master names stays written, and a step names only what is written.
LEMMA MoreWritten ==
  ASSUME Types, MasterKnows,
         nextGen' \in Nat, nextGen <= nextGen', nextGen' <= MaxGen, epoch' <= MaxEpoch,
         route' = route \/ (route'.gen <= nextGen' /\ (route'.own => route'.gen # 0)),
         fence' \in {fence, NoItem} \/ (Older(fence'.gen) /\ fence'.why # "none"),
         job' \in {job, NoJob} \/ (job'.pc # "idle" /\ Older(job'.item.gen)),
         \A o \in 1..MaxOp : hand'[o] = hand[o] \/ Older(hand'[o].gen),
         \A m \in net' : m \in net \/ Older(m.item.gen),
         \A p \in probes' : p \in probes \/ Older(p.req.item.gen),
         \A g \in bcast' \cup untold' \cup regressed' : g \in bcast \cup untold \cup regressed \/ Older(g)
  PROVE  MasterKnows'
<1>1. ASSUME NEW g \in Nat, Written(g) PROVE (1 <= g) /\ (g <= nextGen')
  BY <1>1, GenTypes DEF Written
<1>2. nextGen' <= MaxGen /\ epoch' <= MaxEpoch /\ route'.gen <= nextGen' /\ (route'.own => route'.gen # 0)
  BY GenTypes DEF MasterKnows
<1>3. fence' = NoItem \/ ((1 <= fence'.gen) /\ (fence'.gen <= nextGen') /\ fence'.why # "none")
  BY <1>1, GenTypes, Zenon DEF MasterKnows, Older
<1>4. job' = NoJob \/ (job'.pc # "idle" /\ (1 <= job'.item.gen) /\ (job'.item.gen <= nextGen'))
  BY <1>1, GenTypes, Zenon DEF MasterKnows, Older
<1>5. \A o \in 1..MaxOp : hand'[o].pc # "none" => (1 <= hand'[o].gen) /\ (hand'[o].gen <= nextGen')
  BY <1>1, GenTypes, Zenon DEF MasterKnows, Older
<1>6. \A m \in net' : (1 <= m.item.gen) /\ (m.item.gen <= nextGen')
  BY <1>1, GenTypes, Zenon DEF MasterKnows, Older
<1>7. \A p \in probes' : (1 <= p.req.item.gen) /\ (p.req.item.gen <= nextGen')
  BY <1>1, GenTypes, Zenon DEF MasterKnows, Older
<1>8. \A g \in bcast' \cup untold' \cup regressed' : g \in Nat /\ (1 <= g) /\ (g <= nextGen')
  BY <1>1, Zenon DEF MasterKnows, Older
<1>9. QED
  BY <1>2, <1>3, <1>4, <1>5, <1>6, <1>7, <1>8, Zenon DEF MasterKnows, Written

\* The same for what the owner names.
LEMMA MoreKnown ==
  ASSUME Types, CountTypes, OwnerKnows, nextGen' \in Nat, nextGen <= nextGen', op' <= MaxOp,
         idx' \in {idx, 0} \/ Older(idx'), sel' \in {sel, 0} \/ Older(sel'),
         pend' \in {pend, 0} \/ Older(pend'),
         lput' \in {lput, NoPut} \/ (lput'.pc # "idle" /\ lput'.gen \in Nat /\ (1 <= lput'.gen) /\ (lput'.gen <= nextGen')),
         lget' \in {lget, NoLGet} \/ (lget'.pc # "idle" /\ Older(lget'.gen)),
         rget' \in {rget, NoRGet} \/ (rget'.pc # "idle" /\ Older(rget'.gen)),
         evict' \in {evict, NoEvict} \/ (evict'.pc # "idle" /\ Older(evict'.gen)),
         rec' \in {rec, NoRec} \/ (Older(rec'.item.gen) /\ rec'.item.why # "none")
  PROVE  OwnerKnows'
<1>1. ASSUME NEW g \in Nat, Written(g) PROVE (1 <= g) /\ (g <= nextGen')
  BY <1>1, GenTypes DEF Written
<1>2. op' <= MaxOp /\ idx' <= nextGen' /\ sel' <= nextGen' /\ pend' <= nextGen'
  BY GenTypes DEF OwnerKnows, Older, Written
<1>3. lput' = NoPut \/ (lput'.pc # "idle" /\ (1 <= lput'.gen) /\ (lput'.gen <= nextGen'))
  BY <1>1, GenTypes, Zenon DEF OwnerKnows
<1>4. lget' = NoLGet \/ (lget'.pc # "idle" /\ (1 <= lget'.gen) /\ (lget'.gen <= nextGen'))
  BY <1>1, GenTypes, Zenon DEF OwnerKnows, Older
<1>5. rget' = NoRGet \/ (rget'.pc # "idle" /\ (1 <= rget'.gen) /\ (rget'.gen <= nextGen'))
  <2>1. rget.gen \in Nat
    BY Zenon DEF CountTypes, RGets
  <2>2. QED
    BY <1>1, <2>1, Zenon DEF OwnerKnows, Older
<1>6. evict' = NoEvict \/ (evict'.pc # "idle" /\ (1 <= evict'.gen) /\ (evict'.gen <= nextGen'))
  BY <1>1, GenTypes, Zenon DEF OwnerKnows, Older
<1>7. rec' = NoRec \/ ((1 <= rec'.item.gen) /\ (rec'.item.gen <= nextGen') /\ rec'.item.why # "none")
  BY <1>1, GenTypes, Zenon DEF OwnerKnows, Older
<1>8. QED
  BY <1>2, <1>3, <1>4, <1>5, <1>6, <1>7, Zenon DEF OwnerKnows, Written

\* What is named now is a written generation.
LEMMA NamedGens ==
  ASSUME Knows
  PROVE  /\ nextGen \in Nat /\ nextGen <= MaxGen /\ epoch <= MaxEpoch /\ op <= MaxOp
         /\ route.own => Older(route.gen)
         /\ route.gen <= nextGen
         /\ job = NoJob \/ (job.pc # "idle" /\ Older(job.item.gen))
         /\ lput = NoPut \/ (lput.pc # "idle" /\ Older(lput.gen))
         /\ lget = NoLGet \/ (lget.pc # "idle" /\ Older(lget.gen))
         /\ rget = NoRGet \/ (rget.pc # "idle" /\ Older(rget.gen))
         /\ evict = NoEvict \/ (evict.pc # "idle" /\ Older(evict.gen))
         /\ rec = NoRec \/ (Older(rec.item.gen) /\ rec.item.why # "none")
         /\ idx # 0 => Older(idx)
         /\ sel # 0 => Older(sel)
         /\ pend # 0 => Older(pend)
         /\ \A o \in 1..MaxOp : hand[o].pc # "none" => Older(hand[o].gen)
         /\ \A m \in net : Older(m.item.gen)
         /\ \A p \in probes : Older(p.req.item.gen)
<1>1. nextGen \in Nat /\ nextGen <= MaxGen /\ epoch <= MaxEpoch /\ op <= MaxOp
  BY GenTypes, Zenon DEF Knows, MasterKnows, OwnerKnows
<1>2. (route.own => Older(route.gen)) /\ route.gen <= nextGen
  BY GenTypes DEF Knows, MasterKnows, Older, Written
<1>3. /\ job = NoJob \/ (job.pc # "idle" /\ Older(job.item.gen))
      /\ \A o \in 1..MaxOp : hand[o].pc # "none" => Older(hand[o].gen)
      /\ \A m \in net : Older(m.item.gen)
      /\ \A p \in probes : Older(p.req.item.gen)
  BY GenTypes, Zenon DEF Knows, MasterKnows, Older
<1>4. /\ lput = NoPut \/ (lput.pc # "idle" /\ Older(lput.gen))
      /\ lget = NoLGet \/ (lget.pc # "idle" /\ Older(lget.gen))
      /\ evict = NoEvict \/ (evict.pc # "idle" /\ Older(evict.gen))
      /\ rec = NoRec \/ (Older(rec.item.gen) /\ rec.item.why # "none")
  BY GenTypes, Zenon DEF Knows, OwnerKnows, Older
<1>5. rget = NoRGet \/ (rget.pc # "idle" /\ Older(rget.gen))
  BY Zenon DEF Knows, OwnerKnows, Older, CountTypes, RGets
<1>6. (idx # 0 => Older(idx)) /\ (sel # 0 => Older(sel)) /\ (pend # 0 => Older(pend))
  BY GenTypes DEF Knows, OwnerKnows, Older, Written
<1>7. QED
  BY <1>1, <1>2, <1>3, <1>4, <1>5, <1>6, Zenon

\* What the master knows, when a step writes no generation.
LEMMA StillWritten ==
  ASSUME Knows, UNCHANGED nextGen, epoch' <= MaxEpoch,
         route' = route \/ (route'.gen <= nextGen /\ (route'.own => route'.gen # 0)),
         fence' \in {fence, NoItem} \/ (Older(fence'.gen) /\ fence'.why # "none"),
         job' \in {job, NoJob} \/ (job'.pc # "idle" /\ Older(job'.item.gen)),
         \A o \in 1..MaxOp : hand'[o] = hand[o] \/ Older(hand'[o].gen),
         \A m \in net' : m \in net \/ Older(m.item.gen),
         \A p \in probes' : p \in probes \/ Older(p.req.item.gen),
         \A g \in bcast' \cup untold' \cup regressed' : g \in bcast \cup untold \cup regressed \/ Older(g)
  PROVE  MasterKnows'
<1>1. nextGen' \in Nat /\ nextGen <= nextGen' /\ nextGen' <= MaxGen
  BY NamedGens
<1>2. QED
  BY <1>1, MoreWritten, Zenon DEF Knows

\* So with what the owner knows.
LEMMA StillKnown ==
  ASSUME Knows, UNCHANGED nextGen, op' <= MaxOp,
         idx' \in {idx, 0} \/ Older(idx'), sel' \in {sel, 0} \/ Older(sel'),
         pend' \in {pend, 0} \/ Older(pend'),
         lput' \in {lput, NoPut} \/ (lput'.pc # "idle" /\ Older(lput'.gen)),
         lget' \in {lget, NoLGet} \/ (lget'.pc # "idle" /\ Older(lget'.gen)),
         rget' \in {rget, NoRGet} \/ (rget'.pc # "idle" /\ Older(rget'.gen)),
         evict' \in {evict, NoEvict} \/ (evict'.pc # "idle" /\ Older(evict'.gen)),
         rec' \in {rec, NoRec} \/ (Older(rec'.item.gen) /\ rec'.item.why # "none")
  PROVE  OwnerKnows'
<1>1. nextGen' \in Nat /\ nextGen <= nextGen'
  BY NamedGens
<1>2. lput' \in {lput, NoPut} \/ (lput'.pc # "idle" /\ lput'.gen \in Nat /\ (1 <= lput'.gen) /\ (lput'.gen <= nextGen'))
  BY Zenon DEF Older, Written
<1>3. QED
  BY <1>1, <1>2, MoreKnown, Zenon DEF Knows

\* A written generation has a slot.
LEMMA OlderGens == Knows => \A g : Older(g) => g \in Gens
BY NamedGens, BoundAssumption DEF Older, Written, Gens

masterNames == <<nextGen, epoch, route, fence, job, hand, net, probes, bcast, untold, regressed>>
ownerNames  == <<nextGen, op, idx, sel, pend, lput, lget, rget, evict, rec>>

\* Steps that leave the names of one side alone.
LEMMA SameNames ==
  /\ MasterKnows /\ UNCHANGED masterNames => MasterKnows'
  /\ OwnerKnows /\ UNCHANGED ownerNames => OwnerKnows'
BY Zenon DEF masterNames, ownerNames, MasterKnows, OwnerKnows, Written

\* Every step names what is written.
LEMMA StepKnows == Knows /\ [Next]_vars => MasterKnows' /\ OwnerKnows'
\* Puts, the delete and its broadcast.
<1>PutKnows. Knows /\ (Put \/ MasterDelete \/ Broadcast) => MasterKnows' /\ OwnerKnows'
  <2>1. ASSUME Knows, OwnerPutStart PROVE MasterKnows' /\ OwnerKnows'
    <3>1. /\ nextGen' \in Nat /\ nextGen <= nextGen' /\ nextGen' <= MaxGen /\ 1 <= nextGen'
          /\ lput'.pc = "precommit" /\ lput'.gen = nextGen'
      BY <2>1, NamedGens, BoundAssumption DEF OwnerPutStart
    <3>2. UNCHANGED <<epoch, route, fence, job, hand, net, probes, bcast, untold, regressed,
                      op, idx, sel, pend, lget, rget, evict, rec>>
      BY <2>1, Zenon DEF OwnerPutStart, netVars, evictVars, ghostVars
    <3>3. MasterKnows'
      BY <2>1, <3>1, <3>2, NamedGens, MoreWritten, Zenon DEF Knows
    <3>4. OwnerKnows'
      BY <2>1, <3>1, <3>2, NamedGens, MoreKnown DEF Knows
    <3>5. QED
      BY <3>3, <3>4, Zenon
  <2>2. ASSUME Knows, OwnerPutCommit PROVE MasterKnows' /\ OwnerKnows'
    <3>1. /\ lput # NoPut /\ route'.gen = lput.gen /\ lput'.pc = "routed" /\ lput'.gen = lput.gen
          /\ bcast' = IF route.own THEN bcast \cup {route.gen} ELSE bcast
      BY <2>2 DEF OwnerPutCommit, BroadcastOld, NoPut, Knows, Types, OwnerTypes, Puts
    <3>2. UNCHANGED <<nextGen, epoch, fence, job, hand, net, probes, untold, regressed,
                      op, idx, sel, pend, lget, rget, evict, rec>>
      BY <2>2, Zenon DEF OwnerPutCommit, evictVars, ghostVars
    <3>3. MasterKnows'
      <4>1. Older(lput.gen)
        BY <2>2, <3>1, NamedGens, Zenon
      <4>2. lput.gen <= nextGen /\ lput.gen # 0
        BY <4>1 DEF Older, Written
      <4>3. QED
        BY <2>2, <3>1, <3>2, <4>2, NamedGens, StillWritten, Zenon
    <3>4. OwnerKnows'
      BY <2>2, <3>1, <3>2, NamedGens, StillKnown, Zenon DEF Knows, Older, Written
    <3>5. QED
      BY <3>3, <3>4, Zenon
  <2>3. ASSUME Knows, OwnerPutFail PROVE MasterKnows' /\ OwnerKnows'
    <3>1. lput' = NoPut
      BY <2>3, Zenon DEF OwnerPutFail
    <3>2. UNCHANGED <<masterNames, op, idx, sel, pend, lget, rget, evict, rec>>
      BY <2>3, Zenon DEF OwnerPutFail, masterNames, masterVars, netVars, evictVars, ghostVars
    <3>3. OwnerKnows'
      BY <2>3, <3>1, <3>2, NamedGens, StillKnown, Zenon DEF Knows, masterNames
    <3>4. QED
      BY <2>3, <3>2, <3>3, SameNames, Zenon DEF Knows
  <2>4. ASSUME Knows, OwnerPutPublish PROVE MasterKnows' /\ OwnerKnows'
    <3>1. lput' = NoPut /\ idx' = lput.gen /\ lput # NoPut
      BY <2>4 DEF OwnerPutPublish, NoPut
    <3>2. UNCHANGED <<masterNames, op, sel, pend, lget, rget, evict, rec>>
      BY <2>4, Zenon DEF OwnerPutPublish, masterNames, masterVars, netVars, evictVars
    <3>3. OwnerKnows'
      BY <2>4, <3>1, <3>2, NamedGens, StillKnown, Zenon DEF Knows, masterNames
    <3>4. QED
      BY <2>4, <3>2, <3>3, SameNames, Zenon DEF Knows
  <2>5. ASSUME Knows, OtherPut PROVE MasterKnows' /\ OwnerKnows'
    <3>1. /\ nextGen' \in Nat /\ nextGen <= nextGen' /\ nextGen' <= MaxGen
          /\ route'.gen = nextGen' /\ ~route'.own
          /\ bcast' = IF route.own THEN bcast \cup {route.gen} ELSE bcast
      BY <2>5, NamedGens, BoundAssumption DEF OtherPut, BroadcastOld
    <3>2. UNCHANGED <<epoch, fence, job, hand, net, probes, untold, regressed,
                      op, idx, sel, pend, lput, lget, rget, evict, rec>>
      BY <2>5, Zenon DEF OtherPut, localVars, evictVars, ghostVars
    <3>3. MasterKnows'
      BY <2>5, <3>1, <3>2, NamedGens, MoreWritten DEF Knows
    <3>4. OwnerKnows'
      BY <2>5, <3>1, <3>2, NamedGens, MoreKnown, Zenon DEF Knows
    <3>5. QED
      BY <3>3, <3>4, Zenon
  <2>6. ASSUME Knows, MasterDelete PROVE MasterKnows' /\ OwnerKnows'
    <3>1. /\ route'.gen = 0 /\ ~route'.own
          /\ bcast' = IF route.own THEN bcast \cup {route.gen} ELSE bcast
      BY <2>6, Zenon DEF MasterDelete, BroadcastOld, NoRoute
    <3>2. UNCHANGED <<nextGen, epoch, fence, job, hand, net, probes, untold, regressed, ownerNames>>
      BY <2>6, Zenon DEF MasterDelete, ownerNames, localVars, evictVars, ghostVars
    <3>3. MasterKnows'
      <4>1. nextGen \in Nat
        BY <2>6, NamedGens, Zenon
      <4>2. 0 <= nextGen
        BY <4>1
      <4>3. QED
        BY <2>6, <3>1, <3>2, <4>2, NamedGens, StillWritten, Zenon
    <3>4. QED
      BY <2>6, <3>2, <3>3, SameNames, Zenon DEF Knows
  <2>7. ASSUME Knows, NEW g \in Gens, BroadcastSkipped(g) \/ BroadcastLost(g) PROVE MasterKnows' /\ OwnerKnows'
    <3>1. /\ bcast' = bcast \ {g} /\ untold' = untold \cup {g} /\ g \in bcast
          /\ UNCHANGED <<nextGen, epoch, route, fence, job, hand, net, probes, regressed, ownerNames>>
      BY <2>7, Zenon DEF BroadcastSkipped, BroadcastLost, ownerNames, masterVars, localVars, evictVars
    <3>2. MasterKnows'
      BY <2>7, <3>1, NamedGens, StillWritten, Zenon DEF Knows
    <3>3. QED
      BY <2>7, <3>1, <3>2, SameNames, Zenon DEF Knows
  <2>8. ASSUME Knows, NEW g \in Gens, BroadcastApply(g) PROVE MasterKnows' /\ OwnerKnows'
    <3>1. /\ bcast' = bcast \ {g} /\ untold' \in {untold, untold \cup {g}} /\ g \in bcast
          /\ idx' \in {idx, 0} /\ pend' \in {pend, 0}
          /\ UNCHANGED <<nextGen, epoch, route, fence, job, hand, net, probes, regressed>>
          /\ UNCHANGED <<op, sel, lput, lget, rget, evict, rec>>
      BY <2>8, Zenon DEF BroadcastApply, masterVars, localVars, evictVars
    <3>2. MasterKnows'
      BY <2>8, <3>1, NamedGens, StillWritten, Zenon DEF Knows
    <3>3. OwnerKnows'
      BY <2>8, <3>1, NamedGens, StillKnown, Zenon DEF Knows
    <3>4. QED
      BY <3>2, <3>3, Zenon
  <2>9. QED
    BY <2>1, <2>2, <2>3, <2>4, <2>5, <2>6, <2>7, <2>8, Zenon DEF Put, Broadcast
\* Readers, remote reads and the owner's gets.
<1>GetKnows. Knows /\ (Read \/ RemoteGet \/ OwnerGet) => MasterKnows' /\ OwnerKnows'
  <2>1. ASSUME Knows, Read PROVE MasterKnows' /\ OwnerKnows'
    <3>1. UNCHANGED <<masterNames, ownerNames>>
      BY <2>1, Zenon DEF Read, ReadStart, ReadEnd, masterNames, ownerNames, masterVars, netVars, evictVars, ghostVars
    <3>2. QED
      BY <2>1, <3>1, SameNames, Zenon DEF Knows
  <2>2. ASSUME Knows, RemoteGet PROVE MasterKnows' /\ OwnerKnows'
    <3>1. /\ UNCHANGED masterNames
          /\ UNCHANGED <<op, idx, sel, pend, lput, lget, evict, rec>>
      BY <2>2, Zenon DEF RemoteGet, RemoteGetPlan, RemoteGetAcquire, RemoteGetDone, RemoteGetExpire,
         masterNames, netVars, localVars, evictVars, ghostVars
    <3>2. rget' = NoRGet \/ (rget'.pc # "idle" /\ Older(rget'.gen))
      <4>1. CASE RemoteGetPlan
        BY <2>2, <4>1, NamedGens, Zenon DEF RemoteGetPlan
      <4>2. CASE RemoteGetAcquire \/ RemoteGetDone
        BY <2>2, <4>2, NamedGens DEF RemoteGetAcquire, RemoteGetDone, NoRGet, Knows, CountTypes, RGets
      <4>3. CASE RemoteGetExpire
        BY <2>2, <4>3, NamedGens, SMTT(30) DEF RemoteGetExpire, NoRGet, Knows, CountTypes, RGets
      <4>4. QED
        BY <2>2, <4>1, <4>2, <4>3, Zenon DEF RemoteGet
    <3>3. OwnerKnows'
      BY <2>2, <3>1, <3>2, NamedGens, StillKnown, Zenon DEF Knows, masterNames
    <3>4. QED
      BY <2>2, <3>1, <3>3, SameNames, Zenon DEF Knows
  <2>3. ASSUME Knows, OwnerGet PROVE MasterKnows' /\ OwnerKnows'
    <3>0. lget \in Gets /\ lget.gen \in Nat
      BY <2>3, Zenon DEF Knows, Types, OwnerTypes, Gets
    <3>1. lget' = NoLGet \/ (lget'.pc # "idle" /\ Older(lget'.gen))
      <4>1. CASE \E ext \in BOOLEAN : OwnerGetPlan(ext)
        BY <2>3, <4>1, NamedGens DEF OwnerGetPlan
      <4>2. CASE OwnerGetExpire
        BY <2>3, <3>0, <4>2, NamedGens DEF OwnerGetExpire, NoLGet, Gets
      <4>3. CASE OwnerGetInstall
        <5>1. lget' = NoLGet \/ (lget'.pc = "hidden" /\ lget'.gen = lget.gen)
          BY <3>0, <4>3, Zenon DEF OwnerGetInstall, Gets
        <5>2. lget # NoLGet
          BY <4>3 DEF OwnerGetInstall, NoLGet
        <5>3. QED
          BY <2>3, <5>1, <5>2, NamedGens, Zenon
      <4>4. CASE OwnerGetDone
        <5>1. lget'.pc # "idle" /\ lget'.gen = lget.gen /\ lget # NoLGet
          BY <3>0, <4>4 DEF OwnerGetDone, NoLGet, Gets
        <5>2. QED
          BY <2>3, <5>1, NamedGens, Zenon
      <4>5. CASE OwnerGetPromote \/ OwnerGetAbort
        BY <4>5, Zenon DEF OwnerGetPromote, OwnerGetAbort
      <4>6. QED
        BY <2>3, <4>1, <4>2, <4>3, <4>4, <4>5, Zenon DEF OwnerGet
    <3>2. UNCHANGED <<nextGen, epoch, fence, job, hand, net, probes, bcast, untold, op, sel, lput, rget, evict, rec>>
      BY <2>3, Zenon DEF OwnerGet, OwnerGetPlan, OwnerGetExpire, OwnerGetInstall, OwnerGetDone, OwnerGetPromote,
         OwnerGetAbort, masterVars, netVars, localVars, evictVars, ghostVars
    <3>3. pend' \in {pend, 0} \/ Older(pend')
      <4>1. CASE OwnerGetInstall
        <5>1. lget # NoLGet /\ pend' \in {pend, lget.gen}
          BY <4>1 DEF OwnerGetInstall, NoLGet
        <5>2. QED
          BY <2>3, <5>1, NamedGens, Zenon
      <4>2. QED
        BY <2>3, <4>1, Zenon DEF OwnerGet, OwnerGetPlan, OwnerGetExpire, OwnerGetDone, OwnerGetPromote, OwnerGetAbort, localVars
    <3>4. idx' \in {idx, pend} /\ regressed' \in {regressed, regressed \cup {idx}}
          /\ (regressed' # regressed => idx # 0)
      <4>1. CASE OwnerGetPromote
        BY <2>3, <4>1, GenTypes DEF OwnerGetPromote, Knows
      <4>2. QED
        BY <2>3, <4>1, Zenon DEF OwnerGet, OwnerGetPlan, OwnerGetExpire, OwnerGetInstall, OwnerGetDone, OwnerGetAbort,
           localVars, ghostVars
    <3>5. route'.gen = route.gen /\ (route'.own => route.own)
      <4>1. CASE OwnerGetDone
        BY <2>3, <4>1, Zenon DEF OwnerGetDone, Knows, Types, MasterTypes
      <4>2. QED
        BY <2>3, <4>1, Zenon DEF OwnerGet, OwnerGetPlan, OwnerGetExpire, OwnerGetInstall, OwnerGetPromote, OwnerGetAbort,
           masterVars
    <3>6. MasterKnows'
      BY <2>3, <3>2, <3>4, <3>5, NamedGens, StillWritten, Zenon DEF Knows, MasterKnows
    <3>7. OwnerKnows'
      <4>1. idx' \in {idx, 0} \/ Older(idx')
        BY <2>3, <3>4, NamedGens, Zenon
      <4>2. QED
        BY <2>3, <3>1, <3>2, <3>3, <4>1, NamedGens, StillKnown, Zenon DEF Knows
    <3>8. QED
      BY <3>6, <3>7, Zenon
  <2>4. QED
    BY <2>1, <2>2, <2>3, Zenon
\* The job.
<1>JobKnows. Knows /\ Job => MasterKnows' /\ OwnerKnows'
  <2> SUFFICES ASSUME Knows, Job PROVE MasterKnows' /\ OwnerKnows'
    BY Zenon
  <2>1. UNCHANGED ownerNames /\ UNCHANGED <<nextGen, hand, probes, bcast, untold, regressed>>
    BY Zenon DEF Job, JobPlan, JobFence, JobTimeout, JobValidate, JobAbort, JobFinish, JobFinalizeRetry, JobClear,
       ownerNames, netVars, localVars, evictVars, ghostVars
  <2>2. CASE JobPlan
    <3>1. /\ job'.pc = "planned" /\ job'.item.gen = route.gen /\ route.own /\ epoch' <= MaxEpoch
          /\ UNCHANGED <<route, fence, net>>
      BY <2>2, BoundAssumption, SMTT(30) DEF JobPlan, netVars, Knows, Types, MasterTypes
    <3>2. QED
      BY <2>1, <3>1, NamedGens, StillWritten, SameNames, Zenon DEF Knows
  <2>3. CASE ~JobPlan
    <3>1. /\ epoch' = epoch /\ fence' \in {fence, NoItem, job.item}
          /\ job' = NoJob \/ (job'.item = job.item /\ job'.pc # "idle" /\ job # NoJob)
          /\ \A m \in net' : m \in net \/ m.item = job.item
          /\ job = NoJob => fence' = fence /\ net' = net
          /\ route' \in {route, NoRoute}
      <4>0. job \in Jobs /\ job.try \in Nat
        BY Zenon DEF Knows, Types, MasterTypes, Jobs
      <4>1. ASSUME NEW ph \in Phases, NEW t \in Nat, Send(ph, t)
            PROVE  /\ job'.item = job.item /\ job'.pc # "idle"
                   /\ \A m \in net' : m \in net \/ m.item = job.item
        <5>1. /\ net' = net \cup {Request(ph, job.item, t)}
              /\ job'.item = job.item /\ job'.pc = ph
          BY <4>1, SendMoves, Zenon DEF Knows
        <5>2. Request(ph, job.item, t).item = job.item
          BY Zenon DEF Request
        <5>3. QED
          BY <5>1, <5>2, Zenon DEF Phases
      <4>2. CASE JobTimeout
        BY <4>0, <4>2, TimeoutMoves DEF JobTimeout, NoJob, Knows, netVars
      <4>3. CASE JobFence
        BY <4>0, <4>1, <4>3 DEF JobFence, NoJob, Phases
      <4>4. CASE JobValidate
        <5>1. CASE Send("commit", 0)
          BY <4>0, <4>1, <4>4, <5>1 DEF JobValidate, NoJob, Phases
        <5>2. CASE job' = [job EXCEPT !.pc = "toabort"] /\ UNCHANGED net
          BY <4>0, <4>4, <5>2, SMTT(30) DEF JobValidate, NoJob, Jobs
        <5>3. QED
          BY <4>4, <5>1, <5>2, Zenon DEF JobValidate
      <4>5. CASE JobAbort \/ JobFinish \/ JobFinalizeRetry
        BY <4>0, <4>1, <4>5 DEF JobAbort, JobFinish, JobFinalizeRetry, NoJob, Phases
      <4>6. CASE JobClear
        BY <4>0, <4>6 DEF JobClear, NoJob, netVars
      <4>7. QED
        BY <2>3, <4>2, <4>3, <4>4, <4>5, <4>6, Zenon DEF Job
    <3>2. job = NoJob \/ (Older(job.item.gen) /\ job.item.why # "none")
      BY NamedGens, Zenon DEF Knows, ProtocolInv, FenceOwner
    <3>3. nextGen \in Nat
      BY NamedGens, Zenon
    <3>4. NoRoute.gen <= nextGen /\ ~NoRoute.own
      BY <3>3 DEF NoRoute
    <3>5. MasterKnows'
      BY <2>1, <3>1, <3>2, <3>4, NamedGens, StillWritten, Zenon
    <3>6. QED
      BY <2>1, <3>5, SameNames, Zenon DEF Knows
  <2>4. QED
    BY <2>2, <2>3, Zenon
\* The owner's answers and its reclaim record.
<1>PhaseKnows. Knows /\ OwnerPhase => MasterKnows' /\ OwnerKnows'
  <2>0. ASSUME Knows, NEW m \in Requests, NEW a \in Answers, Answer(m, a)
        PROVE  job' = job \/ (job'.pc # "idle" /\ Older(job'.item.gen))
    <3>1. job' \in Jobs /\ job'.item = job.item /\ (job' = job \/ Moved(m, a))
      BY <2>0, AnswerMoves, Zenon DEF Knows
    <3>2. Moved(m, a) => job'.pc # "idle" /\ job # NoJob
      BY DEF Moved, Requests, Phases, NoJob
    <3>3. QED
      BY <2>0, <3>1, <3>2, NamedGens, Zenon
  <2>1. ASSUME Knows, NEW m \in net, HandlePrepare(m) PROVE MasterKnows' /\ OwnerKnows'
    <3> DEFINE st == PrepareStep(m.item)
    <3>1. /\ m \in Requests /\ m.item \in Items /\ m.item.why = "master" /\ Older(m.item.gen)
      BY <2>1, GenTypes, NamedGens, Zenon DEF Knows, ProtocolInv, NetItems
    <3>2. /\ PrepareEffect(m.item, st) /\ net' = net \ {m}
          /\ UNCHANGED <<nextGen, epoch, route, fence, hand, bcast, untold, regressed, op, pend, lput, lget, rget, evict>>
      BY <2>1, Zenon DEF HandlePrepare, evictVars
    <3>3. /\ rec' = rec \/ rec'.item = m.item
          /\ idx' \in {idx, 0} /\ sel' \in {sel, 0}
      BY <3>2, Zenon DEF PrepareEffect, Prepared
    <3>4. /\ job' = job \/ (job'.pc # "idle" /\ Older(job'.item.gen))
          /\ \A p \in probes' : p \in probes \/ p.req = m
      <4>1. CASE probes' = probes \cup {[req |-> m, seen |-> "no"]} /\ UNCHANGED job
        BY <4>1
      <4>2. CASE Answer(m, PrepareAnswer(st)) /\ UNCHANGED probes
        BY <2>0, <2>1, <3>1, <3>2, <4>2, PrepareTypes, Zenon DEF Knows
      <4>3. QED
        BY <2>1, <4>1, <4>2, Zenon DEF HandlePrepare
    <3> HIDE DEF st
    <3>5. MasterKnows'
      BY <2>1, <3>1, <3>2, <3>4, NamedGens, StillWritten, Zenon DEF Knows
    <3>6. OwnerKnows'
      BY <2>1, <3>1, <3>2, <3>3, NamedGens, StillKnown, Zenon DEF Knows
    <3>7. QED
      BY <3>5, <3>6, Zenon
  <2>2. ASSUME Knows, NEW m \in net, CommitBegin(m) PROVE MasterKnows' /\ OwnerKnows'
    <3>1. /\ rec'.item = rec.item /\ rec # NoRec /\ net' = net \ {m}
          /\ UNCHANGED <<nextGen, epoch, route, fence, job, hand, probes, bcast, untold, regressed,
                         op, idx, sel, pend, lput, lget, rget, evict>>
      BY <2>2, SMTT(30) DEF CommitBegin, masterVars, evictVars, ghostVars, NoRec, Knows, Types, OwnerTypes, Records
    <3>2. MasterKnows'
      BY <2>2, <3>1, NamedGens, StillWritten, Zenon DEF Knows
    <3>3. OwnerKnows'
      BY <2>2, <3>1, NamedGens, StillKnown, Zenon DEF Knows
    <3>4. QED
      BY <3>2, <3>3, Zenon
  <2>3. ASSUME Knows, NEW m \in net, CommitRefused(m) \/ HandleAbort(m) \/ HandleFinalize(m)
        PROVE  MasterKnows' /\ OwnerKnows'
    <3>1. /\ m \in Requests /\ net' = net \ {m} /\ rec' \in {rec, NoRec} /\ idx' \in {idx, rec.item.gen}
          /\ idx' # idx => rec # NoRec
          /\ UNCHANGED <<nextGen, epoch, route, fence, hand, probes, bcast, untold, regressed,
                         op, sel, pend, lput, lget, rget, evict>>
      BY <2>3 DEF CommitRefused, HandleAbort, HandleFinalize, localVars, evictVars, ghostVars, Knows, Types, OwnerTypes,
         NoRec
    <3>2. PICK a \in Answers : Answer(m, a)
      BY <2>3, Zenon DEF CommitRefused, HandleAbort, HandleFinalize, Answers
    <3>3. MasterKnows'
      BY <2>0, <2>3, <3>1, <3>2, NamedGens, StillWritten, Zenon DEF Knows
    <3>4. OwnerKnows'
      BY <2>3, <3>1, NamedGens, StillKnown, Zenon DEF Knows
    <3>5. QED
      BY <3>3, <3>4, Zenon
  <2>4. ASSUME Knows, NEW p \in probes, ProbeSlot(p) PROVE MasterKnows' /\ OwnerKnows'
    <3>1. /\ \A q \in probes' : q \in probes \/ q.req = p.req
          /\ UNCHANGED <<nextGen, epoch, route, fence, job, hand, net, bcast, untold, regressed>>
          /\ UNCHANGED ownerNames
      BY <2>4, Zenon DEF ProbeSlot, ownerNames, masterVars, netVars, evictVars, ghostVars, Knows, Types, OwnerTypes, Probes
    <3>2. MasterKnows'
      BY <2>4, <3>1, NamedGens, StillWritten, Zenon DEF Knows
    <3>3. QED
      BY <2>4, <3>1, <3>2, SameNames, Zenon DEF Knows
  <2>5. ASSUME Knows, NEW p \in probes, ProbeInstall(p) PROVE MasterKnows' /\ OwnerKnows'
    <3>1. /\ p.req \in Requests /\ p.req.item \in Items /\ p.req.item.why = "master" /\ Older(p.req.item.gen)
      BY <2>5, GenTypes, NamedGens, Zenon DEF Knows, ProtocolInv, NetItems
    <3>2. PICK a \in Answers : Answer(p.req, a)
      BY <2>5, Zenon DEF ProbeInstall, Answers
    <3>3. /\ probes' = probes \ {p} /\ (rec' = rec \/ rec'.item = p.req.item)
          /\ UNCHANGED <<nextGen, epoch, route, fence, hand, net, bcast, untold, regressed,
                         op, idx, sel, pend, lput, lget, rget, evict>>
      BY <2>5, Zenon DEF ProbeInstall, Prepared, netVars, evictVars, ghostVars
    <3>4. MasterKnows'
      BY <2>0, <2>5, <3>1, <3>2, <3>3, NamedGens, StillWritten, Zenon DEF Knows
    <3>5. OwnerKnows'
      BY <2>5, <3>1, <3>3, NamedGens, StillKnown, Zenon DEF Knows
    <3>6. QED
      BY <3>4, <3>5, Zenon
  <2>6. ASSUME Knows, CommitEnd PROVE MasterKnows' /\ OwnerKnows'
    <3>1. Request("commit", rec.item, 0) \in Requests
      BY <2>6, Zenon DEF Knows, Types, OwnerTypes, Records, Request, Requests, Phases
    <3>2. /\ rec'.item = rec.item /\ rec # NoRec
          /\ UNCHANGED <<nextGen, epoch, route, fence, hand, net, probes, bcast, untold, regressed,
                         op, idx, sel, pend, lput, lget, rget>>
          /\ evict' = evict \/ (evict # NoEvict /\ evict'.pc = evict.pc /\ evict'.gen = evict.gen)
      <4>1. rec # NoRec /\ Older(rec.item.gen)
        BY <2>6, NamedGens DEF CommitEnd, NoRec
      <4>2. evict.gen = rec.item.gen => evict # NoEvict
        BY <4>1 DEF NoEvict, Older, Written
      <4>3. QED
        BY <2>6, <4>1, <4>2, Zenon DEF CommitEnd, netVars, Knows, Types, OwnerTypes, Records, Evicts
    <3>3. MasterKnows'
      BY <2>0, <2>6, <3>1, <3>2, NamedGens, StillWritten, Zenon DEF Knows, CommitEnd, Answers
    <3>4. OwnerKnows'
      BY <2>6, <3>2, NamedGens, StillKnown, Zenon DEF Knows
    <3>5. QED
      BY <3>3, <3>4, Zenon
  <2>7. QED
    BY <2>1, <2>2, <2>3, <2>4, <2>5, <2>6, Zenon DEF OwnerPhase
\* The eviction worker.
<1>WorkerKnows. Knows /\ Evict => MasterKnows' /\ OwnerKnows'
  <2> SUFFICES ASSUME Knows, Evict PROVE MasterKnows' /\ OwnerKnows'
    BY Zenon
  <2>0. evict \in Evicts /\ evict.gen \in Nat /\ op \in Nat
    BY Zenon DEF Knows, Types, OwnerTypes, Evicts
  <2>1. UNCHANGED <<nextGen, epoch, route, fence, job, net, probes, bcast, regressed, pend, lput, lget, rget>>
    BY Zenon DEF Evict, EvictSelect, EvictSend, EvictTimeout, EvictLost, EvictAnswered, EvictCommit, EvictRelease,
       EvictFinalize, masterVars, netVars, localVars, ghostVars
  <2>2. /\ untold' \in {untold, untold \cup {evict.gen}}
        /\ untold' # untold => evict # NoEvict
    <3>1. CASE EvictLost \/ EvictAnswered
      BY <3>1 DEF EvictLost, EvictAnswered, FinishSelection, NoEvict
    <3>2. QED
      BY <3>1, Zenon DEF Evict, EvictSelect, EvictSend, EvictTimeout, EvictCommit, EvictRelease, EvictFinalize, ghostVars
  <2>3. /\ op' <= MaxOp /\ \A o \in 1..MaxOp : hand'[o] = hand[o] \/ (hand'[o].gen = evict.gen /\ evict # NoEvict)
    <3>1. CASE \E r \in BOOLEAN : EvictSend(r)
      BY <2>0, <3>1, BoundAssumption DEF EvictSend, NoEvict, Knows, Types, MasterTypes, Handlers
    <3>2. CASE ~\E r \in BOOLEAN : EvictSend(r)
      <4>1. UNCHANGED <<op, hand>>
        BY <3>2, Zenon DEF Evict, EvictSelect, EvictTimeout, EvictLost, EvictAnswered, EvictCommit, EvictRelease,
           EvictFinalize, masterVars
      <4>2. QED
        BY <4>1, NamedGens, Zenon
    <3>3. QED
      BY <3>1, <3>2, Zenon
  <2>4. \/ evict' = NoEvict
        \/ evict'.pc # "idle" /\ evict'.gen = idx /\ idx # 0
        \/ evict'.pc # "idle" /\ evict'.gen = evict.gen /\ evict # NoEvict
    <3>1. CASE EvictSelect
      BY <3>1, Zenon DEF EvictSelect
    <3>2. CASE EvictLost \/ EvictFinalize
      BY <3>2, Zenon DEF EvictLost, FinishSelection, EvictFinalize
    <3>3. CASE (\E r \in BOOLEAN : EvictSend(r)) \/ EvictTimeout \/ EvictCommit \/ EvictRelease
      <4>1. evict # NoEvict
        <5>1. evict.pc \in {"send", "wait", "commit", "release"}
          BY <3>3, Zenon DEF EvictSend, EvictTimeout, EvictCommit, EvictRelease
        <5>2. QED
          BY <5>1 DEF NoEvict
      <4>2. \E pc \in {"wait", "send", "release", "finalize"} : evict' = [evict EXCEPT !.pc = pc]
        BY <3>3, Zenon DEF EvictSend, EvictTimeout, EvictCommit, EvictRelease
      <4>3. QED
        BY <2>0, <4>1, <4>2, Zenon DEF Evicts
    <3>4. CASE EvictAnswered
      BY <2>0, <3>4 DEF EvictAnswered, FinishSelection, NoEvict, Evicts
    <3>5. QED
      BY <3>1, <3>2, <3>3, <3>4, Zenon DEF Evict
  <2>5. (idx' \in {idx, 0, sel}) /\ (sel' \in {sel, 0, idx})
    BY Zenon DEF Evict, EvictSelect, EvictSend, EvictTimeout, EvictLost, EvictAnswered, EvictCommit, EvictRelease,
       EvictFinalize, FinishSelection, PrepareEffect, localVars
  <2>6. \/ rec' \in {rec, NoRec}
        \/ rec' # NoRec /\ rec'.item = rec.item /\ rec # NoRec
        \/ rec'.item = EvictItem(evict.gen, op) /\ evict # NoEvict
    <3>1. CASE EvictCommit \/ EvictRelease
      <4>1. rec.st \in {"Prepared", "Releasing"}
        BY <3>1, Zenon DEF EvictCommit, EvictRelease, Knows, ProtocolInv, LocalReclaim
      <4>2. rec'.item = rec.item /\ rec'.st # "none" /\ rec.st # "none"
        BY <3>1, <4>1, Zenon DEF EvictCommit, EvictRelease, Knows, Types, OwnerTypes, Records
      <4>3. QED
        BY <4>2 DEF NoRec
    <3>2. CASE EvictAnswered
      BY <3>2, SMTT(30) DEF EvictAnswered, FinishSelection, PrepareEffect, Prepared, NoEvict
    <3>3. QED
      BY <3>1, <3>2, Zenon DEF Evict, EvictSelect, EvictSend, EvictTimeout, EvictLost, EvictFinalize,
         FinishSelection, localVars
  <2>7. MasterKnows'
    BY <2>1, <2>2, <2>3, NamedGens, StillWritten, Zenon DEF Knows
  <2>8. OwnerKnows'
    <3>1. /\ idx' \in {idx, 0} \/ Older(idx')
          /\ sel' \in {sel, 0} \/ Older(sel')
      BY <2>5, NamedGens, Zenon
    <3>2. evict' \in {evict, NoEvict} \/ (evict'.pc # "idle" /\ Older(evict'.gen))
      BY <2>4, NamedGens, Zenon
    <3>3. rec' \in {rec, NoRec} \/ (Older(rec'.item.gen) /\ rec'.item.why # "none")
      <4>1. EvictItem(evict.gen, op).gen = evict.gen /\ EvictItem(evict.gen, op).why # "none"
        BY DEF EvictItem
      <4>2. QED
        BY <2>6, <4>1, NamedGens, Zenon
    <3>4. QED
      BY <2>1, <2>3, <3>1, <3>2, <3>3, NamedGens, StillKnown, Zenon DEF Knows
  <2>9. QED
    BY <2>7, <2>8, Zenon
\* The handlers of eviction requests.
<1>HandlerKnows. Knows /\ EvictHandler => MasterKnows' /\ OwnerKnows'
  <2> SUFFICES ASSUME Knows, NEW o \in 1..MaxOp,
                      \/ EvictFence(o) \/ EvictReplan(o)
                      \/ \E out \in EvictDecisions(hand[o]) : EvictApply(o, out)
               PROVE  MasterKnows' /\ OwnerKnows'
    BY Zenon DEF EvictHandler
  <2>1. hand[o].pc \in {"sent", "fenced", "ready"}
    BY Zenon DEF EvictFence, EvictReplan, EvictApply
  <2>2. UNCHANGED <<nextGen, epoch, job, net, probes, bcast, regressed, op, idx, sel, pend, lput, lget, rget, rec>>
    BY Zenon DEF EvictFence, EvictReplan, EvictApply, netVars, localVars, ghostVars
  <2>3. Older(hand[o].gen)
    BY <2>1, NamedGens, Zenon
  <2>4. /\ untold' \in {untold, untold \cup {hand[o].gen}}
        /\ route' = route \/ route' = NoRoute \/ route' = [route EXCEPT !.indexed = FALSE]
    BY Zenon DEF EvictFence, EvictReplan, EvictApply, ghostVars
  <2>5. route' = route \/ (route'.gen <= nextGen /\ (route'.own => route'.gen # 0))
    <3>1. route \in [gen : Nat, own : BOOLEAN, indexed : BOOLEAN] /\ route.gen <= nextGen /\ (route.own => route.gen # 0)
      BY Zenon DEF Knows, Types, MasterTypes, MasterKnows
    <3>3. CASE route' = [route EXCEPT !.indexed = FALSE]
      <4>1. route'.gen = route.gen /\ route'.own = route.own
        BY <3>1, <3>3, Zenon
      <4>2. QED
        BY <3>1, <4>1, Zenon
    <3>4. CASE route' = NoRoute
      <4>1. nextGen \in Nat
        BY NamedGens, Zenon
      <4>2. NoRoute.gen <= nextGen /\ ~NoRoute.own
        BY <4>1 DEF NoRoute
      <4>3. QED
        BY <3>4, <4>2, Zenon
    <3>5. QED
      BY <2>4, <3>3, <3>4, Zenon
  <2>6. /\ fence' \in {fence, NoItem} \/ (Older(fence'.gen) /\ fence'.why # "none")
        /\ \A q \in 1..MaxOp : hand'[q] = hand[q] \/ Older(hand'[q].gen)
        /\ evict' = evict \/ (evict'.pc # "idle" /\ Older(evict'.gen))
    <3>1. fence' \in {fence, NoItem, EvictItem(hand[o].gen, o)}
      BY Zenon DEF EvictFence, EvictReplan, EvictApply
    <3>2. \A q \in 1..MaxOp : hand'[q] = hand[q] \/ hand'[q].gen = hand[o].gen
      <4>1. \E pc \in {"fenced", "ready", "done"} : hand' = [hand EXCEPT ![o].pc = pc]
        BY Zenon DEF EvictFence, EvictReplan, EvictApply, Reply
      <4>2. QED
        BY <4>1 DEF Knows, Types, MasterTypes, Handlers
    <3>3. evict' = evict \/ (evict # NoEvict /\ evict'.pc = "answered" /\ evict'.gen = evict.gen)
      <4>1. evict' = evict \/ \E out : evict.pc = "wait" /\ evict' = [evict EXCEPT !.pc = "answered", !.out = out]
        BY Zenon DEF EvictFence, EvictReplan, EvictApply, Reply
      <4>2. QED
        <5>1. evict.pc = "wait" => evict # NoEvict
          BY DEF NoEvict
        <5>2. QED
          BY <4>1, <5>1, Zenon DEF Knows, Types, OwnerTypes, Evicts
    <3>4. QED
      <4>1. EvictItem(hand[o].gen, o).gen = hand[o].gen /\ EvictItem(hand[o].gen, o).why # "none"
        BY DEF EvictItem
      <4>2. QED
        BY <2>3, <3>1, <3>2, <3>3, <4>1, NamedGens, Zenon
  <2>7. MasterKnows'
    BY <2>2, <2>3, <2>4, <2>5, <2>6, NamedGens, StillWritten, Zenon DEF Knows
  <2>8. OwnerKnows'
    BY <2>2, <2>6, NamedGens, StillKnown, Zenon DEF Knows
  <2>9. QED
    BY <2>7, <2>8, Zenon
<1>1. Knows /\ UNCHANGED vars => MasterKnows' /\ OwnerKnows'
  <2>1. UNCHANGED vars => UNCHANGED <<masterNames, ownerNames>>
    BY Zenon DEF vars, masterNames, ownerNames, masterVars, netVars, localVars, evictVars, ghostVars
  <2>2. QED
    BY <2>1, SameNames, Zenon DEF Knows
<1>2. QED
  BY <1>1, <1>PutKnows, <1>GetKnows, <1>JobKnows, <1>PhaseKnows, <1>WorkerKnows, <1>HandlerKnows, Zenon DEF Next

-----------------------------------------------------------------------------
(* The key's activity.                                                     *)

\* Every step keeps the count.
LEMMA StepCounts == Knows /\ GetCount /\ [Next]_vars => CountTypes' /\ GetCount'
\* Remote reads.
<1>RemoteCount. Knows /\ GetCount /\ RemoteGet => rget' \in RGets /\ gets' \in Nat /\ GetCount'
  <2> SUFFICES ASSUME Knows, GetCount, RemoteGet PROVE rget' \in RGets /\ gets' \in Nat /\ GetCount'
    BY Zenon
  <2>0. /\ rget \in RGets /\ gets \in Nat /\ UNCHANGED <<lget, fence>>
        /\ Acts(lget) \in Nat /\ Acts(rget) \in Nat /\ Acts(NoRGet) = 0
    BY Zenon DEF RemoteGet, RemoteGetPlan, RemoteGetAcquire, RemoteGetDone, RemoteGetExpire, Knows, CountTypes, Acts, NoRGet
  <2>1. CASE RemoteGetPlan
    <3>1. /\ rget = NoRGet /\ fence = NoItem /\ gets' = gets + 1 /\ rget' \in RGets
          /\ rget'.pc = "planned" /\ Acts(rget') = 1
      BY <2>1, Zenon DEF RemoteGetPlan, RGets, Acts, Knows, Types, MasterTypes
    <3>2. QED
      BY <2>0, <3>1 DEF GetCount
  <2>2. CASE RemoteGetAcquire
    <3>1. CASE rget' = [rget EXCEPT !.pc = "leased"] /\ UNCHANGED gets
      <4>1. rget' \in RGets /\ rget'.pc = "leased" /\ rget'.act = rget.act
        BY <2>0, <3>1, Zenon DEF RGets
      <4>2. QED
        BY <2>0, <3>1, <4>1, Zenon DEF GetCount, Acts
    <3>2. CASE rget' = NoRGet /\ gets' = gets - Acts(rget)
      BY <2>0, <3>2 DEF GetCount, NoRGet, RGets
    <3>3. QED
      BY <2>2, <3>1, <3>2, Zenon DEF RemoteGetAcquire
  <2>3. CASE RemoteGetDone
    BY <2>0, <2>3 DEF RemoteGetDone, GetCount, NoRGet, RGets
  <2>4. CASE RemoteGetExpire
    <3>1. rget' \in RGets /\ ~rget'.act /\ rget.act /\ gets' = gets - 1
      BY <2>0, <2>4, Zenon DEF RemoteGetExpire, RGets
    <3>2. Acts(rget) = 1 /\ Acts(rget') = 0
      BY <3>1, Zenon DEF Acts
    <3>3. QED
      BY <2>0, <3>1, <3>2 DEF GetCount
  <2>5. QED
    BY <2>1, <2>2, <2>3, <2>4, Zenon DEF RemoteGet
\* The owner's gets.
<1>OwnerCount. Knows /\ GetCount /\ OwnerGet => gets' \in Nat /\ GetCount'
  <2> SUFFICES ASSUME Knows, GetCount, OwnerGet PROVE gets' \in Nat /\ GetCount'
    BY Zenon
  <2>0. /\ lget \in Gets /\ gets \in Nat /\ UNCHANGED <<rget, fence>>
        /\ Acts(lget) \in Nat /\ Acts(rget) \in Nat /\ Acts(NoLGet) = 0
    BY Zenon DEF OwnerGet, OwnerGetPlan, OwnerGetExpire, OwnerGetInstall, OwnerGetDone, OwnerGetPromote, OwnerGetAbort,
       masterVars, Knows, CountTypes, Types, OwnerTypes, Acts, NoLGet
  <2>1. CASE \E ext \in BOOLEAN : OwnerGetPlan(ext)
    <3>1. /\ lget = NoLGet /\ fence = NoItem /\ gets' = gets + 1 /\ lget'.pc = "planned" /\ Acts(lget') = 1
      BY <2>1 DEF OwnerGetPlan, Acts
    <3>2. QED
      BY <2>0, <3>1 DEF GetCount
  <2>2. CASE OwnerGetExpire
    <3>1. ~lget'.act /\ lget.act /\ gets' = gets - 1
      BY <2>0, <2>2, Zenon DEF OwnerGetExpire, Gets
    <3>2. Acts(lget) = 1 /\ Acts(lget') = 0
      BY <3>1, Zenon DEF Acts
    <3>3. QED
      BY <2>0, <3>1, <3>2 DEF GetCount
  <2>3. CASE OwnerGetInstall
    <3>1. \/ UNCHANGED gets /\ lget'.pc = "hidden" /\ lget'.act = lget.act
          \/ lget' = NoLGet /\ gets' = gets - Acts(lget)
      BY <2>0, <2>3, Zenon DEF OwnerGetInstall, Gets
    <3>2. QED
      BY <2>0, <3>1 DEF GetCount, Acts, NoLGet
  <2>4. CASE OwnerGetDone
    <3>1. lget'.act = FALSE /\ gets' = gets - Acts(lget)
      BY <2>0, <2>4, Zenon DEF OwnerGetDone, Gets
    <3>2. Acts(lget') = 0
      BY <3>1, Zenon DEF Acts
    <3>3. QED
      BY <2>0, <3>1, <3>2 DEF GetCount
  <2>5. CASE OwnerGetPromote \/ OwnerGetAbort
    <3>1. lget.pc \in {"accepted", "rejected"} /\ lget' = NoLGet /\ UNCHANGED gets
      BY <2>5, Zenon DEF OwnerGetPromote, OwnerGetAbort, masterVars
    <3>2. ~lget.act /\ Acts(lget) = 0
      BY <2>0, <3>1, Zenon DEF GetCount, Acts
    <3>3. QED
      BY <2>0, <3>1, <3>2, Zenon DEF GetCount, NoLGet
  <2>6. QED
    BY <2>1, <2>2, <2>3, <2>4, <2>5, Zenon DEF OwnerGet
\* A fence is installed only while no get holds the key.
<1>FenceCount. Knows /\ GetCount /\ (Job \/ EvictHandler) => GetCount'
  <2> SUFFICES ASSUME Knows, GetCount, Job \/ EvictHandler PROVE GetCount'
    BY Zenon
  <2>1. UNCHANGED <<gets, rget, lget>>
    BY Zenon DEF Job, JobPlan, JobFence, JobTimeout, JobValidate, JobAbort, JobFinish, JobFinalizeRetry, JobClear,
       EvictHandler, EvictFence, EvictReplan, EvictApply
  <2>2. fence' \in {fence, NoItem} \/ gets = 0
    BY Zenon DEF Job, JobPlan, JobFence, JobTimeout, JobValidate, JobAbort, JobFinish, JobFinalizeRetry, JobClear,
       EvictHandler, EvictFence, EvictReplan, EvictApply
  <2>3. QED
    BY <2>1, <2>2, Zenon DEF GetCount
\* Readers come and go one by one.
<1>ReaderTypes. Knows /\ (Read \/ OwnerGet) => readers' \in [Gens -> Nat] /\ failed' \in BOOLEAN
  <2>0. Knows => readers \in [Gens -> Nat] /\ failed \in BOOLEAN
    BY Zenon DEF Knows, CountTypes
  <2>1. ASSUME Knows, ReadStart PROVE readers' \in [Gens -> Nat] /\ failed' \in BOOLEAN
    <3>1. idx \in Gens
      BY <2>1, NamedGens, OlderGens, Zenon DEF ReadStart
    <3>2. QED
      BY <2>0, <2>1, <3>1 DEF ReadStart, ghostVars
  <2>2. ASSUME Knows, NEW g \in Gens, ReadEnd(g) PROVE readers' \in [Gens -> Nat] /\ failed' \in BOOLEAN
    BY <2>0, <2>2 DEF ReadEnd
  <2>3. ASSUME Knows, OwnerGet PROVE readers' \in [Gens -> Nat] /\ failed' \in BOOLEAN
    <3>1. CASE OwnerGetInstall
      BY <2>0, <2>3, <3>1 DEF OwnerGetInstall, ghostVars
    <3>2. CASE OwnerGetPromote
      BY <2>0, <2>3, <3>2, Zenon DEF OwnerGetPromote
    <3>3. QED
      BY <2>0, <2>3, <3>1, <3>2, Zenon DEF OwnerGet, OwnerGetPlan, OwnerGetExpire, OwnerGetDone, OwnerGetAbort, localVars,
         ghostVars
  <2>4. QED
    BY <2>1, <2>2, <2>3, Zenon DEF Read
\* The other steps have no readers, gets or remote reads to move.
<1>OtherCounts. Knows /\ (Put \/ MasterDelete \/ Broadcast \/ Job \/ OwnerPhase \/ Evict \/ EvictHandler) =>
                  UNCHANGED <<readers, gets, rget, lget>> /\ failed' \in BOOLEAN
  <2>0. Knows => failed \in BOOLEAN
    BY Zenon DEF Knows, CountTypes
  <2>1. Knows /\ (Put \/ MasterDelete \/ Broadcast) => UNCHANGED <<readers, gets, rget, lget>> /\ failed' \in BOOLEAN
    BY <2>0, Zenon DEF Put, OwnerPutStart, OwnerPutCommit, OwnerPutFail, OwnerPutPublish, OtherPut, MasterDelete,
       Broadcast, BroadcastSkipped, BroadcastLost, BroadcastApply, masterVars, localVars, ghostVars
  <2>2. Knows /\ Job => UNCHANGED <<readers, gets, rget, lget>> /\ failed' \in BOOLEAN
    BY <2>0, Zenon DEF Job, JobPlan, JobFence, JobTimeout, JobValidate, JobAbort, JobFinish, JobFinalizeRetry, JobClear,
       localVars, ghostVars
  <2>3. Knows /\ OwnerPhase => UNCHANGED <<readers, gets, rget, lget>> /\ failed' \in BOOLEAN
    BY <2>0, Zenon DEF OwnerPhase, HandlePrepare, PrepareEffect, CommitBegin, CommitRefused, HandleAbort, HandleFinalize,
       ProbeSlot, ProbeInstall, CommitEnd, ReleaseBacking, masterVars, localVars, ghostVars
  <2>4. Knows /\ Evict => UNCHANGED <<readers, gets, rget, lget>> /\ failed' \in BOOLEAN
    BY <2>0, Zenon DEF Evict, EvictSelect, EvictSend, EvictTimeout, EvictLost, EvictAnswered, EvictCommit, EvictRelease,
       EvictFinalize, FinishSelection, PrepareEffect, ReleaseBacking, masterVars, localVars, ghostVars
  <2>5. Knows /\ EvictHandler => UNCHANGED <<readers, gets, rget, lget>> /\ failed' \in BOOLEAN
    BY <2>0, Zenon DEF EvictHandler, EvictFence, EvictReplan, EvictApply, localVars, ghostVars
  <2>6. QED
    BY <2>1, <2>2, <2>3, <2>4, <2>5, Zenon
<1> SUFFICES ASSUME Knows, GetCount, [Next]_vars PROVE CountTypes' /\ GetCount'
  BY Zenon
<1>0. CountTypes
  BY Zenon DEF Knows
<1>1. CASE UNCHANGED vars
  BY <1>0, <1>1, Zenon DEF vars, masterVars, localVars, ghostVars, CountTypes, GetCount, Acts
<1>2. CASE RemoteGet
  <2>1. UNCHANGED <<readers, failed>>
    BY <1>2, Zenon DEF RemoteGet, RemoteGetPlan, RemoteGetAcquire, RemoteGetDone, RemoteGetExpire, localVars, ghostVars
  <2>2. QED
    BY <1>0, <1>2, <2>1, <1>RemoteCount, Zenon DEF CountTypes
<1>3. CASE OwnerGet
  <2>1. UNCHANGED rget
    BY <1>3, Zenon DEF OwnerGet, OwnerGetPlan, OwnerGetExpire, OwnerGetInstall, OwnerGetDone, OwnerGetPromote,
       OwnerGetAbort
  <2>2. QED
    BY <1>0, <1>3, <2>1, <1>OwnerCount, <1>ReaderTypes, Zenon DEF CountTypes
<1>4. CASE Read
  <2>1. UNCHANGED <<gets, rget, lget, fence>>
    BY <1>4, Zenon DEF Read, ReadStart, ReadEnd, masterVars
  <2>2. QED
    BY <1>0, <1>4, <2>1, <1>ReaderTypes, Zenon DEF CountTypes, GetCount
<1>5. CASE Job \/ EvictHandler
  BY <1>0, <1>5, <1>FenceCount, <1>OtherCounts, Zenon DEF CountTypes
<1>6. CASE Put \/ MasterDelete \/ Broadcast \/ OwnerPhase \/ Evict
  <2>1. UNCHANGED fence
    BY <1>6, Zenon DEF Put, OwnerPutStart, OwnerPutCommit, OwnerPutFail, OwnerPutPublish, OtherPut, MasterDelete,
       Broadcast, BroadcastSkipped, BroadcastLost, BroadcastApply, OwnerPhase, HandlePrepare, CommitBegin,
       CommitRefused, HandleAbort, HandleFinalize, ProbeSlot, ProbeInstall, CommitEnd, Evict, EvictSelect, EvictSend,
       EvictTimeout, EvictLost, EvictAnswered, EvictCommit, EvictRelease, EvictFinalize, masterVars
  <2>2. QED
    BY <1>0, <1>6, <2>1, <1>OtherCounts, Zenon DEF CountTypes, GetCount
<1>7. QED
  BY <1>1, <1>2, <1>3, <1>4, <1>5, <1>6, Zenon DEF Next

-----------------------------------------------------------------------------
(* The local fence.                                                        *)

\* Only the worker numbers requests.
LEMMA DataOp == Put \/ MasterDelete \/ Broadcast \/ Read \/ RemoteGet \/ OwnerGet => UNCHANGED op
<1>1. Broadcast \/ Read => UNCHANGED op
  BY Zenon DEF Broadcast, BroadcastSkipped, BroadcastLost, BroadcastApply, Read, ReadStart, ReadEnd, evictVars
<1>2. QED
  BY <1>1, Zenon DEF Put, OwnerPutStart, OwnerPutCommit, OwnerPutFail, OwnerPutPublish, OtherPut, MasterDelete, RemoteGet,
     RemoteGetPlan, RemoteGetAcquire, RemoteGetDone, RemoteGetExpire, OwnerGet, OwnerGetPlan, OwnerGetExpire,
     OwnerGetInstall, OwnerGetDone, OwnerGetPromote, OwnerGetAbort, evictVars

\* What prepare_one does to the local fence.
LEMMA PrepareLocal ==
  ASSUME Knows, LocalInv, NEW i, i.gen # 0, NEW st, st = PrepareStep(i), PrepareEffect(i, st)
  PROVE  \/ /\ UNCHANGED <<rec, sel, idx>> /\ st \notin {"fromSelection", "fromIndex"}
         \/ /\ rec = NoRec /\ rec' = Prepared(i, "index") /\ sel' = 0 /\ idx' = 0
            /\ st \in {"fromSelection", "fromIndex"}
            /\ i.gen \in {sel, idx} /\ readers[i.gen] = 0 /\ lput = NoPut /\ pend = 0
<1>1. CASE st = "fromSelection"
  <2>1. sel # 0 /\ sel = i.gen /\ readers[sel] = 0 /\ lput = NoPut /\ pend = 0
    BY <1>1, Zenon DEF PrepareStep
  <2>2. rec = NoRec /\ idx = 0
    BY <2>1, Zenon DEF LocalInv, LocalFence, Fenced, Knows, ProtocolInv, LocalReclaim
  <2>3. QED
    BY <1>1, <2>1, <2>2, Zenon DEF PrepareEffect
<1>2. CASE st = "fromIndex"
  <2>1. sel = 0 /\ rec = NoRec /\ idx = i.gen /\ readers[idx] = 0 /\ lput = NoPut /\ pend = 0
    BY <1>2, Zenon DEF PrepareStep
  <2>2. QED
    BY <1>2, <2>1, Zenon DEF PrepareEffect
<1>3. CASE st \notin {"fromSelection", "fromIndex"}
  BY <1>3, Zenon DEF PrepareEffect
<1>4. QED
  BY <1>1, <1>2, <1>3, Zenon

\* A record of the master's is none of the worker's.
LEMMA MastersRecord ==
  ASSUME Knows, LocalInv
  PROVE  /\ rec = NoRec \/ rec.item.why = "master" => evict.pc \notin {"commit", "release", "finalize"}
         /\ rec # NoRec => sel = 0 /\ idx = 0 /\ pend = 0 /\ lput = NoPut
<1>1. rec = NoRec => rec.item.why = "none"
  BY DEF NoRec, NoItem
<1>2. QED
  BY <1>1, Zenon DEF LocalInv, LocalFence, Fenced, Knows, ProtocolInv, LocalReclaim

\* Every step keeps the local fence.
LEMMA StepLocal == Knows /\ LocalInv /\ [Next]_vars => LocalInv'
\* The data steps.
<1>DataLocal. Knows /\ LocalInv /\ (Put \/ MasterDelete \/ Broadcast \/ Read \/ RemoteGet \/ OwnerGet) => LocalInv'
  \* Puts, broadcasts, readers and gets do nothing to the index, a put or a hidden
  \* get behind the local fence.
  <2>FencedData. ASSUME Knows, LocalInv, Fenced, Put \/ MasterDelete \/ Broadcast \/ Read \/ RemoteGet \/ OwnerGet
                 PROVE  /\ idx' = 0 /\ pend' = 0 /\ lput' = NoPut
                        /\ sel # 0 => readers'[sel] = 0
    <3> USE <2>FencedData
    <3>0. /\ idx = 0 /\ pend = 0 /\ lput = NoPut
          /\ sel # 0 => readers[sel] = 0
      BY Zenon DEF LocalInv, LocalFence
    <3>1. lput.pc = "idle"
      BY <3>0, Zenon DEF NoPut
    <3>2. CASE Put \/ MasterDelete
      BY <3>0, <3>1, <3>2, Zenon DEF Put, OwnerPutStart, OwnerPutCommit, OwnerPutFail, OwnerPutPublish, OtherPut, MasterDelete,
         localVars
    <3>3. CASE Broadcast
      BY <3>0, <3>3, Zenon DEF Broadcast, BroadcastSkipped, BroadcastLost, BroadcastApply, localVars
    <3>4. CASE Read
      <4>1. PICK g \in Gens : ReadEnd(g)
        BY <3>4, Zenon DEF Read, ReadStart
      <4>2. /\ UNCHANGED <<idx, pend, lput>> /\ readers[g] > 0 /\ readers' = [readers EXCEPT ![g] = @ - 1]
            /\ readers \in [Gens -> Nat]
        BY <4>1, Zenon DEF ReadEnd, Knows, CountTypes
      <4>3. QED
        BY <3>0, <4>2
    <3>5. CASE RemoteGet
      BY <3>0, <3>5, Zenon DEF RemoteGet, RemoteGetPlan, RemoteGetAcquire, RemoteGetDone, RemoteGetExpire, localVars
    <3>6. CASE OwnerGet
      <4>1. lget # NoLGet => lget.gen # 0
        BY NamedGens DEF Older, Written
      <4>2. CASE OwnerGetPromote
        <5>1. lget # NoLGet
          BY <4>2 DEF OwnerGetPromote, NoLGet
        <5>2. QED
          BY <3>0, <4>1, <4>2, <5>1, Zenon DEF OwnerGetPromote
      <4>3. QED
        BY <3>0, <3>6, <4>2, Zenon DEF OwnerGet, OwnerGetPlan, OwnerGetExpire, OwnerGetInstall, OwnerGetDone, OwnerGetAbort,
           localVars
    <3>7. QED
      BY <3>2, <3>3, <3>4, <3>5, <3>6, Zenon
  <2> SUFFICES ASSUME Knows, LocalInv, Put \/ MasterDelete \/ Broadcast \/ Read \/ RemoteGet \/ OwnerGet
               PROVE  LocalInv'
    BY Zenon
  <2>1. UNCHANGED <<sel, rec, evict>>
    BY DataProtocol, Zenon DEF protocolVars
  <2>2. UNCHANGED op
    BY DataOp, Zenon
  <2>3. Fenced' <=> Fenced
    BY <2>1, Zenon DEF Fenced
  <2>4. LocalFence'
    BY <2>1, <2>3, <2>FencedData, Zenon DEF LocalInv, LocalFence, Fenced
  <2>5. EvictRec' /\ RecShape'
    BY <2>1, <2>2, Zenon DEF LocalInv, EvictRec, RecShape
  <2>6. QED
    BY <2>4, <2>5, Zenon DEF LocalInv
\* The job and the master's handlers: at most the worker gets its answer.
<1>MasterLocal. Knows /\ LocalInv /\ (Job \/ EvictHandler) => LocalInv'
  <2> SUFFICES ASSUME Knows, LocalInv, Job \/ EvictHandler PROVE LocalInv'
    BY Zenon
  <2>1. UNCHANGED <<sel, rec, idx, pend, lput, readers, op>>
    BY Zenon DEF Job, JobPlan, JobFence, JobTimeout, JobValidate, JobAbort, JobFinish, JobFinalizeRetry, JobClear,
       EvictHandler, EvictFence, EvictReplan, EvictApply, localVars, evictVars
  <2>2. evict' = evict \/ (evict.pc = "wait" /\ evict'.pc = "answered" /\ evict'.gen = evict.gen)
    <3>1. ASSUME NEW o \in 1..MaxOp, NEW out, Reply(o, out)
          PROVE evict' = evict \/ (evict.pc = "wait" /\ evict'.pc = "answered" /\ evict'.gen = evict.gen)
      BY <3>1, Zenon DEF Reply, Knows, Types, OwnerTypes, Evicts
    <3>2. CASE Job
      BY <3>2, Zenon DEF Job, JobPlan, JobFence, JobTimeout, JobValidate, JobAbort, JobFinish, JobFinalizeRetry, JobClear,
         evictVars
    <3>3. CASE EvictHandler
      BY <3>1, <3>3, Zenon DEF EvictHandler, EvictFence, EvictReplan, EvictApply
    <3>4. QED
      BY <3>2, <3>3, Zenon
  <2>3. Fenced' <=> Fenced
    BY <2>1, Zenon DEF Fenced
  <2>4. LocalFence'
    BY <2>1, <2>2, <2>3, Zenon DEF LocalInv, LocalFence
  <2>5. EvictRec' /\ RecShape'
    BY <2>1, <2>2, Zenon DEF LocalInv, EvictRec, RecShape
  <2>6. QED
    BY <2>4, <2>5, Zenon DEF LocalInv
\* The owner's side of a reclaim.
<1>PhaseLocal. Knows /\ LocalInv /\ OwnerPhase => LocalInv'
  <2>0. Knows => rec \in Records /\ evict \in Evicts
    BY Zenon DEF Knows, Types, OwnerTypes
  <2>1. ASSUME Knows, LocalInv, NEW m \in net, HandlePrepare(m) PROVE LocalInv'
    <3> DEFINE st == PrepareStep(m.item)
    <3>1. m.item.why = "master" /\ m.item.gen # 0
      <4>1. m.item.why = "master"
        BY <2>1, Zenon DEF Knows, ProtocolInv, NetItems
      <4>2. Older(m.item.gen)
        BY <2>1, NamedGens, Zenon
      <4>3. QED
        BY <4>1, <4>2 DEF Older, Written
    <3>2. PrepareEffect(m.item, st) /\ UNCHANGED <<pend, lput, readers, evict, op>>
      BY <2>1, Zenon DEF HandlePrepare, evictVars
    <3>3. CASE UNCHANGED <<rec, sel, idx>>
      BY <2>1, <3>2, <3>3, Zenon DEF LocalInv, LocalFence, Fenced, EvictRec, RecShape
    <3>4. CASE /\ rec = NoRec /\ rec' = Prepared(m.item, "index") /\ sel' = 0 /\ idx' = 0
               /\ lput = NoPut /\ pend = 0
      <4>1. LocalFence'
        BY <3>2, <3>4, Zenon DEF LocalFence
      <4>2. EvictRec'
        BY <2>1, <3>1, <3>2, <3>4, MastersRecord, Zenon DEF EvictRec, Prepared
      <4>3. RecShape'
        BY <3>4, Zenon DEF RecShape, Prepared
      <4>4. QED
        BY <4>1, <4>2, <4>3, Zenon DEF LocalInv
    <3> HIDE DEF st
    <3>5. QED
      BY <2>1, <3>1, <3>2, <3>3, <3>4, PrepareLocal, Zenon DEF st
  <2>2. ASSUME Knows, LocalInv, NEW m \in net, CommitBegin(m) PROVE LocalInv'
    <3>1. /\ rec # NoRec /\ rec.st = "Prepared" /\ rec'.st = "Releasing" /\ rec'.item = rec.item /\ rec'.src = rec.src
          /\ UNCHANGED <<sel, idx, pend, lput, readers, evict, op>>
      BY <2>0, <2>2 DEF CommitBegin, Records, evictVars, NoRec
    <3>2. QED
      BY <2>2, <3>1, Zenon DEF LocalInv, LocalFence, Fenced, EvictRec, RecShape
  <2>3. ASSUME Knows, LocalInv, NEW m \in net, HandleAbort(m) \/ HandleFinalize(m) PROVE LocalInv'
    <3>1. \/ rec' = rec /\ idx' = idx
          \/ rec' = NoRec /\ rec.item = m.item /\ rec.st # "none"
      BY <2>3, Zenon DEF HandleAbort, HandleFinalize
    <3>2. UNCHANGED <<sel, pend, lput, readers, evict, op>>
      BY <2>3, Zenon DEF HandleAbort, HandleFinalize, evictVars
    <3>3. CASE rec' = rec /\ idx' = idx
      BY <2>3, <3>2, <3>3, Zenon DEF LocalInv, LocalFence, Fenced, EvictRec, RecShape
    <3>4. CASE rec' = NoRec /\ rec.item = m.item /\ rec.st # "none"
      <4>1. rec # NoRec /\ rec.item.why = "master"
        BY <2>3, <3>4 DEF NoRec, Knows, ProtocolInv, NetItems
      <4>2. sel' = 0 /\ rec' = NoRec /\ evict'.pc \notin {"commit", "release", "finalize"}
        BY <2>3, <3>2, <3>4, <4>1, MastersRecord, Zenon
      <4>3. QED
        BY <4>2, Zenon DEF LocalInv, LocalFence, Fenced, EvictRec, RecShape, NoRec, NoItem
    <3>5. QED
      BY <3>1, <3>3, <3>4, Zenon
  <2>4. ASSUME Knows, LocalInv, (\E m \in net : CommitRefused(m)) \/ (\E p \in probes : ProbeSlot(p)) PROVE LocalInv'
    <3>1. UNCHANGED <<sel, rec, idx, pend, lput, readers, evict, op>>
      BY <2>4, Zenon DEF CommitRefused, ProbeSlot, localVars, evictVars
    <3>2. QED
      BY <2>4, <3>1, Zenon DEF LocalInv, LocalFence, Fenced, EvictRec, RecShape
  <2>5. ASSUME Knows, LocalInv, NEW p \in probes, ProbeInstall(p) PROVE LocalInv'
    <3>1. UNCHANGED <<sel, idx, pend, lput, readers, evict, op>>
      BY <2>5, Zenon DEF ProbeInstall, evictVars
    <3>2. CASE rec' = rec
      BY <2>5, <3>1, <3>2, Zenon DEF LocalInv, LocalFence, Fenced, EvictRec, RecShape
    <3>3. CASE /\ rec' = Prepared(p.req.item, "slot") /\ ~Fenced /\ idx = 0 /\ pend = 0 /\ lput = NoPut
      <4>1. p.req.item.why = "master" /\ rec = NoRec /\ sel = 0
        BY <2>5, <3>3, Zenon DEF Fenced, Knows, ProtocolInv, NetItems
      <4>2. evict.pc \notin {"commit", "release", "finalize"}
        BY <2>5, <4>1, MastersRecord, Zenon
      <4>3. rec'.item = p.req.item /\ rec'.st = "Prepared" /\ rec'.src = "slot"
        BY <3>3, Zenon DEF Prepared
      <4>4. QED
        BY <3>1, <3>3, <4>1, <4>2, <4>3, Zenon DEF LocalInv, LocalFence, EvictRec, RecShape
    <3>4. QED
      BY <2>5, <3>2, <3>3, Zenon DEF ProbeInstall
  <2>6. ASSUME Knows, LocalInv, CommitEnd PROVE LocalInv'
    <3>1. /\ rec # NoRec /\ rec.item.why = "master" /\ rec'.st = "Committed" /\ rec'.item = rec.item /\ rec'.src = "none"
          /\ evict'.pc = evict.pc /\ evict'.gen = evict.gen
          /\ UNCHANGED <<sel, idx, pend, lput, readers, op>>
      BY <2>0, <2>6 DEF CommitEnd, Records, Evicts, NoRec
    <3>2. evict'.pc \notin {"commit", "release", "finalize"}
      BY <2>6, <3>1, MastersRecord, Zenon
    <3>3. QED
      BY <2>6, <3>1, <3>2, Zenon DEF LocalInv, LocalFence, Fenced, EvictRec, RecShape
  <2>7. QED
    BY <2>1, <2>2, <2>3, <2>4, <2>5, <2>6, Zenon DEF OwnerPhase
\* The eviction worker.
<1>WorkerLocal. Knows /\ LocalInv /\ Evict => LocalInv'
  \* finish_owner_source_selection puts the selection back into the index.
  <2>FinishLocal. ASSUME Knows, LocalInv, FinishSelection, evict.pc \in {"send", "answered"},
                         UNCHANGED <<pend, lput, readers, op>>
                  PROVE  LocalInv' /\ (sel = 0 => UNCHANGED <<idx, sel>>) /\ (sel # 0 => idx' = sel /\ sel' = 0 /\ idx = 0)
    <3> USE <2>FinishLocal
    <3>0. evict.gen # 0
      <4>1. evict # NoEvict
        BY DEF NoEvict
      <4>2. QED
        BY <4>1, NamedGens DEF Older, Written
    <3>1. /\ rec' = rec /\ evict' = NoEvict
          /\ sel = 0 => UNCHANGED <<idx, sel>>
          /\ sel # 0 => idx' = sel /\ sel' = 0 /\ idx = 0 /\ rec = NoRec
      BY <3>0, Zenon DEF FinishSelection, LocalInv, LocalFence, Fenced, Knows, ProtocolInv, LocalReclaim
    <3>2. LocalFence'
      BY <3>1, Zenon DEF LocalInv, LocalFence, Fenced
    <3>3. EvictRec'
      BY <3>1, Zenon DEF LocalInv, EvictRec, NoEvict
    <3>4. RecShape'
      BY <3>1, Zenon DEF LocalInv, RecShape
    <3>5. QED
      BY <3>1, <3>2, <3>3, <3>4, Zenon DEF LocalInv
  <2> SUFFICES ASSUME Knows, LocalInv, Evict PROVE LocalInv'
    BY Zenon
  <2>0. evict \in Evicts /\ rec \in Records /\ NoEvict.pc = "idle"
    BY Zenon DEF Knows, Types, OwnerTypes, NoEvict
  <2>1. CASE EvictSelect
    <3>1. /\ evict.pc = "idle" /\ sel' = idx /\ idx' = 0 /\ idx # 0 /\ readers[idx] = 0 /\ ~Fenced
          /\ lput = NoPut /\ pend = 0 /\ evict'.pc = "send" /\ evict'.gen = idx
          /\ UNCHANGED <<rec, pend, lput, readers, op>>
      BY <2>0, <2>1, Zenon DEF EvictSelect
    <3>2. QED
      BY <3>1, Zenon DEF LocalInv, LocalFence, EvictRec, RecShape
  <2>2. CASE (\E r \in BOOLEAN : EvictSend(r)) \/ EvictTimeout
    <3>1. /\ evict.pc \in {"send", "wait"} /\ evict'.pc \in {"send", "wait"} /\ evict'.gen = evict.gen
          /\ UNCHANGED <<rec, sel, idx, pend, lput, readers>>
      BY <2>0, <2>2, Zenon DEF EvictSend, EvictTimeout, Evicts, localVars
    <3>2. QED
      BY <3>1, Zenon DEF LocalInv, LocalFence, Fenced, EvictRec, RecShape
  <2>3. CASE EvictLost
    BY <2>3, <2>FinishLocal, Zenon DEF EvictLost
  <2>4. CASE EvictAnswered
    <3> DEFINE st == PrepareStep(EvictItem(evict.gen, op))
    <3>0. UNCHANGED <<pend, lput, readers, op>> /\ evict.pc = "answered"
      BY <2>4, Zenon DEF EvictAnswered
    <3>1. CASE FinishSelection
      BY <3>0, <3>1, <2>FinishLocal, Zenon
    <3>2. CASE evict' = [evict EXCEPT !.pc = "send"] /\ UNCHANGED <<rec, sel, idx>>
      <4>1. evict'.pc = "send" /\ evict'.gen = evict.gen
        BY <2>0, <3>2, Zenon DEF Evicts
      <4>2. QED
        BY <3>0, <3>2, <4>1, Zenon DEF LocalInv, LocalFence, Fenced, EvictRec, RecShape
    <3>3. CASE /\ PrepareEffect(EvictItem(evict.gen, op), st)
               /\ evict' = [evict EXCEPT !.pc = CASE PrepareAnswer(st) = "Prepared" -> "commit"
                                                  [] OTHER -> "send"]
      <4>1. evict'.pc = (IF PrepareAnswer(st) = "Prepared" THEN "commit" ELSE "send") /\ evict'.gen = evict.gen
        BY <2>0, <3>3, Zenon DEF Evicts
      <4>2. EvictItem(evict.gen, op).gen = evict.gen /\ EvictItem(evict.gen, op).why = "owner" /\ evict.gen # 0
        <5>1. evict # NoEvict
          BY <3>0 DEF NoEvict
        <5>2. QED
          BY <5>1, NamedGens DEF EvictItem, Older, Written
      <4>3. st # "prepared"
        BY <3>0, <4>2, Zenon DEF PrepareStep, LocalInv, EvictRec
      <4>4. CASE UNCHANGED <<rec, sel, idx>> /\ st \notin {"fromSelection", "fromIndex"}
        <5>1. evict'.pc = "send"
          BY <4>1, <4>3, <4>4, Zenon DEF PrepareAnswer
        <5>2. QED
          BY <3>0, <4>1, <4>4, <5>1, Zenon DEF LocalInv, LocalFence, Fenced, EvictRec, RecShape
      <4>5. CASE /\ rec' = Prepared(EvictItem(evict.gen, op), "index") /\ sel' = 0 /\ idx' = 0
                 /\ st \in {"fromSelection", "fromIndex"} /\ lput = NoPut /\ pend = 0
        <5>1. /\ evict'.pc = "commit" /\ rec'.item = EvictItem(evict.gen, op) /\ rec'.st = "Prepared" /\ rec'.src = "index"
          BY <4>1, <4>5, Zenon DEF PrepareAnswer, Prepared
        <5>2. QED
          BY <3>0, <4>1, <4>5, <5>1, Zenon DEF LocalInv, LocalFence, EvictRec, RecShape
      <4> HIDE DEF st
      <4>6. QED
        BY <3>3, <4>2, <4>4, <4>5, PrepareLocal, Zenon DEF st
    <3>4. QED
      BY <2>4, <3>1, <3>2, <3>3, Zenon DEF EvictAnswered
  <2>5. CASE EvictCommit \/ EvictRelease
    <3>0. rec.st \in {"Prepared", "Releasing"}
      BY <2>5, Zenon DEF EvictCommit, EvictRelease, Knows, ProtocolInv, LocalReclaim
    <3>1. /\ evict.pc \in {"commit", "release"} /\ evict'.gen = evict.gen /\ evict'.pc \in {"release", "finalize"}
          /\ rec'.item = rec.item /\ rec # NoRec
          /\ UNCHANGED <<sel, idx, pend, lput, readers, op>>
      <4>1. evict'.gen = evict.gen /\ rec'.item = rec.item
        BY <2>0, <2>5, Zenon DEF EvictCommit, EvictRelease, Evicts, Records
      <4>2. evict'.pc \in {"release", "finalize"}
        BY <2>0, <2>5, Zenon DEF EvictCommit, EvictRelease, Evicts
      <4>3. rec # NoRec
        BY <3>0 DEF NoRec
      <4>4. QED
        BY <2>5, <4>1, <4>2, <4>3, Zenon DEF EvictCommit, EvictRelease
    <3>2. \/ rec'.st = "Releasing" /\ rec'.src = rec.src
          \/ rec'.st = "Committed" /\ rec'.src = "none"
      BY <2>0, <2>5, Zenon DEF EvictCommit, EvictRelease, Records
    <3>3. LocalFence' /\ EvictRec'
      BY <3>1, Zenon DEF LocalInv, LocalFence, Fenced, EvictRec
    <3>4. RecShape'
      BY <3>0, <3>1, <3>2, Zenon DEF LocalInv, RecShape
    <3>5. QED
      BY <3>3, <3>4, Zenon DEF LocalInv
  <2>6. CASE EvictFinalize
    <3>1. /\ evict.pc = "finalize" /\ rec' = NoRec /\ evict' = NoEvict /\ UNCHANGED <<sel, idx, pend, lput, readers>>
      BY <2>6, Zenon DEF EvictFinalize
    <3>2. sel = 0
      BY <2>0, <3>1 DEF Knows, ProtocolInv, LocalReclaim, NoRec
    <3>3. QED
      BY <3>1, <3>2, Zenon DEF LocalInv, LocalFence, Fenced, EvictRec, RecShape, NoRec, NoItem, NoEvict
  <2>7. QED
    BY <2>1, <2>2, <2>3, <2>4, <2>5, <2>6, Zenon DEF Evict
<1>1. LocalInv /\ UNCHANGED vars => LocalInv'
  BY Zenon DEF vars, localVars, evictVars, LocalInv, LocalFence, Fenced, EvictRec, RecShape
<1>2. QED
  BY <1>1, <1>DataLocal, <1>MasterLocal, <1>PhaseLocal, <1>WorkerLocal, Zenon DEF Next

-----------------------------------------------------------------------------
(* The order of generations.                                               *)

\* The steps after which the master names a generation it did not name before,
\* or will.
Naming == OwnerPutStart \/ OwnerPutCommit

\* No other step names anything.
LEMMA RouteMoves ==
  ASSUME Knows, [Next]_vars, ~Naming
  PROVE  /\ route'.own => route.own /\ route'.gen = route.gen
         /\ lput' \in {lput, NoPut}
<1>1. CASE UNCHANGED vars
  BY <1>1, Zenon DEF vars, masterVars, localVars
<1>2. CASE Put \/ MasterDelete
  BY <1>2 DEF Naming, Put, OwnerPutFail, OwnerPutPublish, OtherPut, MasterDelete, NoRoute, masterVars, localVars
<1>3. CASE Broadcast \/ Read \/ RemoteGet
  <2>1. UNCHANGED <<route, lput>>
    BY <1>3, Zenon DEF Broadcast, BroadcastSkipped, BroadcastLost, BroadcastApply, Read, ReadStart, ReadEnd, RemoteGet,
       RemoteGetPlan, RemoteGetAcquire, RemoteGetDone, RemoteGetExpire, masterVars, localVars
  <2>2. QED
    BY <2>1, Zenon
<1>4. CASE OwnerGet
  <2>1. CASE OwnerGetDone
    BY <2>1, Zenon DEF OwnerGetDone, localVars, Knows, Types, MasterTypes
  <2>2. QED
    BY <1>4, <2>1, Zenon DEF OwnerGet, OwnerGetPlan, OwnerGetExpire, OwnerGetInstall, OwnerGetPromote, OwnerGetAbort,
       masterVars, localVars
<1>5. CASE Job
  BY <1>5 DEF Job, JobPlan, JobFence, JobTimeout, JobValidate, JobAbort, JobFinish, JobFinalizeRetry, JobClear,
     NoRoute, localVars
<1>6. CASE OwnerPhase \/ Evict
  <2>1. UNCHANGED <<route, lput>>
    BY <1>6, Zenon DEF OwnerPhase, HandlePrepare, CommitBegin, CommitRefused, HandleAbort, HandleFinalize, ProbeSlot,
       ProbeInstall, CommitEnd, Evict, EvictSelect, EvictSend, EvictTimeout, EvictLost, EvictAnswered, EvictCommit,
       EvictRelease, EvictFinalize, masterVars, localVars
  <2>2. QED
    BY <2>1, Zenon
<1>7. CASE EvictHandler
  BY <1>7 DEF EvictHandler, EvictFence, EvictReplan, EvictApply, NoRoute, localVars, Knows, Types, MasterTypes
<1>8. QED
  BY <1>1, <1>2, <1>3, <1>4, <1>5, <1>6, <1>7, Zenon DEF Next

\* An answer does not change what the job is about, and takes it to Finalize only
\* from there.
LEMMA PhaseJob ==
  ASSUME Knows, OwnerPhase
  PROVE  /\ job'.item = job.item
         /\ job'.pc \in {"finalize", "tofinalize"} => job.pc \in {"finalize", "tofinalize"}
<1>1. \/ job' = job
      \/ \E m \in Requests, a \in Answers : Answer(m, a)
  <2>1. CASE \E m \in net : HandlePrepare(m)
    <3>1. PICK m \in net : HandlePrepare(m)
      BY <2>1, Zenon
    <3>2. m \in Requests /\ m.item \in Items
      BY GenTypes, Zenon DEF Knows
    <3>3. PrepareAnswer(PrepareStep(m.item)) \in Answers
      BY <3>1, <3>2, PrepareTypes, Zenon DEF HandlePrepare, Knows
    <3>4. QED
      BY <3>1, <3>2, <3>3, Zenon DEF HandlePrepare
  <2>2. CASE \E m \in net : CommitRefused(m) \/ HandleAbort(m) \/ HandleFinalize(m)
    <3>1. PICK m \in net : CommitRefused(m) \/ HandleAbort(m) \/ HandleFinalize(m)
      BY <2>2, Zenon
    <3>2. \E a \in Answers : Answer(m, a)
      BY <3>1, Zenon DEF CommitRefused, HandleAbort, HandleFinalize, Answers
    <3>3. QED
      BY <3>2, GenTypes, Zenon DEF Knows
  <2>3. CASE \E p \in probes : ProbeInstall(p)
    <3>1. PICK p \in probes : ProbeInstall(p)
      BY <2>3, Zenon
    <3>2. \E a \in Answers : Answer(p.req, a)
      BY <3>1, Zenon DEF ProbeInstall, Answers
    <3>3. QED
      BY <3>2, GenTypes, Zenon DEF Knows
  <2>4. CASE CommitEnd
    <3>1. Request("commit", rec.item, 0) \in Requests
      BY GenTypes, Zenon DEF Knows, Request, Requests, Phases
    <3>2. QED
      BY <2>4, <3>1, Zenon DEF CommitEnd, Answers
  <2>5. QED
    BY <2>1, <2>2, <2>3, <2>4, Zenon DEF OwnerPhase, CommitBegin, ProbeSlot, masterVars
<1>2. ASSUME NEW m \in Requests, NEW a \in Answers, Answer(m, a)
      PROVE  /\ job'.item = job.item
             /\ job'.pc \in {"finalize", "tofinalize"} => job.pc \in {"finalize", "tofinalize"}
  <2>1. job'.item = job.item /\ (job' = job \/ Moved(m, a))
    BY <1>2, AnswerMoves, Zenon DEF Knows
  <2>2. Moved(m, a) /\ job'.pc \in {"finalize", "tofinalize"} => job.pc = "finalize"
    BY Zenon DEF Moved, Requests, Phases
  <2>3. QED
    BY <2>1, <2>2, Zenon
<1>3. QED
  BY <1>1, <1>2, Zenon

\* The master's route goes forward only.
LEMMA StepOrder == Knows /\ RouteOrder /\ [Next]_vars => RouteOrder'
\* What else the order is about: the broadcasts, the gets, the job, the worker.
<1>OrderedMoves. ASSUME Knows, [Next]_vars, ~Naming
                 PROVE  /\ \A g \in bcast' : g \in bcast \/ (g = route.gen /\ route.own /\ ~route'.own)
                        /\ \/ lget'.pc = lget.pc /\ lget'.gen = lget.gen
                           \/ lget.pc # "idle" /\ lget'.gen = lget.gen
                           \/ lget' = NoLGet
                           \/ lget'.gen = route.gen /\ route.own
                        /\ job'.item.gen \in {job.item.gen, 0} \/ (job'.item.gen = route.gen /\ route.own)
                        /\ evict'.gen \in {evict.gen, 0} \/ lput'.pc = "idle"
  <2> USE <1>OrderedMoves
  <2>0. lget \in Gets /\ job \in Jobs /\ evict \in Evicts /\ job.try \in Nat
    BY Zenon DEF Knows, Types, MasterTypes, OwnerTypes, Jobs
  <2>1. CASE UNCHANGED vars
    BY <2>1, Zenon DEF vars, masterVars, netVars, evictVars
  <2>2. CASE Put \/ MasterDelete
    <3>1. UNCHANGED <<lget, job, evict>>
      BY <2>2, Zenon DEF Naming, Put, OwnerPutFail, OwnerPutPublish, OtherPut, MasterDelete, OwnerPutStart,
         OwnerPutCommit, masterVars, evictVars
    <3>2. \A g \in bcast' : g \in bcast \/ (g = route.gen /\ route.own /\ ~route'.own)
      BY <2>2 DEF Naming, Put, OwnerPutFail, OwnerPutPublish, OtherPut, MasterDelete, BroadcastOld, NoRoute, netVars
    <3>3. QED
      BY <3>1, <3>2, Zenon
  <2>3. CASE Broadcast \/ Read \/ RemoteGet
    <3>1. UNCHANGED <<lget, job, evict>> /\ bcast' \subseteq bcast
      <4>1. CASE Broadcast
        BY <4>1, Zenon DEF Broadcast, BroadcastSkipped, BroadcastLost, BroadcastApply, masterVars, evictVars
      <4>2. QED
        BY <2>3, <4>1, Zenon DEF Read, ReadStart, ReadEnd, RemoteGet, RemoteGetPlan, RemoteGetAcquire, RemoteGetDone,
           RemoteGetExpire, masterVars, netVars, evictVars
    <3>2. QED
      BY <3>1, Zenon
  <2>4. CASE OwnerGet
    <3>1. UNCHANGED <<bcast, job, evict>>
      BY <2>4, Zenon DEF OwnerGet, OwnerGetPlan, OwnerGetExpire, OwnerGetInstall, OwnerGetDone, OwnerGetPromote, OwnerGetAbort,
         masterVars, netVars, evictVars
    <3>2. CASE \E ext \in BOOLEAN : OwnerGetPlan(ext)
      <4>1. lget'.gen = route.gen /\ route.own
        BY <3>2 DEF OwnerGetPlan
      <4>2. QED
        BY <3>1, <4>1, Zenon
    <3>3. CASE OwnerGetExpire
      <4>1. lget'.pc = lget.pc /\ lget'.gen = lget.gen
        BY <2>0, <3>3, Zenon DEF OwnerGetExpire, Gets
      <4>2. QED
        BY <3>1, <4>1, Zenon
    <3>4. CASE OwnerGetInstall
      <4>1. lget' = NoLGet \/ (lget.pc = "planned" /\ lget'.gen = lget.gen)
        BY <2>0, <3>4, Zenon DEF OwnerGetInstall, Gets
      <4>2. QED
        BY <3>1, <4>1, Zenon
    <3>5. CASE OwnerGetDone
      <4>1. lget.pc = "hidden" /\ lget'.gen = lget.gen
        BY <2>0, <3>5, Zenon DEF OwnerGetDone, Gets
      <4>2. QED
        BY <3>1, <4>1, Zenon
    <3>6. CASE OwnerGetPromote \/ OwnerGetAbort
      BY <3>1, <3>6, Zenon DEF OwnerGetPromote, OwnerGetAbort
    <3>7. QED
      BY <2>4, <3>2, <3>3, <3>4, <3>5, <3>6, Zenon DEF OwnerGet
  <2>5. CASE Job
    <3>1. UNCHANGED <<bcast, lget, evict>>
      BY <2>5, Zenon DEF Job, JobPlan, JobFence, JobTimeout, JobValidate, JobAbort, JobFinish, JobFinalizeRetry, JobClear,
         netVars, evictVars
    <3>2. CASE JobPlan
      BY <3>1, <3>2, Zenon DEF JobPlan
    <3>3. CASE ~JobPlan
      <4>1. ASSUME NEW ph \in Phases, NEW t \in Nat, Send(ph, t) PROVE job'.item = job.item
        BY <2>0, <4>1, SendMoves, Zenon DEF Knows
      <4>2. job' = NoJob \/ job'.item = job.item
        <5>1. CASE JobTimeout
          BY <2>0, <5>1, TimeoutMoves, Zenon DEF JobTimeout, Knows
        <5>2. CASE JobValidate
          BY <2>0, <4>1, <5>2, Zenon DEF JobValidate, Phases, Jobs
        <5>3. QED
          BY <2>0, <2>5, <3>3, <4>1, <5>1, <5>2, Zenon DEF Job, JobFence, JobAbort, JobFinish, JobFinalizeRetry, JobClear,
             Phases
      <4>3. QED
        BY <3>1, <4>2 DEF NoJob, NoItem
    <3>4. QED
      BY <3>2, <3>3, Zenon
  <2>6. CASE OwnerPhase
    <3>1. UNCHANGED <<bcast, lget>> /\ evict'.gen = evict.gen
      BY <2>0, <2>6, Zenon DEF OwnerPhase, HandlePrepare, CommitBegin, CommitRefused, HandleAbort, HandleFinalize, ProbeSlot,
         ProbeInstall, CommitEnd, netVars, evictVars, Evicts
    <3>2. job'.item = job.item
      BY <2>6, PhaseJob, Zenon
    <3>3. QED
      BY <3>1, <3>2, Zenon
  <2>7. CASE Evict
    <3>1. UNCHANGED <<bcast, lget, job, lput>>
      BY <2>7, Zenon DEF Evict, EvictSelect, EvictSend, EvictTimeout, EvictLost, EvictAnswered, EvictCommit, EvictRelease,
         EvictFinalize, masterVars, netVars, localVars
    <3>2. evict'.gen \in {evict.gen, 0} \/ lput.pc = "idle"
      <4>1. CASE EvictSelect
        BY <4>1, Zenon DEF EvictSelect, NoPut
      <4>2. CASE (\E r \in BOOLEAN : EvictSend(r)) \/ EvictTimeout \/ EvictCommit \/ EvictRelease
        <5>1. evict'.gen = evict.gen
          BY <2>0, <4>2, Zenon DEF EvictSend, EvictTimeout, EvictCommit, EvictRelease, Evicts
        <5>2. QED
          BY <5>1, Zenon
      <4>3. CASE EvictLost \/ EvictFinalize
        BY <4>3 DEF EvictLost, EvictFinalize, FinishSelection, NoEvict
      <4>4. CASE EvictAnswered
        BY <2>0, <4>4 DEF EvictAnswered, FinishSelection, NoEvict, Evicts
      <4>5. QED
        BY <2>7, <4>1, <4>2, <4>3, <4>4, Zenon DEF Evict
    <3>3. QED
      BY <3>1, <3>2, Zenon
  <2>8. CASE EvictHandler
    <3>1. UNCHANGED <<bcast, lget, job>>
      BY <2>8, Zenon DEF EvictHandler, EvictFence, EvictReplan, EvictApply, netVars
    <3>2. evict'.gen = evict.gen
      <4>1. ASSUME NEW o, NEW out, Reply(o, out) PROVE evict'.gen = evict.gen
        BY <2>0, <4>1, Zenon DEF Reply, Evicts
      <4>2. QED
        BY <2>8, <4>1, Zenon DEF EvictHandler, EvictFence, EvictReplan, EvictApply
    <3>3. QED
      BY <3>1, <3>2, Zenon
  <2>9. QED
    BY <2>1, <2>2, <2>3, <2>4, <2>5, <2>6, <2>7, <2>8, Zenon DEF Next
<1> SUFFICES ASSUME Knows, RouteOrder, [Next]_vars PROVE RouteOrder'
  BY Zenon
<1>0. /\ nextGen \in Nat /\ route.gen \in Nat /\ job.item.gen \in Nat /\ lput.gen \in Nat /\ lget.gen \in Nat
      /\ evict.gen \in Nat /\ \A g \in bcast : g \in Nat /\ g <= nextGen
      /\ route.gen <= nextGen /\ job.item.gen <= nextGen /\ lget.gen <= nextGen /\ evict.gen <= nextGen
  <2>1. /\ nextGen \in Nat /\ route.gen \in Nat /\ job.item.gen \in Nat /\ lput.gen \in Nat /\ lget.gen \in Nat
        /\ evict.gen \in Nat /\ (\A g \in bcast : g \in Nat /\ g <= nextGen) /\ route.gen <= nextGen
    BY GenTypes, Zenon DEF Knows, MasterKnows, Written
  <2>2. job.item.gen <= nextGen /\ lget.gen <= nextGen /\ evict.gen <= nextGen
    BY <2>1, NamedGens, SMTT(30) DEF NoJob, NoItem, NoLGet, NoEvict, Older, Written
  <2>3. QED
    BY <2>1, <2>2, Zenon
<1>1. CASE OwnerPutStart
  <2>1. /\ lput'.pc = "precommit" /\ lput'.gen = nextGen + 1
        /\ UNCHANGED <<route, bcast, lget, job, evict>>
    BY <1>1, Zenon DEF OwnerPutStart, netVars, evictVars
  <2>2. QED
    BY <1>0, <2>1, SMTT(30) DEF RouteOrder
<1>2. CASE OwnerPutCommit
  <2>1. /\ lput.pc = "precommit" /\ lput'.pc = "routed" /\ lput'.gen = lput.gen /\ route'.gen = lput.gen /\ route'.own
        /\ bcast' \subseteq bcast \cup (IF route.own THEN {route.gen} ELSE {})
        /\ UNCHANGED <<lget, job, evict>>
    BY <1>2, Zenon DEF OwnerPutCommit, BroadcastOld, evictVars, Knows, Types, OwnerTypes, Puts
  <2>2. QED
    BY <1>0, <2>1 DEF RouteOrder
<1>3. CASE ~Naming
  <2>1. lput.pc = "precommit" => lput.gen > 0
    BY NamedGens DEF NoPut, Older, Written
  <2>2. lput'.pc # "idle" => lput' = lput
    BY <1>3, RouteMoves DEF NoPut
  <2>3. route'.own => route.own /\ route'.gen = route.gen
    BY <1>3, RouteMoves, Zenon
  <2>4. /\ \A g \in bcast' : g \in bcast \/ (g = route.gen /\ route.own /\ ~route'.own)
        /\ \/ lget'.pc = lget.pc /\ lget'.gen = lget.gen
           \/ lget.pc # "idle" /\ lget'.gen = lget.gen
           \/ lget'.pc = "idle" /\ lget'.gen = 0
           \/ lget'.gen = route.gen /\ route.own
        /\ job'.item.gen \in {job.item.gen, 0} \/ (job'.item.gen = route.gen /\ route.own)
        /\ evict'.gen \in {evict.gen, 0} \/ lput'.pc = "idle"
    BY <1>3, <1>OrderedMoves DEF NoLGet
  <2>5. QED
    BY <1>0, <2>1, <2>2, <2>3, <2>4, SMTT(30) DEF RouteOrder
<1>4. QED
  BY <1>1, <1>2, <1>3, Zenon DEF Naming

\* The master will not name g again after this step.
GoneAfter(g) == ~(route'.own /\ route'.gen = g) /\ (lput'.pc = "precommit" => lput'.gen # g)

\* What is finalized, or completed, now stays gone.
LEMMA DoneStays ==
  ASSUME Knows, GoneBefore, [Next]_vars
  PROVE  /\ \A m \in net : m.ph = "finalize" => GoneAfter(m.item.gen)
         /\ job.pc \in {"finalize", "tofinalize"} => GoneAfter(job.item.gen)
         /\ evict.pc \in {"answered", "commit", "release"} /\ evict.out = "Completed" => GoneAfter(evict.gen)
\* What the master will not name again stays unnamed.
<1>GoneStays. ASSUME Knows, [Next]_vars, NEW g, Older(g), Gone(g)
              PROVE  GoneAfter(g)
  <2> USE <1>GoneStays
  <2>1. CASE OwnerPutStart
    BY <2>1, NamedGens DEF OwnerPutStart, Gone, GoneAfter, Older, Written
  <2>2. CASE OwnerPutCommit
    <3>1. route'.gen = lput.gen /\ lput.pc = "precommit" /\ lput'.pc = "routed"
      BY <2>2, Zenon DEF OwnerPutCommit, Knows, Types, OwnerTypes, Puts
    <3>2. QED
      BY <3>1, Zenon DEF Gone, GoneAfter
  <2>3. CASE ~Naming
    BY <2>3, RouteMoves DEF Gone, GoneAfter, NoPut
  <2>4. QED
    BY <2>1, <2>2, <2>3, Zenon DEF Naming
<1>1. \A m \in net : m.ph = "finalize" => GoneAfter(m.item.gen)
  BY NamedGens, <1>GoneStays, Zenon DEF GoneBefore
<1>2. job.pc \in {"finalize", "tofinalize"} => GoneAfter(job.item.gen)
  <2>1. job.pc \in {"finalize", "tofinalize"} => job # NoJob
    BY DEF NoJob
  <2>2. QED
    BY <2>1, NamedGens, <1>GoneStays, Zenon DEF GoneBefore
<1>3. evict.pc \in {"answered", "commit", "release"} /\ evict.out = "Completed" => GoneAfter(evict.gen)
  <2>1. evict.pc \in {"answered", "commit", "release"} => evict # NoEvict
    BY DEF NoEvict
  <2>2. QED
    BY <2>1, NamedGens, <1>GoneStays, Zenon DEF GoneBefore
<1>4. QED
  BY <1>1, <1>2, <1>3, Zenon

\* It is enough to look at what a step adds.
LEMMA MoreGone ==
  ASSUME Knows, GoneBefore, [Next]_vars,
         \A m \in net' : m \in net \/ m.ph # "finalize" \/ GoneAfter(m.item.gen),
         job'.pc \in {"finalize", "tofinalize"} =>
           (job.pc \in {"finalize", "tofinalize"} /\ job'.item = job.item) \/ GoneAfter(job'.item.gen),
         evict'.pc = "wait" => hand'[op'].gen = evict'.gen,
         evict'.pc \in {"answered", "commit", "release"} /\ evict'.out = "Completed" =>
           (/\ evict.pc \in {"answered", "commit", "release"}
            /\ evict.out = "Completed" /\ evict'.gen = evict.gen) \/ GoneAfter(evict'.gen),
         evict'.pc \in {"commit", "release"} => evict'.out \in {"Completed", "DemotedGlobal"}
  PROVE  GoneBefore'
<1>1. \A m \in net' : m.ph = "finalize" => GoneAfter(m.item.gen)
  BY DoneStays, Zenon
<1>2. job'.pc \in {"finalize", "tofinalize"} => GoneAfter(job'.item.gen)
  BY DoneStays, Zenon
<1>3. evict'.pc \in {"answered", "commit", "release"} /\ evict'.out = "Completed" => GoneAfter(evict'.gen)
  BY DoneStays, Zenon
<1>4. QED
  BY <1>1, <1>2, <1>3, Zenon DEF GoneBefore, Gone, GoneAfter

\* Every step.
LEMMA StepGone == Knows /\ RouteOrder /\ GoneBefore /\ [Next]_vars => GoneBefore'
\* Steps that send nothing, and leave the job and the worker alone.
<1>SameGone. ASSUME Knows, GoneBefore, [Next]_vars, net' \subseteq net, UNCHANGED <<job, evict, hand, op>>
             PROVE  GoneBefore'
  <2> USE <1>SameGone
  <2> QED
    BY MoreGone, Zenon DEF GoneBefore
\* The Finalize of a job.
<1>JobGone. Knows /\ RouteOrder /\ GoneBefore /\ Job => GoneBefore'
  <2> SUFFICES ASSUME Knows, RouteOrder, GoneBefore, Job PROVE GoneBefore'
    BY Zenon
  <2>0. job \in Jobs /\ job.try \in Nat /\ [Next]_vars
    BY Zenon DEF Knows, Types, MasterTypes, Jobs, Next
  <2>1. UNCHANGED <<evict, hand, op>>
    BY Zenon DEF Job, JobPlan, JobFence, JobTimeout, JobValidate, JobAbort, JobFinish, JobFinalizeRetry, JobClear, evictVars
  <2>2. ASSUME NEW ph \in Phases, NEW t \in Nat, Send(ph, t), ph = "finalize" => GoneAfter(job.item.gen)
        PROVE  GoneBefore'
    <3>1. net' = net \cup {Request(ph, job.item, t)} /\ job'.item = job.item /\ job'.pc = ph
      BY <2>2, SendMoves, Zenon DEF Knows
    <3>2. Request(ph, job.item, t).item = job.item /\ Request(ph, job.item, t).ph = ph
      BY Zenon DEF Request
    <3>3. \A m \in net' : m \in net \/ (m.ph = ph /\ m.item = job.item)
      BY <3>1, <3>2, Zenon
    <3>4. job'.pc # "tofinalize"
      BY <3>1, Zenon DEF Phases
    <3>5. QED
      BY <2>0, <2>1, <2>2, <3>1, <3>3, <3>4, MoreGone, Zenon DEF GoneBefore
  <2>3. ASSUME net' = net, job'.pc \in {"finalize", "tofinalize"} => job.pc = "finalize" /\ job'.item = job.item
        PROVE  GoneBefore'
    BY <2>0, <2>1, <2>3, MoreGone, Zenon DEF GoneBefore
  <2>4. CASE JobFinish
    <3>1. fence = job.item /\ lput' = lput
      BY <2>4, Zenon DEF JobFinish, Knows, ProtocolInv, FenceOwner, Active, localVars
    <3>2. ~(route'.own /\ route'.gen = job.item.gen)
      BY <2>4, <3>1, Zenon DEF JobFinish, RouteValid, NoRoute
    <3>3. lput.pc = "precommit" => lput.gen # job.item.gen
      BY GenTypes DEF RouteOrder, Knows
    <3>4. GoneAfter(job.item.gen)
      BY <3>1, <3>2, <3>3, Zenon DEF GoneAfter
    <3>5. QED
      BY <2>2, <2>4, <3>4, Zenon DEF JobFinish, Phases
  <2>5. CASE JobFinalizeRetry
    BY <2>0, <2>2, <2>5, DoneStays, Zenon DEF JobFinalizeRetry, Phases
  <2>6. CASE JobAbort
    BY <2>0, <2>2, <2>6, Zenon DEF JobAbort, Phases
  <2>7. CASE JobValidate
    <3>1. CASE Send("commit", 0)
      BY <2>2, <3>1, Zenon DEF Phases
    <3>2. CASE job' = [job EXCEPT !.pc = "toabort"] /\ UNCHANGED net
      BY <2>0, <2>3, <3>2, Zenon DEF Jobs
    <3>3. QED
      BY <2>7, <3>1, <3>2, Zenon DEF JobValidate
  <2>8. CASE JobFence
    <3>1. CASE Send("prepare", 0)
      BY <2>2, <3>1, Zenon DEF Phases
    <3>2. CASE job' = NoJob /\ UNCHANGED net
      BY <2>3, <3>2, Zenon DEF NoJob
    <3>3. QED
      BY <2>8, <3>1, <3>2, Zenon DEF JobFence
  <2>9. CASE JobTimeout
    <3>1. job'.item = job.item /\ (job'.pc \in {"finalize", "tofinalize"} => job.pc = "finalize") /\ net' = net
      BY <2>0, <2>9, TimeoutMoves, Zenon DEF JobTimeout, Knows, netVars
    <3>2. QED
      BY <2>3, <3>1, Zenon
  <2>10. CASE JobPlan \/ JobClear
    BY <2>3, <2>10 DEF JobPlan, JobClear, NoJob, netVars
  <2>11. QED
    BY <2>4, <2>5, <2>6, <2>7, <2>8, <2>9, <2>10, Zenon DEF Job
\* The worker.
<1>WorkerGone. Knows /\ GoneBefore /\ Evict => GoneBefore'
  <2> SUFFICES ASSUME Knows, GoneBefore, Evict PROVE GoneBefore'
    BY Zenon
  <2>0. evict \in Evicts /\ op \in Nat /\ [Next]_vars
    BY Zenon DEF Knows, Types, OwnerTypes, Next
  <2>1. UNCHANGED <<job, net>>
    BY Zenon DEF Evict, EvictSelect, EvictSend, EvictTimeout, EvictLost, EvictAnswered, EvictCommit, EvictRelease,
       EvictFinalize, masterVars, netVars
  <2>2. ASSUME evict'.pc # "wait",
               \/ evict'.pc \notin {"answered", "commit", "release"}
               \/ evict.pc \in {"answered", "commit"} /\ evict'.out = evict.out /\ evict'.gen = evict.gen,
               evict'.pc \in {"commit", "release"} => evict'.out \in {"Completed", "DemotedGlobal"}
        PROVE  GoneBefore'
    BY <2>0, <2>1, <2>2, MoreGone, Zenon
  <2>3. CASE EvictSelect \/ EvictLost \/ EvictTimeout \/ EvictFinalize
    <3>1. evict'.pc \in {"send", "idle"}
      BY <2>0, <2>3 DEF EvictSelect, EvictLost, EvictTimeout, EvictFinalize, FinishSelection, NoEvict, Evicts
    <3>2. QED
      BY <2>2, <3>1, Zenon
  <2>4. CASE \E r \in BOOLEAN : EvictSend(r)
    <3>1. /\ evict'.pc = "wait" /\ evict'.gen = evict.gen /\ op' = op + 1 /\ hand'[op'].gen = evict.gen
      BY <2>0, <2>4, BoundAssumption DEF EvictSend, Evicts, Knows, Types, MasterTypes
    <3>2. QED
      BY <2>0, <2>1, <3>1, MoreGone, Zenon
  <2>5. CASE EvictAnswered
    <3>1. \/ evict'.pc \in {"send", "idle"}
          \/ /\ evict'.pc = "commit" /\ evict'.out = evict.out /\ evict'.gen = evict.gen
             /\ evict.out \in {"Completed", "DemotedGlobal"}
      BY <2>0, <2>5 DEF EvictAnswered, FinishSelection, NoEvict, Evicts
    <3>2. QED
      BY <2>2, <2>5, <3>1, Zenon DEF EvictAnswered
  <2>6. CASE EvictCommit
    <3>1. evict'.pc = "release" /\ evict'.out = evict.out /\ evict'.gen = evict.gen /\ evict.pc = "commit"
      BY <2>0, <2>6, Zenon DEF EvictCommit, Evicts
    <3>2. QED
      BY <2>2, <3>1, Zenon DEF GoneBefore
  <2>7. CASE EvictRelease
    <3>1. evict'.pc = "finalize"
      BY <2>0, <2>7, Zenon DEF EvictRelease, Evicts
    <3>2. QED
      BY <2>2, <3>1, Zenon
  <2>8. QED
    BY <2>3, <2>4, <2>5, <2>6, <2>7, Zenon DEF Evict
\* The master's handlers: an eviction is Completed once its route is gone.
<1>HandlerGone. Knows /\ RouteOrder /\ GoneBefore /\ EvictHandler => GoneBefore'
  <2> SUFFICES ASSUME Knows, RouteOrder, GoneBefore, EvictHandler PROVE GoneBefore'
    BY Zenon
  <2>0. /\ evict \in Evicts /\ op \in Nat /\ hand \in [1..MaxOp -> Handlers] /\ [Next]_vars
        /\ UNCHANGED <<job, net, op, lput>>
    BY Zenon DEF Knows, Types, MasterTypes, OwnerTypes, Next, EvictHandler, EvictFence, EvictReplan, EvictApply, netVars,
       localVars
  <2>1. PICK o \in 1..MaxOp : EvictFence(o) \/ EvictReplan(o) \/ \E out \in EvictDecisions(hand[o]) : EvictApply(o, out)
    BY Zenon DEF EvictHandler
  <2>2. ASSUME evict' = evict, NEW pc, hand' = [hand EXCEPT ![o].pc = pc] PROVE GoneBefore'
    <3>1. hand'[op].gen = hand[op].gen
      BY <2>0, <2>2 DEF Handlers
    <3>2. QED
      BY <2>0, <2>2, <3>1, MoreGone, Zenon DEF GoneBefore
  <2>3. ASSUME NEW out, Reply(o, out),
               out = "Completed" => ~(route'.own /\ route'.gen = hand[o].gen)
        PROVE  GoneBefore'
    <3>1. CASE UNCHANGED evict
      BY <2>2, <2>3, <3>1, Zenon DEF Reply
    <3>2. CASE evict.pc = "wait" /\ op = o /\ evict' = [evict EXCEPT !.pc = "answered", !.out = out]
      <4>1. evict'.pc = "answered" /\ evict'.out = out /\ evict'.gen = evict.gen /\ hand[o].gen = evict.gen
        BY <2>0, <3>2, Zenon DEF Evicts, GoneBefore
      <4>2. lput.pc = "precommit" => lput.gen # evict.gen
        BY GenTypes DEF RouteOrder, Knows
      <4>3. out = "Completed" => GoneAfter(evict.gen)
        BY <2>0, <2>3, <4>1, <4>2, Zenon DEF GoneAfter
      <4>4. QED
        BY <2>0, <4>1, <4>3, MoreGone, Zenon
    <3>3. QED
      BY <2>3, <3>1, <3>2, Zenon DEF Reply
  <2>4. EvictPlan(hand[o].gen) = "Completed" => ~route.own
    BY Zenon DEF EvictPlan, Knows, MasterKnows
  <2>5. CASE EvictFence(o)
    BY <2>2, <2>3, <2>4, <2>5, Zenon DEF EvictFence
  <2>6. CASE EvictReplan(o)
    BY <2>2, <2>3, <2>4, <2>6, Zenon DEF EvictReplan
  <2>7. ASSUME NEW out \in EvictDecisions(hand[o]), EvictApply(o, out) PROVE GoneBefore'
    <3>1. out = "Completed" => ~(route'.own /\ route'.gen = hand[o].gen)
      BY <2>7, Zenon DEF EvictApply, NoRoute
    <3>2. QED
      BY <2>3, <2>7, <3>1, Zenon DEF EvictApply
  <2>8. QED
    BY <2>1, <2>5, <2>6, <2>7, Zenon
\* The owner's side.
<1>PhaseGone. Knows /\ GoneBefore /\ OwnerPhase => GoneBefore'
  <2> SUFFICES ASSUME Knows, GoneBefore, OwnerPhase PROVE GoneBefore'
    BY Zenon
  <2>0. evict \in Evicts /\ [Next]_vars
    BY Zenon DEF Knows, Types, OwnerTypes, Next
  <2>1. net' \subseteq net /\ UNCHANGED <<hand, op>>
    BY Zenon DEF OwnerPhase, HandlePrepare, CommitBegin, CommitRefused, HandleAbort, HandleFinalize, ProbeSlot,
       ProbeInstall, CommitEnd, masterVars, netVars, evictVars
  <2>2. evict'.pc = evict.pc /\ evict'.out = evict.out /\ evict'.gen = evict.gen
    BY <2>0, Zenon DEF OwnerPhase, HandlePrepare, CommitBegin, CommitRefused, HandleAbort, HandleFinalize, ProbeSlot,
       ProbeInstall, CommitEnd, evictVars, Evicts
  <2>3. QED
    BY <2>0, <2>1, <2>2, PhaseJob, MoreGone, Zenon DEF GoneBefore
<1>1. ASSUME Knows, GoneBefore, UNCHANGED vars PROVE GoneBefore'
  BY <1>1, <1>SameGone, Zenon DEF vars, masterVars, netVars, evictVars
<1>2. ASSUME Knows, GoneBefore, Put \/ MasterDelete \/ Broadcast \/ Read \/ RemoteGet \/ OwnerGet PROVE GoneBefore'
  <2>1. UNCHANGED <<net, job, evict, hand>>
    BY <1>2, DataProtocol, Zenon DEF protocolVars
  <2>2. UNCHANGED op
    BY <1>2, DataOp, Zenon
  <2>3. QED
    BY <1>2, <2>1, <2>2, <1>SameGone, Zenon DEF Next
<1>3. QED
  BY <1>1, <1>2, <1>JobGone, <1>PhaseGone, <1>WorkerGone, <1>HandlerGone, Zenon DEF Next

-----------------------------------------------------------------------------
\* What is not about slots.
LEMMA InitOrder == Init => Order
<1> SUFFICES ASSUME Init PROVE Order
  BY Zenon
<1>1. Types /\ ProtocolInv
  BY InitTypes, InitProtocol, Zenon
<1>2. CountTypes /\ GetCount
  <2>1. NoRGet \in RGets /\ Acts(NoRGet) = 0 /\ Acts(NoLGet) = 0 /\ ~NoRGet.act /\ ~NoLGet.act
    BY Zenon DEF RGets, NoRGet, NoLGet, Acts
  <2>2. CountTypes
    BY <2>1, Zenon DEF Init, CountTypes
  <2>3. GetCount
    BY <2>1, SMTT(30) DEF Init, GetCount
  <2>4. QED
    BY <2>2, <2>3, Zenon
<1>3. MasterKnows /\ OwnerKnows
  BY BoundAssumption DEF Init, MasterKnows, OwnerKnows, NoRoute
<1>4. LocalInv
  BY Zenon DEF Init, LocalInv, LocalFence, Fenced, EvictRec, RecShape, NoRec, NoItem, NoEvict
<1>5. RouteOrder /\ GoneBefore
  BY Zenon DEF Init, RouteOrder, GoneBefore, NoRoute, NoPut, NoLGet, NoJob, NoEvict
<1>6. QED
  BY <1>1, <1>2, <1>3, <1>4, <1>5, Zenon DEF Order, Knows

LEMMA StepOrdered == Order /\ [Next]_vars => Order'
<1>1. Order /\ [Next]_vars => Types' /\ ProtocolInv'
  BY StepTypes, StepProtocol, Zenon DEF Order, Knows
<1>2. QED
  BY <1>1, StepKnows, StepCounts, StepLocal, StepOrder, StepGone, Zenon DEF Order, Knows
===============================================================================
