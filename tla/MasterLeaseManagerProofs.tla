----------------------- MODULE MasterLeaseManagerProofs -----------------------
(* Proofs about MasterLeaseManager, for every value of its constants. *)
EXTENDS MasterLeaseManager, TLAPS

\* Every step of a handler and of the cleanup task keeps the types.
LEMMA TypeStep == TypeOK /\ [Next]_vars => TypeOK'
<1> USE ConstantsAssumption
    DEF LeaseId, Time, Record, NoLease, tableVars, taskVars, cleanerVars
<1> SUFFICES ASSUME TableType, TaskType, CleanerType, [Next]_vars
             PROVE  TableType' /\ TaskType' /\ CleanerType'
  BY DEF TypeOK
<1>1. CASE Tick
  <2>1. TableType' BY <1>1 DEF Tick, TableType
  <2>2. TaskType' BY <1>1 DEF Tick, TaskType
  <2>3. CleanerType' BY <1>1 DEF Tick, CleanerType
  <2>4. QED BY <2>1, <2>2, <2>3
<1>2. ASSUME NEW k \in Task, NEW t \in TTL, GrantLease(k, t)
      PROVE  TableType' /\ TaskType' /\ CleanerType'
  <2>1. TableType' BY <1>2, SMTT(30) DEF GrantLease, TableType
  <2>2. TaskType' BY <1>2 DEF GrantLease, TaskType
  <2>3. CleanerType' BY <1>2 DEF GrantLease, CleanerType
  <2>4. QED BY <2>1, <2>2, <2>3
<1>3. ASSUME NEW k \in Task, NEW l \in LeaseId, NEW custom \in CustomTTL,
             KeepaliveBegin(k, l, custom)
      PROVE  TableType' /\ TaskType' /\ CleanerType'
  <2>1. TableType' BY <1>3 DEF KeepaliveBegin, TableType
  <2>2. time' \in [Task -> Time] BY <1>3 DEF KeepaliveBegin, TaskType, TableType
  <2>3. TaskType' BY <1>3, <2>2 DEF KeepaliveBegin, TaskType
  <2>4. CleanerType' BY <1>3 DEF KeepaliveBegin, CleanerType
  <2>5. QED BY <2>1, <2>3, <2>4
<1>4. ASSUME NEW k \in Task, KeepaliveStore(k)
      PROVE  TableType' /\ TaskType' /\ CleanerType'
  <2>1. TableType' BY <1>4 DEF KeepaliveStore, TableType, TaskType
  <2>2. TaskType' BY <1>4 DEF KeepaliveStore, TaskType
  <2>3. CleanerType' BY <1>4 DEF KeepaliveStore, CleanerType
  <2>4. QED BY <2>1, <2>2, <2>3
<1>5. ASSUME NEW k \in Task, ReadExpiration(k)
      PROVE  TableType' /\ TaskType' /\ CleanerType'
  <2>1. TableType' BY <1>5 DEF ReadExpiration, TableType
  <2>2. expiration[lease[k]] \in Time
    BY <1>5 DEF ReadExpiration, TaskType, TableType
  <2>3. TaskType' BY <1>5, <2>2 DEF ReadExpiration, Answer, TaskType
  <2>4. CleanerType' BY <1>5 DEF ReadExpiration, CleanerType
  <2>5. QED BY <2>1, <2>3, <2>4
<1>6. ASSUME NEW k \in Task, PushRecord(k)
      PROVE  TableType' /\ TaskType' /\ CleanerType'
  <2>a. <<time[k], lease[k]>> \in Record
    BY <1>6 DEF PushRecord, TaskType
  <2>b. /\ expire_heap' = expire_heap \cup {<<time[k], lease[k]>>}
        /\ UNCHANGED <<now, next_lease_id, leases, ttl, expiration, permit>>
    BY <1>6 DEF PushRecord
  <2>c. expire_heap' \subseteq Record
    BY <2>a, <2>b DEF TableType
  <2>1. TableType' BY <2>b, <2>c DEF TableType
  <2>2. TaskType' BY <1>6 DEF PushRecord, Answer, TaskType
  <2>3. CleanerType' BY <1>6 DEF PushRecord, CleanerType
  <2>4. QED BY <2>1, <2>2, <2>3
<1>7. ASSUME NEW k \in Task, NotifyCleaner(k)
      PROVE  TableType' /\ TaskType' /\ CleanerType'
  <2>1. TableType' BY <1>7 DEF NotifyCleaner, TableType
  <2>2. TaskType' BY <1>7 DEF NotifyCleaner, Answer, TaskType
  <2>3. CleanerType' BY <1>7 DEF NotifyCleaner, CleanerType
  <2>4. QED BY <2>1, <2>2, <2>3
<1>8. CASE CollectExpired
  <2>1. TableType' BY <1>8 DEF CollectExpired, TableType
  <2>2. TaskType' BY <1>8 DEF CollectExpired, TaskType
  <2>3. CleanerType' BY <1>8 DEF CollectExpired, TableType, CleanerType
  <2>4. QED BY <2>1, <2>2, <2>3
<1>9. ASSUME NEW rec \in expired, CheckRecord(rec)
      PROVE  TableType' /\ TaskType' /\ CleanerType'
  <2>1. TableType' BY <1>9 DEF CheckRecord, TableType
  <2>2. TaskType' BY <1>9 DEF CheckRecord, TaskType
  <2>3. CleanerType' BY <1>9 DEF CheckRecord, StillDue, TableType, CleanerType
  <2>4. QED BY <2>1, <2>2, <2>3
<1>10. CASE RemoveLease
  <2>1. TableType' BY <1>10 DEF RemoveLease, TableType
  <2>2. TaskType' BY <1>10 DEF RemoveLease, TaskType
  <2>3. CleanerType' BY <1>10 DEF RemoveLease, CleanerType
  <2>4. QED BY <2>1, <2>2, <2>3
<1>11. CASE PlanSleep
  <2>1. TableType' /\ TaskType'
    <3>1. TableType' BY <1>11 DEF PlanSleep, TableType
    <3>2. TaskType' BY <1>11 DEF PlanSleep, TaskType
    <3>3. QED BY <3>1, <3>2
  <2>2. ASSUME NEW d \in Nat, SleepFor(d)
        PROVE  /\ sleep_start' \in Time
               /\ deadline' \in Time
               /\ stage' = "sleep"
    BY <2>2 DEF SleepFor, TableType
  <2>3. \E d \in Nat : SleepFor(d)
    BY <1>11 DEF PlanSleep, TableType, CleanerType
  <2>4. CleanerType' BY <1>11, <2>2, <2>3 DEF PlanSleep, CleanerType
  <2>5. QED BY <2>1, <2>4
<1>12. CASE WakeOnTimer
  <2>1. TableType' BY <1>12 DEF WakeOnTimer, Rescan, TableType
  <2>2. TaskType' BY <1>12 DEF WakeOnTimer, Rescan, TaskType
  <2>3. CleanerType' BY <1>12 DEF WakeOnTimer, Rescan, CleanerType
  <2>4. QED BY <2>1, <2>2, <2>3
<1>13. CASE WakeOnNotify
  <2>1. TableType' BY <1>13 DEF WakeOnNotify, Rescan, TableType
  <2>2. TaskType' BY <1>13 DEF WakeOnNotify, Rescan, TaskType
  <2>3. CleanerType' BY <1>13 DEF WakeOnNotify, Rescan, CleanerType
  <2>4. QED BY <2>1, <2>2, <2>3
<1>14. CASE UNCHANGED vars
  <2>1. TableType' BY <1>14 DEF vars, TableType
  <2>2. TaskType' BY <1>14 DEF vars, TaskType
  <2>3. CleanerType' BY <1>14 DEF vars, CleanerType
  <2>4. QED BY <2>1, <2>2, <2>3
<1>15. QED
  BY <1>1, <1>2, <1>3, <1>4, <1>5, <1>6, <1>7, <1>8, <1>9, <1>10, <1>11, <1>12,
     <1>13, <1>14
  DEF Next, TaskStep, CleanerStep

\* The handlers and the cleanup task keep every variable in its type.
THEOREM TypeCorrect == Spec => []TypeOK
<1>1. Init => TypeOK
  BY ConstantsAssumption
  DEF Init, TypeOK, TableType, TaskType, CleanerType, LeaseId, Time, Record, NoLease
<1>2. QED
  BY <1>1, TypeStep, PTL DEF Spec

-----------------------------------------------------------------------------
\* One step keeps NoOrphanLease: the record of a lease's current expiration is
\* never lost between the heap, the batch of the cleanup task and the handlers.
LEMMA OrphanStep == TypeOK /\ NoOrphanLease /\ [Next]_vars => NoOrphanLease'
<1> USE DEF tableVars, taskVars, cleanerVars
<1> SUFFICES ASSUME TypeOK, NoOrphanLease, [Next]_vars,
                    NEW l \in leases'
             PROVE  \/ <<expiration'[l], l>> \in expire_heap' \cup expired'
                    \/ stage' = "remove" /\ victim' = l
                    \/ \E k \in Task : WillPush(k, l)'
  BY DEF NoOrphanLease
<1> DEFINE Covered == \/ <<expiration'[l], l>> \in expire_heap' \cup expired'
                      \/ stage' = "remove" /\ victim' = l
                      \/ \E k \in Task : WillPush(k, l)'
<1>1. CASE Tick
  BY <1>1 DEF Tick, NoOrphanLease, WillPush
<1>2. ASSUME NEW k \in Task, NEW t \in TTL, GrantLease(k, t) PROVE Covered
  <2>1. CASE l = next_lease_id
    BY <1>2, <2>1 DEF GrantLease, WillPush, TypeOK, TaskType
  <2>2. CASE l # next_lease_id
    <3>1. l \in leases /\ expiration'[l] = expiration[l]
      BY <1>2, <2>2 DEF GrantLease, TypeOK, TableType
    <3>2. ASSUME NEW j \in Task, WillPush(j, l) PROVE WillPush(j, l)'
      BY <1>2, <3>1, <3>2 DEF GrantLease, WillPush, TypeOK, TaskType
    <3>3. QED BY <1>2, <3>1, <3>2 DEF GrantLease, NoOrphanLease
  <2>3. QED BY <2>1, <2>2
<1>3. ASSUME NEW k \in Task, NEW m \in LeaseId, NEW custom \in CustomTTL,
             KeepaliveBegin(k, m, custom)
      PROVE  Covered
  <2>1. ASSUME NEW j \in Task, WillPush(j, l) PROVE WillPush(j, l)'
    BY <1>3, <2>1 DEF KeepaliveBegin, WillPush, TypeOK, TaskType
  <2>2. QED BY <1>3, <2>1 DEF KeepaliveBegin, NoOrphanLease
<1>4. ASSUME NEW k \in Task, KeepaliveStore(k) PROVE Covered
  <2>1. CASE lease[k] = l
    BY <1>4, <2>1 DEF KeepaliveStore, WillPush, TypeOK, TaskType
  <2>2. CASE lease[k] # l
    <3>1. l \in leases /\ expiration'[l] = expiration[l]
      BY <1>4, <2>2 DEF KeepaliveStore, TypeOK, TableType
    <3>2. ASSUME NEW j \in Task, WillPush(j, l) PROVE WillPush(j, l)'
      BY <1>4, <2>2, <3>1, <3>2 DEF KeepaliveStore, WillPush, TypeOK, TaskType
    <3>3. QED BY <1>4, <3>1, <3>2 DEF KeepaliveStore, NoOrphanLease
  <2>3. QED BY <2>1, <2>2
<1>5. ASSUME NEW k \in Task, ReadExpiration(k) PROVE Covered
  <2>1. l \in leases /\ UNCHANGED <<leases, expiration, expire_heap, expired, stage, victim>>
    BY <1>5 DEF ReadExpiration
  <2>2. ASSUME NEW j \in Task, WillPush(j, l) PROVE WillPush(j, l)'
    BY <1>5, <2>1, <2>2 DEF ReadExpiration, Answer, WillPush, TypeOK, TaskType
  <2>3. QED BY <2>1, <2>2 DEF NoOrphanLease
<1>6. ASSUME NEW k \in Task, PushRecord(k) PROVE Covered
  <2>1. /\ l \in leases
        /\ expire_heap' = expire_heap \cup {<<time[k], lease[k]>>}
        /\ UNCHANGED <<expiration, expired, stage, victim>>
    BY <1>6 DEF PushRecord
  <2>2. CASE WillPush(k, l)
    BY <1>6, <2>1, <2>2 DEF PushRecord, WillPush
  <2>3. ASSUME NEW j \in Task, j # k, WillPush(j, l) PROVE WillPush(j, l)'
    BY <1>6, <2>1, <2>3 DEF PushRecord, Answer, WillPush, TypeOK, TaskType
  <2>4. QED BY <2>1, <2>2, <2>3 DEF NoOrphanLease
<1>7. ASSUME NEW k \in Task, NotifyCleaner(k) PROVE Covered
  <2>1. ASSUME NEW j \in Task, WillPush(j, l) PROVE WillPush(j, l)'
    BY <1>7, <2>1 DEF NotifyCleaner, Answer, WillPush, TypeOK, TaskType
  <2>2. QED BY <1>7, <2>1 DEF NotifyCleaner, NoOrphanLease
<1>8. CASE CollectExpired
  <2>1. expire_heap \cup expired \subseteq expire_heap' \cup expired'
    BY <1>8 DEF CollectExpired, TypeOK, CleanerType
  <2>2. QED BY <1>8, <2>1 DEF CollectExpired, NoOrphanLease, WillPush
<1>9. ASSUME NEW rec \in expired, CheckRecord(rec) PROVE Covered
  <2>1. CASE rec = <<expiration[l], l>>
    BY <1>9, <2>1 DEF CheckRecord, StillDue
  <2>2. CASE rec # <<expiration[l], l>>
    BY <1>9, <2>2 DEF CheckRecord, NoOrphanLease, WillPush
  <2>3. QED BY <2>1, <2>2
<1>10. CASE RemoveLease
  BY <1>10 DEF RemoveLease, NoOrphanLease, WillPush
<1>11. CASE PlanSleep
  BY <1>11 DEF PlanSleep, SleepFor, NoOrphanLease, WillPush
<1>12. CASE WakeOnTimer \/ WakeOnNotify
  BY <1>12 DEF WakeOnTimer, WakeOnNotify, Rescan, NoOrphanLease, WillPush
<1>13. CASE UNCHANGED vars
  BY <1>13 DEF vars, NoOrphanLease, WillPush
<1>14. QED
  BY <1>1, <1>2, <1>3, <1>4, <1>5, <1>6, <1>7, <1>8, <1>9, <1>10, <1>11, <1>12, <1>13
  DEF Next, TaskStep, CleanerStep

\* Whatever grants and keepalives overtake each other and the cleanup task, no
\* lease in the table is left without a record that will expire it.
THEOREM NoOrphan == Spec => []NoOrphanLease
<1>1. Init => NoOrphanLease
  BY DEF Init, NoOrphanLease
<1>2. QED
  BY <1>1, OrphanStep, TypeCorrect, PTL DEF Spec

-----------------------------------------------------------------------------
\* One step keeps SleepCoversHeap: a push that the sleep does not cover is
\* followed by a notification.
LEMMA SleepStep == TypeOK /\ SleepCoversHeap /\ [Next]_vars => SleepCoversHeap'
<1> USE ConstantsAssumption
    DEF tableVars, taskVars, cleanerVars, Time, Record, LeaseId, NoLease
<1> SUFFICES ASSUME TypeOK, SleepCoversHeap, [Next]_vars, stage' = "sleep"
             PROVE  SleepCoversHeap'
  BY DEF SleepCoversHeap
<1> DEFINE Notifying == \E k \in Task : pc[k] = "notify"
           Covers(heap) == \A rec \in heap : deadline <= rec[1] + (sleep_start - seen)
<1>1. CASE Tick
  BY <1>1 DEF Tick, SleepCoversHeap
<1>2. ASSUME NEW k \in Task, NEW t \in TTL, GrantLease(k, t) PROVE SleepCoversHeap'
  <2>1. Notifying => Notifying' BY <1>2 DEF GrantLease, TypeOK, TaskType
  <2>2. QED BY <1>2, <2>1 DEF GrantLease, SleepCoversHeap
<1>3. ASSUME NEW k \in Task, NEW m \in LeaseId, NEW custom \in CustomTTL,
             KeepaliveBegin(k, m, custom)
      PROVE  SleepCoversHeap'
  <2>1. Notifying => Notifying' BY <1>3 DEF KeepaliveBegin, TypeOK, TaskType
  <2>2. QED BY <1>3, <2>1 DEF KeepaliveBegin, SleepCoversHeap
<1>4. ASSUME NEW k \in Task, KeepaliveStore(k) PROVE SleepCoversHeap'
  <2>1. Notifying => Notifying' BY <1>4 DEF KeepaliveStore, TypeOK, TaskType
  <2>2. QED BY <1>4, <2>1 DEF KeepaliveStore, SleepCoversHeap
<1>5. ASSUME NEW k \in Task, ReadExpiration(k) PROVE SleepCoversHeap'
  <2>1. Notifying => Notifying'
    BY <1>5 DEF ReadExpiration, Answer, TypeOK, TaskType
  <2>2. QED BY <1>5, <2>1 DEF ReadExpiration, SleepCoversHeap
<1>6. ASSUME NEW k \in Task, PushRecord(k) PROVE SleepCoversHeap'
  <2>1. /\ expire_heap' = expire_heap \cup {<<time[k], lease[k]>>}
        /\ UNCHANGED <<permit, stage, seen, sleep_start, deadline>>
    BY <1>6 DEF PushRecord
  <2>2. Notifying => Notifying'
    BY <1>6 DEF PushRecord, Answer, TypeOK, TaskType
  <2>3. CASE \A rec \in expire_heap : time[k] < rec[1]
    <3>1. pc'[k] = "notify"
      BY <1>6, <2>3 DEF PushRecord, TypeOK, TaskType
    <3>2. QED BY <3>1 DEF SleepCoversHeap
  <2>4. CASE ~ \A rec \in expire_heap : time[k] < rec[1]
    <3>1. PICK early \in expire_heap : ~(time[k] < early[1])
      BY <2>4
    <3>2. early[1] <= time[k] /\ early[1] \in Nat /\ time[k] \in Nat
      BY <3>1 DEF TypeOK, TableType, TaskType
    <3>3. Covers(expire_heap) => Covers(expire_heap')
      <4> SUFFICES ASSUME Covers(expire_heap), NEW rec \in expire_heap'
                   PROVE  deadline <= rec[1] + (sleep_start - seen)
        OBVIOUS
      <4>1. CASE rec \in expire_heap
        BY <4>1
      <4>2. CASE rec = <<time[k], lease[k]>>
        <5>1. deadline <= early[1] + (sleep_start - seen) BY <3>1
        <5>2. rec[1] = time[k] BY <4>2
        <5>3. QED BY <5>1, <5>2, <3>2 DEF TypeOK, CleanerType
      <4>3. QED BY <2>1, <4>1, <4>2
    <3>4. QED BY <2>1, <2>2, <3>3 DEF SleepCoversHeap
  <2>5. QED BY <2>3, <2>4
<1>7. ASSUME NEW k \in Task, NotifyCleaner(k) PROVE SleepCoversHeap'
  BY <1>7 DEF NotifyCleaner, SleepCoversHeap
<1>8. CASE CollectExpired
  BY <1>8 DEF CollectExpired
<1>9. ASSUME NEW rec \in expired, CheckRecord(rec) PROVE SleepCoversHeap'
  BY <1>9 DEF CheckRecord
<1>10. CASE RemoveLease
  BY <1>10 DEF RemoveLease
<1>11. CASE PlanSleep
  <2>1. CASE expire_heap = {}
    BY <1>11, <2>1 DEF PlanSleep, SleepCoversHeap
  <2>2. ASSUME NEW rec \in expire_heap,
               \A other \in expire_heap : rec[1] <= other[1],
               SleepFor(IF rec[1] > seen THEN rec[1] - seen ELSE MinSleep)
        PROVE  SleepCoversHeap'
    <3>0. /\ now \in Nat /\ rec[1] \in Nat /\ seen \in Nat
          /\ UNCHANGED <<expire_heap, seen>>
      BY <1>11 DEF PlanSleep, TypeOK, TableType, CleanerType
    <3>1. CASE rec[1] > seen
      <4>1. deadline' <= rec[1] + (sleep_start' - seen')
        BY <2>2, <3>0, <3>1 DEF SleepFor
      <4>2. ASSUME NEW other \in expire_heap'
            PROVE  deadline' <= other[1] + (sleep_start' - seen')
        <5>1. rec[1] <= other[1] /\ other[1] \in Nat
          BY <2>2, <3>0 DEF TypeOK, TableType
        <5>2. sleep_start' \in Nat /\ deadline' \in Nat
          BY <2>2, <3>0, <3>1 DEF SleepFor
        <5>3. QED BY <3>0, <4>1, <5>1, <5>2
      <4>3. QED BY <4>2 DEF SleepCoversHeap
    <3>2. CASE ~(rec[1] > seen)
      BY <2>2, <3>0, <3>2 DEF SleepFor, SleepCoversHeap
    <3>3. QED BY <3>1, <3>2
  <2>3. QED BY <1>11, <2>1, <2>2 DEF PlanSleep
<1>12. CASE WakeOnTimer \/ WakeOnNotify
  BY <1>12 DEF WakeOnTimer, WakeOnNotify, Rescan
<1>13. CASE UNCHANGED vars
  BY <1>13 DEF vars, SleepCoversHeap
<1>14. QED
  BY <1>1, <1>2, <1>3, <1>4, <1>5, <1>6, <1>7, <1>8, <1>9, <1>10, <1>11, <1>12, <1>13
  DEF Next, TaskStep, CleanerStep

\* The cleanup task never sleeps past a record by more than the delay with
\* which it fell asleep, unless a notification is on its way.
THEOREM NoLostWakeup == Spec => []SleepCoversHeap
<1>1. Init => SleepCoversHeap
  BY DEF Init, SleepCoversHeap
<1>2. QED
  BY <1>1, SleepStep, TypeCorrect, PTL DEF Spec

-----------------------------------------------------------------------------
\* One step keeps RefsPinLeases: the removal respects the references, and the
\* clock only advances.
LEMMA RefsStep == TypeOK /\ RefsPinLeases /\ [Next]_vars => RefsPinLeases'
<1> USE ConstantsAssumption
    DEF tableVars, taskVars, cleanerVars, Time, Record, LeaseId, NoLease
<1> SUFFICES ASSUME TypeOK, RefsPinLeases, [Next]_vars
             PROVE  RefsPinLeases'
  OBVIOUS
<1>1. CASE Tick
  <2>1. \A rec \in expired : rec[1] \in Nat BY DEF TypeOK, CleanerType
  <2>2. QED BY <1>1, <2>1 DEF Tick, RefsPinLeases, TypeOK, TableType
<1>2. ASSUME NEW k \in Task, NEW t \in TTL, GrantLease(k, t) PROVE RefsPinLeases'
  BY <1>2, SMTT(30) DEF GrantLease, RefsPinLeases, TypeOK, TaskType
<1>3. ASSUME NEW k \in Task, NEW m \in LeaseId, NEW custom \in CustomTTL,
             KeepaliveBegin(k, m, custom)
      PROVE  RefsPinLeases'
  BY <1>3 DEF KeepaliveBegin, RefsPinLeases, TypeOK, TaskType
<1>4. ASSUME NEW k \in Task, KeepaliveStore(k) PROVE RefsPinLeases'
  BY <1>4 DEF KeepaliveStore, RefsPinLeases, TypeOK, TaskType
<1>5. ASSUME NEW k \in Task, ReadExpiration(k) PROVE RefsPinLeases'
  BY <1>5 DEF ReadExpiration, Answer, RefsPinLeases, TypeOK, TaskType
<1>6. ASSUME NEW k \in Task, PushRecord(k) PROVE RefsPinLeases'
  BY <1>6 DEF PushRecord, Answer, RefsPinLeases, TypeOK, TaskType
<1>7. ASSUME NEW k \in Task, NotifyCleaner(k) PROVE RefsPinLeases'
  BY <1>7 DEF NotifyCleaner, Answer, RefsPinLeases, TypeOK, TaskType
<1>8. CASE CollectExpired
  BY <1>8 DEF CollectExpired, RefsPinLeases
<1>9. ASSUME NEW rec \in expired, CheckRecord(rec) PROVE RefsPinLeases'
  <2>1. expired' \subseteq expired /\ UNCHANGED <<now, leases, pc, lease, refs>>
    BY <1>9 DEF CheckRecord
  <2>2. QED BY <2>1 DEF RefsPinLeases
<1>10. CASE RemoveLease
  BY <1>10 DEF RemoveLease, RefsPinLeases
<1>11. CASE PlanSleep
  BY <1>11 DEF PlanSleep, RefsPinLeases
<1>12. CASE WakeOnTimer \/ WakeOnNotify
  BY <1>12 DEF WakeOnTimer, WakeOnNotify, Rescan, RefsPinLeases
<1>13. CASE UNCHANGED vars
  BY <1>13 DEF vars, RefsPinLeases
<1>14. QED
  BY <1>1, <1>2, <1>3, <1>4, <1>5, <1>6, <1>7, <1>8, <1>9, <1>10, <1>11, <1>12, <1>13
  DEF Next, TaskStep, CleanerStep

\* Every step of the lease manager is a step of LeaseTable or changes nothing
\* LeaseTable can see.
LEMMA RefinementStep ==
  TypeOK /\ RefsPinLeases /\ [Next]_vars => [Table!Next]_(Table!vars)
<1> USE ConstantsAssumption DEF tableVars, taskVars, cleanerVars
<1> SUFFICES ASSUME TypeOK, RefsPinLeases, [Next]_vars
             PROVE  Table!Next \/ UNCHANGED Table!vars
  OBVIOUS
<1> DEFINE Hidden == UNCHANGED <<now, next_lease_id, leases, expiration, stage, victim>>
<1>0. Hidden => UNCHANGED Table!vars
  BY DEF Table!vars
<1>1. CASE Tick
  <2>1. Table!TimePasses
    BY <1>1 DEF Tick, Table!TimePasses, Time, TypeOK, TableType
  <2>2. QED BY <2>1 DEF Table!Next
<1>2. ASSUME NEW k \in Task, NEW t \in TTL, GrantLease(k, t) PROVE Table!Next
  <2>1. next_lease_id \in LeaseId /\ now + t \in Time /\ now + t >= now + MinTTL
    BY <1>2 DEF GrantLease, Time, TypeOK, TableType
  <2>2. 1..(next_lease_id' - 1) = (1..(next_lease_id - 1)) \cup {next_lease_id}
    BY <1>2, <2>1 DEF GrantLease, LeaseId
  <2>3. next_lease_id \notin 1..(next_lease_id - 1)
    BY <2>1 DEF LeaseId
  <2>4. Table!Grant(next_lease_id)
    BY <1>2, <2>1, <2>2, <2>3 DEF GrantLease, Table!Grant
  <2>5. QED BY <2>1, <2>4 DEF Table!Next
<1>3. ASSUME NEW k \in Task, NEW m \in LeaseId, NEW custom \in CustomTTL,
             KeepaliveBegin(k, m, custom)
      PROVE  Hidden
  BY <1>3 DEF KeepaliveBegin
<1>4. ASSUME NEW k \in Task, KeepaliveStore(k) PROVE Table!Next
  <2>1. lease[k] \in LeaseId /\ lease[k] \in leases /\ time[k] \in Time
    BY <1>4 DEF KeepaliveStore, RefsPinLeases, TypeOK, TaskType
  <2>2. Table!Renew(lease[k])
    BY <1>4, <2>1 DEF KeepaliveStore, Table!Renew
  <2>3. QED BY <2>1, <2>2 DEF Table!Next
<1>5. ASSUME NEW k \in Task, ReadExpiration(k) PROVE Hidden
  BY <1>5 DEF ReadExpiration
<1>6. ASSUME NEW k \in Task, PushRecord(k) PROVE Hidden
  BY <1>6 DEF PushRecord
<1>7. ASSUME NEW k \in Task, NotifyCleaner(k) PROVE Hidden
  BY <1>7 DEF NotifyCleaner
<1>8. CASE CollectExpired
  <2>1. stage # "remove" /\ stage' # "remove"
        /\ UNCHANGED <<now, next_lease_id, leases, expiration>>
    BY <1>8 DEF CollectExpired
  <2>2. QED BY <2>1 DEF Table!vars
<1>9. ASSUME NEW rec \in expired, CheckRecord(rec)
      PROVE  Table!Next \/ UNCHANGED Table!vars
  <2>1. CASE StillDue(rec)
    <3>1. rec[2] \in LeaseId
      BY DEF TypeOK, CleanerType, Record
    <3>2. /\ stage = "each" /\ stage' = "remove" /\ victim' = rec[2]
          /\ UNCHANGED <<now, next_lease_id, leases, expiration>>
      BY <1>9, <2>1 DEF CheckRecord
    <3>3. rec[2] \in leases /\ expiration[rec[2]] <= now
      BY <2>1 DEF StillDue, RefsPinLeases
    <3>4. Table!Condemn(rec[2])
      BY <3>2, <3>3 DEF Table!Condemn
    <3>5. QED BY <3>1, <3>4 DEF Table!Next
  <2>2. CASE ~StillDue(rec)
    BY <1>9, <1>0, <2>2 DEF CheckRecord
  <2>3. QED BY <2>1, <2>2
<1>10. CASE RemoveLease
  <2>1. Table!Withdraw(victim)
    BY <1>10 DEF RemoveLease, Table!Withdraw
  <2>2. QED BY <1>10, <2>1 DEF Table!Next, RemoveLease, TypeOK, CleanerType
<1>11. CASE PlanSleep
  <2>1. stage # "remove" /\ stage' # "remove"
        /\ UNCHANGED <<now, next_lease_id, leases, expiration>>
    BY <1>11 DEF PlanSleep, SleepFor
  <2>2. QED BY <2>1 DEF Table!vars
<1>12. CASE WakeOnTimer \/ WakeOnNotify
  <2>1. stage # "remove" /\ stage' # "remove"
        /\ UNCHANGED <<now, next_lease_id, leases, expiration>>
    BY <1>12 DEF WakeOnTimer, WakeOnNotify, Rescan
  <2>2. QED BY <2>1 DEF Table!vars
<1>13. CASE UNCHANGED vars
  BY <1>0, <1>13 DEF vars
<1>14. QED
  BY <1>0, <1>1, <1>2, <1>3, <1>4, <1>5, <1>6, <1>7, <1>8, <1>9, <1>10, <1>11, <1>12,
     <1>13
  DEF Next, TaskStep, CleanerStep

\* The lease manager implements LeaseTable: no lease leaves the table unless
\* there was a moment, while it was in the table, at which it had lapsed.
THEOREM LeaseRefinement == Spec => ImplementsLeaseTable
<1>1. Init => Table!Init
  BY ConstantsAssumption DEF Init, Table!Init, Time, LeaseId
<1>2. Init => RefsPinLeases
  BY DEF Init, RefsPinLeases
<1>3. Spec => []RefsPinLeases
  BY <1>2, RefsStep, TypeCorrect, PTL DEF Spec
<1>4. QED
  BY <1>1, <1>3, TypeCorrect, RefinementStep, PTL DEF Spec, ImplementsLeaseTable, Table!Spec
=============================================================================
