-------------------------- MODULE MasterLeaseManager --------------------------
(***************************************************************************)
(* The master's lease manager: the lease table, the heap of expiration     *)
(* records with lazy deletion, the keepalive and allocation handlers, and  *)
(* the background task that sleeps until the earliest record.              *)
(*                                                                         *)
(* Handlers run on several threads.  A handler is split where another      *)
(* thread can get in between: a grant publishes the lease, then reads its  *)
(* expiration, then pushes the heap record under the heap lock, then       *)
(* notifies.  A keepalive holds the DashMap reference of its lease         *)
(* throughout, so the task cannot remove that lease meanwhile.             *)
(*                                                                         *)
(* A lease in the table is always ACTIVE (expire() runs on a lease that    *)
(* has been taken out), so the state field is not kept.  The keys bound to *)
(* a lease are in LeasedRoutes.  The heap is a set: a second equal record  *)
(* is popped with the first and finds the lease gone.                      *)
(***************************************************************************)
EXTENDS Naturals

CONSTANTS MaxLeases,     \* bound: grants per run
          Task,          \* RPC handler tasks
          TTL,           \* ttls a client asks for
          CustomTTL,     \* custom_ttl of a keepalive; 0 means none
          MinTTL,        \* MIN_CLIENT_TTL_SECONDS
          DefaultSleep,  \* sleep when no lease is known (60 s)
          MinSleep,      \* sleep when a record is already due (100 ms)
          MaxTime        \* bound: the modelled horizon of the clock

ASSUME ConstantsAssumption ==
  /\ MaxLeases \in Nat
  /\ TTL \subseteq Nat
  /\ CustomTTL \subseteq Nat
  /\ MinTTL \in Nat
  /\ DefaultSleep \in Nat
  /\ MinSleep \in Nat
  /\ MaxTime \in Nat

LeaseId == 1..MaxLeases

VARIABLES now,            \* current_time_ms
          next_lease_id,
          leases,         \* keys of the DashMap leases
          ttl,            \* Lease::ttl
          expiration,     \* Lease::expiration_time
          expire_heap,    \* records <<time, lease>>
          permit,         \* permits stored in cleanup_notify, at most one
          \* handler tasks: program counter, the lease and the time they work
          \* with, and the tasks that hold a DashMap reference to their lease
          pc, lease, time, refs,
          \* cleanup task: program counter, the loop's local `now`, the records
          \* popped and not yet looked at, the lease being removed, and the
          \* beginning and end of the sleep
          stage, seen, expired, victim, sleep_start, deadline

tableVars == <<next_lease_id, leases, ttl, expiration>>
taskVars == <<pc, lease, time, refs>>
cleanerVars == <<stage, seen, expired, victim, sleep_start, deadline>>
vars == <<now, tableVars, expire_heap, permit, taskVars, cleanerVars>>

Time == 0..MaxTime
Record == Time \X LeaseId
NoLease == 0

Init ==
  /\ now = 0
  /\ next_lease_id = 1
  /\ leases = {}
  /\ ttl = [l \in LeaseId |-> 0]
  /\ expiration = [l \in LeaseId |-> 0]
  /\ expire_heap = {}
  /\ permit = 0
  /\ pc = [k \in Task |-> "idle"]
  /\ lease = [k \in Task |-> NoLease]
  /\ time = [k \in Task |-> 0]
  /\ refs = {}
  /\ stage = "scan"
  /\ seen = 0
  /\ expired = {}
  /\ victim = NoLease
  /\ sleep_start = 0
  /\ deadline = 0

Tick ==
  /\ now < MaxTime
  /\ now' = now + 1
  /\ UNCHANGED <<tableVars, expire_heap, permit, taskVars, cleanerVars>>

-----------------------------------------------------------------------------
(* The handlers. *)

\* The handler answers: its locals and its DashMap reference are gone.
Answer(k) ==
  /\ pc' = [pc EXCEPT ![k] = "idle"]
  /\ lease' = [lease EXCEPT ![k] = NoLease]
  /\ time' = [time EXCEPT ![k] = 0]
  /\ refs' = refs \ {k}

\* grant_lease: reject a ttl below the minimum, take the next id, insert the
\* lease.  The heap record follows in ReadExpiration and PushRecord.
GrantLease(k, t) ==
  /\ pc[k] = "idle"
  /\ t >= MinTTL
  /\ next_lease_id \in LeaseId
  /\ now + t <= MaxTime
  /\ next_lease_id' = next_lease_id + 1
  /\ leases' = leases \cup {next_lease_id}
  /\ ttl' = [ttl EXCEPT ![next_lease_id] = t]
  /\ expiration' = [expiration EXCEPT ![next_lease_id] = now + t]
  /\ pc' = [pc EXCEPT ![k] = "read"]
  /\ lease' = [lease EXCEPT ![k] = next_lease_id]
  /\ UNCHANGED <<now, expire_heap, permit, time, refs, cleanerVars>>

\* client_lease_keepalive up to the clock read in Lease::refresh; the handler
\* keeps the DashMap reference until it answers.
KeepaliveBegin(k, l, custom) ==
  /\ pc[k] = "idle"
  /\ l \in leases
  /\ LET t == IF custom > 0 THEN custom ELSE ttl[l]
     IN  /\ now + t <= MaxTime
         /\ time' = [time EXCEPT ![k] = now + t]
  /\ pc' = [pc EXCEPT ![k] = "store"]
  /\ lease' = [lease EXCEPT ![k] = l]
  /\ refs' = refs \cup {k}
  /\ UNCHANGED <<now, tableVars, expire_heap, permit, cleanerVars>>

\* Mutant of KeepaliveStore: the renewal leaves no record in the heap.
KeepaliveStoreOnly(k) ==
  /\ pc[k] = "store"
  /\ expiration' = [expiration EXCEPT ![lease[k]] = time[k]]
  /\ Answer(k)
  /\ UNCHANGED <<now, next_lease_id, leases, ttl, expire_heap, permit, cleanerVars>>

\* Lease::refresh stores the new expiration.
KeepaliveStore(k) ==
  /\ pc[k] = "store"
  /\ expiration' = [expiration EXCEPT ![lease[k]] = time[k]]
  /\ pc' = [pc EXCEPT ![k] = "read"]
  /\ time' = [time EXCEPT ![k] = 0]
  /\ UNCHANGED <<now, next_lease_id, leases, ttl, expire_heap, permit, lease, refs, cleanerVars>>

\* insert_lease_to_cleanup and update_lease_in_cleanup_heap read the
\* expiration anew, and return if the lease is gone.
ReadExpiration(k) ==
  /\ pc[k] = "read"
  /\ \/ /\ lease[k] \in leases
        /\ time' = [time EXCEPT ![k] = expiration[lease[k]]]
        /\ pc' = [pc EXCEPT ![k] = "push"]
        /\ UNCHANGED <<lease, refs>>
     \/ /\ lease[k] \notin leases
        /\ Answer(k)
  /\ UNCHANGED <<now, tableVars, expire_heap, permit, cleanerVars>>

\* Mutant of PushRecord: an earlier record does not wake the cleanup task.
PushRecordSilently(k) ==
  /\ pc[k] = "push"
  /\ expire_heap' = expire_heap \cup {<<time[k], lease[k]>>}
  /\ Answer(k)
  /\ UNCHANGED <<now, tableVars, permit, cleanerVars>>

\* The push under the heap lock, with the decision whether to notify: the heap
\* was empty, or its earliest record is later than the new one.
PushRecord(k) ==
  /\ pc[k] = "push"
  /\ expire_heap' = expire_heap \cup {<<time[k], lease[k]>>}
  /\ IF \A rec \in expire_heap : time[k] < rec[1]
     THEN /\ pc' = [pc EXCEPT ![k] = "notify"]
          /\ time' = [time EXCEPT ![k] = 0]
          /\ UNCHANGED <<lease, refs>>
     ELSE Answer(k)
  /\ UNCHANGED <<now, tableVars, permit, cleanerVars>>

\* Mutant of NotifyCleaner: every notification leaves a permit of its own.
NotifyCleanerCounting(k) ==
  /\ pc[k] = "notify"
  /\ permit' = permit + 1
  /\ Answer(k)
  /\ UNCHANGED <<now, tableVars, expire_heap, cleanerVars>>

\* Notify::notify_one, after the heap lock is released; the handler answers.
NotifyCleaner(k) ==
  /\ pc[k] = "notify"
  /\ permit' = 1
  /\ Answer(k)
  /\ UNCHANGED <<now, tableVars, expire_heap, cleanerVars>>

-----------------------------------------------------------------------------
(* The cleanup task. *)

\* Read the clock and pop every record that is due, in one hold of the lock.
CollectExpired ==
  /\ stage = "scan"
  /\ seen' = now
  /\ expired' = {rec \in expire_heap : rec[1] <= now}
  /\ expire_heap' = expire_heap \ expired'
  /\ stage' = "each"
  /\ UNCHANGED <<now, tableVars, permit, taskVars, victim, sleep_start, deadline>>

\* The order in which the heap yields its records.
Precedes(a, b) == a[1] < b[1] \/ (a[1] = b[1] /\ a[2] <= b[2])

\* Mutant of StillDue: a stale record counts too.
StillThere(rec) == rec[2] \in leases

\* Lazy deletion: the record counts only if the lease still expires then.
StillDue(rec) == rec[2] \in leases /\ expiration[rec[2]] = rec[1]

CheckRecord(rec) ==
  /\ stage = "each"
  /\ rec \in expired
  /\ \A other \in expired : Precedes(rec, other)
  /\ expired' = expired \ {rec}
  /\ IF StillDue(rec)
     THEN stage' = "remove" /\ victim' = rec[2]
     ELSE UNCHANGED <<stage, victim>>
  /\ UNCHANGED <<now, tableVars, expire_heap, permit, taskVars, seen, sleep_start, deadline>>

\* cleanup_single_lease_static takes the lease out of the table; the removal
\* waits for handlers that hold a reference to it.
RemoveLease ==
  /\ stage = "remove"
  /\ \A k \in refs : lease[k] # victim
  /\ leases' = leases \ {victim}
  /\ stage' = "each"
  /\ victim' = NoLease
  /\ UNCHANGED <<now, next_lease_id, ttl, expiration, expire_heap, permit, taskVars,
                 seen, expired, sleep_start, deadline>>

\* A sleep that would outlast the modelled horizon ends at the horizon.
SleepFor(duration) ==
  /\ stage' = "sleep"
  /\ sleep_start' = now
  /\ deadline' = IF now + duration > MaxTime THEN MaxTime ELSE now + duration

\* The next sleep ends at the earliest record.  Its length is computed from the
\* clock of the scan, which may be long past when leases were cleaned up since.
PlanSleep ==
  /\ stage = "each"
  /\ expired = {}
  /\ \/ expire_heap = {} /\ SleepFor(DefaultSleep)
     \/ \E rec \in expire_heap :
          /\ \A other \in expire_heap : rec[1] <= other[1]
          /\ SleepFor(IF rec[1] > seen THEN rec[1] - seen ELSE MinSleep)
  /\ UNCHANGED <<now, tableVars, expire_heap, permit, taskVars, seen, expired, victim>>

\* Back to the top of the loop, where none of its locals is live.
Rescan ==
  /\ stage' = "scan"
  /\ seen' = 0
  /\ sleep_start' = 0
  /\ deadline' = 0
  /\ UNCHANGED <<now, tableVars, expire_heap, taskVars, expired, victim>>

WakeOnTimer ==
  /\ stage = "sleep"
  /\ now >= deadline
  /\ permit' = permit
  /\ Rescan

WakeOnNotify ==
  /\ stage = "sleep"
  /\ permit = 1
  /\ permit' = 0
  /\ Rescan

-----------------------------------------------------------------------------
TaskStep(k) ==
  KeepaliveStore(k) \/ ReadExpiration(k) \/ PushRecord(k) \/ NotifyCleaner(k)

CleanerStep ==
  \/ CollectExpired
  \/ \E rec \in expired : CheckRecord(rec)
  \/ RemoveLease
  \/ PlanSleep
  \/ WakeOnTimer
  \/ WakeOnNotify

Next ==
  \/ Tick
  \/ \E k \in Task, t \in TTL : GrantLease(k, t)
  \/ \E k \in Task, l \in LeaseId, custom \in CustomTTL : KeepaliveBegin(k, l, custom)
  \/ \E k \in Task : TaskStep(k)
  \/ CleanerStep

Spec == Init /\ [][Next]_vars

\* Time passes, started handlers run on, and the cleanup task is scheduled.
FairSpec == Spec /\ WF_vars(Tick) /\ WF_vars(CleanerStep) /\ \A k \in Task : WF_vars(TaskStep(k))

-----------------------------------------------------------------------------
(* Properties. *)

TableType ==
  /\ now \in Time
  /\ next_lease_id \in 1..(MaxLeases + 1)
  /\ leases \subseteq 1..(next_lease_id - 1)
  /\ ttl \in [LeaseId -> Nat]
  /\ expiration \in [LeaseId -> Time]
  /\ expire_heap \subseteq Record
  /\ permit \in 0..1

TaskType ==
  /\ pc \in [Task -> {"idle", "store", "read", "push", "notify"}]
  /\ lease \in [Task -> LeaseId \cup {NoLease}]
  /\ \A k \in Task : pc[k] # "idle" => lease[k] \in LeaseId
  /\ time \in [Task -> Time]
  /\ refs \subseteq Task

CleanerType ==
  /\ stage \in {"scan", "each", "remove", "sleep"}
  /\ seen \in Time
  /\ expired \subseteq Record
  /\ victim \in LeaseId \cup {NoLease}
  /\ stage = "remove" => victim \in LeaseId
  /\ stage \in {"scan", "sleep"} => expired = {}
  /\ sleep_start \in Time
  /\ deadline \in Time

\* Every variable keeps its type: in particular no record, sleep or handler
\* refers to an id that was never issued or to a time beyond the horizon.
TypeOK == TableType /\ TaskType /\ CleanerType

\* Task k has yet to push the record of lease l's current expiration.
WillPush(k, l) ==
  /\ lease[k] = l
  /\ pc[k] = "read" \/ (pc[k] = "push" /\ time[k] = expiration[l])

\* No lease is immortal: whatever keepalives overtake each other, the current
\* expiration of every lease in the table has a heap record, or the cleanup
\* task has just popped it, or a handler is about to push it (the pushes at
\* grant_lease_unchecked and client_lease_keepalive come after the store).
NoOrphanLease ==
  \A l \in leases :
    \/ <<expiration[l], l>> \in expire_heap \cup expired
    \/ stage = "remove" /\ victim = l
    \/ \E k \in Task : WillPush(k, l)

\* No lost wakeup: while the cleanup task sleeps and nobody is about to wake
\* it, it wakes no later than any record plus the delay between the clock read
\* of its scan and its sleep (the stale `now` in the sleep computation), or
\* after the minimum interval.
SleepCoversHeap ==
  stage = "sleep" =>
    \/ permit = 1
    \/ \E k \in Task : pc[k] = "notify"
    \/ deadline <= sleep_start + MinSleep
    \/ \A rec \in expire_heap : deadline <= rec[1] + (sleep_start - seen)

\* What the refinement rests on.  A keepalive works on a lease that is in the
\* table, because the removal waits for its reference; and the records the
\* cleanup task works through were due when it popped them.
RefsPinLeases ==
  /\ \A k \in Task : pc[k] = "store" => k \in refs
  /\ \A k \in refs : lease[k] \in leases
  /\ \A rec \in expired : rec[1] <= now

\* The lease manager implements LeaseTable: a lease leaves the table only after
\* a moment at which it had lapsed, whatever keepalives race the cleanup task.
Table == INSTANCE LeaseTable WITH
           issued <- 1..(next_lease_id - 1),
           condemned <- IF stage = "remove" THEN {victim} ELSE {}
ImplementsLeaseTable == Table!Spec

\* A lease that has lapsed and is not renewed is withdrawn: the heap, the
\* notifications and the sleep of the cleanup task together never forget it.
LapsedLeaseLeaves ==
  \A l \in LeaseId :
    (l \in leases /\ expiration[l] <= now) ~> (l \notin leases \/ expiration[l] > now)

\* What the comment at the end of the cleanup loop says ("If times don't match,
\* lease was renewed, discard this heap record"): a renewed lease is not
\* removed, that is, a lease is removed only when its expiration has passed.
RenewalHonoured ==
  [][\A l \in LeaseId : l \in leases /\ l \notin leases' => expiration[l] <= now]_vars
=============================================================================
