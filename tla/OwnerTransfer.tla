---------------------------- MODULE OwnerTransfer ----------------------------
(***************************************************************************)
(* The owner-to-owner transfer protocol: fluxon_kv/src/owner_segment.rs    *)
(* (sequences, acknowledgements, replay), client_kv_api/mod.rs (the peer   *)
(* that serves a transfer), client_kv_api/get.rs and put.rs (the           *)
(* coordinator that asks for it), and the master's end of an append.       *)
(*                                                                         *)
(* The coordinator lends a slot of its own to a peer.  For a get the peer  *)
(* writes the value into it (GetToTarget); for a replica the peer reads    *)
(* the value from it (PutFromSource) and publishes its copy through the    *)
(* master.  A request that gets no answer is sent again, so a peer may     *)
(* meet it several times and late.  It executes an operation once, in a    *)
(* detached task, and keeps the terminal for the replays until the         *)
(* coordinator acknowledges it.  Acknowledgements are cumulative and ride  *)
(* on later requests.                                                      *)
(*                                                                         *)
(* A leg is one request of an operation to one peer: a get has one, a      *)
(* replica one for every candidate target that it may have to try.         *)
(***************************************************************************)
EXTENDS Naturals, Sequences, FiniteSets

CONSTANTS
    Ops,       \* operations of the coordinator
    Legs,      \* their legs
    Peers,     \* the owners they address
    OpOf,      \* leg -> operation
    PeerOf,    \* leg -> peer
    Kind,      \* operation -> "memory" or "ssd" (a get, by its source) or "put"
    MaxSend,   \* bound: sends of one request
    MaxExec    \* bound: executions of one leg

Gets == {o \in Ops : Kind[o] # "put"}
Puts == {o \in Ops : Kind[o] = "put"}

\* A get has a single leg (the source the master planned).
ASSUME LegAssumption ==
    /\ OpOf \in [Legs -> Ops]
    /\ PeerOf \in [Legs -> Peers]
    /\ Kind \in [Ops -> {"memory", "ssd", "put"}]
    /\ \A l, m \in Legs : OpOf[l] = OpOf[m] /\ OpOf[l] \in Gets => l = m

ASSUME SendAssumption == MaxSend \in Nat \ {0} /\ MaxExec \in Nat \ {0}

VARIABLES
    \* the coordinator
    opc,    \* operation: "idle", "trying" (next candidate), "sent", "ready"
            \*   (get: payload received), "ending", "revoke" (put: failed), "over"
    hold,   \* the slot lent: "none", "lent", "kept" (get: holds the value), "freed"
    lpc,    \* leg: "idle", "waiting", "ready", "settled" (terminal recorded),
            \*   "open" (finished with no terminal recorded)
    seq,    \* leg -> its terminal_sequence at the peer (0: none yet)
    emb,    \* leg -> the terminal_ack_watermark its request carries
    sent,   \* leg -> number of sends
    next,   \* peer -> next_terminal_sequence (the last one given out)
    wm,     \* peer -> OwnerTransferAckWindow.watermark
    gap,    \* peer -> OwnerTransferAckWindow.completed_after_gap
    \* the network and the peers
    net,    \* copies of requests on their way
    hand,   \* copies whose acknowledgement was applied, with the watermark found
    wait,   \* copies waiting for the terminal of an execution
    exec,   \* leg -> its executions, in order
    map,    \* leg -> the execution its flight entry names (0: no entry)
    lease,  \* leg -> the peer's lease record: source lease of a memory get,
            \*   target lease of a put
    inb,    \* peer -> owner_transfer_inbound_ack_watermarks
    \* the master
    mop,    \* put -> its append: "none", "inflight", "gone" (revoked or expired),
            \*   "appended", "obsolete" (the last two: completed_replica_tasks)
    routed, \* the legs whose target the master added to the route
    \* history
    suspect \* legs answered StaleGeneration or, for a put, given up without an
            \*   answer: a membership view lacked a live owner for a moment

coordVars  == <<opc, hold, lpc, seq, emb, sent, next, wm, gap>>
peerVars   == <<exec, map, lease, inb>>
masterVars == <<mop, routed>>
vars == <<opc, hold, lpc, seq, emb, sent, next, wm, gap, net, hand, wait,
          exec, map, lease, inb, mop, routed, suspect>>

-----------------------------------------------------------------------------
Copy   == [leg : Legs, k : 1..MaxSend]
Handed == [leg : Legs, k : 1..MaxSend, wm : Nat]
Waiter == [leg : Legs, k : 1..MaxSend, n : 1..MaxExec]

\* What a peer answers: "error" ends an operation, the other refusals of a put
\* make the coordinator try the next candidate.
Refusals == {"aborted", "nospace", "stale"}
Outcomes == {"none", "ok", "error"} \cup Refusals
Exec     == [pc : {"start", "access", "done"}, out : Outcomes]

Started    == [pc |-> "start", out |-> "none"]
Accessing  == [pc |-> "access", out |-> "none"]
Done(out)  == [pc |-> "done", out |-> out]

LegsOf(o) == {l \in Legs : OpOf[l] = o}

Init ==
    /\ opc = [o \in Ops |-> "idle"]
    /\ hold = [o \in Ops |-> "none"]
    /\ lpc = [l \in Legs |-> "idle"]
    /\ seq = [l \in Legs |-> 0]
    /\ emb = [l \in Legs |-> 0]
    /\ sent = [l \in Legs |-> 0]
    /\ next = [p \in Peers |-> 0]
    /\ wm = [p \in Peers |-> 0]
    /\ gap = [p \in Peers |-> {}]
    /\ net = {}
    /\ hand = {}
    /\ wait = {}
    /\ exec = [l \in Legs |-> << >>]
    /\ map = [l \in Legs |-> 0]
    /\ lease = [l \in Legs |-> "none"]
    /\ inb = [p \in Peers |-> 0]
    /\ mop = [o \in Ops |-> "none"]
    /\ routed = {}
    /\ suspect = {}

-----------------------------------------------------------------------------
\* The coordinator's stream to a peer (OwnerTransferPeerTracker).

\* Mutant of Watermark: the watermark follows the largest terminal recorded.
HighestRecorded(w, G) == IF G = {} THEN w ELSE CHOOSE s \in G : \A t \in G : t <= s

\* The loop of record_terminal: the watermark moves over the recorded prefix.
Watermark(w, G) ==
    CHOOSE v \in w .. (w + Cardinality(G)) :
        /\ \A s \in (w + 1) .. v : s \in G
        /\ v + 1 \notin G

RecordTerminal(l) ==
    LET p == PeerOf[l]
        G == gap[p] \cup {seq[l]}
        v == Watermark(wm[p], G)
    IN  /\ wm' = [wm EXCEPT ![p] = v]
        /\ gap' = [gap EXCEPT ![p] = {s \in G : s > v}]

\* prepare_claimed_get_target or put_append_start, then prepare_request: the
\* request keeps its sequence and its watermark through every replay.
Send(l) ==
    LET o == OpOf[l]  p == PeerOf[l]
    IN  /\ lpc[l] = "idle" /\ opc[o] \in {"idle", "trying"}
        /\ opc' = [opc EXCEPT ![o] = "sent"]
        /\ hold' = [hold EXCEPT ![o] = "lent"]
        /\ mop' = IF opc[o] = "idle" /\ o \in Puts THEN [mop EXCEPT ![o] = "inflight"] ELSE mop
        /\ lpc' = [lpc EXCEPT ![l] = "waiting"]
        /\ next' = [next EXCEPT ![p] = @ + 1]
        /\ seq' = [seq EXCEPT ![l] = next[p] + 1]
        /\ emb' = [emb EXCEPT ![l] = wm[p]]
        /\ sent' = [sent EXCEPT ![l] = 1]
        /\ net' = net \cup {[leg |-> l, k |-> 1]}
        /\ UNCHANGED <<wm, gap, hand, wait, routed, suspect>>
        /\ UNCHANGED peerVars

\* replay_owner_segment_batch_until_definitive after a transport error.
Resend(l) ==
    /\ lpc[l] = "waiting" /\ sent[l] < MaxSend
    /\ sent' = [sent EXCEPT ![l] = @ + 1]
    /\ net' = net \cup {[leg |-> l, k |-> sent[l] + 1]}
    /\ UNCHANGED <<opc, hold, lpc, seq, emb, next, wm, gap, hand, wait, suspect>>
    /\ UNCHANGED peerVars /\ UNCHANGED masterVars

\* Mutant of GiveUp: a get also goes on to another source.
GiveUpRetries(l) ==
    LET o == OpOf[l]
    IN  /\ lpc[l] = "waiting"
        /\ lpc' = [lpc EXCEPT ![l] = "open"]
        /\ opc' = [opc EXCEPT ![o] = "trying"]
        /\ suspect' = suspect \cup {l}
        /\ UNCHANGED <<hold, seq, emb, sent, next, wm, gap, net, hand, wait>>
        /\ UNCHANGED peerVars /\ UNCHANGED masterVars

\* Mutant of GiveUp: the slot is freed though the outcome is not known.
GiveUpFrees(l) ==
    LET o == OpOf[l]
    IN  /\ lpc[l] = "waiting"
        /\ lpc' = [lpc EXCEPT ![l] = "open"]
        /\ hold' = IF o \in Gets THEN [hold EXCEPT ![o] = "freed"] ELSE hold
        /\ \/ opc' = [opc EXCEPT ![o] = IF o \in Gets THEN "over" ELSE "ending"]
           \/ o \in Puts /\ opc' = [opc EXCEPT ![o] = "trying"]
        /\ suspect' = IF o \in Puts THEN suspect \cup {l} ELSE suspect
        /\ UNCHANGED <<seq, emb, sent, next, wm, gap, net, hand, wait>>
        /\ UNCHANGED peerVars /\ UNCHANGED masterVars

\* A transport error while the peer is missing from the membership view (or
\* the coordinator shuts down).  A get keeps its target; a put tries the next
\* candidate, or ends if the peer is back when it looks again.
GiveUp(l) ==
    LET o == OpOf[l]
    IN  /\ lpc[l] = "waiting"
        /\ lpc' = [lpc EXCEPT ![l] = "open"]
        /\ \/ opc' = [opc EXCEPT ![o] = IF o \in Gets THEN "over" ELSE "ending"]
           \/ o \in Puts /\ opc' = [opc EXCEPT ![o] = "trying"]
        /\ suspect' = IF o \in Puts THEN suspect \cup {l} ELSE suspect
        /\ UNCHANGED <<hold, seq, emb, sent, next, wm, gap, net, hand, wait>>
        /\ UNCHANGED peerVars /\ UNCHANGED masterVars

\* A definitive terminal of a get: the receipt makes the target DataReady, an
\* error aborts it and lets the terminal be acknowledged.
ReceiveGet(l, r) ==
    LET o == OpOf[l]
    IN  \/ /\ r = "ok"
           /\ lpc' = [lpc EXCEPT ![l] = "ready"]
           /\ opc' = [opc EXCEPT ![o] = "ready"]
           /\ hold' = [hold EXCEPT ![o] = "kept"]
           /\ UNCHANGED <<wm, gap>>
        \/ /\ r # "ok"
           /\ lpc' = [lpc EXCEPT ![l] = "settled"]
           /\ opc' = [opc EXCEPT ![o] = "over"]
           /\ hold' = [hold EXCEPT ![o] = "freed"]
           /\ RecordTerminal(l)

\* A definitive terminal of a put: recorded at once.  On success the holder
\* of the source is dropped; some refusals lead to the next candidate.
ReceivePut(l, r) ==
    LET o == OpOf[l]
    IN  /\ lpc' = [lpc EXCEPT ![l] = "settled"]
        /\ RecordTerminal(l)
        /\ \/ /\ r = "ok"
              /\ opc' = [opc EXCEPT ![o] = "over"]
              /\ hold' = [hold EXCEPT ![o] = "freed"]
           \/ /\ r # "ok"
              /\ opc' = [opc EXCEPT ![o] = IF r \in Refusals THEN "trying" ELSE "ending"]
              /\ UNCHANGED hold

\* An answer to a send other than the last finds nobody waiting for it.
Answer(l, k, r) ==
    \/ /\ lpc[l] = "waiting" /\ sent[l] = k
       /\ IF OpOf[l] \in Gets THEN ReceiveGet(l, r) ELSE ReceivePut(l, r)
       /\ suspect' = IF r = "stale" THEN suspect \cup {l} ELSE suspect
       /\ UNCHANGED <<seq, emb, sent, next>>
    \/ /\ ~ (lpc[l] = "waiting" /\ sent[l] = k)
       /\ UNCHANGED coordVars /\ UNCHANGED suspect

\* After DataReady: the route is committed, or the hidden target is aborted,
\* and the terminal is recorded; or the target is left in a state that some
\* error path does not record.
GetFinish(l) ==
    LET o == OpOf[l]
    IN  /\ lpc[l] = "ready"
        /\ opc' = [opc EXCEPT ![o] = "over"]
        /\ \/ /\ lpc' = [lpc EXCEPT ![l] = "settled"]
              /\ RecordTerminal(l)
              /\ hold' \in {hold, [hold EXCEPT ![o] = "freed"]}
           \/ /\ lpc' = [lpc EXCEPT ![l] = "open"]
              /\ UNCHANGED <<wm, gap, hold>>
        /\ UNCHANGED <<seq, emb, sent, next, net, hand, wait, suspect>>
        /\ UNCHANGED peerVars /\ UNCHANGED masterVars

\* No candidate took the replica: the holder goes, then the append is revoked
\* (the revoke itself may be lost).
PutEnd(o) ==
    /\ o \in Puts
    /\ \/ opc[o] = "ending"
       \/ opc[o] = "trying" /\ \A l \in LegsOf(o) : lpc[l] # "idle"
    /\ opc' = [opc EXCEPT ![o] = "revoke"]
    /\ hold' = [hold EXCEPT ![o] = "freed"]
    /\ UNCHANGED <<lpc, seq, emb, sent, next, wm, gap, net, hand, wait, suspect>>
    /\ UNCHANGED peerVars /\ UNCHANGED masterVars

PutRevoke(o) ==
    /\ opc[o] = "revoke"
    /\ opc' = [opc EXCEPT ![o] = "over"]
    /\ mop' \in {mop, [mop EXCEPT ![o] = IF @ = "inflight" THEN "gone" ELSE @]}
    /\ UNCHANGED <<hold, lpc, seq, emb, sent, next, wm, gap, net, hand, wait, routed, suspect>>
    /\ UNCHANGED peerVars

-----------------------------------------------------------------------------
\* The peer.  The membership view that decides whether the caller is current is
\* read twice, for the acknowledgement and for the item.

\* Mutant of Collected: one terminal too many is dropped.
CollectedNext(m, p, w) ==
    PeerOf[m] = p /\ map[m] # 0 /\ seq[m] <= w + 1 /\ exec[m][map[m]].pc = "done"

\* Mutant of Collected: an execution that still runs loses its entry.
CollectedRunning(m, p, w) == PeerOf[m] = p /\ map[m] # 0 /\ seq[m] <= w

\* The flights that apply_owner_transfer_terminal_ack does not retain.
Collected(m, p, w) ==
    PeerOf[m] = p /\ map[m] # 0 /\ seq[m] <= w /\ exec[m][map[m]].pc = "done"

HandleAck(c) ==
    LET l == c.leg
        p == PeerOf[l]
        w == IF emb[l] > inb[p] THEN emb[l] ELSE inb[p]
    IN  /\ c \in net
        /\ net' = net \ {c}
        /\ \/ /\ emb[l] # 0
              /\ inb' = [inb EXCEPT ![p] = w]
              /\ map' = [m \in Legs |-> IF Collected(m, p, w) THEN 0 ELSE map[m]]
              /\ hand' = hand \cup {[leg |-> l, k |-> c.k, wm |-> w]}
           \/ /\ hand' = hand \cup {[leg |-> l, k |-> c.k, wm |-> 0]}
              /\ UNCHANGED <<inb, map>>
        /\ UNCHANGED <<wait, exec, lease, suspect>>
        /\ UNCHANGED coordVars /\ UNCHANGED masterVars

\* The caller is not in the membership view: a StaleGeneration error.
HandleStale(h) ==
    /\ h \in hand
    /\ hand' = hand \ {h}
    /\ Answer(h.leg, h.k, "stale")
    /\ UNCHANGED <<net, wait>>
    /\ UNCHANGED peerVars /\ UNCHANGED masterVars

\* The terminal was already acknowledged, as far as this copy could see.
HandleAcked(h) ==
    /\ h \in hand
    /\ seq[h.leg] <= h.wm
    /\ hand' = hand \ {h}
    /\ Answer(h.leg, h.k, "error")
    /\ UNCHANGED <<net, wait>>
    /\ UNCHANGED peerVars /\ UNCHANGED masterVars

\* The copy joins the flight of its leg, or leads a new one.
HandleItem(h) ==
    LET l == h.leg
        n == IF map[l] = 0 THEN Len(exec[l]) + 1 ELSE map[l]
    IN  /\ h \in hand
        /\ seq[l] > h.wm
        /\ n <= MaxExec
        /\ hand' = hand \ {h}
        /\ wait' = wait \cup {[leg |-> l, k |-> h.k, n |-> n]}
        /\ map' = [map EXCEPT ![l] = n]
        /\ exec' = IF map[l] = 0 THEN [exec EXCEPT ![l] = Append(@, Started)] ELSE exec
        /\ UNCHANGED <<net, lease, inb, suspect>>
        /\ UNCHANGED coordVars /\ UNCHANGED masterVars

\* Mutant of Respond: the receipt goes out when the transfer is posted.
RespondPosted(w) ==
    LET x == exec[w.leg][w.n]
    IN  /\ w \in wait
        /\ x.pc # "start"
        /\ wait' = wait \ {w}
        /\ Answer(w.leg, w.k, IF x.pc = "done" THEN x.out ELSE "ok")
        /\ UNCHANGED <<net, hand>>
        /\ UNCHANGED peerVars /\ UNCHANGED masterVars

\* The terminal of the execution goes to a copy that waits for it.
Respond(w) ==
    LET x == exec[w.leg][w.n]
    IN  /\ w \in wait
        /\ x.pc = "done"
        /\ wait' = wait \ {w}
        /\ Answer(w.leg, w.k, x.out)
        /\ UNCHANGED <<net, hand>>
        /\ UNCHANGED peerVars /\ UNCHANGED masterVars

Runs(l, n, pc) == n \in DOMAIN exec[l] /\ exec[l][n].pc = pc

ByPeer ==
    /\ UNCHANGED <<net, hand, wait, map, inb, suspect>>
    /\ UNCHANGED coordVars

\* execute_owner_get_to_target on a memory source: the lease is taken on the
\* exact committed slot (which may be refused); the record of an earlier
\* execution answers a second one.
MemoryAcquire(l, n) ==
    /\ Kind[OpOf[l]] = "memory" /\ Runs(l, n, "start")
    /\ \/ /\ lease[l] \in {"none", "active"}
          /\ lease' = [lease EXCEPT ![l] = "active"]
          /\ exec' = [exec EXCEPT ![l][n] = Accessing]
       \/ /\ lease[l] \in {"none", "released"}
          /\ exec' = [exec EXCEPT ![l][n] = Done("error")]
          /\ UNCHANGED lease
    /\ ByPeer /\ UNCHANGED masterVars

\* Mutant of MemoryWrite: a failed WRITE returns before the lease is released.
MemoryWriteKeepsLease(l, n) ==
    /\ Kind[OpOf[l]] = "memory" /\ Runs(l, n, "access")
    /\ \/ /\ exec' = [exec EXCEPT ![l][n] = Done("ok")]
          /\ lease' = [lease EXCEPT ![l] = "released"]
       \/ /\ exec' = [exec EXCEPT ![l][n] = Done("error")]
          /\ UNCHANGED lease
    /\ ByPeer /\ UNCHANGED masterVars

\* The WRITE ends, the source lease is released, the terminal is published.
MemoryWrite(l, n) ==
    /\ Kind[OpOf[l]] = "memory" /\ Runs(l, n, "access")
    /\ \E out \in {"ok", "error"} : exec' = [exec EXCEPT ![l][n] = Done(out)]
    /\ lease' = [lease EXCEPT ![l] = "released"]
    /\ ByPeer /\ UNCHANGED masterVars

\* An SSD source: a transient slot is claimed and the value read into it.  No
\* record of the operation stays behind.
SsdStage(l, n) ==
    /\ Kind[OpOf[l]] = "ssd" /\ Runs(l, n, "start")
    /\ \E x \in {Accessing, Done("error")} : exec' = [exec EXCEPT ![l][n] = x]
    /\ UNCHANGED lease
    /\ ByPeer /\ UNCHANGED masterVars

SsdWrite(l, n) ==
    /\ Kind[OpOf[l]] = "ssd" /\ Runs(l, n, "access")
    /\ \E out \in {"ok", "error"} : exec' = [exec EXCEPT ![l][n] = Done(out)]
    /\ UNCHANGED lease
    /\ ByPeer /\ UNCHANGED masterVars

-----------------------------------------------------------------------------
\* The replica at a target and its publication.

\* handle_put_append_done_inner: the answer of a completed operation is
\* replayed to whoever asks; an absent reservation makes it obsolete; a
\* reservation ends appended, or obsolete if the generation was superseded.
AppendDone(l, appended) ==
    LET o == OpOf[l]
    IN  \/ /\ mop[o] \in {"appended", "obsolete"}
           /\ appended = (mop[o] = "appended")
           /\ UNCHANGED masterVars
        \/ /\ mop[o] \in {"inflight", "gone"}
           /\ ~appended
           /\ mop' = [mop EXCEPT ![o] = "obsolete"]
           /\ UNCHANGED routed
        \/ /\ mop[o] = "inflight"
           /\ appended
           /\ mop' = [mop EXCEPT ![o] = "appended"]
           /\ routed' = routed \cup {l}

\* inflight_replica_tasks is a cache with a time to live.
AppendExpire(o) ==
    /\ mop[o] = "inflight"
    /\ mop' = [mop EXCEPT ![o] = "gone"]
    /\ UNCHANGED <<net, hand, wait, routed, suspect>>
    /\ UNCHANGED coordVars /\ UNCHANGED peerVars

\* The materialization fence of the key is free: no execution is past its
\* start, and no route commit is pending.
FenceFree(l) ==
    /\ lease[l] # "pending"
    /\ \A n \in DOMAIN exec[l] : exec[l][n].pc # "access"

\* execute_owner_put_from_source, up to the claim of the target.
PutPrepare(l, n) ==
    /\ OpOf[l] \in Puts /\ Runs(l, n, "start") /\ FenceFree(l)
    /\ \/ /\ lease[l] = "none"
          /\ lease' = [lease EXCEPT ![l] = "prepared"]
          /\ exec' = [exec EXCEPT ![l][n] = Accessing]
          /\ UNCHANGED masterVars
       \/ /\ lease[l] = "none"
          /\ exec' = [exec EXCEPT ![l][n] = Done("nospace")]
          /\ UNCHANGED lease /\ UNCHANGED masterVars
       \/ /\ lease[l] = "aborted"
          /\ exec' = [exec EXCEPT ![l][n] = Done("aborted")]
          /\ UNCHANGED lease /\ UNCHANGED masterVars
    /\ ByPeer

\* The target already has the generation committed (by a get of its own or by
\* an earlier execution): it offers that copy to the master, once; the answer
\* may be lost.
PutAdopt(l, n) ==
    /\ OpOf[l] \in Puts /\ Runs(l, n, "start") /\ FenceFree(l)
    /\ lease[l] \in {"none", "committed", "aborted"}
    /\ \E appended \in BOOLEAN, out \in {"ok", "error"} :
          /\ AppendDone(l, appended)
          /\ out = "ok" => appended
          /\ exec' = [exec EXCEPT ![l][n] = Done(out)]
    /\ UNCHANGED lease
    /\ ByPeer

\* Committed by an earlier execution and reclaimed since: the lease record
\* answers.
PutReplayed(l, n) ==
    /\ OpOf[l] \in Puts /\ Runs(l, n, "start") /\ FenceFree(l)
    /\ lease[l] = "committed"
    /\ exec' = [exec EXCEPT ![l][n] = Done("ok")]
    /\ UNCHANGED lease
    /\ ByPeer /\ UNCHANGED masterVars

\* The READ ends.  The coordinator's mode is Async: the answer does not wait
\* for the route.
PutRead(l, n) ==
    /\ OpOf[l] \in Puts /\ Runs(l, n, "access")
    /\ \/ /\ lease' = [lease EXCEPT ![l] = "pending"]
          /\ exec' = [exec EXCEPT ![l][n] = Done("ok")]
       \/ /\ lease' = [lease EXCEPT ![l] = "aborted"]
          /\ exec' = [exec EXCEPT ![l][n] = Done("aborted")]
    /\ ByPeer /\ UNCHANGED masterVars

\* Mutant of RouteCommit: an obsolete append counts as committed.
RouteCommitAlways(l) ==
    /\ lease[l] = "pending"
    /\ \E appended \in BOOLEAN :
          /\ AppendDone(l, appended)
          /\ lease' = [lease EXCEPT ![l] = "committed"]
    /\ UNCHANGED exec
    /\ ByPeer

\* run_owner_target_route_commit: the detached task tells the master.
RouteCommit(l) ==
    /\ lease[l] = "pending"
    /\ \E appended \in BOOLEAN :
          /\ AppendDone(l, appended)
          /\ lease' = [lease EXCEPT ![l] = IF appended THEN "committed" ELSE "aborted"]
    /\ UNCHANGED exec
    /\ ByPeer

\* The master acted but its answer is lost; the task will ask again.
RouteCommitLost(l) ==
    /\ lease[l] = "pending"
    /\ \E appended \in BOOLEAN : AppendDone(l, appended)
    /\ UNCHANGED <<exec, lease>>
    /\ ByPeer

-----------------------------------------------------------------------------
LegStep(l) ==
    \/ Send(l) \/ Resend(l) \/ GiveUp(l) \/ GetFinish(l)
    \/ RouteCommit(l) \/ RouteCommitLost(l)

ExecStep(l, n) ==
    \/ MemoryAcquire(l, n) \/ MemoryWrite(l, n) \/ SsdStage(l, n) \/ SsdWrite(l, n)
    \/ PutPrepare(l, n) \/ PutAdopt(l, n) \/ PutReplayed(l, n) \/ PutRead(l, n)

OpStep(o) == PutEnd(o) \/ PutRevoke(o) \/ AppendExpire(o)

Next ==
    \/ \E l \in Legs : LegStep(l)
    \/ \E l \in Legs, n \in 1..MaxExec : ExecStep(l, n)
    \/ \E o \in Ops : OpStep(o)
    \/ \E c \in net : HandleAck(c)
    \/ \E h \in hand : HandleStale(h) \/ HandleAcked(h) \/ HandleItem(h)
    \/ \E w \in wait : Respond(w)

Spec == Init /\ [][Next]_vars

-----------------------------------------------------------------------------
OpStates(o) == {"idle", "sent", "over"} \cup
    IF o \in Gets THEN {"ready"} ELSE {"trying", "ending", "revoke"}

LeaseStates(l) == {"none"} \cup
    CASE Kind[OpOf[l]] = "memory" -> {"active", "released"}
      [] Kind[OpOf[l]] = "ssd"    -> {}
      [] Kind[OpOf[l]] = "put"    -> {"prepared", "pending", "committed", "aborted"}

\* Type correctness; a get and a replica each keep to their own states
\* (OwnerSourceLeaseState, OwnerTargetLeaseState, the loop over candidates).
TypeOK ==
    /\ DOMAIN opc = Ops /\ \A o \in Ops : opc[o] \in OpStates(o)
    /\ hold \in [Ops -> {"none", "lent", "kept", "freed"}]
    /\ lpc \in [Legs -> {"idle", "waiting", "ready", "settled", "open"}]
    /\ seq \in [Legs -> Nat] /\ emb \in [Legs -> Nat] /\ sent \in [Legs -> 0..MaxSend]
    /\ next \in [Peers -> Nat] /\ wm \in [Peers -> Nat] /\ gap \in [Peers -> SUBSET Nat]
    /\ net \subseteq Copy /\ hand \subseteq Handed /\ wait \subseteq Waiter
    /\ exec \in [Legs -> Seq(Exec)] /\ map \in [Legs -> Nat]
    /\ DOMAIN lease = Legs /\ \A l \in Legs : lease[l] \in LeaseStates(l)
    /\ inb \in [Peers -> Nat]
    /\ mop \in [Ops -> {"none", "inflight", "gone", "appended", "obsolete"}]
    /\ routed \subseteq Legs /\ suspect \subseteq Legs

\* The watermark a coordinator sends is exactly the length of the settled
\* prefix of its stream: nothing it still waits for is acknowledged
\* (record_terminal never skips a gap), and nothing recorded is held back
\* behind the watermark (its loop never stops short).
AckIsSettledPrefix ==
    \A p \in Peers :
        LET Settled(s) == \E l \in Legs : PeerOf[l] = p /\ seq[l] = s /\ lpc[l] = "settled"
        IN  /\ \A s \in 1 .. wm[p] : Settled(s)
            /\ ~Settled(wm[p] + 1)

\* While the coordinator waits for an answer, the peer executes the operation
\* at most once, however often the request arrives: the flight that holds the
\* terminal outlives every replay (apply_owner_transfer_terminal_ack drops
\* only what was acknowledged).
ExecutedOnceWhileWaiting ==
    \A l \in Legs : lpc[l] = "waiting" =>
        /\ Len(exec[l]) <= 1
        /\ map[l] = Len(exec[l])

\* Two executions of a leg never run at the same time: they would share one
\* source lease, and the first to finish would release it under the other.
OneExecutionAtATime ==
    \A l \in Legs : \A n \in DOMAIN exec[l] : exec[l][n].pc # "done" => map[l] = n

\* The doubts under which the coordinator may let go of a slot too early: a
\* membership view that lacked a live owner, or a copy that came so late that
\* the peer no longer remembered the operation.
Doubtful(o) == \E l \in LegsOf(o) : l \in suspect \/ Len(exec[l]) > 1

\* A peer reads or writes the coordinator's slot only while it is lent to that
\* operation (terminal_definitive in get.rs; the holder in run_owner_remote_put),
\* except under the doubts above.
AccessOnlyWhileLent ==
    \A l \in Legs : \A n \in DOMAIN exec[l] :
        exec[l][n].pc = "access" => hold[OpOf[l]] = "lent" \/ Doubtful(OpOf[l])

\* The coordinator keeps a get's slot as the value only if the WRITE into it
\* really completed: no refusal, error or late answer of another send is taken
\* for the receipt (the DataReady state of a claimed target in get.rs).
KeptIsWritten ==
    \A l \in Legs : OpOf[l] \in Gets /\ hold[OpOf[l]] = "kept" =>
        exec[l] # << >> /\ exec[l][1] = Done("ok")

\* A source lease is held only by an execution that is using it: every way out
\* of execute_owner_get_to_target releases it, so the slot can be reclaimed.
LeaseHasExecution ==
    \A l \in Legs : lease[l] = "active" => \E n \in DOMAIN exec[l] : exec[l][n].pc = "access"

\* A target that believes its replica is published is in the master's route
\* (run_owner_target_route_commit, handle_put_append_done_inner), except under
\* the doubts above: then another candidate may have been published with the
\* same operation id, and its answer is replayed to this one.
CommittedIsRouted ==
    \A l \in Legs : lease[l] = "committed" => l \in routed \/ Doubtful(OpOf[l])
=============================================================================
