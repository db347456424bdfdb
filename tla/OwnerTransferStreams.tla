------------------------- MODULE OwnerTransferStreams -------------------------
(***************************************************************************)
(* The types of the owner-to-owner transfer, what the loop of              *)
(* record_terminal computes, and the streams between a coordinator and its *)
(* peers: what an acknowledgement collects, how many copies of a request   *)
(* can be under way, and what becomes of a leg's executions.               *)
(***************************************************************************)
EXTENDS OwnerTransferInv, FiniteSetTheorems, WellFoundedInduction, TLAPS

-----------------------------------------------------------------------------
\* TypeOK is the conjunction of its parts, now and after a step.
LEMMA TypesByParty ==
  TypeOK <=> /\ CoordTypes /\ WindowTypes /\ NetTypes
             /\ FlightTypes /\ LeaseTypes /\ MasterTypes
BY Zenon DEF TypeOK, CoordTypes, WindowTypes, NetTypes, FlightTypes, LeaseTypes, MasterTypes

\* The direction the steps need.
LEMMA TypesByPartyNext ==
  /\ CoordTypes' /\ WindowTypes' /\ NetTypes' /\ FlightTypes' /\ LeaseTypes' /\ MasterTypes'
  => TypeOK'
BY Zenon DEF TypeOK, CoordTypes, WindowTypes, NetTypes, FlightTypes, LeaseTypes, MasterTypes

\* A leg has an operation and a peer; an operation is a get or a put.
LEMMA LegFacts ==
  /\ \A l \in Legs : OpOf[l] \in Ops /\ PeerOf[l] \in Peers
  /\ \A o \in Ops : (o \in Puts <=> o \notin Gets) /\ Kind[o] \in {"memory", "ssd", "put"}
BY LegAssumption, Zenon DEF Gets, Puts

\* The states of an operation and of a lease record, spelled out.
LEMMA StatesOf ==
  /\ \A o \in Gets : OpStates(o) = {"idle", "sent", "over", "ready"}
  /\ \A o \in Puts : OpStates(o) = {"idle", "sent", "over", "trying", "ending", "revoke"}
  /\ \A l \in Legs : /\ Kind[OpOf[l]] = "memory" => LeaseStates(l) = {"none", "active", "released"}
                     /\ Kind[OpOf[l]] = "ssd" => LeaseStates(l) = {"none"}
                     /\ OpOf[l] \in Puts =>
                          LeaseStates(l) = {"none", "prepared", "pending", "committed", "aborted"}
<1>1. \A o \in Puts : o \notin Gets
  BY Zenon DEF Gets, Puts
<1>2. \A o \in Gets : OpStates(o) = {"idle", "sent", "over", "ready"}
  BY Zenon DEF OpStates
<1>3. \A o \in Puts : OpStates(o) = {"idle", "sent", "over", "trying", "ending", "revoke"}
  BY <1>1, Zenon DEF OpStates
<1>4. ASSUME NEW l \in Legs
      PROVE  /\ Kind[OpOf[l]] = "memory" => LeaseStates(l) = {"none", "active", "released"}
             /\ Kind[OpOf[l]] = "ssd" => LeaseStates(l) = {"none"}
             /\ OpOf[l] \in Puts =>
                  LeaseStates(l) = {"none", "prepared", "pending", "committed", "aborted"}
  BY Zenon DEF LeaseStates, Puts
<1>5. QED
  BY <1>2, <1>3, <1>4, Zenon

-----------------------------------------------------------------------------
\* The new window of the stream, as WatermarkFact describes it.
LEMMA Recorded ==
  ASSUME TypeOK, StreamInv, NEW l \in Legs, RecordTerminal(l)
  PROVE  \E v \in Nat : Advanced(l, v)
\* The loop of record_terminal ends: the watermark is the length of the
\* recorded prefix, and what is left in the gap set lies beyond a hole.
<1>WatermarkFact. ASSUME NEW w \in Nat, NEW G, IsFiniteSet(G)
                  PROVE  /\ Watermark(w, G) \in Nat /\ w <= Watermark(w, G)
                         /\ \A s \in (w + 1) .. Watermark(w, G) : s \in G
                         /\ Watermark(w, G) + 1 \notin G
  <2> USE <1>WatermarkFact
  <2>1. Cardinality(G) \in Nat
    BY FS_CardinalityType, Zenon
  <2> DEFINE T == {v \in Nat : v >= w /\ v + 1 \notin G}
  <2>2. T # {}
    <3>1. SUFFICES ASSUME T = {} PROVE FALSE
      BY Zenon
    <3>2. \A v \in Nat : v >= w => v + 1 \in G
      BY <3>1, Zenon
    <3>3. \A s \in (w + 1) .. (w + 1 + Cardinality(G)) : s \in G
      <4>1. TAKE s \in (w + 1) .. (w + 1 + Cardinality(G))
      <4>2. s - 1 \in Nat /\ s - 1 >= w /\ (s - 1) + 1 = s
        BY <2>1
      <4>3. QED
        BY <3>2, <4>2, Zenon
    <3>4. (w + 1) .. (w + 1 + Cardinality(G)) \in SUBSET G
      BY <3>3, Zenon
    <3>5. Cardinality((w + 1) .. (w + 1 + Cardinality(G))) <= Cardinality(G)
      BY <3>4, FS_Subset, Zenon
    <3>6. w + 1 \in Int /\ w + 1 + Cardinality(G) \in Int
      BY <2>1
    <3>7. Cardinality((w + 1) .. (w + 1 + Cardinality(G))) = Cardinality(G) + 1
      <4>1. Cardinality((w + 1) .. (w + 1 + Cardinality(G)))
              = IF w + 1 > w + 1 + Cardinality(G) THEN 0 ELSE (w + 1 + Cardinality(G)) - (w + 1) + 1
        BY <3>6, FS_Interval, Zenon
      <4>2. QED
        BY <2>1, <4>1
    <3>8. QED
      BY <2>1, <3>5, <3>7
  <2> DEFINE Less == {ss \in Nat \X Nat : ss[1] < ss[2]}
  <2>3. \E v \in T : \A u \in T : ~ (<<u, v>> \in Less)
    <3>1. IsWellFoundedOn(Less, Nat)
      BY NatLessThanWellFounded, Zenon DEF OpToRel
    <3>2. T \subseteq Nat
      BY Zenon
    <3> HIDE DEF T, Less
    <3>3. QED
      BY <2>2, <3>1, <3>2, WFMin, Zenon
  <2>4. PICK v \in T : \A u \in T : ~ (u < v)
    BY <2>3, Zenon
  <2>5. \A s \in (w + 1) .. v : s \in G
    <3>1. TAKE s \in (w + 1) .. v
    <3>2. s - 1 \in Nat /\ s - 1 >= w /\ s - 1 < v /\ (s - 1) + 1 = s
      OBVIOUS
    <3>3. QED
      BY <2>4, <3>2, Zenon
  <2>6. v <= w + Cardinality(G)
    <3>1. (w + 1) .. v \in SUBSET G
      BY <2>5, Zenon
    <3>2. Cardinality((w + 1) .. v) <= Cardinality(G)
      BY <3>1, FS_Subset, Zenon
    <3>3. w + 1 \in Int /\ v \in Int
      OBVIOUS
    <3>4. Cardinality((w + 1) .. v) = IF w + 1 > v THEN 0 ELSE v - (w + 1) + 1
      BY <3>3, FS_Interval, Zenon
    <3>5. QED
      BY <2>1, <3>2, <3>4
  <2>7. v \in w .. (w + Cardinality(G)) /\ v + 1 \notin G
    BY <2>1, <2>6
  <2>8. /\ Watermark(w, G) \in w .. (w + Cardinality(G))
        /\ \A s \in (w + 1) .. Watermark(w, G) : s \in G
        /\ Watermark(w, G) + 1 \notin G
    BY <2>5, <2>7, Zenon DEF Watermark
  <2>9. QED
    BY <2>1, <2>8
<1> DEFINE p == PeerOf[l]
           G == gap[p] \cup {seq[l]}
           v == Watermark(wm[p], G)
<1>1. p \in Peers /\ wm[p] \in Nat /\ next[p] \in Nat /\ seq[l] \in Nat /\ gap[p] \subseteq Nat
  BY LegFacts, Zenon DEF TypeOK
<1>2. IsFiniteSet(G)
  <2>1. IsFiniteSet((wm[p] + 2) .. next[p])
    <3>1. wm[p] + 2 \in Int /\ next[p] \in Int
      BY <1>1
    <3>2. QED
      BY <3>1, FS_Interval, Zenon
  <2>2. gap[p] \in SUBSET ((wm[p] + 2) .. next[p])
    BY <1>1, Zenon DEF StreamInv, StreamOf
  <2>3. IsFiniteSet(gap[p])
    BY <2>1, <2>2, FS_Subset, Zenon
  <2>4. QED
    BY <2>3, FS_AddElement, Zenon
<1>3. /\ v \in Nat /\ wm[p] <= v
      /\ \A s \in (wm[p] + 1) .. v : s \in G
      /\ v + 1 \notin G
  <2>1. wm[p] \in Nat
    BY <1>1, Zenon
  <2> HIDE DEF p, G
  <2>2. QED
    BY <1>2, <2>1, <1>WatermarkFact, Zenon
<1>4. wm' = [wm EXCEPT ![p] = v] /\ gap' = [gap EXCEPT ![p] = {s \in G : s > v}]
  BY Zenon DEF RecordTerminal
<1>5. Advanced(l, v)
  BY <1>3, <1>4, Zenon DEF Advanced
<1>6. QED
  BY <1>3, <1>5, Zenon

\* The window stays a window.
LEMMA AdvancedTypes ==
  ASSUME TypeOK, NEW l \in Legs, NEW v \in Nat, Advanced(l, v)
  PROVE  WindowTypes'
BY LegFacts DEF TypeOK, WindowTypes, Advanced

\* The initial states are typed.
LEMMA InitTypes == Init => TypeOK
<1> SUFFICES ASSUME Init PROVE TypeOK
  BY Zenon
<1>1. CoordTypes
  BY SendAssumption DEF Init, CoordTypes, OpStates
<1>2. WindowTypes /\ NetTypes /\ FlightTypes /\ MasterTypes
  BY DEF Init, WindowTypes, NetTypes, FlightTypes, MasterTypes
<1>3. LeaseTypes
  BY Zenon DEF Init, LeaseTypes, LeaseStates
<1>4. QED
  BY <1>1, <1>2, <1>3, TypesByParty, Zenon

-----------------------------------------------------------------------------
\* The states an execution can be moved to.
LEMMA DoneFacts ==
  /\ \A out \in Outcomes : Done(out) \in Exec /\ Done(out).pc = "done" /\ Done(out).out = out
  /\ Accessing \in Exec /\ Accessing.pc = "access" /\ Accessing.out = "none"
BY Zenon DEF Done, Accessing, Exec, Outcomes

\* Every step of execute_owner_get_to_target and execute_owner_put_from_source.
LEMMA ExecMoves ==
  ASSUME NEW l \in Legs, NEW n, ExecStep(l, n)
  PROVE  \E x \in Exec : Moves(l, n, x)
<1>0. ASSUME NEW x \in Exec, x.pc # "start", exec' = [exec EXCEPT ![l][n] = x], ByPeer,
             NEW pc, pc # "done", Runs(l, n, pc)
      PROVE  \E y \in Exec : Moves(l, n, y)
  BY <1>0, Zenon DEF Runs, Moves
<1> USE DoneFacts DEF Outcomes, Refusals
<1>1. CASE MemoryAcquire(l, n)
  <2>1. \E x \in {Accessing, Done("error")} : exec' = [exec EXCEPT ![l][n] = x]
    BY <1>1, Zenon DEF MemoryAcquire
  <2>2. QED
    BY <1>0, <1>1, <2>1, Zenon DEF MemoryAcquire
<1>2. CASE MemoryWrite(l, n)
  <2>1. \E x \in {Done("ok"), Done("error")} : exec' = [exec EXCEPT ![l][n] = x]
    BY <1>2, Zenon DEF MemoryWrite
  <2>2. QED
    BY <1>0, <1>2, <2>1, Zenon DEF MemoryWrite
<1>3. CASE SsdStage(l, n)
  <2>1. PICK x \in {Accessing, Done("error")} : exec' = [exec EXCEPT ![l][n] = x]
    BY <1>3, Zenon DEF SsdStage
  <2>2. x \in Exec /\ x.pc # "start"
    BY Zenon
  <2>3. Runs(l, n, "start") /\ ByPeer
    BY <1>3, Zenon DEF SsdStage
  <2>4. QED
    BY <1>0, <2>1, <2>2, <2>3, Zenon
<1>4. CASE SsdWrite(l, n)
  <2>1. \E x \in {Done("ok"), Done("error")} : exec' = [exec EXCEPT ![l][n] = x]
    BY <1>4, Zenon DEF SsdWrite
  <2>2. QED
    BY <1>0, <1>4, <2>1, Zenon DEF SsdWrite
<1>5. CASE PutPrepare(l, n)
  <2>1. \E x \in {Accessing, Done("nospace"), Done("aborted")} : exec' = [exec EXCEPT ![l][n] = x]
    BY <1>5, Zenon DEF PutPrepare
  <2>2. QED
    BY <1>0, <1>5, <2>1, Zenon DEF PutPrepare
<1>6. CASE PutAdopt(l, n)
  <2>1. \E x \in {Done("ok"), Done("error")} : exec' = [exec EXCEPT ![l][n] = x]
    BY <1>6, Zenon DEF PutAdopt
  <2>2. QED
    BY <1>0, <1>6, <2>1, Zenon DEF PutAdopt
<1>7. CASE PutReplayed(l, n)
  BY <1>0, <1>7, Zenon DEF PutReplayed
<1>8. CASE PutRead(l, n)
  <2>1. \E x \in {Done("ok"), Done("aborted")} : exec' = [exec EXCEPT ![l][n] = x]
    BY <1>8, Zenon DEF PutRead
  <2>2. QED
    BY <1>0, <1>8, <2>1, Zenon DEF PutRead
<1>9. QED
  BY <1>1, <1>2, <1>3, <1>4, <1>5, <1>6, <1>7, <1>8, Zenon DEF ExecStep

\* What the master's answer leaves behind.
LEMMA AppendTypes ==
  ASSUME TypeOK, NEW l \in Legs, NEW appended \in BOOLEAN, AppendDone(l, appended)
  PROVE  MasterTypes'
BY LegFacts, TypesByParty, Zenon DEF AppendDone, masterVars, MasterTypes

\* Every step keeps the types.
LEMMA StepTypes == TypeOK /\ StreamInv /\ [Next]_vars => TypeOK'
\* The steps of the coordinator (get.rs, put.rs) keep the types.
<1>CoordStepTypes. ASSUME TypeOK, StreamInv, NEW l \in Legs, Send(l) \/ Resend(l) \/ GiveUp(l) \/ GetFinish(l)
                   PROVE  TypeOK'
  <2> USE <1>CoordStepTypes
  <2> USE LegFacts, StatesOf, SendAssumption
  <2>0. CoordTypes /\ WindowTypes /\ NetTypes /\ FlightTypes /\ LeaseTypes /\ MasterTypes
    BY TypesByParty, Zenon
  <2>1. CASE Send(l)
    <3>1. CoordTypes'
      <4>1. DOMAIN opc' = Ops /\ \A o \in Ops : opc'[o] \in OpStates(o)
        BY <2>0, <2>1 DEF Send, CoordTypes
      <4>2. sent' \in [Legs -> 0..MaxSend]
        BY <2>0, <2>1 DEF Send, CoordTypes
      <4>3. next' \in [Peers -> Nat] /\ seq' \in [Legs -> Nat] /\ emb' \in [Legs -> Nat]
        BY <2>0, <2>1 DEF Send, CoordTypes, WindowTypes
      <4>4. QED
        BY <2>0, <2>1, <4>1, <4>2, <4>3, Zenon DEF Send, CoordTypes, OpStates
    <3>2. NetTypes'
      <4>1. [leg |-> l, k |-> 1] \in Copy
        BY DEF Copy
      <4>2. net' = net \cup {[leg |-> l, k |-> 1]} /\ hand' = hand /\ wait' = wait
        BY <2>1, Zenon DEF Send
      <4>3. QED
        BY <2>0, <4>1, <4>2, Zenon DEF NetTypes
    <3>3. WindowTypes' /\ FlightTypes' /\ LeaseTypes' /\ MasterTypes'
      BY <2>0, <2>1, Zenon DEF Send, peerVars, WindowTypes, FlightTypes, LeaseTypes, LeaseStates, MasterTypes
    <3>4. QED
      BY <3>1, <3>2, <3>3, TypesByPartyNext, Zenon
  <2>2. CASE Resend(l)
    <3>1. CoordTypes'
      <4>1. sent' \in [Legs -> 0..MaxSend]
        BY <2>0, <2>2 DEF Resend, CoordTypes
      <4>2. QED
        BY <2>0, <2>2, <4>1, Zenon DEF Resend, CoordTypes, OpStates
    <3>2. NetTypes'
      BY <2>0, <2>2 DEF Resend, NetTypes, Copy, CoordTypes
    <3>3. WindowTypes' /\ FlightTypes' /\ LeaseTypes' /\ MasterTypes'
      BY <2>0, <2>2, Zenon DEF Resend, peerVars, masterVars, WindowTypes, FlightTypes, LeaseTypes,
                        LeaseStates, MasterTypes
    <3>4. QED
      BY <3>1, <3>2, <3>3, TypesByPartyNext, Zenon
  <2>3. CASE GiveUp(l)
    <3>1. CoordTypes'
      BY <2>0, <2>3 DEF GiveUp, CoordTypes
    <3>2. WindowTypes' /\ NetTypes' /\ FlightTypes' /\ LeaseTypes' /\ MasterTypes'
      BY <2>0, <2>3, Zenon DEF GiveUp, peerVars, masterVars, WindowTypes, NetTypes, FlightTypes,
                        LeaseTypes, LeaseStates, MasterTypes
    <3>3. QED
      BY <3>1, <3>2, TypesByPartyNext, Zenon
  <2>4. CASE GetFinish(l)
    <3>1. CoordTypes'
      BY <2>0, <2>4 DEF GetFinish, CoordTypes
    <3>2. WindowTypes'
      BY <2>0, <2>4, Recorded, AdvancedTypes, Zenon DEF GetFinish, WindowTypes
    <3>3. NetTypes' /\ FlightTypes' /\ LeaseTypes' /\ MasterTypes'
      BY <2>0, <2>4, Zenon DEF GetFinish, peerVars, masterVars, NetTypes, FlightTypes,
                        LeaseTypes, LeaseStates, MasterTypes
    <3>4. QED
      BY <3>1, <3>2, <3>3, TypesByPartyNext, Zenon
  <2>5. QED
    BY <2>1, <2>2, <2>3, <2>4, Zenon
\* So do the end of a replica and the expiry of its append.
<1>OpStepTypes. ASSUME TypeOK, NEW o \in Ops, OpStep(o)
                PROVE  TypeOK'
  <2> USE <1>OpStepTypes
  <2> USE LegFacts, StatesOf
  <2>0. CoordTypes /\ WindowTypes /\ NetTypes /\ FlightTypes /\ LeaseTypes /\ MasterTypes
    BY TypesByParty, Zenon
  <2>1. CASE PutEnd(o)
    <3>1. CoordTypes'
      BY <2>0, <2>1, Zenon DEF PutEnd, CoordTypes, OpStates
    <3>2. WindowTypes' /\ NetTypes' /\ FlightTypes' /\ LeaseTypes' /\ MasterTypes'
      BY <2>0, <2>1, Zenon DEF PutEnd, peerVars, masterVars, WindowTypes, NetTypes, FlightTypes,
                        LeaseTypes, LeaseStates, MasterTypes
    <3>3. QED
      BY <3>1, <3>2, TypesByPartyNext, Zenon
  <2>2. CASE PutRevoke(o)
    <3>1. CoordTypes'
      BY <2>0, <2>2, Zenon DEF PutRevoke, CoordTypes, OpStates
    <3>2. MasterTypes'
      BY <2>0, <2>2, Zenon DEF PutRevoke, MasterTypes
    <3>3. WindowTypes' /\ NetTypes' /\ FlightTypes' /\ LeaseTypes'
      BY <2>0, <2>2, Zenon DEF PutRevoke, peerVars, WindowTypes, NetTypes, FlightTypes,
                        LeaseTypes, LeaseStates
    <3>4. QED
      BY <3>1, <3>2, <3>3, TypesByPartyNext, Zenon
  <2>3. CASE AppendExpire(o)
    <3>1. CoordTypes' /\ WindowTypes'
      BY <2>0, <2>3, Zenon DEF AppendExpire, coordVars, CoordTypes, WindowTypes, OpStates
    <3>2. MasterTypes'
      BY <2>0, <2>3, Zenon DEF AppendExpire, MasterTypes
    <3>3. NetTypes' /\ FlightTypes' /\ LeaseTypes'
      BY <2>0, <2>3, Zenon DEF AppendExpire, peerVars, NetTypes, FlightTypes, LeaseTypes, LeaseStates
    <3>4. QED
      BY <3>1, <3>2, <3>3, TypesByPartyNext, Zenon
  <2>4. QED
    BY <2>1, <2>2, <2>3, Zenon DEF OpStep
\* The copies at a peer, and the answers it sends.
<1>CopyTypes. ASSUME TypeOK, StreamInv,
                     \/ \E c \in net : HandleAck(c)
                     \/ \E h \in hand : HandleStale(h) \/ HandleAcked(h) \/ HandleItem(h)
                     \/ \E w \in wait : Respond(w)
              PROVE  TypeOK'
  <2> USE <1>CopyTypes
  \* An answer leaves the coordinator's types alone.
  <2>AnswerTypes. ASSUME TypeOK, StreamInv, NEW l \in Legs, NEW k, NEW r, Answer(l, k, r)
                  PROVE  CoordTypes' /\ WindowTypes'
    <3> USE <2>AnswerTypes
    <3> USE LegFacts, StatesOf
    <3>0. CoordTypes /\ WindowTypes
      BY TypesByParty, Zenon
    <3>1. CASE UNCHANGED coordVars /\ UNCHANGED suspect
      BY <3>0, <3>1, Zenon DEF coordVars, CoordTypes, WindowTypes
    <3>2. CASE OpOf[l] \in Gets /\ ReceiveGet(l, r) /\ r = "ok" /\ suspect' \subseteq suspect \cup {l}
               /\ UNCHANGED <<seq, emb, sent, next>>
      BY <3>0, <3>2 DEF ReceiveGet, CoordTypes, WindowTypes
    <3>3. CASE OpOf[l] \in Gets /\ ReceiveGet(l, r) /\ r # "ok" /\ suspect' \subseteq suspect \cup {l}
               /\ UNCHANGED <<seq, emb, sent, next>>
      <4>1. CoordTypes'
        BY <3>0, <3>3 DEF ReceiveGet, CoordTypes
      <4>2. WindowTypes'
        BY <3>3, Recorded, AdvancedTypes, Zenon DEF ReceiveGet
      <4>3. QED
        BY <4>1, <4>2, Zenon
    <3>4. CASE OpOf[l] \in Puts /\ ReceivePut(l, r) /\ suspect' \subseteq suspect \cup {l}
               /\ UNCHANGED <<seq, emb, sent, next>>
      <4>1. CoordTypes'
        BY <3>0, <3>4 DEF ReceivePut, CoordTypes
      <4>2. WindowTypes'
        BY <3>4, Recorded, AdvancedTypes, Zenon DEF ReceivePut
      <4>3. QED
        BY <4>1, <4>2, Zenon
    <3>5. QED
      BY <3>1, <3>2, <3>3, <3>4, Zenon DEF Answer
  <2> USE LegFacts
  <2>0. CoordTypes /\ WindowTypes /\ NetTypes /\ FlightTypes /\ LeaseTypes /\ MasterTypes
    BY TypesByParty, Zenon
  <2>1. ASSUME NEW c \in net, HandleAck(c) PROVE TypeOK'
    <3>1. c \in Copy /\ c.leg \in Legs /\ c.k \in 1..MaxSend
      BY <2>0, Zenon DEF NetTypes, Copy
    <3>2. emb[c.leg] \in Nat /\ inb[PeerOf[c.leg]] \in Nat /\ PeerOf[c.leg] \in Peers
      BY <2>0, <3>1, Zenon DEF CoordTypes, FlightTypes
    <3>3. PICK w \in Nat :
            /\ hand' = hand \cup {[leg |-> c.leg, k |-> c.k, wm |-> w]}
            /\ UNCHANGED inb \/ inb' = [inb EXCEPT ![PeerOf[c.leg]] = w]
      <4> DEFINE v == IF emb[c.leg] > inb[PeerOf[c.leg]] THEN emb[c.leg] ELSE inb[PeerOf[c.leg]]
      <4>1. v \in Nat
        BY <3>2, Zenon
      <4>2. \/ hand' = hand \cup {[leg |-> c.leg, k |-> c.k, wm |-> v]} /\ inb' = [inb EXCEPT ![PeerOf[c.leg]] = v]
            \/ hand' = hand \cup {[leg |-> c.leg, k |-> c.k, wm |-> 0]} /\ UNCHANGED inb
        BY <2>1, Zenon DEF HandleAck
      <4> HIDE DEF v
      <4>3. 0 \in Nat
        BY Zenon
      <4>4. QED
        BY <4>1, <4>2, <4>3, Zenon
    <3>4. NetTypes'
      <4>1. [leg |-> c.leg, k |-> c.k, wm |-> w] \in Handed
        BY <3>1, <3>3, Zenon DEF Handed
      <4>2. hand' \subseteq Handed
        BY <2>0, <3>3, <4>1, Zenon DEF NetTypes
      <4>3. net' \subseteq net /\ wait' = wait
        BY <2>1, Zenon DEF HandleAck
      <4>4. QED
        BY <2>0, <4>2, <4>3, Zenon DEF NetTypes
    <3>5. FlightTypes'
      <4>1. exec' = exec
        BY <2>1, Zenon DEF HandleAck
      <4>2. inb' \in [Peers -> Nat]
        BY <2>0, <3>2, <3>3, Zenon DEF FlightTypes
      <4> DEFINE v == IF emb[c.leg] > inb[PeerOf[c.leg]] THEN emb[c.leg] ELSE inb[PeerOf[c.leg]]
      <4>3. \/ map' = map
            \/ map' = [m \in Legs |-> IF Collected(m, PeerOf[c.leg], v) THEN 0 ELSE map[m]]
        BY <2>1, Zenon DEF HandleAck
      <4> HIDE DEF v
      <4>4. ASSUME map' = [m \in Legs |-> IF Collected(m, PeerOf[c.leg], v) THEN 0 ELSE map[m]]
            PROVE  map' \in [Legs -> Nat]
        <5>1. \A m \in Legs : map[m] \in Nat
          BY <2>0, Zenon DEF FlightTypes
        <5>2. QED
          BY <4>4, <5>1, Zenon
      <4>5. map' \in [Legs -> Nat]
        BY <2>0, <4>3, <4>4, Zenon DEF FlightTypes
      <4>6. QED
        BY <2>0, <4>1, <4>2, <4>5, Zenon DEF FlightTypes
    <3>6. CoordTypes' /\ WindowTypes' /\ LeaseTypes' /\ MasterTypes'
      BY <2>0, <2>1, Zenon DEF HandleAck, coordVars, masterVars, CoordTypes, WindowTypes, LeaseTypes,
                        LeaseStates, MasterTypes, OpStates
    <3>7. QED
      BY <3>4, <3>5, <3>6, TypesByPartyNext, Zenon
  <2>2. ASSUME NEW h \in hand, NEW r, Answer(h.leg, h.k, r), hand' = hand \ {h},
               UNCHANGED <<net, wait, exec, map, lease, inb, mop, routed>>
        PROVE  TypeOK'
    <3>1. h.leg \in Legs
      BY <2>0, Zenon DEF NetTypes, Handed
    <3>2. CoordTypes' /\ WindowTypes'
      BY <2>2, <3>1, <2>AnswerTypes, Zenon
    <3>3. NetTypes' /\ FlightTypes' /\ LeaseTypes' /\ MasterTypes'
      BY <2>0, <2>2, Zenon DEF NetTypes, FlightTypes, LeaseTypes, LeaseStates, MasterTypes
    <3>4. QED
      BY <3>2, <3>3, TypesByPartyNext, Zenon
  <2>3. ASSUME NEW h \in hand, HandleItem(h) PROVE TypeOK'
    <3>1. h.leg \in Legs /\ h.k \in 1..MaxSend
      BY <2>0, Zenon DEF NetTypes, Handed
    <3>2. exec[h.leg] \in Seq(Exec) /\ map[h.leg] \in Nat /\ Started \in Exec
      BY <2>0, <3>1, Zenon DEF FlightTypes, Started, Exec, Outcomes
    <3>3. FlightTypes'
      <4>1. Append(exec[h.leg], Started) \in Seq(Exec) /\ Len(exec[h.leg]) + 1 \in Nat
        BY <3>2
      <4>2. \/ UNCHANGED exec
            \/ exec' = [exec EXCEPT ![h.leg] = Append(exec[h.leg], Started)]
        BY <2>3, Zenon DEF HandleItem
      <4>3. \E n \in Nat : map' = [map EXCEPT ![h.leg] = n]
        BY <2>3, <3>2, <4>1, Zenon DEF HandleItem
      <4>4. exec' \in [Legs -> Seq(Exec)]
        BY <2>0, <4>1, <4>2, Zenon DEF FlightTypes
      <4>5. map' \in [Legs -> Nat]
        BY <2>0, <4>3, Zenon DEF FlightTypes
      <4>6. QED
        BY <2>0, <2>3, <4>4, <4>5, Zenon DEF HandleItem, FlightTypes
    <3>4. NetTypes'
      <4>1. \E n \in 1..MaxExec : wait' = wait \cup {[leg |-> h.leg, k |-> h.k, n |-> n]}
        <5>1. CASE map[h.leg] = 0
          <6>1. Len(exec[h.leg]) + 1 <= MaxExec
            BY <2>3, <5>1, Zenon DEF HandleItem
          <6>2. Len(exec[h.leg]) + 1 \in 1..MaxExec
            BY <3>2, <6>1, SendAssumption
          <6>3. QED
            BY <2>3, <5>1, <6>2, Zenon DEF HandleItem
        <5>2. CASE map[h.leg] # 0
          <6>1. map[h.leg] <= MaxExec
            BY <2>3, <5>2, Zenon DEF HandleItem
          <6>2. map[h.leg] \in 1..MaxExec
            BY <3>2, <5>2, <6>1, SendAssumption
          <6>3. QED
            BY <2>3, <5>2, <6>2, Zenon DEF HandleItem
        <5>3. QED
          BY <5>1, <5>2, Zenon
      <4>2. PICK n \in 1..MaxExec : wait' = wait \cup {[leg |-> h.leg, k |-> h.k, n |-> n]}
        BY <4>1, Zenon
      <4>3. [leg |-> h.leg, k |-> h.k, n |-> n] \in Waiter
        BY <3>1, <4>2, Zenon DEF Waiter
      <4>4. net' = net /\ hand' \subseteq hand
        BY <2>3, Zenon DEF HandleItem
      <4>5. QED
        BY <2>0, <4>2, <4>3, <4>4, Zenon DEF NetTypes
    <3>5. CoordTypes' /\ WindowTypes' /\ LeaseTypes' /\ MasterTypes'
      BY <2>0, <2>3, Zenon DEF HandleItem, coordVars, masterVars, CoordTypes, WindowTypes, LeaseTypes,
                        LeaseStates, MasterTypes, OpStates
    <3>6. QED
      BY <3>3, <3>4, <3>5, TypesByPartyNext, Zenon
  <2>4. ASSUME NEW w \in wait, Respond(w) PROVE TypeOK'
    <3>1. w.leg \in Legs
      BY <2>0, Zenon DEF NetTypes, Waiter
    <3>2. CoordTypes' /\ WindowTypes'
      BY <2>4, <3>1, <2>AnswerTypes, Zenon DEF Respond
    <3>3. NetTypes' /\ FlightTypes' /\ LeaseTypes' /\ MasterTypes'
      BY <2>0, <2>4, Zenon DEF Respond, peerVars, masterVars, NetTypes, FlightTypes, LeaseTypes,
                        LeaseStates, MasterTypes
    <3>4. QED
      BY <3>2, <3>3, TypesByPartyNext, Zenon
  <2>5. QED
    BY <2>1, <2>2, <2>3, <2>4, Zenon DEF HandleStale, HandleAcked, peerVars, masterVars
\* The steps of an execution keep the types.
<1>ExecStepTypes. ASSUME TypeOK, NEW l \in Legs, NEW n, ExecStep(l, n)
                  PROVE  TypeOK'
  <2> USE <1>ExecStepTypes
  <2>0. CoordTypes /\ WindowTypes /\ NetTypes /\ FlightTypes /\ LeaseTypes /\ MasterTypes
    BY TypesByParty, Zenon
  <2>1. PICK x \in Exec : Moves(l, n, x)
    BY ExecMoves, Zenon
  <2>2. CoordTypes' /\ WindowTypes' /\ NetTypes'
    BY <2>0, <2>1, Zenon DEF Moves, ByPeer, coordVars, CoordTypes, WindowTypes, NetTypes, OpStates
  <2>3. FlightTypes'
    <3>1. [exec[l] EXCEPT ![n] = x] \in Seq(Exec)
      BY <2>0, <2>1 DEF Moves, FlightTypes
    <3>2. QED
      BY <2>0, <2>1, <3>1, Zenon DEF Moves, ByPeer, FlightTypes
  <2>4. MasterTypes'
    <3>1. CASE PutAdopt(l, n)
      BY <3>1, AppendTypes, Zenon DEF PutAdopt
    <3>2. CASE ~PutAdopt(l, n)
      BY <2>0, <3>2, Zenon DEF ExecStep, MemoryAcquire, MemoryWrite, SsdStage, SsdWrite, PutPrepare,
                        PutReplayed, PutRead, masterVars, MasterTypes
    <3>3. QED
      BY <3>1, <3>2, Zenon
  <2>5. LeaseTypes'
    <3> USE LegFacts, StatesOf
    <3>1. CASE Kind[OpOf[l]] = "memory" /\ (MemoryAcquire(l, n) \/ MemoryWrite(l, n))
      BY <2>0, <3>1 DEF MemoryAcquire, MemoryWrite, LeaseTypes
    <3>2. CASE OpOf[l] \in Puts /\ (PutPrepare(l, n) \/ PutRead(l, n))
      BY <2>0, <3>2 DEF PutPrepare, PutRead, LeaseTypes
    <3>3. CASE UNCHANGED lease
      BY <2>0, <3>3, Zenon DEF LeaseTypes, LeaseStates
    <3>4. QED
      BY <3>1, <3>2, <3>3, Zenon DEF ExecStep, MemoryAcquire, MemoryWrite, SsdStage, SsdWrite, PutPrepare,
                              PutAdopt, PutReplayed, PutRead
  <2>6. QED
    BY <2>2, <2>3, <2>4, <2>5, TypesByPartyNext, Zenon
\* So does the detached route commit of a replica.
<1>RouteStepTypes. ASSUME TypeOK, NEW l \in Legs, RouteCommit(l) \/ RouteCommitLost(l)
                   PROVE  TypeOK'
  <2> USE <1>RouteStepTypes
  <2>0. CoordTypes /\ WindowTypes /\ NetTypes /\ FlightTypes /\ LeaseTypes /\ MasterTypes
    BY TypesByParty, Zenon
  <2>1. ByPeer /\ UNCHANGED exec /\ \E appended \in BOOLEAN : AppendDone(l, appended)
    BY Zenon DEF RouteCommit, RouteCommitLost
  <2>2. CoordTypes' /\ WindowTypes' /\ NetTypes' /\ FlightTypes'
    BY <2>0, <2>1, Zenon DEF ByPeer, coordVars, CoordTypes, WindowTypes, NetTypes, FlightTypes, OpStates
  <2>3. MasterTypes'
    BY <2>1, AppendTypes, Zenon
  <2>4. LeaseTypes'
    <3>1. OpOf[l] \in Puts
      BY <2>0, LegFacts, StatesOf, Zenon DEF RouteCommit, RouteCommitLost, LeaseTypes, Gets, Puts
    <3>2. \/ UNCHANGED lease
          \/ \E y \in {"committed", "aborted"} : lease' = [lease EXCEPT ![l] = y]
      BY Zenon DEF RouteCommit, RouteCommitLost
    <3>3. CASE UNCHANGED lease
      BY <2>0, <3>3, Zenon DEF LeaseTypes, LeaseStates
    <3>4. CASE \E y \in {"committed", "aborted"} : lease' = [lease EXCEPT ![l] = y]
      BY <2>0, <3>1, <3>4, StatesOf DEF LeaseTypes
    <3>5. QED
      BY <3>2, <3>3, <3>4, Zenon
  <2>5. QED
    BY <2>2, <2>3, <2>4, TypesByPartyNext, Zenon
<1>1. TypeOK /\ UNCHANGED vars => TypeOK'
  BY Zenon DEF vars, TypeOK, OpStates, LeaseStates
<1>2. QED
  BY <1>1, <1>CoordStepTypes, <1>OpStepTypes, <1>CopyTypes, <1>ExecStepTypes, <1>RouteStepTypes, Zenon
     DEF Next, LegStep

-----------------------------------------------------------------------------

-----------------------------------------------------------------------------

\* Every step is one of these for the streams.
LEMMA StreamSteps ==
  ASSUME TypeOK, StreamInv, Next
  PROVE  \/ \E l \in Legs : Send(l) \/ Settles(l) \/ Stays(l)
         \/ Rests
\* An answer settles a leg, leaves it open, or finds nobody.
<1>AnswerStream. ASSUME TypeOK, StreamInv, NEW l \in Legs, NEW k, NEW r, Answer(l, k, r)
                 PROVE  Settles(l) \/ Stays(l) \/ Rests
  <2> USE <1>AnswerStream
  <2>1. CASE UNCHANGED coordVars
    BY <2>1, Zenon DEF coordVars, Rests
  <2>2. CASE lpc[l] = "waiting" /\ ReceiveGet(l, r) /\ r = "ok" /\ UNCHANGED <<seq, emb, next>>
    BY <2>2, Zenon DEF ReceiveGet, Stays
  <2>3. CASE lpc[l] = "waiting" /\ ReceiveGet(l, r) /\ r # "ok" /\ UNCHANGED <<seq, emb, next>>
    BY <2>3, Recorded, Zenon DEF ReceiveGet, Settles
  <2>4. CASE lpc[l] = "waiting" /\ ReceivePut(l, r) /\ UNCHANGED <<seq, emb, next>>
    BY <2>4, Recorded, Zenon DEF ReceivePut, Settles
  <2>5. QED
    BY <2>1, <2>2, <2>3, <2>4, Zenon DEF Answer
<1>1. ASSUME NEW l \in Legs, LegStep(l)
      PROVE  Send(l) \/ Settles(l) \/ Stays(l) \/ Rests
  <2>1. CASE Resend(l)
    BY <2>1, Zenon DEF Resend, Rests
  <2>2. CASE GiveUp(l)
    BY <2>2, Zenon DEF GiveUp, Stays
  <2>3. CASE GetFinish(l) /\ RecordTerminal(l) /\ lpc' = [lpc EXCEPT ![l] = "settled"]
    BY <2>3, Recorded, Zenon DEF GetFinish, Settles
  <2>4. CASE GetFinish(l) /\ lpc' = [lpc EXCEPT ![l] = "open"] /\ UNCHANGED <<wm, gap>>
    BY <2>4, Zenon DEF GetFinish, Stays
  <2>5. CASE RouteCommit(l) \/ RouteCommitLost(l)
    BY <2>5, Zenon DEF RouteCommit, RouteCommitLost, ByPeer, coordVars, Rests
  <2>6. QED
    BY <1>1, <2>1, <2>2, <2>3, <2>4, <2>5, Zenon DEF LegStep, GetFinish
<1>2. ASSUME NEW l \in Legs, NEW n, ExecStep(l, n) PROVE Rests
  BY <1>2, ExecMoves, Zenon DEF Moves, ByPeer, coordVars, Rests
<1>3. ASSUME NEW o \in Ops, OpStep(o) PROVE Rests
  BY <1>3, Zenon DEF OpStep, PutEnd, PutRevoke, AppendExpire, coordVars, Rests
<1>4. ASSUME NEW c \in net, HandleAck(c) PROVE Rests
  BY <1>4, Zenon DEF HandleAck, coordVars, Rests
<1>5. ASSUME NEW h \in hand, HandleStale(h) \/ HandleAcked(h) \/ HandleItem(h)
      PROVE  (\E l \in Legs : Settles(l) \/ Stays(l)) \/ Rests
  <2>1. h.leg \in Legs
    BY Zenon DEF TypeOK, Handed
  <2>2. CASE HandleItem(h)
    BY <2>2, Zenon DEF HandleItem, coordVars, Rests
  <2>3. QED
    BY <1>5, <2>1, <2>2, <1>AnswerStream, Zenon DEF HandleStale, HandleAcked
<1>6. ASSUME NEW w \in wait, Respond(w)
      PROVE  (\E l \in Legs : Settles(l) \/ Stays(l)) \/ Rests
  <2>1. w.leg \in Legs
    BY Zenon DEF TypeOK, Waiter
  <2>2. QED
    BY <1>6, <2>1, <1>AnswerStream, Zenon DEF Respond
<1>7. QED
  BY <1>1, <1>2, <1>3, <1>4, <1>5, <1>6, Zenon DEF Next

\* Every step keeps the streams.
LEMMA StepStream == TypeOK /\ StreamInv /\ [Next]_vars => StreamInv'
\* Recording the terminal of a leg settles that leg and no other.
<1>RecordKeeps. ASSUME TypeOK, StreamInv, NEW l \in Legs, lpc[l] \in {"waiting", "ready"},
                       NEW v \in Nat, Advanced(l, v),
                       lpc' = [lpc EXCEPT ![l] = "settled"], UNCHANGED <<seq, next>>
                PROVE  StreamInv'
  <2> USE <1>RecordKeeps
  <2> DEFINE p == PeerOf[l]
             G == gap[p] \cup {seq[l]}
  <2>0. /\ p \in Peers /\ wm[p] \in Nat /\ next[p] \in Nat /\ seq[l] \in Nat
        /\ gap[p] \subseteq (wm[p] + 2) .. next[p]
        /\ wm[p] <= next[p]
        /\ seq[l] \in 1..next[p] /\ seq[l] > wm[p] /\ seq[l] \notin gap[p]
    <3>1. StreamOf(p) /\ LegOf(l) /\ p \in Peers
      BY LegFacts, Zenon DEF StreamInv
    <3>2. wm[p] \in Nat /\ next[p] \in Nat /\ seq[l] \in Nat
      BY <3>1, Zenon DEF TypeOK
    <3>3. QED
      BY <3>1, <3>2 DEF StreamOf, LegOf
  <2>1. /\ wm[p] <= v
        /\ \A s \in (wm[p] + 1) .. v : s \in G
        /\ v + 1 \notin G
    BY Zenon DEF Advanced
  <2>2. /\ wm'[p] = v /\ gap'[p] = {s \in G : s > v}
        /\ \A q \in Peers \ {p} : wm'[q] = wm[q] /\ gap'[q] = gap[q]
    BY <2>0, Zenon DEF Advanced, TypeOK
  <2>3. ASSUME NEW q \in Peers PROVE StreamOf(q)'
    <3>1. StreamOf(q)
      BY Zenon DEF StreamInv
    <3>2. CASE q # p
      BY <2>2, <3>1, <3>2, Zenon DEF StreamOf
    <3>3. CASE q = p
      <4>1. v <= next[p]
        BY <2>0, <2>1
      <4>2. \A s \in G : s > v => s \in (v + 2) .. next[p]
        BY <2>0, <2>1
      <4>3. QED
        BY <2>2, <3>1, <3>3, <4>1, <4>2, Zenon DEF StreamOf
    <3>4. QED
      BY <3>2, <3>3, Zenon
  <2>4. ASSUME NEW m \in Legs PROVE LegOf(m)'
    <3>1. LegOf(m) /\ PeerOf[m] \in Peers /\ seq[m] \in Nat
      BY LegFacts, Zenon DEF StreamInv, TypeOK
    <3>2. CASE m = l
      <4>1. lpc'[l] = "settled"
        BY Zenon DEF TypeOK
      <4>2. seq[l] <= v \/ seq[l] \in gap'[p]
        BY <2>0, <2>2
      <4>3. QED
        BY <2>0, <2>2, <3>2, <4>1, <4>2 DEF LegOf
    <3>3. CASE m # l
      <4>1. lpc'[m] = lpc[m]
        BY <3>3, Zenon DEF TypeOK
      <4>2. CASE PeerOf[m] # p
        BY <2>2, <3>1, <4>1, <4>2, Zenon DEF LegOf
      <4>3. CASE PeerOf[m] = p /\ lpc[m] = "idle"
        BY <3>1, <4>1, <4>3, Zenon DEF LegOf
      <4>4. CASE PeerOf[m] = p /\ lpc[m] # "idle"
        <5>1. seq[m] # seq[l]
          BY <2>0, <3>3, <4>4 DEF StreamInv, Distinct
        <5>2. (seq[m] <= wm[p] \/ seq[m] \in gap[p]) <=> (seq[m] <= v \/ seq[m] \in gap'[p])
          BY <2>0, <2>1, <2>2, <3>1, <5>1
        <5>3. QED
          BY <2>2, <3>1, <4>1, <4>4, <5>2, Zenon DEF LegOf
      <4>5. QED
        BY <4>2, <4>3, <4>4, Zenon
    <3>4. QED
      BY <3>2, <3>3, Zenon
  <2>5. Distinct'
    BY Zenon DEF StreamInv, Distinct
  <2>6. QED
    BY <2>3, <2>4, <2>5, Zenon DEF StreamInv
\* The request of a new leg takes the next sequence of its stream.
<1>SendStream. ASSUME TypeOK, StreamInv, NEW l \in Legs, Send(l)
               PROVE  StreamInv'
  <2> USE <1>SendStream
  <2> DEFINE p == PeerOf[l]
  <2>0. p \in Peers /\ wm[p] \in Nat /\ next[p] \in Nat /\ wm[p] <= next[p]
    BY LegFacts, Zenon DEF TypeOK, StreamInv, StreamOf
  <2>1. /\ lpc[l] = "idle"
        /\ lpc' = [lpc EXCEPT ![l] = "waiting"]
        /\ next' = [next EXCEPT ![p] = next[p] + 1]
        /\ seq' = [seq EXCEPT ![l] = next[p] + 1]
        /\ UNCHANGED <<wm, gap>>
    BY Zenon DEF Send
  <2>2. seq[l] = 0
    BY <2>1, Zenon DEF StreamInv, LegOf
  <2>3. /\ lpc'[l] = "waiting" /\ seq'[l] = next[p] + 1 /\ next'[p] = next[p] + 1
        /\ \A m \in Legs \ {l} : lpc'[m] = lpc[m] /\ seq'[m] = seq[m]
        /\ \A q \in Peers \ {p} : next'[q] = next[q]
    BY <2>0, <2>1, Zenon DEF TypeOK
  <2>4. ASSUME NEW q \in Peers PROVE StreamOf(q)'
    <3>1. StreamOf(q) /\ next[q] \in Nat /\ wm[q] \in Nat
      BY Zenon DEF StreamInv, TypeOK
    <3>2. wm'[q] <= next'[q] /\ gap'[q] \subseteq (wm'[q] + 2) .. next'[q]
      <4>1. next[q] <= next'[q] /\ next'[q] \in Nat
        BY <2>0, <2>3, <3>1
      <4>2. QED
        BY <2>1, <3>1, <4>1 DEF StreamOf
    <3>3. ASSUME NEW s \in 1 .. next'[q] PROVE \E m \in Legs : PeerOf[m] = q /\ seq'[m] = s
      <4>1. CASE s \in 1 .. next[q]
        <5>1. PICK m \in Legs : PeerOf[m] = q /\ seq[m] = s
          BY <3>1, <4>1, Zenon DEF StreamOf
        <5>2. m # l
          BY <2>2, <4>1, <5>1
        <5>3. QED
          BY <2>3, <5>1, <5>2, Zenon
      <4>2. CASE q = p /\ s = next[p] + 1
        BY <2>3, <4>2, Zenon
      <4>3. QED
        BY <2>0, <2>3, <3>1, <4>1, <4>2
    <3>4. QED
      BY <3>2, <3>3, Zenon DEF StreamOf
  <2>5. ASSUME NEW m \in Legs PROVE LegOf(m)'
    <3>1. LegOf(m) /\ PeerOf[m] \in Peers /\ seq[m] \in Nat /\ next[PeerOf[m]] \in Nat
      BY LegFacts, Zenon DEF StreamInv, TypeOK
    <3>2. CASE m = l
      <4>1. next[p] + 1 \notin gap[p]
        BY <2>0 DEF StreamInv, StreamOf
      <4>2. QED
        BY <2>0, <2>1, <2>3, <3>2, <4>1 DEF LegOf
    <3>3. CASE m # l
      <4>1. next[PeerOf[m]] <= next'[PeerOf[m]] /\ next'[PeerOf[m]] \in Nat
        BY <2>0, <2>3, <3>1
      <4>2. QED
        BY <2>1, <2>3, <3>1, <3>3, <4>1 DEF LegOf
    <3>4. QED
      BY <3>2, <3>3, Zenon
  <2>6. Distinct'
    <3>1. \A m \in Legs : PeerOf[m] = p => seq[m] # next[p] + 1
      BY <2>0 DEF StreamInv, LegOf, TypeOK
    <3>2. QED
      BY <2>0, <2>3, <3>1 DEF StreamInv, Distinct
  <2>7. QED
    BY <2>4, <2>5, <2>6, Zenon DEF StreamInv
<1> SUFFICES ASSUME TypeOK, StreamInv, [Next]_vars PROVE StreamInv'
  BY Zenon
<1>1. ASSUME NEW l \in Legs, Send(l) PROVE StreamInv'
  BY <1>1, <1>SendStream, Zenon
<1>2. ASSUME NEW l \in Legs, Settles(l) PROVE StreamInv'
  BY <1>2, <1>RecordKeeps, Zenon DEF Settles
<1>3. ASSUME NEW l \in Legs, Stays(l) PROVE StreamInv'
  <2>1. \A m \in Legs : /\ lpc'[m] = "idle" <=> lpc[m] = "idle"
                        /\ lpc'[m] = "settled" <=> lpc[m] = "settled"
    BY <1>3, Zenon DEF Stays, TypeOK
  <2>2. \A m \in Legs : LegOf(m)'
    BY <1>3, <2>1, Zenon DEF Stays, StreamInv, LegOf
  <2>3. UNCHANGED <<seq, next, wm, gap>>
    BY <1>3, Zenon DEF Stays
  <2>4. \A p \in Peers : StreamOf(p)'
    BY <2>3 DEF StreamInv, StreamOf
  <2>5. Distinct'
    BY <2>3, Zenon DEF StreamInv, Distinct
  <2>6. QED
    BY <2>2, <2>4, <2>5, Zenon DEF StreamInv
<1>4. Rests => StreamInv'
  BY DEF Rests, StreamInv, StreamOf, LegOf, Distinct
<1>5. UNCHANGED vars => Rests
  BY Zenon DEF vars, Rests
<1>6. QED
  BY <1>1, <1>2, <1>3, <1>4, <1>5, StreamSteps, Zenon

-----------------------------------------------------------------------------
\* What a step does to the executions.
LEMMA ExecCases ==
  ASSUME TypeOK, Next
  PROVE  \/ UNCHANGED exec
         \/ \E l \in Legs, n \in 1..MaxExec, x \in Exec : ExecStep(l, n) /\ Moves(l, n, x)
         \/ \E h \in hand : HandleItem(h) /\ Starts(h.leg)
<1>1. ASSUME NEW l \in Legs, LegStep(l) PROVE UNCHANGED exec
  BY <1>1, Zenon DEF LegStep, Send, Resend, GiveUp, GetFinish, RouteCommit, RouteCommitLost, peerVars
<1>2. ASSUME NEW l \in Legs, NEW n \in 1..MaxExec, ExecStep(l, n)
      PROVE  \E x \in Exec : ExecStep(l, n) /\ Moves(l, n, x)
  BY <1>2, ExecMoves, Zenon
<1>3. ASSUME NEW o \in Ops, OpStep(o) PROVE UNCHANGED exec
  BY <1>3, Zenon DEF OpStep, PutEnd, PutRevoke, AppendExpire, peerVars
<1>4. ASSUME NEW c \in net, HandleAck(c) PROVE UNCHANGED exec
  BY <1>4, Zenon DEF HandleAck
<1>5. ASSUME NEW h \in hand, HandleStale(h) \/ HandleAcked(h) PROVE UNCHANGED exec
  BY <1>5, Zenon DEF HandleStale, HandleAcked, peerVars
<1>6. ASSUME NEW h \in hand, HandleItem(h) PROVE UNCHANGED exec \/ Starts(h.leg)
  BY <1>6, Zenon DEF HandleItem, Starts
<1>7. ASSUME NEW w \in wait, Respond(w) PROVE UNCHANGED exec
  BY <1>7, Zenon DEF Respond, peerVars
<1>8. QED
  BY <1>1, <1>2, <1>3, <1>4, <1>5, <1>6, <1>7, Zenon DEF Next

\* Every step goes forward.
LEMMA StepForward ==
  ASSUME TypeOK, StreamInv, Next
  PROVE  Forward
\* A doubt about a leg stays.
<1>SuspectGrows. ASSUME Next
                 PROVE  suspect \subseteq suspect'
  <2> USE <1>SuspectGrows
  <2>1. ASSUME NEW l \in Legs, LegStep(l) PROVE suspect \subseteq suspect'
    BY <2>1, Zenon DEF LegStep, Send, Resend, GiveUp, GetFinish, RouteCommit, RouteCommitLost, ByPeer
  <2>2. ASSUME NEW l \in Legs, NEW n, ExecStep(l, n) PROVE suspect \subseteq suspect'
    BY <2>2, ExecMoves, Zenon DEF Moves, ByPeer
  <2>3. ASSUME NEW o \in Ops, OpStep(o) PROVE suspect \subseteq suspect'
    BY <2>3, Zenon DEF OpStep, PutEnd, PutRevoke, AppendExpire
  <2>4. ASSUME NEW l, NEW k, NEW r, Answer(l, k, r) PROVE suspect \subseteq suspect'
    BY <2>4, Zenon DEF Answer
  <2>5. QED
    BY <2>1, <2>2, <2>3, <2>4, Zenon
       DEF Next, HandleAck, HandleStale, HandleAcked, HandleItem, Respond
\* The master takes no target of a replica back.
<1>RoutedGrows. ASSUME Next
                PROVE  routed \subseteq routed'
  <2> USE <1>RoutedGrows
  <2>1. ASSUME NEW l, NEW a, AppendDone(l, a) PROVE routed \subseteq routed'
    BY <2>1, Zenon DEF AppendDone, masterVars
  <2>2. ASSUME NEW l \in Legs, LegStep(l) PROVE routed \subseteq routed'
    BY <2>1, <2>2, Zenon DEF LegStep, Send, Resend, GiveUp, GetFinish, RouteCommit, RouteCommitLost,
                      masterVars
  <2>3. ASSUME NEW l \in Legs, NEW n, ExecStep(l, n) PROVE routed \subseteq routed'
    BY <2>1, <2>3, Zenon DEF ExecStep, MemoryAcquire, MemoryWrite, SsdStage, SsdWrite, PutPrepare,
                      PutAdopt, PutReplayed, PutRead, masterVars
  <2>4. ASSUME NEW o \in Ops, OpStep(o) PROVE routed \subseteq routed'
    BY <2>4, Zenon DEF OpStep, PutEnd, PutRevoke, AppendExpire, masterVars
  <2>5. QED
    BY <2>2, <2>3, <2>4, Zenon
       DEF Next, HandleAck, HandleStale, HandleAcked, HandleItem, Respond, masterVars
<1>1. \A l \in Legs : /\ lpc[l] # "idle" => lpc'[l] # "idle"
                      /\ lpc[l] = "settled" => lpc'[l] = "settled"
  <2> DEFINE Goes == \A l \in Legs : /\ lpc[l] # "idle" => lpc'[l] # "idle"
                                     /\ lpc[l] = "settled" => lpc'[l] = "settled"
  <2>1. ASSUME NEW l \in Legs, Send(l) PROVE Goes
    BY <2>1, Zenon DEF Send, TypeOK
  <2>2. ASSUME NEW l \in Legs, Settles(l) \/ Stays(l) PROVE Goes
    BY <2>2, Zenon DEF Settles, Stays, TypeOK
  <2>3. CASE Rests
    BY <2>3, Zenon DEF Rests
  <2>4. QED
    BY <2>1, <2>2, <2>3, StreamSteps, Zenon
<1>2. \A p \in Peers : wm[p] <= wm'[p]
  <2>1. ASSUME NEW l \in Legs, NEW v \in Nat, Advanced(l, v)
        PROVE  \A p \in Peers : wm[p] <= wm'[p]
    BY <2>1, LegFacts DEF Advanced, TypeOK
  <2>2. UNCHANGED wm => \A p \in Peers : wm[p] <= wm'[p]
    BY DEF TypeOK
  <2>3. QED
    BY <2>1, <2>2, StreamSteps, Zenon DEF Send, Settles, Stays, Rests
<1>3. ASSUME NEW l \in Legs
      PROVE  /\ Len(exec[l]) <= Len(exec'[l])
             /\ \A n \in DOMAIN exec[l] : exec[l][n].pc = "done" => exec'[l][n] = exec[l][n]
  <2>0. exec[l] \in Seq(Exec)
    BY Zenon DEF TypeOK
  <2>1. CASE UNCHANGED exec
    BY <2>0, <2>1
  <2>2. ASSUME NEW m \in Legs, NEW n \in 1..MaxExec, NEW x \in Exec, Moves(m, n, x)
        PROVE  /\ Len(exec[l]) <= Len(exec'[l])
               /\ \A i \in DOMAIN exec[l] : exec[l][i].pc = "done" => exec'[l][i] = exec[l][i]
    <3>1. exec[m] \in Seq(Exec) /\ DOMAIN exec = Legs
      BY Zenon DEF TypeOK
    <3>2. QED
      BY <2>0, <2>2, <3>1 DEF Moves
  <2>3. ASSUME NEW m \in Legs, Starts(m)
        PROVE  /\ Len(exec[l]) <= Len(exec'[l])
               /\ \A i \in DOMAIN exec[l] : exec[l][i].pc = "done" => exec'[l][i] = exec[l][i]
    <3>1. exec[m] \in Seq(Exec) /\ DOMAIN exec = Legs
      BY Zenon DEF TypeOK
    <3>2. Started \in Exec
      BY Zenon DEF Started, Exec, Outcomes
    <3>3. QED
      BY <2>0, <2>3, <3>1, <3>2 DEF Starts
  <2>4. \A h \in hand : h.leg \in Legs
    BY Zenon DEF TypeOK, Handed
  <2>5. QED
    BY <2>1, <2>2, <2>3, <2>4, ExecCases, Zenon
<1>4. suspect \subseteq suspect' /\ routed \subseteq routed'
  BY <1>SuspectGrows, <1>RoutedGrows, Zenon
<1>5. QED
  BY <1>1, <1>2, <1>3, <1>4, Zenon DEF Forward

-----------------------------------------------------------------------------

\* The steps that add a copy somewhere.
LEMMA CopySteps ==
  ASSUME Next
  PROVE  \/ \E l \in Legs : Send(l) \/ Resend(l)
         \/ \E c \in net : HandleAck(c)
         \/ \E h \in hand : HandleItem(h)
         \/ net' \subseteq net /\ hand' \subseteq hand /\ wait' \subseteq wait /\ UNCHANGED <<inb, map>>
<1>1. ASSUME NEW l \in Legs, LegStep(l), ~Send(l), ~Resend(l)
      PROVE  UNCHANGED <<net, hand, wait, inb, map>>
  BY <1>1, Zenon DEF LegStep, GiveUp, GetFinish, RouteCommit, RouteCommitLost, ByPeer, peerVars
<1>2. ASSUME NEW l \in Legs, NEW n, ExecStep(l, n) PROVE UNCHANGED <<net, hand, wait, inb, map>>
  BY <1>2, ExecMoves, Zenon DEF Moves, ByPeer
<1>3. ASSUME NEW o \in Ops, OpStep(o) PROVE UNCHANGED <<net, hand, wait, inb, map>>
  BY <1>3, Zenon DEF OpStep, PutEnd, PutRevoke, AppendExpire, peerVars
<1>4. ASSUME NEW h \in hand, HandleStale(h) \/ HandleAcked(h)
      PROVE  hand' \subseteq hand /\ UNCHANGED <<net, wait, inb, map>>
  BY <1>4, Zenon DEF HandleStale, HandleAcked, peerVars
<1>5. ASSUME NEW w \in wait, Respond(w)
      PROVE  wait' \subseteq wait /\ UNCHANGED <<net, hand, inb, map>>
  BY <1>5, Zenon DEF Respond, peerVars
<1>6. QED
  BY <1>1, <1>2, <1>3, <1>4, <1>5, Zenon DEF Next

\* A watermark is copied into a request, and from there to the peer.
LEMMA StepAck ==
  ASSUME TypeOK, StreamInv, AckInv, Next
  PROVE  AckInv'
<1>0. Forward
  BY StepForward, Zenon
<1>1. \A p \in Peers : wm[p] \in Nat /\ wm'[p] \in Nat /\ inb[p] \in Nat /\ wm[p] <= wm'[p]
  <2>1. TypeOK'
    BY StepTypes, Zenon
  <2>2. QED
    BY <1>0, <2>1, Zenon DEF TypeOK, Forward
<1>2. \A l \in Legs : emb[l] \in Nat /\ PeerOf[l] \in Peers
  BY LegFacts, Zenon DEF TypeOK
<1>3. \A h \in hand : h.leg \in Legs /\ h.wm \in Nat
  BY Zenon DEF TypeOK, Handed
<1>4. \A l \in Legs : emb'[l] <= wm'[PeerOf[l]]
  <2>1. CASE UNCHANGED emb
    BY <1>1, <1>2, <2>1 DEF AckInv
  <2>2. ASSUME NEW l \in Legs, Send(l) PROVE \A m \in Legs : emb'[m] <= wm'[PeerOf[m]]
    <3>1. emb' = [emb EXCEPT ![l] = wm[PeerOf[l]]] /\ DOMAIN emb = Legs
      BY <2>2, Zenon DEF Send, TypeOK
    <3>2. QED
      BY <1>1, <1>2, <3>1 DEF AckInv
  <2>3. QED
    BY <2>1, <2>2, StreamSteps, Zenon DEF Settles, Stays, Rests
<1>5. (\A p \in Peers : inb'[p] <= wm'[p]) /\ (\A h \in hand' : h.wm <= wm'[PeerOf[h.leg]])
  <2>1. ASSUME NEW c \in net, HandleAck(c)
        PROVE  (\A p \in Peers : inb'[p] <= wm'[p]) /\ (\A h \in hand' : h.wm <= wm'[PeerOf[h.leg]])
    <3> DEFINE p == PeerOf[c.leg]
               w == IF emb[c.leg] > inb[p] THEN emb[c.leg] ELSE inb[p]
    <3>1. c.leg \in Legs
      BY Zenon DEF TypeOK, Copy
    <3>2. p \in Peers /\ w \in Nat /\ w <= wm[p]
      BY <1>1, <1>2, <3>1, Zenon DEF AckInv
    <3>3. inb' = inb \/ inb' = [inb EXCEPT ![p] = w]
      BY <2>1, Zenon DEF HandleAck
    <3>4. \E x \in {0, w} : hand' = hand \cup {[leg |-> c.leg, k |-> c.k, wm |-> x]}
      BY <2>1, Zenon DEF HandleAck
    <3> HIDE DEF w
    <3>5. \A q \in Peers : inb'[q] <= wm'[q]
      <4>1. TAKE q \in Peers
      <4>2. inb'[q] = inb[q] \/ (q = p /\ inb'[q] = w)
        BY <3>2, <3>3, Zenon DEF TypeOK
      <4>3. inb[q] <= wm[q]
        BY Zenon DEF AckInv
      <4>4. QED
        BY <1>1, <3>2, <4>2, <4>3
    <3>6. \A h \in hand' : h.wm <= wm'[PeerOf[h.leg]]
      BY <1>1, <1>2, <1>3, <3>1, <3>2, <3>4 DEF AckInv
    <3>7. QED
      BY <3>5, <3>6, Zenon
  <2>2. CASE UNCHANGED inb /\ hand' \subseteq hand
    BY <1>1, <1>2, <1>3, <2>2 DEF AckInv
  <2>3. QED
    BY <2>1, <2>2, CopySteps, Zenon DEF Send, Resend, HandleItem, peerVars
<1>6. QED
  BY <1>4, <1>5, Zenon DEF AckInv

\* A copy moves from the network to the peer and to its waiters.
LEMMA StepCopy ==
  ASSUME TypeOK, StreamInv, CopyInv, FlightInv, Next
  PROVE  CopyInv'
<1>0. Forward /\ TypeOK'
  BY StepForward, StepTypes, Zenon
<1>1. /\ \A c \in net \cup hand \cup wait : c.leg \in Legs /\ lpc'[c.leg] # "idle"
      /\ \A w \in wait : w.n \in DOMAIN exec'[w.leg]
  <2>1. \A c \in net \cup hand \cup wait : c.leg \in Legs
    BY Zenon DEF TypeOK, Copy, Handed, Waiter
  <2>2. \A w \in wait : w.n \in DOMAIN exec'[w.leg]
    <3>1. TAKE w \in wait
    <3>2. w.leg \in Legs /\ w.n \in DOMAIN exec[w.leg]
      BY <2>1, Zenon DEF CopyInv
    <3>3. exec[w.leg] \in Seq(Exec) /\ exec'[w.leg] \in Seq(Exec)
      BY <1>0, <3>2, Zenon DEF TypeOK
    <3>4. Len(exec[w.leg]) <= Len(exec'[w.leg])
      BY <1>0, <3>2, Zenon DEF Forward
    <3>5. QED
      BY <3>2, <3>3, <3>4
  <2>3. QED
    BY <1>0, <2>1, <2>2, Zenon DEF Forward, CopyInv
<1>2. ASSUME NEW l \in Legs, Send(l) \/ Resend(l) PROVE CopyInv'
  <2>1. lpc'[l] # "idle" /\ UNCHANGED <<hand, wait>>
    BY <1>2, Zenon DEF Send, Resend, TypeOK
  <2>2. \E k : net' = net \cup {[leg |-> l, k |-> k]}
    BY <1>2, Zenon DEF Send, Resend
  <2>3. QED
    BY <1>1, <2>1, <2>2 DEF CopyInv
<1>3. ASSUME NEW c \in net, HandleAck(c) PROVE CopyInv'
  <2>1. \E x : hand' = hand \cup {[leg |-> c.leg, k |-> c.k, wm |-> x]}
    BY <1>3, Zenon DEF HandleAck
  <2>2. net' \subseteq net /\ UNCHANGED wait
    BY <1>3, Zenon DEF HandleAck
  <2>3. QED
    BY <1>1, <2>1, <2>2 DEF CopyInv
<1>4. ASSUME NEW h \in hand, HandleItem(h) PROVE CopyInv'
  <2> DEFINE n == IF map[h.leg] = 0 THEN Len(exec[h.leg]) + 1 ELSE map[h.leg]
  <2>1. wait' = wait \cup {[leg |-> h.leg, k |-> h.k, n |-> n]} /\ hand' \subseteq hand /\ net' = net
    BY <1>4, Zenon DEF HandleItem
  <2>2. n \in DOMAIN exec'[h.leg]
    <3>1. h.leg \in Legs /\ exec[h.leg] \in Seq(Exec) /\ DOMAIN exec = Legs
      BY <1>1, Zenon DEF TypeOK
    <3>2. CASE map[h.leg] = 0
      <4>1. exec' = [exec EXCEPT ![h.leg] = Append(exec[h.leg], Started)]
        BY <1>4, <3>2, Zenon DEF HandleItem
      <4>2. Started \in Exec
        BY Zenon DEF Started, Exec, Outcomes
      <4>3. QED
        BY <3>1, <3>2, <4>1, <4>2
    <3>3. CASE map[h.leg] # 0
      <4>1. exec' = exec
        BY <1>4, <3>3, Zenon DEF HandleItem
      <4>2. map[h.leg] \in 1 .. Len(exec[h.leg])
        BY <3>1, <3>3 DEF FlightInv, FlightOf
      <4>3. QED
        BY <3>1, <3>3, <4>1, <4>2
    <3>4. QED
      BY <3>2, <3>3, Zenon
  <2> HIDE DEF n
  <2>3. QED
    BY <1>1, <2>1, <2>2 DEF CopyInv
<1>5. CASE net' \subseteq net /\ hand' \subseteq hand /\ wait' \subseteq wait
  BY <1>1, <1>5, Zenon DEF CopyInv
<1>6. QED
  BY <1>2, <1>3, <1>4, <1>5, CopySteps, Zenon

\* A leg that is not settled keeps its flight.
LEMMA StepFlight ==
  ASSUME TypeOK, StreamInv, AckInv, CopyInv, FlightInv, Next
  PROVE  FlightInv'
\* An acknowledgement reaches only flights that are over and settled.
<1>CollectedSettled. ASSUME TypeOK, StreamInv, FlightInv, NEW m \in Legs, NEW p \in Peers, NEW w \in Nat,
                            w <= wm[p], Collected(m, p, w)
                     PROVE  lpc[m] = "settled" /\ \A n \in DOMAIN exec[m] : exec[m][n].pc = "done"
  <2> USE <1>CollectedSettled
  <2>1. LegOf(m) /\ FlightOf(m) /\ seq[m] \in Nat /\ wm[p] \in Nat /\ exec[m] \in Seq(Exec)
    BY Zenon DEF StreamInv, FlightInv, TypeOK
  <2>2. lpc[m] # "idle"
    <3>1. map[m] # 0 /\ map[m] \in 0..Len(exec[m])
      BY <2>1, Zenon DEF FlightOf, Collected
    <3>2. Len(exec[m]) # 0
      <4>1. Len(exec[m]) \in Nat
        BY <2>1
      <4>2. QED
        BY <3>1, <4>1
    <3>3. exec[m] # << >>
      BY <3>2
    <3>4. QED
      BY <2>1, <3>3, Zenon DEF FlightOf
  <2>3. seq[m] <= w /\ PeerOf[m] = p /\ exec[m][map[m]].pc = "done"
    BY Zenon DEF Collected
  <2>4. seq[m] <= wm[p]
    <3>1. seq[m] <= w /\ seq[m] \in Nat /\ wm[p] \in Nat
      BY <2>1, <2>3, Zenon
    <3>2. QED
      BY <3>1
  <2>5. lpc[m] = "settled"
    BY <2>1, <2>2, <2>3, <2>4, Zenon DEF LegOf
  <2>6. QED
    BY <2>1, <2>3, <2>5, Zenon DEF FlightOf
<1>0. Forward
  BY StepForward, Zenon
<1> SUFFICES ASSUME NEW l \in Legs PROVE FlightOf(l)'
  BY Zenon DEF FlightInv
<1>1. /\ FlightOf(l) /\ exec[l] \in Seq(Exec) /\ map[l] \in Nat
      /\ DOMAIN exec = Legs /\ DOMAIN map = Legs
      /\ lpc[l] # "idle" => lpc'[l] # "idle"
      /\ lpc[l] = "settled" => lpc'[l] = "settled"
  BY <1>0, Zenon DEF FlightInv, TypeOK, Forward
<1>2. CASE exec'[l] = exec[l] /\ map'[l] = map[l]
  BY <1>1, <1>2, Zenon DEF FlightOf
<1>3. ASSUME NEW n, NEW x \in Exec, Moves(l, n, x) PROVE FlightOf(l)'
  <2>1. exec'[l] = [exec[l] EXCEPT ![n] = x] /\ map' = map /\ n \in DOMAIN exec[l]
    BY <1>1, <1>3, Zenon DEF Moves, ByPeer
  <2>2. map[l] = n
    BY <1>1, <1>3, Zenon DEF Moves, FlightOf
  <2>3. Len(exec'[l]) = Len(exec[l]) /\ DOMAIN exec'[l] = DOMAIN exec[l]
    BY <1>1, <2>1
  <2>4. \A i \in DOMAIN exec[l] : i # n => exec'[l][i] = exec[l][i]
    BY <1>1, <2>1, Zenon
  <2>5. lpc[l] # "idle"
    BY <1>1, <2>1 DEF FlightOf
  <2>6. QED
    BY <1>1, <2>1, <2>2, <2>3, <2>4, <2>5, Zenon DEF FlightOf
<1>4. ASSUME NEW h \in hand, HandleItem(h), Starts(h.leg), h.leg = l PROVE FlightOf(l)'
  <2>1. exec'[l] = Append(exec[l], Started) /\ map'[l] = Len(exec[l]) + 1 /\ map[l] = 0
    BY <1>1, <1>4, Zenon DEF Starts
  <2>2. Started \in Exec
    BY Zenon DEF Started, Exec, Outcomes
  <2>3. \A n \in DOMAIN exec[l] : exec[l][n].pc = "done"
    <3>1. \A n \in DOMAIN exec[l] : n # 0
      BY <1>1
    <3>2. QED
      BY <1>1, <2>1, <3>1, Zenon DEF FlightOf
  <2>4. lpc'[l] # "idle"
    BY <1>1, <1>4, Zenon DEF CopyInv
  <2>5. QED
    BY <1>1, <2>1, <2>2, <2>3, <2>4 DEF FlightOf
<1>5. ASSUME NEW c \in net, HandleAck(c) PROVE FlightOf(l)'
  <2> DEFINE p == PeerOf[c.leg]
             w == IF emb[c.leg] > inb[p] THEN emb[c.leg] ELSE inb[p]
  <2>1. c.leg \in Legs
    BY Zenon DEF TypeOK, Copy
  <2>2. p \in Peers /\ w \in Nat /\ w <= wm[p]
    BY <2>1, LegFacts, Zenon DEF AckInv, TypeOK
  <2>3. exec' = exec /\ (map'[l] = map[l] \/ (map'[l] = 0 /\ Collected(l, p, w)))
    BY <1>5, Zenon DEF HandleAck
  <2> HIDE DEF w
  <2>4. CASE map'[l] = map[l]
    BY <1>2, <2>3, <2>4, Zenon
  <2>5. CASE map'[l] = 0 /\ Collected(l, p, w)
    <3>1. lpc[l] = "settled" /\ \A n \in DOMAIN exec[l] : exec[l][n].pc = "done"
      BY <2>2, <2>5, <1>CollectedSettled, Zenon
    <3>2. lpc'[l] = "settled" /\ map'[l] = 0 /\ exec'[l] = exec[l]
      BY <1>1, <2>3, <2>5, <3>1, Zenon
    <3>3. map'[l] \in 0..Len(exec'[l])
      BY <1>1, <3>2
    <3>4. QED
      BY <1>1, <3>1, <3>2, <3>3, Zenon DEF FlightOf
  <2>6. QED
    BY <2>3, <2>4, <2>5, Zenon
<1>6. \/ exec'[l] = exec[l] /\ map'[l] = map[l]
      \/ \E n : \E x \in Exec : Moves(l, n, x)
      \/ \E h \in hand : HandleItem(h) /\ Starts(h.leg) /\ h.leg = l
      \/ \E c \in net : HandleAck(c)
  <2>1. ASSUME NEW m \in Legs, Send(m) \/ Resend(m) PROVE exec' = exec /\ map' = map
    BY <2>1, Zenon DEF Send, Resend, peerVars
  <2>2. ASSUME NEW h \in hand, HandleItem(h)
        PROVE  \/ exec'[l] = exec[l] /\ map'[l] = map[l]
               \/ HandleItem(h) /\ Starts(h.leg) /\ h.leg = l
    <3>1. map' = [map EXCEPT ![h.leg] = IF map[h.leg] = 0 THEN Len(exec[h.leg]) + 1 ELSE map[h.leg]]
      BY <2>2, Zenon DEF HandleItem
    <3>2. exec' = IF map[h.leg] = 0 THEN [exec EXCEPT ![h.leg] = Append(exec[h.leg], Started)] ELSE exec
      BY <2>2, Zenon DEF HandleItem
    <3>3. QED
      BY <1>1, <2>2, <3>1, <3>2, Zenon DEF Starts
  <2>3. ASSUME NEW m \in Legs, NEW n, NEW x \in Exec, Moves(m, n, x), m # l
        PROVE  exec'[l] = exec[l] /\ map'[l] = map[l]
    BY <1>1, <2>3, Zenon DEF Moves, ByPeer
  <2>4. CASE UNCHANGED map
    <3>1. CASE UNCHANGED exec
      BY <2>4, <3>1, Zenon
    <3>2. ASSUME NEW m \in Legs, NEW n \in 1..MaxExec, NEW x \in Exec, Moves(m, n, x)
          PROVE  (exec'[l] = exec[l] /\ map'[l] = map[l]) \/ (\E i : \E y \in Exec : Moves(l, i, y))
      <4>1. CASE m = l
        BY <3>2, <4>1, Zenon
      <4>2. CASE m # l
        BY <2>3, <3>2, <4>2, Zenon
      <4>3. QED
        BY <4>1, <4>2, Zenon
    <3>3. QED
      BY <2>2, <3>1, <3>2, ExecCases, Zenon
  <2>5. QED
    BY <2>1, <2>2, <2>4, CopySteps, Zenon
<1>7. QED
  BY <1>2, <1>3, <1>4, <1>5, <1>6, Zenon
===============================================================================
