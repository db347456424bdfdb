------------------------- MODULE OwnerTransferProofs -------------------------
(***************************************************************************)
(* What the owner-to-owner transfer protocol guarantees, for any number of *)
(* operations, legs, peers, replays and executions: the slot a coordinator *)
(* lends to a transfer and the order of the candidates; the leases and the *)
(* publication; and what the coordinator takes for a get's value.          *)
(***************************************************************************)
EXTENDS OwnerTransferStreams

-----------------------------------------------------------------------------
\* How the first execution of a leg ended does not change any more.
LEMMA EndsStay ==
  ASSUME TypeOK, TypeOK', Forward, NEW l \in Legs
  PROVE  /\ Finished(l) => Finished(l)'
         /\ Refused(l) => Refused(l)'
         /\ \A outs : EndedWith(l, outs) => EndedWith(l, outs)'
<1>1. exec[l] \in Seq(Exec) /\ exec'[l] \in Seq(Exec)
  BY Zenon DEF TypeOK
<1>2. /\ Len(exec[l]) <= Len(exec'[l])
      /\ \A n \in DOMAIN exec[l] : exec[l][n].pc = "done" => exec'[l][n] = exec[l][n]
      /\ l \in suspect => l \in suspect'
  BY Zenon DEF Forward
<1>3. exec[l] # << >> /\ exec[l][1].pc = "done" => exec'[l] # << >> /\ exec'[l][1] = exec[l][1]
  BY <1>1, <1>2
<1>4. Len(exec[l]) > 1 => Len(exec'[l]) > 1
  BY <1>1, <1>2
<1>5. QED
  BY <1>2, <1>3, <1>4, Zenon DEF Finished, Refused, EndedWith

\* A step that touches no operation, no leg and no hold.
LEMMA LoanFrame ==
  ASSUME TypeOK, TypeOK', Forward, LoanInv, UNCHANGED <<opc, hold, lpc>>
  PROVE  LoanInv'
<1>1. ASSUME NEW l \in Legs PROVE LoanOf(l)'
  <2>1. LoanOf(l) /\ (Finished(l) => Finished(l)') /\ (l \in suspect => l \in suspect')
    BY EndsStay, Zenon DEF LoanInv, Forward
  <2>2. QED
    BY <2>1, Zenon DEF LoanOf
<1>2. QED
  BY <1>1, Zenon DEF LoanInv

\* A step that ends the wait of a leg, or the operation after it: the leg may
\* be let go of if its execution is over or it is in doubt, and so may every
\* other leg of a put.
LEMMA LoanEnds ==
  ASSUME TypeOK, TypeOK', Forward, LoanInv, NEW l \in Legs,
         lpc[l] \in {"waiting", "ready"},
         NEW x \in {"ready", "settled", "open"}, lpc' = [lpc EXCEPT ![l] = x],
         NEW y, opc' = [opc EXCEPT ![OpOf[l]] = y],
         NEW z, hold' = [hold EXCEPT ![OpOf[l]] = z],
         x = "ready" => OpOf[l] \in Gets,
         x = "open" /\ OpOf[l] \in Puts => l \in suspect',
         x \in {"ready", "settled"} => Finished(l)',
         z # hold[OpOf[l]] => Finished(l)'
  PROVE  LoanInv'
<1> USE LegFacts
<1>0. DOMAIN lpc = Legs /\ DOMAIN opc = Ops /\ DOMAIN hold = Ops /\ OpOf[l] \in Ops
  BY Zenon DEF TypeOK
<1>1. ASSUME NEW m \in Legs, m # l, OpOf[m] = OpOf[l]
      PROVE  OpOf[l] \in Puts /\ lpc[m] # "ready" /\ (lpc[l] = "waiting" => lpc[m] # "waiting")
  <2>1. OpOf[l] \in Puts
    BY <1>1, LegAssumption, Zenon
  <2>2. QED
    BY <1>1, <2>1, Zenon DEF LoanInv, LoanOf
<1>2. ASSUME NEW m \in Legs PROVE LoanOf(m)'
  <2>0. LoanOf(m) /\ (Finished(m) => Finished(m)') /\ (m \in suspect => m \in suspect')
    BY EndsStay, Zenon DEF LoanInv, Forward
  <2>1. CASE m = l
    <3>1. lpc'[m] = x /\ opc'[OpOf[m]] = y /\ hold'[OpOf[m]] = z
      BY <1>0, <2>1, Zenon
    <3>2. z # "lent" => Finished(m)'
      BY <2>0, <2>1, Zenon DEF LoanOf
    <3>3. QED
      BY <2>1, <3>1, <3>2, Zenon DEF LoanOf
  <2>2. CASE m # l /\ OpOf[m] # OpOf[l]
    <3>1. lpc'[m] = lpc[m] /\ opc'[OpOf[m]] = opc[OpOf[m]] /\ hold'[OpOf[m]] = hold[OpOf[m]]
      BY <1>0, <2>2, Zenon
    <3>2. QED
      BY <2>0, <3>1, Zenon DEF LoanOf
  <2>3. CASE m # l /\ OpOf[m] = OpOf[l]
    <3>1. lpc'[m] = lpc[m]
      BY <1>0, <2>3, Zenon
    <3>2. OpOf[m] \in Puts /\ lpc[m] # "ready" /\ lpc[m] # "waiting"
      <4>1. lpc[l] = "waiting"
        BY <1>1, <2>3, Zenon DEF LoanInv, LoanOf
      <4>2. QED
        BY <1>1, <2>3, <4>1, Zenon
    <3>3. lpc[m] # "idle" => Finished(m)'
      <4>1. lpc[m] \in {"idle", "waiting", "ready", "settled", "open"}
        BY Zenon DEF TypeOK
      <4>2. lpc[m] = "open" => Finished(m)'
        BY <2>0, <3>2, Zenon DEF LoanOf, Finished
      <4>3. lpc[m] = "settled" => Finished(m)'
        BY <2>0, Zenon DEF LoanOf
      <4>4. QED
        BY <3>2, <4>1, <4>2, <4>3, Zenon
    <3>4. QED
      BY <2>0, <3>1, <3>2, <3>3, Zenon DEF LoanOf
  <2>4. QED
    BY <2>1, <2>2, <2>3, Zenon
<1>3. \A m, k \in Legs : lpc'[m] = "waiting" /\ lpc'[k] = "waiting" /\ OpOf[m] = OpOf[k] => m = k
  BY <1>0, Zenon DEF LoanInv
<1>4. QED
  BY <1>2, <1>3, Zenon DEF LoanInv

\* A sequence with at most one entry.
LEMMA OnlyEntry ==
  \A s \in Seq(Exec) : \A n \in DOMAIN s : Len(s) <= 1 => n = 1 /\ Len(s) = 1 /\ s # << >>
<1> SUFFICES ASSUME NEW s \in Seq(Exec), NEW n \in DOMAIN s, Len(s) <= 1
             PROVE  n = 1 /\ Len(s) = 1 /\ s # << >>
  BY Zenon
<1>1. DOMAIN s = 1 .. Len(s) /\ Len(s) \in Nat
  OBVIOUS
<1>2. n = 1 /\ Len(s) = 1
  BY <1>1
<1>3. s # << >>
  BY <1>2
<1>4. QED
  BY <1>2, <1>3, Zenon

\* The terminal of the only execution is what a waiting leg is answered with;
\* a leg that still waits has not been acknowledged.
LEMMA WaitingAnswers ==
  ASSUME TypeOK, StreamInv, AckInv, CopyInv, FlightInv
  PROVE  /\ \A w \in wait : lpc[w.leg] = "waiting" => w.n = 1 /\ Len(exec[w.leg]) = 1 /\ exec[w.leg] # << >>
         /\ \A h \in hand : seq[h.leg] <= h.wm => lpc[h.leg] # "waiting"
<1>1. ASSUME NEW w \in wait, lpc[w.leg] = "waiting"
      PROVE  w.n = 1 /\ Len(exec[w.leg]) = 1 /\ exec[w.leg] # << >>
  <2>1. w.leg \in Legs
    BY Zenon DEF TypeOK, Waiter
  <2>2. exec[w.leg] \in Seq(Exec) /\ FlightOf(w.leg) /\ w.n \in DOMAIN exec[w.leg]
    BY <2>1, Zenon DEF TypeOK, FlightInv, CopyInv
  <2>3. Len(exec[w.leg]) <= 1
    BY <1>1, <2>2, Zenon DEF FlightOf
  <2>4. QED
    BY <2>2, <2>3, OnlyEntry, Zenon
<1>2. ASSUME NEW h \in hand, seq[h.leg] <= h.wm PROVE lpc[h.leg] # "waiting"
  <2>1. h.leg \in Legs /\ h.wm \in Nat
    BY Zenon DEF TypeOK, Handed
  <2>2. /\ LegOf(h.leg) /\ h.wm <= wm[PeerOf[h.leg]] /\ PeerOf[h.leg] \in Peers
        /\ seq[h.leg] \in Nat /\ wm[PeerOf[h.leg]] \in Nat
    BY <2>1, LegFacts, Zenon DEF StreamInv, AckInv, TypeOK
  <2>3. QED
    BY <1>2, <2>1, <2>2 DEF LegOf
<1>3. QED
  BY <1>1, <1>2, Zenon

\* Every step keeps the loans.
LEMMA StepLoan ==
  ASSUME TypeOK, StreamInv, AckInv, CopyInv, FlightInv, LoanInv, Next
  PROVE  LoanInv'
\* What an answer does to its leg, when the leg waits for it.
<1>AnswerLoan. ASSUME TypeOK, TypeOK', Forward, LoanInv, NEW l \in Legs, NEW k, NEW r, Answer(l, k, r),
                      lpc[l] = "waiting" /\ sent[l] = k => Finished(l)'
               PROVE  LoanInv'
  <2> USE <1>AnswerLoan
  <2>1. CASE UNCHANGED coordVars
    BY <2>1, LoanFrame, Zenon DEF coordVars
  <2>2. CASE lpc[l] = "waiting" /\ Finished(l)' /\ OpOf[l] \in Gets /\ ReceiveGet(l, r)
    <3>1. CASE r = "ok"
      <4>1. /\ lpc' = [lpc EXCEPT ![l] = "ready"]
            /\ opc' = [opc EXCEPT ![OpOf[l]] = "ready"]
            /\ hold' = [hold EXCEPT ![OpOf[l]] = "kept"]
        BY <2>2, <3>1, Zenon DEF ReceiveGet
      <4>2. QED
        BY <2>2, <4>1, LoanEnds, Zenon
    <3>2. CASE r # "ok"
      <4>1. /\ lpc' = [lpc EXCEPT ![l] = "settled"]
            /\ opc' = [opc EXCEPT ![OpOf[l]] = "over"]
            /\ hold' = [hold EXCEPT ![OpOf[l]] = "freed"]
        BY <2>2, <3>2, Zenon DEF ReceiveGet
      <4>2. QED
        BY <2>2, <4>1, LoanEnds, Zenon
    <3>3. QED
      BY <3>1, <3>2, Zenon
  <2>3. CASE lpc[l] = "waiting" /\ Finished(l)' /\ ReceivePut(l, r)
    <3>1. lpc' = [lpc EXCEPT ![l] = "settled"]
      BY <2>3, Zenon DEF ReceivePut
    <3>2. \E y : opc' = [opc EXCEPT ![OpOf[l]] = y]
      BY <2>3, Zenon DEF ReceivePut
    <3>3. \E z : hold' = [hold EXCEPT ![OpOf[l]] = z]
      <4>1. hold = [hold EXCEPT ![OpOf[l]] = hold[OpOf[l]]]
        BY Zenon DEF TypeOK
      <4>2. QED
        BY <2>3, <4>1, Zenon DEF ReceivePut
    <3>4. QED
      BY <2>3, <3>1, <3>2, <3>3, LoanEnds, Zenon
  <2>4. QED
    BY <2>1, <2>2, <2>3, Zenon DEF Answer
\* The first send lends the slot; giving up and finishing let go of it.
<1>CoordLoan. ASSUME TypeOK, TypeOK', Forward, LoanInv, NEW l \in Legs,
                     Send(l) \/ GiveUp(l) \/ GetFinish(l)
              PROVE  LoanInv'
  <2> USE <1>CoordLoan
  <2>0. DOMAIN lpc = Legs /\ DOMAIN opc = Ops /\ DOMAIN hold = Ops /\ OpOf[l] \in Ops
    BY LegFacts, Zenon DEF TypeOK
  <2>1. CASE Send(l)
    <3>1. /\ opc[OpOf[l]] # "sent"
          /\ lpc' = [lpc EXCEPT ![l] = "waiting"]
          /\ opc' = [opc EXCEPT ![OpOf[l]] = "sent"]
          /\ hold' = [hold EXCEPT ![OpOf[l]] = "lent"]
      BY <2>1, Zenon DEF Send
    <3>2. \A m \in Legs : OpOf[m] = OpOf[l] => lpc[m] # "waiting"
      BY <3>1, Zenon DEF LoanInv, LoanOf
    <3>3. ASSUME NEW m \in Legs PROVE LoanOf(m)'
      <4>1. LoanOf(m) /\ (Finished(m) => Finished(m)') /\ (m \in suspect => m \in suspect')
            /\ OpOf[m] \in Ops
        BY EndsStay, LegFacts, Zenon DEF LoanInv, Forward
      <4>2. CASE m = l
        BY <2>0, <3>1, <4>2, Zenon DEF LoanOf
      <4>3. CASE m # l
        <5>1. /\ lpc'[m] = lpc[m]
              /\ hold'[OpOf[m]] = hold[OpOf[m]] \/ hold'[OpOf[m]] = "lent"
              /\ opc'[OpOf[m]] = opc[OpOf[m]] \/ opc'[OpOf[m]] = "sent"
          BY <2>0, <3>1, <4>1, <4>3, Zenon
        <5>2. QED
          BY <4>1, <5>1, Zenon DEF LoanOf
      <4>4. QED
        BY <4>2, <4>3, Zenon
    <3>4. \A m, k \in Legs : lpc'[m] = "waiting" /\ lpc'[k] = "waiting" /\ OpOf[m] = OpOf[k] => m = k
      BY <2>0, <3>1, <3>2, Zenon DEF LoanInv
    <3>5. QED
      BY <3>3, <3>4, Zenon DEF LoanInv
  <2>2. CASE GiveUp(l)
    <3>1. lpc[l] = "waiting" /\ lpc' = [lpc EXCEPT ![l] = "open"]
      BY <2>2, Zenon DEF GiveUp
    <3>2. \E y : opc' = [opc EXCEPT ![OpOf[l]] = y]
      BY <2>2, Zenon DEF GiveUp
    <3>3. hold' = [hold EXCEPT ![OpOf[l]] = hold[OpOf[l]]]
      BY <2>2, Zenon DEF GiveUp, TypeOK
    <3>4. OpOf[l] \in Puts => l \in suspect'
      BY <2>2, Zenon DEF GiveUp
    <3>5. QED
      BY <3>1, <3>2, <3>3, <3>4, LoanEnds, Zenon
  <2>3. CASE GetFinish(l)
    <3>1. lpc[l] = "ready" /\ OpOf[l] \in Gets /\ Finished(l)'
      BY <2>3, EndsStay, Zenon DEF GetFinish, LoanInv, LoanOf
    <3>2. OpOf[l] \notin Puts
      BY <3>1, LegFacts, Zenon
    <3>3. \E x \in {"settled", "open"} : lpc' = [lpc EXCEPT ![l] = x]
      BY <2>3, Zenon DEF GetFinish
    <3>4. opc' = [opc EXCEPT ![OpOf[l]] = "over"]
      BY <2>3, Zenon DEF GetFinish
    <3>5. \E z : hold' = [hold EXCEPT ![OpOf[l]] = z]
      <4>1. hold = [hold EXCEPT ![OpOf[l]] = hold[OpOf[l]]]
        BY Zenon DEF TypeOK
      <4>2. QED
        BY <2>3, <4>1, Zenon DEF GetFinish
    <3>6. QED
      BY <3>1, <3>2, <3>3, <3>4, <3>5, LoanEnds, Zenon
  <2>4. QED
    BY <2>1, <2>2, <2>3, Zenon
\* The end of a replica frees a slot that no candidate reads any more.
<1>OpLoan. ASSUME TypeOK, TypeOK', Forward, LoanInv, NEW o \in Ops, PutEnd(o) \/ PutRevoke(o)
           PROVE  LoanInv'
  <2> USE <1>OpLoan
  <2>0. DOMAIN opc = Ops /\ DOMAIN hold = Ops
    BY Zenon DEF TypeOK
  <2>1. \E y : opc' = [opc EXCEPT ![o] = y]
    BY Zenon DEF PutEnd, PutRevoke
  <2>2. opc[o] # "sent" /\ lpc' = lpc
    BY Zenon DEF PutEnd, PutRevoke
  <2>3. hold' = hold \/ (o \in Puts /\ hold' = [hold EXCEPT ![o] = "freed"])
    BY Zenon DEF PutEnd, PutRevoke
  <2>4. ASSUME NEW l \in Legs PROVE LoanOf(l)'
    <3>1. LoanOf(l) /\ (Finished(l) => Finished(l)') /\ (l \in suspect => l \in suspect')
          /\ OpOf[l] \in Ops
      BY EndsStay, LegFacts, Zenon DEF LoanInv, Forward
    <3>2. CASE OpOf[l] # o
      <4>1. opc'[OpOf[l]] = opc[OpOf[l]] /\ hold'[OpOf[l]] = hold[OpOf[l]]
        BY <2>0, <2>1, <2>3, <3>1, <3>2, Zenon
      <4>2. QED
        BY <2>2, <3>1, <4>1, Zenon DEF LoanOf
    <3>3. CASE OpOf[l] = o /\ hold' = hold
      BY <2>2, <3>1, <3>3, Zenon DEF LoanOf
    <3>4. CASE OpOf[l] = o /\ o \in Puts
      <4>1. lpc[l] # "waiting" /\ lpc[l] # "ready"
        BY <2>2, <3>1, <3>4, LegFacts, Zenon DEF LoanOf
      <4>2. lpc[l] \in {"idle", "waiting", "ready", "settled", "open"}
        BY Zenon DEF TypeOK
      <4>3. lpc[l] # "idle" => Finished(l)'
        BY <3>1, <3>4, <4>1, <4>2, Zenon DEF LoanOf, Finished
      <4>4. QED
        BY <2>2, <3>1, <4>1, <4>3, Zenon DEF LoanOf
    <3>5. QED
      BY <2>3, <3>2, <3>3, <3>4, Zenon
  <2>5. QED
    BY <2>2, <2>4, Zenon DEF LoanInv
<1>0. Forward /\ TypeOK'
  BY StepForward, StepTypes, Zenon
<1>1. ASSUME NEW l \in Legs, LegStep(l) PROVE LoanInv'
  <2>1. CASE Send(l) \/ GiveUp(l) \/ GetFinish(l)
    BY <1>0, <2>1, <1>CoordLoan, Zenon
  <2>2. CASE Resend(l) \/ RouteCommit(l) \/ RouteCommitLost(l)
    BY <1>0, <2>2, LoanFrame, Zenon DEF Resend, RouteCommit, RouteCommitLost, ByPeer, coordVars
  <2>3. QED
    BY <1>1, <2>1, <2>2, Zenon DEF LegStep
<1>2. ASSUME NEW l \in Legs, NEW n, ExecStep(l, n) PROVE LoanInv'
  BY <1>0, <1>2, ExecMoves, LoanFrame, Zenon DEF Moves, ByPeer, coordVars
<1>3. ASSUME NEW o \in Ops, OpStep(o) PROVE LoanInv'
  <2>1. CASE PutEnd(o) \/ PutRevoke(o)
    BY <1>0, <2>1, <1>OpLoan, Zenon
  <2>2. CASE AppendExpire(o)
    BY <1>0, <2>2, LoanFrame, Zenon DEF AppendExpire, coordVars
  <2>3. QED
    BY <1>3, <2>1, <2>2, Zenon DEF OpStep
<1>4. ASSUME NEW c \in net, HandleAck(c) PROVE LoanInv'
  BY <1>0, <1>4, LoanFrame, Zenon DEF HandleAck, coordVars
<1>5. ASSUME NEW h \in hand, HandleItem(h) PROVE LoanInv'
  BY <1>0, <1>5, LoanFrame, Zenon DEF HandleItem, coordVars
<1>6. ASSUME NEW h \in hand, HandleStale(h) PROVE LoanInv'
  <2>1. h.leg \in Legs /\ Answer(h.leg, h.k, "stale")
    BY <1>6, Zenon DEF TypeOK, Handed, HandleStale
  <2>2. lpc[h.leg] = "waiting" /\ sent[h.leg] = h.k => Finished(h.leg)'
    BY <2>1, Zenon DEF Answer, Finished
  <2>3. QED
    BY <1>0, <2>1, <2>2, <1>AnswerLoan, Zenon
<1>7. ASSUME NEW h \in hand, HandleAcked(h) PROVE LoanInv'
  <2>1. h.leg \in Legs /\ Answer(h.leg, h.k, "error")
    BY <1>7, Zenon DEF TypeOK, Handed, HandleAcked
  <2>2. lpc[h.leg] # "waiting"
    BY <1>7, WaitingAnswers, Zenon DEF HandleAcked
  <2>3. QED
    BY <1>0, <2>1, <2>2, <1>AnswerLoan, Zenon
<1>8. ASSUME NEW w \in wait, Respond(w) PROVE LoanInv'
  <2>1. w.leg \in Legs /\ Answer(w.leg, w.k, exec[w.leg][w.n].out)
    BY <1>8, Zenon DEF TypeOK, Waiter, Respond
  <2>2. lpc[w.leg] = "waiting" => Finished(w.leg)'
    <3>1. SUFFICES ASSUME lpc[w.leg] = "waiting" PROVE Finished(w.leg)'
      BY Zenon
    <3>2. w.n = 1 /\ exec[w.leg] # << >>
      BY <3>1, WaitingAnswers, Zenon
    <3>3. exec' = exec /\ exec[w.leg][1].pc = "done"
      BY <1>8, <3>2, Zenon DEF Respond, peerVars
    <3>4. QED
      BY <3>2, <3>3, Zenon DEF Finished
  <2>3. QED
    BY <1>0, <2>1, <2>2, <1>AnswerLoan, Zenon
<1>9. QED
  BY <1>1, <1>2, <1>3, <1>4, <1>5, <1>6, <1>7, <1>8, Zenon DEF Next

-----------------------------------------------------------------------------

\* A step that touches no operation and no leg.
LEMMA TurnFrame ==
  ASSUME TypeOK, TypeOK', Forward, TurnInv, UNCHANGED <<opc, lpc>>
  PROVE  TurnInv'
<1>1. \A l \in Legs : Refused(l) => Refused(l)'
  BY EndsStay, Zenon
<1>2. \A l \in Legs : TurnOf(l)'
  BY <1>1, Zenon DEF TurnInv, TurnOf
<1>3. \A l, m \in Legs : PairOf(l, m)'
  BY <1>1, Zenon DEF TurnInv, PairOf
<1>4. QED
  BY <1>2, <1>3, Zenon DEF TurnInv

\* The end of a wait: another candidate follows only a refusal.
LEMMA TurnEnds ==
  ASSUME TypeOK, TypeOK', Forward, TurnInv, NEW l \in Legs,
         lpc[l] \in {"waiting", "ready"},
         NEW x \in {"ready", "settled", "open"}, lpc' = [lpc EXCEPT ![l] = x],
         NEW y, opc' = [opc EXCEPT ![OpOf[l]] = y], y # "idle",
         y = "trying" => Refused(l)' /\ lpc[l] = "waiting"
  PROVE  TurnInv'
<1>0. DOMAIN lpc = Legs /\ DOMAIN opc = Ops /\ OpOf[l] \in Ops
  BY LegFacts, Zenon DEF TypeOK
<1>1. \A m \in Legs : Refused(m) => Refused(m)'
  BY EndsStay, Zenon
<1>2. \A m \in Legs : /\ lpc'[m] # "idle" <=> lpc[m] # "idle"
                      /\ lpc'[m] = "waiting" => lpc[m] = "waiting"
  BY <1>0, Zenon
<1>3. \A m, k \in Legs : PairOf(m, k)'
  BY <1>1, <1>2, Zenon DEF TurnInv, PairOf
<1>4. ASSUME NEW m \in Legs PROVE TurnOf(m)'
  <2>1. TurnOf(m) /\ OpOf[m] \in Ops
    BY LegFacts, Zenon DEF TurnInv
  <2>2. CASE OpOf[m] # OpOf[l]
    BY <1>0, <1>1, <1>2, <2>1, <2>2, Zenon DEF TurnOf
  <2>3. CASE OpOf[m] = OpOf[l] /\ y # "trying"
    BY <1>0, <2>3, Zenon DEF TurnOf
  <2>4. CASE OpOf[m] = OpOf[l] /\ y = "trying"
    <3>1. m # l /\ lpc[m] # "idle" => Refused(m)
      BY <2>4, Zenon DEF TurnInv, PairOf
    <3>2. QED
      BY <1>0, <1>1, <1>2, <2>4, <3>1, Zenon DEF TurnOf
  <2>5. QED
    BY <2>2, <2>3, <2>4, Zenon
<1>5. QED
  BY <1>3, <1>4, Zenon DEF TurnInv

\* Every step keeps the order of the candidates.
LEMMA StepTurn ==
  ASSUME TypeOK, StreamInv, AckInv, CopyInv, FlightInv, LoanInv, TurnInv, Next
  PROVE  TurnInv'
\* A refusal leads to the next candidate, and nothing else does.
<1>AnswerTurn. ASSUME TypeOK, TypeOK', Forward, TurnInv, NEW l \in Legs, NEW k, NEW r, Answer(l, k, r),
                      lpc[l] = "waiting" /\ sent[l] = k /\ r \in Refusals => Refused(l)'
               PROVE  TurnInv'
  <2> USE <1>AnswerTurn
  <2>1. CASE UNCHANGED coordVars
    BY <2>1, TurnFrame, Zenon DEF coordVars
  <2>2. CASE lpc[l] = "waiting" /\ ReceiveGet(l, r)
    <3>1. PICK x \in {"ready", "settled"} : lpc' = [lpc EXCEPT ![l] = x]
      BY <2>2, Zenon DEF ReceiveGet
    <3>2. PICK y \in {"ready", "over"} : opc' = [opc EXCEPT ![OpOf[l]] = y]
      BY <2>2, Zenon DEF ReceiveGet
    <3>3. /\ x \in {"ready", "settled", "open"} /\ lpc[l] \in {"waiting", "ready"} /\ y # "idle"
          /\ y = "trying" => Refused(l)' /\ lpc[l] = "waiting"
      BY <2>2, <3>1, <3>2, Zenon
    <3>4. QED
      BY <3>1, <3>2, <3>3, TurnEnds, Zenon
  <2>3. CASE lpc[l] = "waiting" /\ sent[l] = k /\ ReceivePut(l, r)
    <3>1. lpc' = [lpc EXCEPT ![l] = "settled"]
      BY <2>3, Zenon DEF ReceivePut
    <3>2. PICK y \in {"over", "ending", "trying"} :
             /\ opc' = [opc EXCEPT ![OpOf[l]] = y]
             /\ y = "trying" => r \in Refusals
      BY <2>3, Zenon DEF ReceivePut
    <3>3. /\ lpc[l] \in {"waiting", "ready"} /\ y # "idle"
          /\ y = "trying" => Refused(l)' /\ lpc[l] = "waiting"
      BY <2>3, <3>2, Zenon
    <3>4. QED
      BY <3>1, <3>2, <3>3, TurnEnds, Zenon
  <2>4. QED
    BY <2>1, <2>2, <2>3, Zenon DEF Answer
\* A candidate is asked only after the ones before it refused.
<1>CoordTurn. ASSUME TypeOK, TypeOK', Forward, LoanInv, TurnInv, NEW l \in Legs,
                     Send(l) \/ GiveUp(l) \/ GetFinish(l)
              PROVE  TurnInv'
  <2> USE <1>CoordTurn
  <2>0. DOMAIN lpc = Legs /\ DOMAIN opc = Ops /\ OpOf[l] \in Ops
    BY LegFacts, Zenon DEF TypeOK
  <2>1. CASE Send(l)
    <3>1. /\ opc[OpOf[l]] \in {"idle", "trying"}
          /\ lpc' = [lpc EXCEPT ![l] = "waiting"]
          /\ opc' = [opc EXCEPT ![OpOf[l]] = "sent"]
      BY <2>1, Zenon DEF Send
    <3>2. \A m \in Legs : Refused(m) => Refused(m)'
      BY EndsStay, Zenon
    <3>3. \A m \in Legs : OpOf[m] = OpOf[l] /\ lpc[m] # "idle" => Refused(m) /\ lpc[m] # "waiting"
      BY <3>1, Zenon DEF TurnInv, TurnOf, LoanInv, LoanOf
    <3>4. /\ lpc'[l] = "waiting" /\ opc'[OpOf[l]] = "sent"
          /\ \A m \in Legs : m # l => lpc'[m] = lpc[m]
      BY <2>0, <3>1, Zenon
    <3>5. \A m \in Legs : TurnOf(m)'
      <4>1. TAKE m \in Legs
      <4>2. TurnOf(m) /\ OpOf[m] \in Ops
        BY LegFacts, Zenon DEF TurnInv
      <4>3. CASE OpOf[m] = OpOf[l]
        BY <3>4, <4>3, Zenon DEF TurnOf
      <4>4. CASE OpOf[m] # OpOf[l]
        BY <2>0, <3>1, <3>2, <3>4, <4>2, <4>4, Zenon DEF TurnOf
      <4>5. QED
        BY <4>3, <4>4, Zenon
    <3>6. \A m, k \in Legs : PairOf(m, k)'
      BY <3>2, <3>3, <3>4, Zenon DEF TurnInv, PairOf
    <3>7. QED
      BY <3>5, <3>6, Zenon DEF TurnInv
  <2>2. CASE GiveUp(l)
    <3>1. lpc[l] = "waiting" /\ lpc' = [lpc EXCEPT ![l] = "open"]
      BY <2>2, Zenon DEF GiveUp
    <3>2. PICK y \in {"over", "ending", "trying"} :
             /\ opc' = [opc EXCEPT ![OpOf[l]] = y]
             /\ y = "trying" => l \in suspect'
      BY <2>2, Zenon DEF GiveUp
    <3>3. /\ lpc[l] \in {"waiting", "ready"} /\ y # "idle"
          /\ y = "trying" => Refused(l)' /\ lpc[l] = "waiting"
      BY <3>1, <3>2, Zenon DEF Refused
    <3>4. QED
      BY <3>1, <3>2, <3>3, TurnEnds, Zenon
  <2>3. CASE GetFinish(l)
    <3>1. PICK x \in {"settled", "open"} : lpc[l] = "ready" /\ lpc' = [lpc EXCEPT ![l] = x]
      BY <2>3, Zenon DEF GetFinish
    <3>2. opc' = [opc EXCEPT ![OpOf[l]] = "over"]
      BY <2>3, Zenon DEF GetFinish
    <3>3. x \in {"ready", "settled", "open"} /\ lpc[l] \in {"waiting", "ready"}
      BY <3>1, Zenon
    <3>4. QED
      BY <3>1, <3>2, <3>3, TurnEnds, Zenon
  <2>4. QED
    BY <2>1, <2>2, <2>3, Zenon
<1>0. Forward /\ TypeOK'
  BY StepForward, StepTypes, Zenon
<1>1. ASSUME NEW l \in Legs, LegStep(l) PROVE TurnInv'
  <2>1. CASE Send(l) \/ GiveUp(l) \/ GetFinish(l)
    BY <1>0, <2>1, <1>CoordTurn, Zenon
  <2>2. CASE Resend(l) \/ RouteCommit(l) \/ RouteCommitLost(l)
    BY <1>0, <2>2, TurnFrame, Zenon DEF Resend, RouteCommit, RouteCommitLost, ByPeer, coordVars
  <2>3. QED
    BY <1>1, <2>1, <2>2, Zenon DEF LegStep
<1>2. ASSUME NEW l \in Legs, NEW n, ExecStep(l, n) PROVE TurnInv'
  BY <1>0, <1>2, ExecMoves, TurnFrame, Zenon DEF Moves, ByPeer, coordVars
<1>3. ASSUME NEW o \in Ops, OpStep(o) PROVE TurnInv'
  <2>1. CASE PutEnd(o) \/ PutRevoke(o)
    <3>1. lpc' = lpc /\ \E y \in {"revoke", "over"} : opc' = [opc EXCEPT ![o] = y]
      BY <2>1, Zenon DEF PutEnd, PutRevoke
    <3>2. \A l \in Legs : Refused(l) => Refused(l)'
      BY <1>0, EndsStay, Zenon
    <3>3. \A l \in Legs : TurnOf(l)'
      BY <3>1, <3>2, LegFacts, Zenon DEF TurnInv, TurnOf, TypeOK
    <3>4. \A l, m \in Legs : PairOf(l, m)'
      BY <3>1, <3>2, Zenon DEF TurnInv, PairOf
    <3>5. QED
      BY <3>3, <3>4, Zenon DEF TurnInv
  <2>2. CASE AppendExpire(o)
    BY <1>0, <2>2, TurnFrame, Zenon DEF AppendExpire, coordVars
  <2>3. QED
    BY <1>3, <2>1, <2>2, Zenon DEF OpStep
<1>4. ASSUME NEW c \in net, HandleAck(c) PROVE TurnInv'
  BY <1>0, <1>4, TurnFrame, Zenon DEF HandleAck, coordVars
<1>5. ASSUME NEW h \in hand, HandleItem(h) PROVE TurnInv'
  BY <1>0, <1>5, TurnFrame, Zenon DEF HandleItem, coordVars
<1>6. ASSUME NEW h \in hand, HandleStale(h) PROVE TurnInv'
  <2>1. h.leg \in Legs /\ Answer(h.leg, h.k, "stale")
    BY <1>6, Zenon DEF TypeOK, Handed, HandleStale
  <2>2. lpc[h.leg] = "waiting" /\ sent[h.leg] = h.k => Refused(h.leg)'
    BY <2>1, Zenon DEF Answer, Refused
  <2>3. QED
    BY <1>0, <2>1, <2>2, <1>AnswerTurn, Zenon
<1>7. ASSUME NEW h \in hand, HandleAcked(h) PROVE TurnInv'
  <2>1. h.leg \in Legs /\ Answer(h.leg, h.k, "error")
    BY <1>7, Zenon DEF TypeOK, Handed, HandleAcked
  <2>2. lpc[h.leg] # "waiting"
    BY <1>7, WaitingAnswers, Zenon DEF HandleAcked
  <2>3. QED
    BY <1>0, <2>1, <2>2, <1>AnswerTurn, Zenon
<1>8. ASSUME NEW w \in wait, Respond(w) PROVE TurnInv'
  <2> DEFINE r == exec[w.leg][w.n].out
  <2>1. w.leg \in Legs /\ Answer(w.leg, w.k, r)
    BY <1>8, Zenon DEF TypeOK, Waiter, Respond
  <2>2. lpc[w.leg] = "waiting" /\ r \in Refusals => Refused(w.leg)'
    <3>1. SUFFICES ASSUME lpc[w.leg] = "waiting", r \in Refusals PROVE Refused(w.leg)'
      BY Zenon
    <3>2. w.n = 1 /\ exec[w.leg] # << >>
      BY <3>1, WaitingAnswers, Zenon
    <3>3. exec' = exec /\ exec[w.leg][1].pc = "done"
      BY <1>8, <3>2, Zenon DEF Respond, peerVars
    <3>4. QED
      BY <3>1, <3>2, <3>3, Zenon DEF Refused
  <2>3. QED
    BY <1>0, <2>1, <2>2, <1>AnswerTurn, Zenon
<1>9. QED
  BY <1>1, <1>2, <1>3, <1>4, <1>5, <1>6, <1>7, <1>8, Zenon DEF Next

-----------------------------------------------------------------------------
\* The steps that change a lease record or the master.
LEMMA LeaseSteps ==
  ASSUME Next
  PROVE  \/ \E l \in Legs : Send(l) \/ RouteCommit(l) \/ RouteCommitLost(l)
         \/ \E l \in Legs, n \in 1..MaxExec : ExecStep(l, n)
         \/ \E o \in Ops : PutRevoke(o) \/ AppendExpire(o)
         \/ UNCHANGED <<lease, mop, routed>>
<1>1. ASSUME NEW l \in Legs, Resend(l) \/ GiveUp(l) \/ GetFinish(l)
      PROVE  UNCHANGED <<lease, mop, routed>>
  BY <1>1, Zenon DEF Resend, GiveUp, GetFinish, peerVars, masterVars
<1>2. ASSUME NEW o \in Ops, PutEnd(o) PROVE UNCHANGED <<lease, mop, routed>>
  BY <1>2, Zenon DEF PutEnd, peerVars, masterVars
<1>3. ASSUME NEW c \in net, HandleAck(c) PROVE UNCHANGED <<lease, mop, routed>>
  BY <1>3, Zenon DEF HandleAck, masterVars
<1>4. ASSUME NEW h \in hand, HandleStale(h) \/ HandleAcked(h) \/ HandleItem(h)
      PROVE  UNCHANGED <<lease, mop, routed>>
  BY <1>4, Zenon DEF HandleStale, HandleAcked, HandleItem, peerVars, masterVars
<1>5. ASSUME NEW w \in wait, Respond(w) PROVE UNCHANGED <<lease, mop, routed>>
  BY <1>5, Zenon DEF Respond, peerVars, masterVars
<1>6. QED
  BY <1>1, <1>2, <1>3, <1>4, <1>5, Zenon DEF Next, LegStep, OpStep

\* An execution keeps its place in the sequence.
LEMMA MovedEntry ==
  ASSUME TypeOK, NEW l \in Legs, NEW n, NEW x \in Exec, Moves(l, n, x)
  PROVE  /\ n \in DOMAIN exec'[l] /\ exec'[l][n] = x
         /\ Len(exec'[l]) = Len(exec[l]) /\ exec'[l] \in Seq(Exec)
         /\ \A m \in Legs : m # l => exec'[m] = exec[m]
<1>1. exec[l] \in Seq(Exec) /\ DOMAIN exec = Legs
  BY Zenon DEF TypeOK
<1>2. exec' = [exec EXCEPT ![l] = [exec[l] EXCEPT ![n] = x]] /\ n \in DOMAIN exec[l]
  BY Zenon DEF Moves
<1>3. exec'[l] = [exec[l] EXCEPT ![n] = x]
  BY <1>1, <1>2, Zenon
<1>4. exec'[l] \in Seq(Exec) /\ Len(exec'[l]) = Len(exec[l]) /\ DOMAIN exec'[l] = DOMAIN exec[l]
  BY <1>1, <1>2, <1>3
<1>5. QED
  BY <1>1, <1>2, <1>3, <1>4, Zenon

\* A lease goes no later than the execution that took it.
LEMMA StepLease ==
  ASSUME TypeOK, StreamInv, LeaseHasExecution, Next
  PROVE  LeaseHasExecution'
<1>0. TypeOK' /\ Forward
  BY StepTypes, StepForward, Zenon
<1> SUFFICES ASSUME NEW l \in Legs, lease'[l] = "active"
             PROVE  \E n \in DOMAIN exec'[l] : exec'[l][n].pc = "access"
  BY Zenon DEF LeaseHasExecution
<1>1. exec[l] \in Seq(Exec) /\ DOMAIN lease = Legs
  BY Zenon DEF TypeOK
<1>2. Kind[OpOf[l]] = "memory" /\ OpOf[l] \notin Puts
  <2>1. lease'[l] \in LeaseStates(l)
    BY <1>0, Zenon DEF TypeOK, LeaseStates
  <2>2. QED
    BY <2>1, LegFacts, StatesOf DEF Puts
<1>3. ASSUME NEW n \in 1..MaxExec, ExecStep(l, n)
      PROVE  \E i \in DOMAIN exec'[l] : exec'[l][i].pc = "access"
  <2>1. MemoryAcquire(l, n) \/ MemoryWrite(l, n)
    BY <1>2, <1>3, Zenon DEF ExecStep, SsdStage, SsdWrite, PutPrepare, PutAdopt, PutReplayed, PutRead
  <2>2. MemoryAcquire(l, n) /\ exec' = [exec EXCEPT ![l][n] = Accessing] /\ n \in DOMAIN exec[l]
    BY <1>1, <2>1, Zenon DEF MemoryAcquire, MemoryWrite, Runs
  <2>3. Moves(l, n, Accessing)
    BY <2>2, DoneFacts, Zenon DEF MemoryAcquire, Runs, Moves
  <2>4. n \in DOMAIN exec'[l] /\ exec'[l][n] = Accessing
    BY <2>3, DoneFacts, MovedEntry
  <2>5. QED
    BY <2>4, DoneFacts, Zenon
<1>4. ASSUME lease[l] = "active", exec'[l] = exec[l]
      PROVE  \E n \in DOMAIN exec'[l] : exec'[l][n].pc = "access"
  BY <1>4, Zenon DEF LeaseHasExecution
<1>5. ASSUME lease[l] = "active", NEW h \in hand, HandleItem(h), Starts(h.leg)
      PROVE  \E n \in DOMAIN exec'[l] : exec'[l][n].pc = "access"
  <2>1. PICK n \in DOMAIN exec[l] : exec[l][n].pc = "access"
    BY <1>5, Zenon DEF LeaseHasExecution
  <2>2. exec'[l] = exec[l] \/ exec'[l] = Append(exec[l], Started)
    BY <1>5, Zenon DEF Starts, TypeOK
  <2>3. Started \in Exec
    BY Zenon DEF Started, Exec, Outcomes
  <2>4. n \in DOMAIN exec'[l] /\ exec'[l][n] = exec[l][n]
    BY <1>1, <2>1, <2>2, <2>3
  <2>5. QED
    BY <2>1, <2>4, Zenon
<1>6. \/ lease[l] = "active"
      \/ \E n \in 1..MaxExec : ExecStep(l, n)
  <2>1. ASSUME NEW m \in Legs, RouteCommit(m) PROVE lease[l] = "active"
    BY <1>1, <2>1, Zenon DEF RouteCommit
  <2>2. ASSUME NEW m \in Legs, NEW n \in 1..MaxExec, ExecStep(m, n), m # l PROVE lease[l] = "active"
    BY <1>1, <2>2, Zenon DEF ExecStep, MemoryAcquire, MemoryWrite, SsdStage, SsdWrite, PutPrepare,
                      PutAdopt, PutReplayed, PutRead
  <2>3. UNCHANGED lease => lease[l] = "active"
    BY Zenon
  <2>4. QED
    BY <2>1, <2>2, <2>3, LeaseSteps, Zenon DEF Send, RouteCommitLost, PutRevoke, AppendExpire, peerVars
<1>7. ASSUME NEW m \in Legs, NEW n \in 1..MaxExec, NEW x \in Exec, Moves(m, n, x), m # l
      PROVE  exec'[l] = exec[l]
  BY <1>7, MovedEntry, Zenon
<1>8. QED
  BY <1>3, <1>4, <1>5, <1>6, <1>7, ExecCases, Zenon

-----------------------------------------------------------------------------

\* Two candidates of a put that both came through are a doubtful case.
LEMMA BothEnded ==
  ASSUME TypeOK, FlightInv, TurnInv, NEW l \in Legs, NEW m \in Legs, l # m, OpOf[l] = OpOf[m],
         EndedWith(l, {"ok", "error"}), EndedWith(m, {"ok", "error"})
  PROVE  Doubtful(OpOf[l])
<1>1. ASSUME NEW k \in {l, m} PROVE lpc[k] # "idle"
  <2>1. FlightOf(k) /\ exec[k] # << >>
    BY DEF FlightInv, EndedWith
  <2>2. QED
    BY <2>1, Zenon DEF FlightOf
<1>2. Refused(l) \/ Refused(m)
  BY <1>1, Zenon DEF TurnInv, PairOf
<1>3. ASSUME NEW k \in {l, m}, Refused(k) PROVE k \in suspect \/ Len(exec[k]) > 1
  BY <1>3, Zenon DEF Refused, EndedWith, Refusals
<1>4. QED
  BY <1>2, <1>3, Zenon DEF Doubtful, LegsOf

\* Doubts are never resolved.
LEMMA DoubtStays ==
  ASSUME TypeOK, TypeOK', Forward, NEW o
  PROVE  Doubtful(o) => Doubtful(o)'
<1>1. \A l \in Legs : Len(exec[l]) > 1 => Len(exec'[l]) > 1
  <2>1. TAKE l \in Legs
  <2>2. exec[l] \in Seq(Exec) /\ exec'[l] \in Seq(Exec) /\ Len(exec[l]) <= Len(exec'[l])
    BY Zenon DEF TypeOK, Forward
  <2>3. QED
    BY <2>2
<1>2. QED
  BY <1>1, Zenon DEF Doubtful, LegsOf, Forward

\* The parts of PublishInv that no step can disturb by itself.
LEMMA PublishFrame ==
  ASSUME TypeOK, TypeOK', Forward, PublishInv
  PROVE  /\ \A l \in Legs : lease'[l] = lease[l] \/ lease'[l] \notin {"pending", "committed"}
                              => (lease'[l] \in {"pending", "committed"} => EndedWith(l, {"ok"})')
         /\ \A l \in routed : l \in routed' /\ EndedWith(l, {"ok", "error"})'
         /\ \A l \in Legs : lease'[l] = "committed" /\ lease[l] = "committed"
                              => l \in routed' \/ Doubtful(OpOf[l])'
<1>1. ASSUME NEW l \in Legs
      PROVE  /\ EndedWith(l, {"ok"}) => EndedWith(l, {"ok"})'
             /\ EndedWith(l, {"ok", "error"}) => EndedWith(l, {"ok", "error"})'
  BY EndsStay, Zenon
<1>2. routed \subseteq Legs /\ routed \subseteq routed'
  BY Zenon DEF TypeOK, Forward
<1>3. QED
  BY <1>1, <1>2, DoubtStays, Zenon DEF PublishInv, PublishOf, CommittedIsRouted

\* What the master's answer leaves behind, seen from the legs.
LEMMA AppendPublish ==
  ASSUME TypeOK, TypeOK', Forward, PublishInv, NEW l \in Legs, NEW a \in BOOLEAN, AppendDone(l, a),
         EndedWith(l, {"ok", "error"})'
  PROVE  /\ \A m \in routed' : EndedWith(m, {"ok", "error"})'
         /\ \A o \in Ops : mop'[o] = "appended" => \E m \in routed' : OpOf[m] = o
         /\ a => l \in routed' \/ \E m \in routed : OpOf[m] = OpOf[l]
<1>0. OpOf[l] \in Ops /\ DOMAIN mop = Ops /\ routed \subseteq routed'
  BY LegFacts, Zenon DEF TypeOK, Forward
<1>1. routed' \subseteq routed \cup {l}
  BY Zenon DEF AppendDone, masterVars
<1>2. \A o \in Ops : mop'[o] = "appended" => mop[o] = "appended" \/ (o = OpOf[l] /\ l \in routed')
  BY <1>0, Zenon DEF AppendDone, masterVars
<1>3. a => l \in routed' \/ mop[OpOf[l]] = "appended"
  BY Zenon DEF AppendDone, masterVars
<1>4. QED
  BY <1>0, <1>1, <1>2, <1>3, PublishFrame, Zenon DEF PublishInv

\* Every step keeps what is published.
LEMMA StepPublish ==
  ASSUME TypeOK, StreamInv, FlightInv, TurnInv, PublishInv, Next
  PROVE  PublishInv'
\* An execution publishes at most the copy it offers itself.
<1>ExecPublish. ASSUME TypeOK, TypeOK', Forward, PublishInv, NEW l \in Legs, NEW n, ExecStep(l, n)
                PROVE  PublishInv'
  <2> USE <1>ExecPublish
  <2>0. DOMAIN lease = Legs /\ routed' \subseteq Legs
    BY Zenon DEF TypeOK
  <2>1. \A m \in Legs : m # l => lease'[m] = lease[m]
    BY <2>0, Zenon DEF ExecStep, MemoryAcquire, MemoryWrite, SsdStage, SsdWrite, PutPrepare,
                PutAdopt, PutReplayed, PutRead
  <2>2. ASSUME NEW out \in {"ok", "error", "nospace", "aborted"}, Moves(l, n, Done(out))
        PROVE  EndedWith(l, {out})'
    <3>1. Done(out) \in Exec /\ Done(out).pc = "done" /\ Done(out).out = out
      BY DoneFacts, Zenon DEF Outcomes, Refusals
    <3>2. n \in DOMAIN exec'[l] /\ exec'[l][n] = Done(out) /\ exec'[l] \in Seq(Exec)
      BY <2>2, <3>1, MovedEntry, Zenon
    <3>3. Len(exec'[l]) > 1 \/ (n = 1 /\ exec'[l] # << >>)
      <4>1. CASE Len(exec'[l]) <= 1
        BY <3>2, <4>1, OnlyEntry, Zenon
      <4>2. CASE ~ (Len(exec'[l]) <= 1)
        BY <3>2, <4>2
      <4>3. QED
        BY <4>1, <4>2, Zenon
    <3>4. QED
      BY <3>1, <3>2, <3>3, Zenon DEF EndedWith
  <2>3. CASE PutAdopt(l, n)
    <3>1. PICK a \in BOOLEAN, out \in {"ok", "error"} :
             AppendDone(l, a) /\ exec' = [exec EXCEPT ![l][n] = Done(out)]
      BY <2>3, Zenon DEF PutAdopt
    <3>2. Moves(l, n, Done(out))
      BY <2>3, <3>1, DoneFacts, Zenon DEF PutAdopt, Runs, Moves, Outcomes
    <3>3. EndedWith(l, {"ok", "error"})'
      BY <2>2, <3>2, Zenon DEF EndedWith
    <3>4. lease' = lease
      BY <2>3, Zenon DEF PutAdopt
    <3>5. /\ \A m \in routed' : EndedWith(m, {"ok", "error"})'
          /\ \A o \in Ops : mop'[o] = "appended" => \E m \in routed' : OpOf[m] = o
      BY <3>1, <3>3, AppendPublish, Zenon
    <3>6. QED
      BY <3>4, <3>5, PublishFrame, Zenon DEF PublishInv, PublishOf, CommittedIsRouted
  <2>4. CASE ~PutAdopt(l, n)
    <3>1. UNCHANGED <<mop, routed>>
      BY <2>4, Zenon DEF ExecStep, MemoryAcquire, MemoryWrite, SsdStage, SsdWrite, PutPrepare,
                  PutReplayed, PutRead, masterVars
    <3>2. lease'[l] # lease[l] => lease'[l] # "committed"
                                 /\ (lease'[l] = "pending" => PutRead(l, n))
      BY <2>0, <2>4, Zenon DEF ExecStep, MemoryAcquire, MemoryWrite, SsdStage, SsdWrite, PutPrepare,
                        PutReplayed, PutRead
    <3>3. PutRead(l, n) /\ lease'[l] = "pending" => EndedWith(l, {"ok"})'
      <4>1. SUFFICES ASSUME PutRead(l, n), lease'[l] = "pending" PROVE EndedWith(l, {"ok"})'
        BY Zenon
      <4>2. exec' = [exec EXCEPT ![l][n] = Done("ok")]
        BY <2>0, <4>1, Zenon DEF PutRead
      <4>3. Moves(l, n, Done("ok"))
        BY <4>1, <4>2, DoneFacts, Zenon DEF PutRead, Runs, Moves, Outcomes
      <4>4. QED
        BY <2>2, <4>3, Zenon
    <3>4. \A m \in Legs : lease'[m] \in {"pending", "committed"} => EndedWith(m, {"ok"})'
      BY <2>1, <3>2, <3>3, PublishFrame, Zenon
    <3>5. \A m \in Legs : lease'[m] = "committed" => lease[m] = "committed"
      BY <2>1, <3>2, Zenon
    <3>6. QED
      BY <3>1, <3>4, <3>5, PublishFrame, Zenon DEF PublishInv, PublishOf, CommittedIsRouted
  <2>5. QED
    BY <2>3, <2>4, Zenon
\* The route commit of a replica believes the master only about itself.
<1>RoutePublish. ASSUME TypeOK, TypeOK', Forward, FlightInv, TurnInv, PublishInv, NEW l \in Legs,
                        RouteCommit(l) \/ RouteCommitLost(l)
                 PROVE  PublishInv'
  <2> USE <1>RoutePublish
  <2>0. DOMAIN lease = Legs /\ routed \subseteq Legs
    BY Zenon DEF TypeOK
  <2>1. PICK a \in BOOLEAN : /\ AppendDone(l, a) /\ lease[l] = "pending"
                             /\ \/ lease' = [lease EXCEPT ![l] = IF a THEN "committed" ELSE "aborted"]
                                \/ UNCHANGED lease
    BY Zenon DEF RouteCommit, RouteCommitLost
  <2>2. EndedWith(l, {"ok"}) /\ EndedWith(l, {"ok", "error"})
    BY <2>1, Zenon DEF PublishInv, PublishOf, EndedWith
  <2>3. EndedWith(l, {"ok"})' /\ EndedWith(l, {"ok", "error"})'
    BY <2>2, EndsStay, Zenon
  <2>4. /\ \A m \in routed' : EndedWith(m, {"ok", "error"})'
        /\ \A o \in Ops : mop'[o] = "appended" => \E m \in routed' : OpOf[m] = o
        /\ a => l \in routed' \/ \E m \in routed : OpOf[m] = OpOf[l]
    BY <2>1, <2>3, AppendPublish, Zenon
  <2>5. a => l \in routed' \/ Doubtful(OpOf[l])'
    <3>1. SUFFICES ASSUME NEW m \in routed, OpOf[m] = OpOf[l], m # l
                   PROVE  Doubtful(OpOf[l])'
      BY <2>4, Zenon DEF Forward
    <3>2. EndedWith(m, {"ok", "error"})
      BY Zenon DEF PublishInv, PublishOf, TypeOK
    <3>3. QED
      BY <2>0, <2>2, <3>1, <3>2, BothEnded, DoubtStays, Zenon
  <2>6. \A m \in Legs : lease'[m] \in {"pending", "committed"} => EndedWith(m, {"ok"})'
    BY <2>0, <2>1, <2>3, PublishFrame, Zenon
  <2>7. \A m \in Legs : lease'[m] = "committed" => m \in routed' \/ Doubtful(OpOf[m])'
    BY <2>0, <2>1, <2>5, PublishFrame, Zenon
  <2>8. QED
    BY <2>4, <2>6, <2>7, Zenon DEF PublishInv, PublishOf, CommittedIsRouted
<1>0. Forward /\ TypeOK'
  BY StepForward, StepTypes, Zenon
<1>1. ASSUME UNCHANGED <<lease, routed>>, \A o \in Ops : mop'[o] = "appended" => mop[o] = "appended"
      PROVE  PublishInv'
  BY <1>0, <1>1, PublishFrame, Zenon DEF PublishInv, PublishOf, CommittedIsRouted
<1>2. ASSUME NEW l \in Legs, Send(l) PROVE PublishInv'
  <2>1. \A o \in Ops : mop'[o] = "appended" => mop[o] = "appended"
    BY <1>2, Zenon DEF Send, TypeOK
  <2>2. QED
    BY <1>1, <1>2, <2>1, Zenon DEF Send, peerVars
<1>3. ASSUME NEW o \in Ops, PutRevoke(o) \/ AppendExpire(o) PROVE PublishInv'
  <2>1. \A q \in Ops : mop'[q] = "appended" => mop[q] = "appended"
    BY <1>3, Zenon DEF PutRevoke, AppendExpire, TypeOK
  <2>2. QED
    BY <1>1, <1>3, <2>1, Zenon DEF PutRevoke, AppendExpire, peerVars
<1>4. ASSUME NEW l \in Legs, RouteCommit(l) \/ RouteCommitLost(l) PROVE PublishInv'
  BY <1>0, <1>4, <1>RoutePublish, Zenon
<1>5. ASSUME NEW l \in Legs, NEW n, ExecStep(l, n) PROVE PublishInv'
  BY <1>0, <1>5, <1>ExecPublish, Zenon
<1>6. QED
  BY <1>1, <1>2, <1>3, <1>4, <1>5, LeaseSteps, Zenon

-----------------------------------------------------------------------------

\* The transfer protocol keeps its invariant, type correctness included,
\* whatever is replayed, late or lost (owner_segment.rs, client_kv_api).
THEOREM TransferHolds == Spec => []TransferInv
\* The streams start empty.
<1>InitStream. Init => StreamInv
  BY LegFacts DEF Init, StreamInv, StreamOf, LegOf, Distinct
\* Nothing is under way at first.
<1>InitCopies. Init => AckInv /\ CopyInv /\ FlightInv
  BY LegFacts DEF Init, AckInv, CopyInv, FlightInv, FlightOf
\* No slot is lent at first.
<1>InitLoan. Init => LoanInv
  BY DEF Init, LoanInv, LoanOf
\* No candidate is tried at first.
<1>InitTurn. Init => TurnInv
  BY DEF Init, TurnInv, TurnOf, PairOf
\* No lease is taken and nothing is published at first.
<1>InitPublish. Init => LeaseHasExecution /\ PublishInv
  BY Zenon DEF Init, LeaseHasExecution, PublishInv, PublishOf, CommittedIsRouted
\* Stuttering steps.
<1>TransferFrame. TransferInv /\ UNCHANGED vars => TransferInv'
  <2> SUFFICES ASSUME TransferInv, UNCHANGED vars PROVE TransferInv'
    BY Zenon
  <2>1. TypeOK' /\ StreamInv'
    BY StepTypes, StepStream, Zenon DEF TransferInv
  <2>2. AckInv' /\ CopyInv' /\ FlightInv'
    BY Zenon DEF TransferInv, vars, AckInv, CopyInv, FlightInv, FlightOf
  <2>3. LoanInv' /\ TurnInv'
    <3>1. LoanInv'
      BY Zenon DEF TransferInv, vars, LoanInv, LoanOf, Finished
    <3>2. TurnInv'
      BY Zenon DEF TransferInv, vars, TurnInv, TurnOf, PairOf, Refused
    <3>3. QED
      BY <3>1, <3>2, Zenon
  <2>4. LeaseHasExecution' /\ PublishInv'
    <3>1. LeaseHasExecution'
      BY Zenon DEF TransferInv, vars, LeaseHasExecution
    <3>2. CommittedIsRouted'
      BY Zenon DEF TransferInv, vars, PublishInv, CommittedIsRouted, Doubtful
    <3>3. (\A l \in Legs : PublishOf(l))' /\ (\A o \in Ops : mop[o] = "appended" => \E l \in routed : OpOf[l] = o)'
      BY Zenon DEF TransferInv, vars, PublishInv, PublishOf, EndedWith
    <3>4. QED
      BY <3>1, <3>2, <3>3, Zenon DEF PublishInv
  <2>5. QED
    BY <2>1, <2>2, <2>3, <2>4, Zenon DEF TransferInv
<1>1. Init => TransferInv
  BY InitTypes, <1>InitStream, <1>InitCopies, <1>InitLoan, <1>InitTurn, <1>InitPublish, Zenon DEF TransferInv
<1>2. TransferInv /\ [Next]_vars => TransferInv'
  <2>1. TransferInv /\ Next => TransferInv'
    BY StepTypes, StepStream, StepAck, StepCopy, StepFlight, StepLoan, StepTurn, StepLease,
       StepPublish, Zenon DEF TransferInv
  <2>2. QED
    BY <2>1, <1>TransferFrame, Zenon
<1>3. QED
  BY <1>1, <1>2, PTL DEF Spec

\* A get and a replica keep to their own states at every party.
THEOREM TransferTypes == Spec => []TypeOK
<1>1. TransferInv => TypeOK
  BY Zenon DEF TransferInv
<1>2. QED
  BY <1>1, TransferHolds, PTL

\* The watermark of record_terminal is the settled prefix of the stream.
THEOREM AckIsExact == Spec => []AckIsSettledPrefix
<1>1. TransferInv => AckIsSettledPrefix
  <2> SUFFICES ASSUME TypeOK, StreamInv PROVE AckIsSettledPrefix
    BY Zenon DEF TransferInv
  <2> SUFFICES ASSUME NEW p \in Peers
               PROVE  /\ \A s \in 1 .. wm[p] :
                            \E l \in Legs : PeerOf[l] = p /\ seq[l] = s /\ lpc[l] = "settled"
                      /\ ~ \E l \in Legs : PeerOf[l] = p /\ seq[l] = wm[p] + 1 /\ lpc[l] = "settled"
    BY Zenon DEF AckIsSettledPrefix
  <2>1. wm[p] \in Nat /\ next[p] \in Nat /\ StreamOf(p)
    BY Zenon DEF TypeOK, StreamInv
  <2>2. ASSUME NEW s \in 1 .. wm[p]
        PROVE  \E l \in Legs : PeerOf[l] = p /\ seq[l] = s /\ lpc[l] = "settled"
    <3>1. PICK l \in Legs : PeerOf[l] = p /\ seq[l] = s
      BY <2>1 DEF StreamOf
    <3>2. QED
      BY <2>1, <3>1 DEF StreamInv, LegOf
  <2>3. ASSUME NEW l \in Legs, PeerOf[l] = p, seq[l] = wm[p] + 1, lpc[l] = "settled" PROVE FALSE
    <3>1. LegOf(l)
      BY Zenon DEF StreamInv
    <3>2. seq[l] \notin gap[p] /\ ~ (seq[l] <= wm[p])
      <4>1. wm[p] + 1 \notin gap[p]
        BY <2>1 DEF StreamOf
      <4>2. ~ (wm[p] + 1 <= wm[p])
        BY <2>1
      <4>3. QED
        BY <2>3, <4>1, <4>2, Zenon
    <3>3. QED
      BY <2>3, <3>1, <3>2, Zenon DEF LegOf
  <2>4. QED
    BY <2>2, <2>3, Zenon
<1>2. QED
  BY <1>1, TransferHolds, PTL

\* A peer executes what the coordinator waits for at most once.
THEOREM ExecutedOnce == Spec => []ExecutedOnceWhileWaiting
<1>1. TransferInv => ExecutedOnceWhileWaiting
  BY Zenon DEF TransferInv, FlightInv, FlightOf, ExecutedOnceWhileWaiting
<1>2. QED
  BY <1>1, TransferHolds, PTL

\* Two executions of one request never overlap at the peer.
THEOREM NeverTwoExecutions == Spec => []OneExecutionAtATime
<1>1. TransferInv => OneExecutionAtATime
  BY Zenon DEF TransferInv, FlightInv, FlightOf, OneExecutionAtATime
<1>2. QED
  BY <1>1, TransferHolds, PTL

\* Outside the doubtful cases a peer touches the coordinator's slot only while
\* it is lent.
THEOREM LoanIsKept == Spec => []AccessOnlyWhileLent
<1>1. TransferInv => AccessOnlyWhileLent
  <2> SUFFICES ASSUME TypeOK, FlightInv, LoanInv, NEW l \in Legs, NEW n \in DOMAIN exec[l],
                      exec[l][n].pc = "access", hold[OpOf[l]] # "lent"
               PROVE  Doubtful(OpOf[l])
    BY Zenon DEF TransferInv, AccessOnlyWhileLent
  <2>1. exec[l] \in Seq(Exec) /\ FlightOf(l) /\ LoanOf(l)
    BY Zenon DEF TypeOK, FlightInv, LoanInv
  <2>2. lpc[l] # "idle"
    <3>1. exec[l] # << >>
      OBVIOUS
    <3>2. QED
      BY <2>1, <3>1, Zenon DEF FlightOf
  <2>3. Finished(l)
    BY <2>1, <2>2, Zenon DEF LoanOf
  <2>4. l \in suspect \/ ~ (Len(exec[l]) <= 1)
    <3>1. CASE Len(exec[l]) <= 1
      <4>1. n = 1
        BY <2>1, <3>1, OnlyEntry, Zenon
      <4>2. QED
        BY <2>3, <4>1, Zenon DEF Finished
    <3>2. QED
      BY <3>1, Zenon
  <2>5. ~ (Len(exec[l]) <= 1) => Len(exec[l]) > 1
    BY <2>1
  <2>6. QED
    BY <2>4, <2>5, Zenon DEF Doubtful, LegsOf
<1>2. QED
  BY <1>1, TransferHolds, PTL

\* Every source lease is in use by an execution of its request.
THEOREM LeaseIsUsed == Spec => []LeaseHasExecution
<1>1. TransferInv => LeaseHasExecution
  BY Zenon DEF TransferInv
<1>2. QED
  BY <1>1, TransferHolds, PTL

\* A target that takes its replica for published is in the route, or doubtful.
THEOREM CommittedIsTrue == Spec => []CommittedIsRouted
<1>1. TransferInv => CommittedIsRouted
  BY Zenon DEF TransferInv, PublishInv
<1>2. QED
  BY <1>1, TransferHolds, PTL

-----------------------------------------------------------------------------

\* A slot becomes the value of a get only by the receipt of an execution that is
\* done.
LEMMA KeptSteps ==
  ASSUME TypeOK, Next, NEW o \in Ops, hold'[o] = "kept", hold[o] # "kept"
  PROVE  \E w \in wait : /\ OpOf[w.leg] = o /\ lpc[w.leg] = "waiting" /\ UNCHANGED exec
                         /\ exec[w.leg][w.n].pc = "done" /\ exec[w.leg][w.n].out = "ok"
<1>0. hold \in [Ops -> {"none", "lent", "kept", "freed"}]
  BY Zenon DEF TypeOK
<1>U. ~UNCHANGED hold
  BY Zenon
<1>S. ASSUME NEW p, NEW v, v # "kept" PROVE hold' # [hold EXCEPT ![p] = v]
  BY <1>0, <1>S, Zenon
<1>1. ASSUME NEW l \in Legs, LegStep(l) PROVE FALSE
  <2>1. CASE Send(l)
    <3>1. hold' = [hold EXCEPT ![OpOf[l]] = "lent"]
      BY <2>1, Zenon DEF Send
    <3>2. QED
      BY <1>S, <3>1, Zenon
  <2>2. CASE GetFinish(l)
    <3>1. hold' \in {hold, [hold EXCEPT ![OpOf[l]] = "freed"]}
      BY <2>2, Zenon DEF GetFinish
    <3>2. QED
      BY <1>S, <1>U, <3>1, Zenon
  <2>3. QED
    BY <1>1, <1>U, <2>1, <2>2, Zenon DEF LegStep, Resend, GiveUp, RouteCommit, RouteCommitLost, ByPeer, coordVars
<1>2. ASSUME NEW l \in Legs, NEW n, ExecStep(l, n) PROVE FALSE
  BY <1>2, <1>U, ExecMoves, Zenon DEF Moves, ByPeer, coordVars
<1>3. ASSUME NEW p \in Ops, OpStep(p) PROVE FALSE
  <2>1. CASE PutEnd(p)
    <3>1. hold' = [hold EXCEPT ![p] = "freed"]
      BY <2>1, Zenon DEF PutEnd
    <3>2. QED
      BY <1>S, <3>1, Zenon
  <2>2. QED
    BY <1>3, <1>U, <2>1, Zenon DEF OpStep, PutRevoke, AppendExpire, coordVars
<1>4. ASSUME NEW l \in Legs, NEW k, NEW r, Answer(l, k, r)
      PROVE  OpOf[l] = o /\ lpc[l] = "waiting" /\ r = "ok"
  <2>1. lpc[l] = "waiting" /\ (IF OpOf[l] \in Gets THEN ReceiveGet(l, r) ELSE ReceivePut(l, r))
    BY <1>4, <1>U, Zenon DEF Answer, coordVars
  <2>2. hold' # [hold EXCEPT ![OpOf[l]] = "freed"]
    BY <1>S, Zenon
  <2>3. ~ReceivePut(l, r)
    BY <1>U, <2>2, Zenon DEF ReceivePut
  <2>4. r = "ok" /\ hold' = [hold EXCEPT ![OpOf[l]] = "kept"]
    <3>1. ReceiveGet(l, r)
      BY <2>1, <2>3, Zenon
    <3>2. QED
      BY <2>2, <3>1, Zenon DEF ReceiveGet
  <2>5. OpOf[l] = o
    BY <1>0, <2>4
  <2>6. QED
    BY <2>1, <2>4, <2>5, Zenon
<1>5. ASSUME NEW c \in net, HandleAck(c) PROVE FALSE
  BY <1>5, <1>U, Zenon DEF HandleAck, coordVars
<1>6. ASSUME NEW h \in hand, HandleStale(h) \/ HandleAcked(h) \/ HandleItem(h) PROVE FALSE
  <2>1. h.leg \in Legs
    BY Zenon DEF TypeOK, Handed
  <2>2. ~Answer(h.leg, h.k, "stale") /\ ~Answer(h.leg, h.k, "error")
    <3>1. \A r : Answer(h.leg, h.k, r) => r = "ok"
      BY <1>4, <2>1, Zenon
    <3>2. QED
      BY <3>1, Zenon
  <2>3. QED
    BY <1>6, <1>U, <2>2, Zenon DEF HandleStale, HandleAcked, HandleItem, coordVars
<1>7. ASSUME NEW w \in wait, Respond(w)
      PROVE  /\ OpOf[w.leg] = o /\ lpc[w.leg] = "waiting" /\ UNCHANGED exec
             /\ exec[w.leg][w.n].pc = "done" /\ exec[w.leg][w.n].out = "ok"
  <2>1. w.leg \in Legs
    BY Zenon DEF TypeOK, Waiter
  <2>2. Answer(w.leg, w.k, exec[w.leg][w.n].out) /\ exec[w.leg][w.n].pc = "done" /\ UNCHANGED exec
    BY <1>7, Zenon DEF Respond, peerVars
  <2>3. QED
    BY <1>4, <2>1, <2>2, Zenon
<1>8. QED
  BY <1>1, <1>2, <1>3, <1>5, <1>6, <1>7, Zenon DEF Next

\* What the coordinator takes for a get's value was really written by the peer: of
\* all the answers to a replayed request only the receipt of a completed WRITE
\* makes the target DataReady.
THEOREM KeptIsTrue == Spec => []KeptIsWritten
<1>1. Init => KeptIsWritten
  BY LegFacts DEF Init, KeptIsWritten
<1>2. TransferInv /\ KeptIsWritten /\ Next => KeptIsWritten'
  <2> SUFFICES ASSUME TransferInv, KeptIsWritten, Next, NEW l \in Legs, OpOf[l] \in Gets, hold'[OpOf[l]] = "kept"
               PROVE  exec'[l] # << >> /\ exec'[l][1] = Done("ok")
    BY Zenon DEF KeptIsWritten
  <2>1. TypeOK /\ TypeOK' /\ StreamInv /\ AckInv /\ CopyInv /\ FlightInv /\ Forward
    BY StepTypes, StepForward, Zenon DEF TransferInv
  <2>2. OpOf[l] \in Ops /\ exec[l] \in Seq(Exec) /\ exec'[l] \in Seq(Exec) /\ Done("ok").pc = "done"
    BY <2>1, LegFacts, Zenon DEF TypeOK, Done
  <2>3. CASE hold[OpOf[l]] = "kept"
    <3>1. exec[l] # << >> /\ exec[l][1] = Done("ok")
      BY <2>3, Zenon DEF KeptIsWritten
    <3>2. 1 \in DOMAIN exec[l] /\ 1 <= Len(exec[l])
      BY <2>2, <3>1
    <3>3. exec'[l][1] = exec[l][1] /\ Len(exec[l]) <= Len(exec'[l])
      BY <2>1, <2>2, <3>1, <3>2, Zenon DEF Forward
    <3>4. exec'[l] # << >>
      BY <2>2, <3>2, <3>3
    <3>5. QED
      BY <3>1, <3>3, <3>4, Zenon
  <2>4. CASE hold[OpOf[l]] # "kept"
    <3>1. PICK w \in wait : /\ OpOf[w.leg] = OpOf[l] /\ lpc[w.leg] = "waiting" /\ UNCHANGED exec
                            /\ exec[w.leg][w.n].pc = "done" /\ exec[w.leg][w.n].out = "ok"
      BY <2>1, <2>2, <2>4, KeptSteps, Zenon
    <3>2. w.leg \in Legs
      BY <2>1, Zenon DEF TypeOK, Waiter
    <3>3. w.leg = l
      BY <3>1, <3>2, LegAssumption, Zenon
    <3>4. w.n = 1 /\ exec[l] # << >> /\ Len(exec[l]) = 1
      BY <2>1, <3>1, <3>3, WaitingAnswers, Zenon
    <3>5. exec[l][1] \in Exec
      BY <2>2, <3>4
    <3>6. exec[l][1] = Done("ok")
      BY <3>1, <3>3, <3>4, <3>5 DEF Exec, Done
    <3>7. QED
      BY <3>1, <3>4, <3>6, Zenon
  <2>5. QED
    BY <2>3, <2>4, Zenon
<1>3. KeptIsWritten /\ UNCHANGED vars => KeptIsWritten'
  BY Zenon DEF KeptIsWritten, vars
<1>4. QED
  BY <1>1, <1>2, <1>3, TransferHolds, PTL DEF Spec
=============================================================================
