-------------------------- MODULE OwnerTransferInv ---------------------------
(***************************************************************************)
(* The inductive invariant of the owner-to-owner transfer protocol, and    *)
(* the words in which its proofs describe a step.                          *)
(*                                                                         *)
(* The invariant has one part per party.  StreamInv ties the sequences of  *)
(* a stream to the legs that use them, and the watermark and the gap set   *)
(* to the legs that are settled.  AckInv bounds every copy of the          *)
(* watermark by the watermark itself.  FlightInv is what the peer may rely *)
(* on: a leg that is not settled has its terminal in place.  LoanInv says  *)
(* when the coordinator may let go of a slot, TurnInv that the candidates  *)
(* of a put are tried one after the other, and PublishInv which of them    *)
(* the master can have added to a route.                                   *)
(***************************************************************************)
EXTENDS OwnerTransfer

\* The stream to a peer: every sequence given out belongs to a leg.
StreamOf(p) ==
    /\ wm[p] <= next[p]
    /\ gap[p] \subseteq (wm[p] + 2) .. next[p]
    /\ \A s \in 1 .. next[p] : \E l \in Legs : PeerOf[l] = p /\ seq[l] = s

\* A leg is settled exactly when its sequence is recorded.
LegOf(l) ==
    LET p == PeerOf[l]
    IN  /\ lpc[l] = "idle" <=> seq[l] = 0
        /\ seq[l] <= next[p]
        /\ lpc[l] # "idle" => (lpc[l] = "settled" <=> seq[l] <= wm[p] \/ seq[l] \in gap[p])

Distinct ==
    \A l, m \in Legs : PeerOf[l] = PeerOf[m] /\ seq[l] = seq[m] /\ seq[l] # 0 => l = m

StreamInv ==
    /\ \A p \in Peers : StreamOf(p)
    /\ \A l \in Legs : LegOf(l)
    /\ Distinct

\* Every copy of a watermark is a watermark of the past.
AckInv ==
    /\ \A l \in Legs : emb[l] <= wm[PeerOf[l]]
    /\ \A p \in Peers : inb[p] <= wm[p]
    /\ \A h \in hand : h.wm <= wm[PeerOf[h.leg]]

\* What is under way belongs to a leg that was sent.
CopyInv ==
    /\ \A c \in net \cup hand \cup wait : lpc[c.leg] # "idle"
    /\ \A w \in wait : w.n \in DOMAIN exec[w.leg]

FlightOf(l) ==
    /\ map[l] \in 0 .. Len(exec[l])
    /\ \A n \in DOMAIN exec[l] : exec[l][n].pc # "done" => map[l] = n
    /\ lpc[l] = "idle" => exec[l] = << >>
    /\ lpc[l] # "settled" => Len(exec[l]) <= 1 /\ map[l] = Len(exec[l])

FlightInv == \A l \in Legs : FlightOf(l)

\* The first execution of the leg is over, unless the leg is in doubt.
Finished(l) == l \in suspect \/ (exec[l] # << >> /\ exec[l][1].pc = "done")

LoanOf(l) ==
    /\ lpc[l] = "waiting" => opc[OpOf[l]] = "sent"
    /\ lpc[l] = "open" /\ OpOf[l] \in Puts => l \in suspect
    /\ lpc[l] = "ready" => OpOf[l] \in Gets
    /\ lpc[l] \in {"ready", "settled"} => Finished(l)
    /\ lpc[l] # "idle" /\ hold[OpOf[l]] # "lent" => Finished(l)

LoanInv ==
    /\ \A l \in Legs : LoanOf(l)
    /\ \A l, m \in Legs :
          lpc[l] = "waiting" /\ lpc[m] = "waiting" /\ OpOf[l] = OpOf[m] => l = m

\* The leg ended with a refusal, unless it is in doubt.
Refused(l) ==
    \/ l \in suspect
    \/ Len(exec[l]) > 1
    \/ exec[l] # << >> /\ exec[l][1].pc = "done" /\ exec[l][1].out \in Refusals

\* The first execution of the leg ended with one of these answers, unless there
\* is a second one.
EndedWith(l, outs) ==
    \/ Len(exec[l]) > 1
    \/ exec[l] # << >> /\ exec[l][1].pc = "done" /\ exec[l][1].out \in outs

\* The candidates of a put are tried in turn.
TurnOf(l) ==
    /\ opc[OpOf[l]] = "idle" => lpc[l] = "idle"
    /\ opc[OpOf[l]] = "trying" => lpc[l] = "idle" \/ Refused(l)

PairOf(l, m) ==
    OpOf[l] = OpOf[m] /\ l # m /\ lpc[l] # "idle" /\ lpc[m] # "idle" =>
        /\ Refused(l) \/ Refused(m)
        /\ lpc[l] = "waiting" => Refused(m)

TurnInv ==
    /\ \A l \in Legs : TurnOf(l)
    /\ \A l, m \in Legs : PairOf(l, m)

PublishOf(l) ==
    /\ lease[l] \in {"pending", "committed"} => EndedWith(l, {"ok"})
    /\ l \in routed => EndedWith(l, {"ok", "error"})

PublishInv ==
    /\ \A l \in Legs : PublishOf(l)
    /\ \A o \in Ops : mop[o] = "appended" => \E l \in routed : OpOf[l] = o
    /\ CommittedIsRouted

TransferInv ==
    /\ TypeOK /\ StreamInv /\ AckInv /\ CopyInv /\ FlightInv
    /\ LoanInv /\ TurnInv /\ LeaseHasExecution /\ PublishInv

-----------------------------------------------------------------------------
\* TypeOK, by party.
CoordTypes ==
    /\ DOMAIN opc = Ops /\ \A o \in Ops : opc[o] \in OpStates(o)
    /\ hold \in [Ops -> {"none", "lent", "kept", "freed"}]
    /\ lpc \in [Legs -> {"idle", "waiting", "ready", "settled", "open"}]
    /\ seq \in [Legs -> Nat] /\ emb \in [Legs -> Nat] /\ sent \in [Legs -> 0..MaxSend]
    /\ next \in [Peers -> Nat]
    /\ suspect \subseteq Legs
WindowTypes == wm \in [Peers -> Nat] /\ gap \in [Peers -> SUBSET Nat]
NetTypes    == net \subseteq Copy /\ hand \subseteq Handed /\ wait \subseteq Waiter
FlightTypes == exec \in [Legs -> Seq(Exec)] /\ map \in [Legs -> Nat] /\ inb \in [Peers -> Nat]
LeaseTypes  == DOMAIN lease = Legs /\ \A l \in Legs : lease[l] \in LeaseStates(l)
MasterTypes ==
    /\ mop \in [Ops -> {"none", "inflight", "gone", "appended", "obsolete"}]
    /\ routed \subseteq Legs

-----------------------------------------------------------------------------
\* What record_terminal does to the window of the leg's stream.
Advanced(l, v) ==
    LET p == PeerOf[l]
        G == gap[p] \cup {seq[l]}
    IN  /\ v \in Nat /\ wm[p] <= v
        /\ \A s \in (wm[p] + 1) .. v : s \in G
        /\ v + 1 \notin G
        /\ wm' = [wm EXCEPT ![p] = v]
        /\ gap' = [gap EXCEPT ![p] = {s \in G : s > v}]

\* A step of an execution moves exactly that execution on, to one of these.
Moves(l, n, x) ==
    /\ n \in DOMAIN exec[l] /\ exec[l][n].pc # "done"
    /\ x \in Exec /\ x.pc # "start"
    /\ exec' = [exec EXCEPT ![l][n] = x]
    /\ ByPeer

\* What a step other than a first send can do to the streams.
Settles(l) ==
    /\ lpc[l] \in {"waiting", "ready"}
    /\ lpc' = [lpc EXCEPT ![l] = "settled"]
    /\ \E v \in Nat : Advanced(l, v)
    /\ UNCHANGED <<seq, emb, next>>

Stays(l) ==
    /\ lpc[l] \in {"waiting", "ready"}
    /\ \E x \in {"ready", "open"} : lpc' = [lpc EXCEPT ![l] = x]
    /\ UNCHANGED <<seq, emb, next, wm, gap>>

Rests == UNCHANGED <<lpc, seq, emb, next, wm, gap>>

\* What never goes back: a leg that was sent, a watermark, a finished execution.
Forward ==
    /\ \A l \in Legs : /\ lpc[l] # "idle" => lpc'[l] # "idle"
                       /\ lpc[l] = "settled" => lpc'[l] = "settled"
    /\ \A p \in Peers : wm[p] <= wm'[p]
    /\ \A l \in Legs : /\ Len(exec[l]) <= Len(exec'[l])
                       /\ \A n \in DOMAIN exec[l] :
                             exec[l][n].pc = "done" => exec'[l][n] = exec[l][n]
    /\ suspect \subseteq suspect' /\ routed \subseteq routed'

\* A copy that finds no flight starts an execution.
Starts(l) ==
    /\ map[l] = 0
    /\ map' = [map EXCEPT ![l] = Len(exec[l]) + 1]
    /\ exec' = [exec EXCEPT ![l] = Append(@, Started)]
=============================================================================
