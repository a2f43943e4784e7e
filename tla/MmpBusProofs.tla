---------------------------- MODULE MmpBusProofs ----------------------------
(***************************************************************************)
(* What holds of MmpBus for every set of nodes, every plan of transfers,   *)
(* and every number of losses, early timeouts and restarts.                *)
(***************************************************************************)
EXTENDS MmpBus, TLAPS

-----------------------------------------------------------------------------
(* The inductive invariant *)

Positions == Nat \cup {Abort}

\* A shred for node n, of a transfer its sender may start.
ShredsFor(n) ==
    {m \in [fc : {"dataBlob"}, id : {n}, source : Nodes, pos : Positions, value : Nat] :
        m.pos # Abort => m.value \in Xfers(m.source)}

\* An acknowledge is honest: a result that is a node id is its sender's.
HonestAcks ==
    {m \in [fc : {"ackDataBlob"}, id : Nodes, source : Nodes \cup {NoNode},
            pos : Positions, value : Codes] :
        m.value \in Nodes => m.value = m.id}

Messages(n) == ShredsFor(n) \cup HonestAcks

TxChannels(n) ==
    [xfer : 0 .. Starts(n), pos : Nat, retry : 0 .. MaxRetry + 1,
     state : {"idle", "transmitting"}, timer : {Off, ShredTimeout, ExecTimeout},
     counter : Nodes \cup {NoNode}]

RxChannels(n) ==
    [words : Seq(Words), length : StaleLengths \cup Lengths \cup {0}, code : Codes,
     timer : {Off, ReceiverTimeout}, counter : {n, NoNode}, fatal : BOOLEAN]

InboxInv ==
    /\ DOMAIN inbox = Nodes
    /\ \A n \in Nodes : inbox[n] \in Seq(Messages(n))

\* A channel with a running timer has a counterpart.
TxInv ==
    /\ DOMAIN tx = Nodes
    /\ \A n \in Nodes : /\ tx[n] \in TxChannels(n)
                        /\ tx[n].timer # Off => tx[n].counter # NoNode

\* The code a receiver keeps is its own id or that of an error.
RxInv ==
    /\ DOMAIN rx = Nodes
    /\ \A n \in Nodes : /\ rx[n] \in RxChannels(n)
                        /\ rx[n].code \in Nodes => rx[n].code = n

SentInv ==
    /\ DOMAIN sent = Nodes
    /\ \A n \in Nodes : sent[n] \in [0 .. Starts(n) ->
                            [to : Nodes \cup {NoNode}, length : Lengths \cup {0}]]

RunsInv ==
    /\ DOMAIN runs = Nodes /\ DOMAIN verdict = Nodes
    /\ \A n \in Nodes : /\ runs[n] \in [Xfers(n) -> Nat]
                        /\ verdict[n] \in [Xfers(n) -> Codes]

\* The counterpart in m_tx is the one of the transfer in m_tx.
CounterpartInv ==
    \A n \in Nodes : tx[n].counter # NoNode =>
        /\ tx[n].xfer \in Xfers(n)
        /\ sent[n][tx[n].xfer].to = tx[n].counter

ReportsInv ==
    /\ DOMAIN reports = Nodes
    /\ \A n \in Nodes : reports[n] \subseteq [xfer : Xfers(n), code : Codes]
    /\ OwnCounterpart

BoundsInv == losses \in 0 .. MaxLosses /\ faults \in 0 .. MaxFaults

BusInv ==
    /\ InboxInv /\ TxInv /\ RxInv /\ SentInv /\ RunsInv
    /\ CounterpartInv /\ ReportsInv /\ BoundsInv

-----------------------------------------------------------------------------
(* Messages *)

LEMMA NodeFacts ==
    /\ NoNode \notin Nodes /\ invalid \notin Nodes /\ counterPartDead \notin Nodes
    /\ wrongCRC \notin Nodes /\ invalidInit \notin Nodes
    /\ {invalid, counterPartDead, wrongCRC, invalidInit} \subseteq Codes
    /\ Nodes \subseteq Codes
    /\ \A n \in Nodes : n \in Nat /\ n # NoNode /\ Starts(n) \in Nat
    /\ MaxRetry \in Nat /\ MaxLosses \in Nat /\ MaxFaults \in Nat
    /\ \A n \in Nodes : \A x \in Xfers(n) : Plan[n][x] \in Nodes
  <1>1. Nodes \subseteq Nat \ {0} /\ Plan \in [Nodes -> Seq(Nodes)]
        /\ {MaxRetry, MaxLosses, MaxFaults} \subseteq Nat
    BY BusAssumption DEF BusAssumption, NoNode
  <1>2. \A n \in Nodes : Plan[n] \in Seq(Nodes)
    BY <1>1
  <1>3. \A n \in Nodes : Len(Plan[n]) \in Nat
                         /\ \A x \in 1 .. Len(Plan[n]) : Plan[n][x] \in Nodes
    BY <1>2
  <1> QED
    BY <1>1, <1>3 DEF NoNode, invalid, counterPartDead, wrongCRC, invalidInit,
                      Codes, Starts, Xfers

\* The next message of a node, by function code.
LEMMA NextMessage ==
    ASSUME InboxInv, NEW n \in Nodes, NEW fc, NEW m \in Pending(n, fc)
    PROVE  /\ inbox[n] # <<>>
           /\ fc = "dataBlob" => m \in ShredsFor(n)
           /\ fc = "ackDataBlob" => m \in HonestAcks
  <1>1. inbox[n] # <<>> /\ m = Head(inbox[n]) /\ m.fc = fc
    BY DEF Pending
  <1>2. m \in Messages(n)
    BY <1>1 DEF InboxInv
  <1> QED
    BY <1>1, <1>2 DEF Messages, ShredsFor, HonestAcks

LEMMA TakenFacts ==
    ASSUME InboxInv, NEW n \in Nodes, inbox[n] # <<>>
    PROVE  /\ DOMAIN Taken(n) = Nodes
           /\ \A o \in Nodes : Taken(n)[o] \in Seq(Messages(o))
  <1>1. Tail(inbox[n]) \in Seq(Messages(n))
    BY DEF InboxInv
  <1> QED
    BY <1>1 DEF InboxInv, Taken

LEMMA BroadcastFacts ==
    ASSUME NEW n \in Nodes, NEW m, NEW q,
           \A o \in Nodes : q[o] \in Seq(Messages(o)),
           \A o \in Nodes : Receives(o, m) => m \in Messages(o),
           inbox' = Broadcast(n, m, q)
    PROVE  InboxInv'
  <1>1. \A o \in Nodes : Receives(o, m) => Append(q[o], m) \in Seq(Messages(o))
    OBVIOUS
  <1>2. /\ DOMAIN inbox' = Nodes
        /\ \A o \in Nodes : inbox'[o] = IF o # n /\ Receives(o, m)
                                        THEN Append(q[o], m) ELSE q[o]
    BY DEF Broadcast
  <1>3. \A o \in Nodes : inbox'[o] \in Seq(Messages(o))
    BY <1>1, <1>2
  <1> QED
    BY <1>2, <1>3 DEF InboxInv, Messages, ShredsFor, HonestAcks

\* A shred that a transmitter with a counterpart sends, or its abort.
LEMMA ShredFacts ==
    ASSUME NEW n \in Nodes, NEW id, NEW pos \in Positions, NEW xfer \in Nat,
           pos # Abort => xfer \in Xfers(n)
    PROVE  \A o \in Nodes :
             Receives(o, Shred(id, n, pos, xfer)) =>
                 Shred(id, n, pos, xfer) \in Messages(o)
  BY DEF Receives, Shred, Messages, ShredsFor

LEMMA AckFacts ==
    ASSUME NEW n \in Nodes, NEW r \in RxChannels(n), NEW pos \in Positions,
           NEW code \in Codes, code \in Nodes => code = n
    PROVE  \A o \in Nodes : Ack(n, r, pos, code) \in Messages(o)
  <1>1. r.counter \in Nodes \cup {NoNode}
    BY DEF RxChannels
  <1> QED
    BY <1>1 DEF Ack, Messages, HonestAcks

-----------------------------------------------------------------------------
(* The transmit channels *)

\* Node n changes its channel to t, and keeps what it is about.
LEMMA ChannelKept ==
    ASSUME TxInv, CounterpartInv, NEW n \in Nodes, NEW t \in TxChannels(n),
           t.timer # Off => t.counter # NoNode,
           t.counter = tx[n].counter, t.xfer = tx[n].xfer,
           tx' = [tx EXCEPT ![n] = t], UNCHANGED sent
    PROVE  TxInv' /\ CounterpartInv'
  <1>1. /\ DOMAIN tx' = Nodes /\ tx'[n] = t
        /\ \A o \in Nodes : o # n => tx'[o] = tx[o]
    BY DEF TxInv
  <1>2. TxInv'
    BY <1>1 DEF TxInv, TxChannels
  <1>3. CounterpartInv'
    BY <1>1 DEF CounterpartInv
  <1> QED
    BY <1>2, <1>3

\* A report of the current transfer: an error, or the counterpart's own id.
LEMMA ReportKept ==
    ASSUME ReportsInv, NEW n \in Nodes, NEW code \in Codes,
           tx[n].xfer \in Xfers(n),
           code \in Nodes => code = sent[n][tx[n].xfer].to,
           emitHandleMmpTransferAck(n, code), UNCHANGED sent
    PROVE  ReportsInv'
  <1>1. /\ DOMAIN reports' = Nodes
        /\ reports'[n] = reports[n] \cup {[xfer |-> tx[n].xfer, code |-> code]}
        /\ \A o \in Nodes : o # n => reports'[o] = reports[o]
    BY DEF ReportsInv, emitHandleMmpTransferAck
  <1>2. \A o \in Nodes : reports'[o] \subseteq [xfer : Xfers(o), code : Codes]
    BY <1>1 DEF ReportsInv
  <1>3. OwnCounterpart'
    BY <1>1 DEF ReportsInv, OwnCounterpart
  <1> QED
    BY <1>1, <1>2, <1>3 DEF ReportsInv

\* A shred is sent, of the transfer in channel t.
LEMMA ShredSent ==
    ASSUME NEW n \in Nodes, NEW t \in TxChannels(n), t.counter # NoNode,
           t.xfer \in Xfers(n), NEW length, NEW q,
           DOMAIN tx = Nodes,
           \A o \in Nodes : q[o] \in Seq(Messages(o)),
           sendTxShred(n, t, length, q)
    PROVE  /\ InboxInv'
           /\ \E u \in TxChannels(n) :
                 /\ u.counter = t.counter /\ u.xfer = t.xfer
                 /\ tx' = [tx EXCEPT ![n] = u]
  <1>1. t.pos \in Positions /\ t.xfer \in Nat /\ t.pos # Abort
    BY NodeFacts DEF TxChannels, Positions, Abort, Xfers
  <1>2. InboxInv'
    BY <1>1, ShredFacts, BroadcastFacts DEF sendTxShred
  <1> DEFINE u == [t EXCEPT !.timer =
                      IF isLast(t.pos, length) THEN ExecTimeout ELSE ShredTimeout]
  <1>3. u \in TxChannels(n) /\ u.counter = t.counter /\ u.xfer = t.xfer
    BY DEF TxChannels
  <1> QED
    BY <1>2, <1>3 DEF sendTxShred

LEMMA ZeroedChannel ==
    ASSUME NEW n \in Nodes
    PROVE  tx0 \in TxChannels(n) /\ tx0.timer = Off /\ tx0.counter = NoNode
  <1>1. 0 \in 0 .. MaxRetry + 1 /\ NoXfer \in 0 .. Starts(n)
    BY NodeFacts DEF NoXfer
  <1> QED
    BY <1>1 DEF tx0, TxChannels

LEMMA StartKeeps ==
    ASSUME BusInv, NEW n \in Nodes, startTransfer(n)
    PROVE  BusInv'
  <1>1. PICK length \in Lengths, x \in Xfers(n) :
            /\ \A y \in Xfers(n) : sent[n][y].to # NoNode <=> y < x
            /\ sent' = [sent EXCEPT ![n][x] = [to |-> Plan[n][x], length |-> length]]
            /\ sendTxShred(n, txStarted(x, Plan[n][x]), length, inbox)
    BY DEF startTransfer
  <1>2. UNCHANGED <<rx, runs, verdict, reports, losses, faults>>
    BY DEF startTransfer
  <1> DEFINE t == txStarted(x, Plan[n][x])
  <1>3. /\ Plan[n][x] \in Nodes /\ Plan[n][x] # NoNode
        /\ x \in 0 .. Starts(n) /\ x \in Nat /\ MaxRetry \in Nat
    BY NodeFacts DEF Xfers
  <1>4. t \in TxChannels(n) /\ t.counter = Plan[n][x] /\ t.xfer = x
    <2>1. 0 \in 0 .. MaxRetry + 1
      BY <1>3
    <2> QED
      BY <1>3, <2>1 DEF TxChannels, txStarted
  <1>5. PICK u \in TxChannels(n) :
            /\ u.counter = Plan[n][x] /\ u.xfer = x
            /\ tx' = [tx EXCEPT ![n] = u] /\ InboxInv'
    <2>1. sendTxShred(n, t, length, inbox) /\ t.counter # NoNode /\ t.xfer \in Xfers(n)
      BY <1>1, <1>3, <1>4
    <2>2. DOMAIN tx = Nodes /\ \A o \in Nodes : inbox[o] \in Seq(Messages(o))
      BY DEF BusInv, TxInv, InboxInv
    <2> HIDE DEF t
    <2> QED
      BY <1>4, <2>1, <2>2, ShredSent
  <1>6. /\ DOMAIN tx' = Nodes /\ tx'[n] = u
        /\ \A o \in Nodes : o # n => tx'[o] = tx[o]
    BY <1>5 DEF BusInv, TxInv
  <1>7. /\ DOMAIN sent' = Nodes
        /\ sent'[n] = [sent[n] EXCEPT ![x] = [to |-> Plan[n][x], length |-> length]]
        /\ \A o \in Nodes : o # n => sent'[o] = sent[o]
    BY <1>1 DEF BusInv, SentInv
  <1>8. sent'[n][x].to = Plan[n][x]
        /\ \A y \in Xfers(n) : y # x => sent'[n][y] = sent[n][y]
    <2>1. DOMAIN sent[n] = 0 .. Starts(n)
      BY DEF BusInv, SentInv
    <2>2. sent'[n][x] = [to |-> Plan[n][x], length |-> length]
      BY <1>3, <1>7, <2>1
    <2>3. \A y \in Xfers(n) : y \in 0 .. Starts(n)
      BY NodeFacts DEF Xfers
    <2> QED
      BY <1>7, <2>1, <2>2, <2>3
  <1>9. TxInv'
    BY <1>3, <1>5, <1>6 DEF BusInv, TxInv, TxChannels
  <1>10. SentInv'
    <2>1. [to |-> Plan[n][x], length |-> length]
             \in [to : Nodes \cup {NoNode}, length : Lengths \cup {0}]
      BY <1>3
    <2>2. sent[n] \in [0 .. Starts(n) ->
                         [to : Nodes \cup {NoNode}, length : Lengths \cup {0}]]
      BY DEF BusInv, SentInv
    <2>3. sent'[n] \in [0 .. Starts(n) ->
                         [to : Nodes \cup {NoNode}, length : Lengths \cup {0}]]
      BY <1>7, <2>1, <2>2
    <2> QED
      BY <1>7, <2>3 DEF BusInv, SentInv
  <1>11. CounterpartInv'
    BY <1>5, <1>6, <1>7, <1>8 DEF BusInv, CounterpartInv
  <1>12. OwnCounterpart'
    <2> SUFFICES ASSUME NEW o \in Nodes, NEW r \in reports[o], r.code \in Nodes
                 PROVE  r.code = sent'[o][r.xfer].to
      BY <1>2 DEF OwnCounterpart
    <2>1. r.code = sent[o][r.xfer].to /\ r.xfer \in Xfers(o)
      BY DEF BusInv, ReportsInv, OwnCounterpart
    <2>2. CASE o # n
      BY <1>7, <2>1, <2>2
    <2>3. CASE o = n
      <3>1. sent[n][r.xfer].to # NoNode
        BY <2>1, <2>3, NodeFacts
      <3>2. r.xfer < x
        BY <1>1, <2>1, <2>3, <3>1
      <3>3. r.xfer # x
        BY <1>3, <2>1, <2>3, <3>2, NodeFacts DEF Xfers
      <3> QED
        BY <1>8, <2>1, <2>3, <3>3
    <2> QED
      BY <2>2, <2>3
  <1>13. RxInv' /\ RunsInv' /\ BoundsInv'
    BY <1>2 DEF BusInv, RxInv, RunsInv, BoundsInv
  <1>14. ReportsInv'
    BY <1>2, <1>12 DEF BusInv, ReportsInv
  <1> QED
    BY <1>5, <1>9, <1>10, <1>11, <1>13, <1>14 DEF BusInv

LEMMA IncFacts ==
    ASSUME NEW n \in Nodes, NEW t \in TxChannels(n)
    PROVE  /\ [t EXCEPT !.pos = @ + 1, !.retry = 0] \in TxChannels(n)
           /\ [t EXCEPT !.pos = @ + 1, !.retry = 0].timer = t.timer
           /\ [t EXCEPT !.pos = @ + 1, !.retry = 0].counter = t.counter
           /\ [t EXCEPT !.pos = @ + 1, !.retry = 0].xfer = t.xfer
  <1>1. 0 \in 0 .. MaxRetry + 1
    BY NodeFacts
  <1>2. t.pos \in Nat /\ t.pos + 1 \in Nat
    BY DEF TxChannels
  <1>3. PICK p \in Nat : p = t.pos + 1
    BY <1>2
  <1>4. /\ [t EXCEPT !.pos = p, !.retry = 0] \in TxChannels(n)
        /\ [t EXCEPT !.pos = p, !.retry = 0].timer = t.timer
        /\ [t EXCEPT !.pos = p, !.retry = 0].counter = t.counter
        /\ [t EXCEPT !.pos = p, !.retry = 0].xfer = t.xfer
    BY <1>1 DEF TxChannels
  <1> QED
    BY <1>3, <1>4

\* The channel after the timer is stopped, and after inc().
LEMMA StoppedFacts ==
    ASSUME NEW n \in Nodes, tx[n] \in TxChannels(n)
    PROVE  /\ Stopped(n) \in TxChannels(n) /\ Stopped(n).timer = Off
           /\ Stopped(n).counter = tx[n].counter /\ Stopped(n).xfer = tx[n].xfer
           /\ Advanced(n) \in TxChannels(n) /\ Advanced(n).timer = Off
           /\ Advanced(n).counter = tx[n].counter /\ Advanced(n).xfer = tx[n].xfer
  <1>1. /\ Stopped(n) \in TxChannels(n) /\ Stopped(n).timer = Off
        /\ Stopped(n).counter = tx[n].counter /\ Stopped(n).xfer = tx[n].xfer
    BY DEF Stopped, TxChannels
  <1>2. PICK t \in TxChannels(n) : t = Stopped(n)
    BY <1>1
  <1>3. Advanced(n) = [t EXCEPT !.pos = @ + 1, !.retry = 0]
    BY <1>2 DEF Advanced
  <1>4. Advanced(n) \in TxChannels(n)
    BY <1>3, IncFacts
  <1>5. Advanced(n).timer = t.timer
    BY <1>3, IncFacts
  <1>6. Advanced(n).counter = t.counter /\ Advanced(n).xfer = t.xfer
    BY <1>3, IncFacts
  <1> QED
    BY <1>1, <1>2, <1>4, <1>5, <1>6

\* Whoever takes an acknowledge has the counterpart that sent it.
LEMMA AckedFacts ==
    ASSUME BusInv, NEW n \in Nodes, NEW m \in Acked(n)
    PROVE  /\ m \in HonestAcks /\ inbox[n] # <<>>
           /\ tx[n].counter = m.id /\ tx[n].counter # NoNode
           /\ tx[n].xfer \in Xfers(n)
           /\ m.value \in Codes
           /\ m.value \in Nodes => m.value = sent[n][tx[n].xfer].to
  <1>1. m \in Pending(n, "ackDataBlob") /\ m.id = tx[n].counter
    BY DEF Acked, ForMe
  <1>2. m \in HonestAcks /\ inbox[n] # <<>>
    BY <1>1, NextMessage DEF BusInv
  <1>3. tx[n].counter # NoNode
    BY <1>1, <1>2, NodeFacts DEF HonestAcks
  <1>4. tx[n].xfer \in Xfers(n) /\ sent[n][tx[n].xfer].to = tx[n].counter
    BY <1>3 DEF BusInv, CounterpartInv
  <1> QED
    BY <1>1, <1>2, <1>3, <1>4 DEF HonestAcks

\* A message is taken and nothing is sent.
LEMMA MessageTaken ==
    ASSUME InboxInv, NEW n \in Nodes, inbox[n] # <<>>, inbox' = Taken(n)
    PROVE  InboxInv'
  BY TakenFacts DEF InboxInv, Messages, ShredsFor, HonestAcks

\* What a step leaves alone.
LEMMA RestKept ==
    ASSUME BusInv
    PROVE  /\ UNCHANGED rx => RxInv'
           /\ UNCHANGED sent => SentInv'
           /\ UNCHANGED <<runs, verdict>> => RunsInv'
           /\ UNCHANGED <<sent, reports>> => ReportsInv'
           /\ UNCHANGED <<tx, sent>> => TxInv' /\ CounterpartInv'
           /\ UNCHANGED <<losses, faults>> => BoundsInv'
           /\ UNCHANGED inbox => InboxInv'
  <1> USE DEF BusInv
  <1>1. UNCHANGED rx => RxInv'
    BY DEF RxInv
  <1>2. UNCHANGED sent => SentInv'
    BY DEF SentInv
  <1>3. UNCHANGED <<runs, verdict>> => RunsInv'
    BY DEF RunsInv
  <1>4. UNCHANGED <<sent, reports>> => ReportsInv'
    BY DEF ReportsInv, OwnCounterpart
  <1>5. UNCHANGED <<tx, sent>> => TxInv' /\ CounterpartInv'
    BY DEF TxInv, CounterpartInv
  <1>6. UNCHANGED <<losses, faults>> => BoundsInv'
    BY DEF BoundsInv
  <1>7. UNCHANGED inbox => InboxInv'
    BY DEF InboxInv
  <1> QED
    BY <1>1, <1>2, <1>3, <1>4, <1>5, <1>6, <1>7

LEMMA HandleTxKeeps ==
    ASSUME BusInv, NEW n \in Nodes, handleTx(n)
    PROVE  BusInv'
  <1>1. /\ InboxInv /\ TxInv /\ CounterpartInv /\ ReportsInv
        /\ tx[n] \in TxChannels(n) /\ DOMAIN tx = Nodes
    BY DEF BusInv, TxInv
  <1>2. CASE TxForeign(n)
    <2>1. PICK m \in Pending(n, "ackDataBlob") : inbox' = Taken(n)
      BY <1>2 DEF TxForeign
    <2>2. inbox[n] # <<>>
      BY <1>1, NextMessage
    <2>3. InboxInv'
      BY <1>1, <2>1, <2>2, MessageTaken
    <2> QED
      BY <1>2, <2>3, RestKept DEF TxForeign, history, BusInv
  <1>3. CASE TxAborted(n)
    <2>1. PICK m \in Acked(n) :
            /\ inbox' = Taken(n)
            /\ tx' = [tx EXCEPT ![n] = [Stopped(n) EXCEPT
                         !.pos = 0, !.retry = 0, !.state = "idle"]]
            /\ UNCHANGED <<rx, sent, runs, verdict, reports, losses, faults>>
      BY <1>3 DEF TxAborted, history
    <2>2. InboxInv'
      BY <1>1, <2>1, AckedFacts, MessageTaken
    <2> DEFINE t == [Stopped(n) EXCEPT !.pos = 0, !.retry = 0, !.state = "idle"]
    <2>3. /\ t \in TxChannels(n) /\ t.timer = Off
          /\ t.counter = tx[n].counter /\ t.xfer = tx[n].xfer
      <3>1. 0 \in 0 .. MaxRetry + 1
        BY NodeFacts
      <3> QED
        BY <1>1, <3>1, StoppedFacts DEF TxChannels
    <2>4. TxInv' /\ CounterpartInv'
      <3>1. tx' = [tx EXCEPT ![n] = t] /\ UNCHANGED sent
        BY <2>1
      <3> HIDE DEF t
      <3> QED
        BY <1>1, <2>3, <3>1, ChannelKept
    <2> QED
      BY <2>1, <2>2, <2>4, RestKept DEF BusInv
  <1>4. CASE TxOldAck(n)
    <2>1. PICK m \in Acked(n) :
            /\ inbox' = Taken(n) /\ tx' = [tx EXCEPT ![n] = Stopped(n)]
            /\ UNCHANGED <<rx, sent, runs, verdict, reports, losses, faults>>
      BY <1>4 DEF TxOldAck, history
    <2>2. InboxInv'
      BY <1>1, <2>1, AckedFacts, MessageTaken
    <2>3. TxInv' /\ CounterpartInv'
      BY <1>1, <2>1, StoppedFacts, ChannelKept
    <2> QED
      BY <2>1, <2>2, <2>3, RestKept DEF BusInv
  <1>5. CASE TxImplausible(n)
    <2>1. PICK m \in Acked(n) :
            /\ inbox' = Broadcast(n, Shred(tx[n].counter, n, Abort, NoXfer), Taken(n))
            /\ tx' = [tx EXCEPT ![n] = Stopped(n)]
            /\ UNCHANGED <<rx, sent, runs, verdict, reports, losses, faults>>
      BY <1>5 DEF TxImplausible, history
    <2>2. NoXfer \in Nat /\ Abort \in Positions
      BY DEF NoXfer, Positions
    <2>3. InboxInv'
      BY <1>1, <2>1, <2>2, AckedFacts, TakenFacts, ShredFacts, BroadcastFacts
    <2>4. TxInv' /\ CounterpartInv'
      BY <1>1, <2>1, StoppedFacts, ChannelKept
    <2> QED
      BY <2>1, <2>3, <2>4, RestKept DEF BusInv
  <1>6. CASE TxNext(n)
    <2>1. PICK m \in Acked(n) :
            /\ sendTxShred(n, Advanced(n), txLength(n), Taken(n))
            /\ UNCHANGED <<rx, sent, runs, verdict, reports, losses, faults>>
      BY <1>6 DEF TxNext, history
    <2>2. /\ Advanced(n) \in TxChannels(n) /\ Advanced(n).counter # NoNode
          /\ Advanced(n).counter = tx[n].counter /\ Advanced(n).xfer = tx[n].xfer
          /\ Advanced(n).xfer \in Xfers(n)
      BY <1>1, <2>1, AckedFacts, StoppedFacts
    <2>3. \A o \in Nodes : Taken(n)[o] \in Seq(Messages(o))
      BY <1>1, <2>1, AckedFacts, TakenFacts
    <2>4. PICK u \in TxChannels(n) :
            /\ u.counter = tx[n].counter /\ u.xfer = tx[n].xfer
            /\ tx' = [tx EXCEPT ![n] = u] /\ InboxInv' /\ u.counter # NoNode
      BY <1>1, <2>1, <2>2, <2>3, ShredSent
    <2>5. TxInv' /\ CounterpartInv'
      BY <1>1, <2>1, <2>4, ChannelKept
    <2> QED
      BY <2>1, <2>4, <2>5, RestKept DEF BusInv
  <1>7. CASE TxFinish(n)
    <2>1. PICK m \in Acked(n) :
            /\ inbox' = Taken(n)
            /\ tx' = [tx EXCEPT ![n] = [Advanced(n) EXCEPT !.state = "idle"]]
            /\ emitHandleMmpTransferAck(n, m.value)
            /\ UNCHANGED <<rx, sent, runs, verdict, losses, faults>>
      BY <1>7 DEF TxFinish
    <2>2. InboxInv'
      BY <1>1, <2>1, AckedFacts, MessageTaken
    <2> DEFINE t == [Advanced(n) EXCEPT !.state = "idle"]
    <2>3. /\ t \in TxChannels(n) /\ t.timer = Off
          /\ t.counter = tx[n].counter /\ t.xfer = tx[n].xfer
      BY <1>1, StoppedFacts DEF TxChannels
    <2>4. TxInv' /\ CounterpartInv'
      <3>1. tx' = [tx EXCEPT ![n] = t] /\ UNCHANGED sent
        BY <2>1
      <3> HIDE DEF t
      <3> QED
        BY <1>1, <2>3, <3>1, ChannelKept
    <2>5. ReportsInv'
      BY <1>1, <2>1, AckedFacts, ReportKept
    <2> QED
      BY <2>1, <2>2, <2>4, <2>5, RestKept DEF BusInv
  <1> QED
    BY <1>2, <1>3, <1>4, <1>5, <1>6, <1>7 DEF handleTx

LEMMA TimeoutKeeps ==
    ASSUME BusInv, NEW n \in Nodes, TxRetransmit(n) \/ TxGiveUp(n)
    PROVE  BusInv'
  <1>1. /\ InboxInv /\ TxInv /\ CounterpartInv /\ ReportsInv
        /\ tx[n] \in TxChannels(n) /\ DOMAIN tx = Nodes /\ MaxRetry \in Nat
    BY NodeFacts DEF BusInv, TxInv
  <1>2. tx[n].counter # NoNode /\ tx[n].xfer \in Xfers(n) /\ tx[n].timer # Off
    BY <1>1 DEF TxRetransmit, TxGiveUp, TxInv, CounterpartInv
  <1>3. CASE TxRetransmit(n)
    <2> DEFINE t == [tx[n] EXCEPT !.retry = @ + 1]
    <2>1. /\ sendTxShred(n, t, txLength(n), inbox)
          /\ faults < MaxFaults /\ faults' = faults + 1 /\ tx[n].retry < MaxRetry
          /\ UNCHANGED <<rx, sent, runs, verdict, reports, losses>>
      BY <1>3 DEF TxRetransmit, Fault, history
    <2>2. /\ t \in TxChannels(n) /\ t.counter = tx[n].counter /\ t.xfer = tx[n].xfer
      BY <1>1, <2>1 DEF TxChannels
    <2>3. \A o \in Nodes : inbox[o] \in Seq(Messages(o))
      BY <1>1 DEF InboxInv
    <2>4. PICK u \in TxChannels(n) :
            /\ u.counter = tx[n].counter /\ u.xfer = tx[n].xfer
            /\ tx' = [tx EXCEPT ![n] = u] /\ InboxInv' /\ u.counter # NoNode
      <3> HIDE DEF t
      <3> QED
        BY <1>1, <1>2, <2>1, <2>2, <2>3, ShredSent
    <2>5. TxInv' /\ CounterpartInv'
      BY <1>1, <2>1, <2>4, ChannelKept
    <2>6. BoundsInv'
      BY <2>1, NodeFacts DEF BusInv, BoundsInv
    <2> QED
      BY <2>1, <2>4, <2>5, <2>6, RestKept DEF BusInv
  <1>4. CASE TxGiveUp(n)
    <2> DEFINE t == GivenUp(n)
    <2>1. /\ tx' = [tx EXCEPT ![n] = t]
          /\ emitHandleMmpTransferAck(n, counterPartDead)
          /\ UNCHANGED <<rx, inbox, sent, runs, verdict, losses, faults>>
      BY <1>4 DEF TxGiveUp
    <2>2. t \in TxChannels(n) /\ t.counter = tx[n].counter /\ t.xfer = tx[n].xfer
      <3>1. MaxRetry + 1 \in 0 .. MaxRetry + 1
        BY <1>1
      <3>2. tx[n].timer \in {Off, ShredTimeout, ExecTimeout}
        BY <1>1 DEF TxChannels
      <3> QED
        BY <1>1, <3>1, <3>2 DEF TxChannels, GivenUp
    <2>3. TxInv' /\ CounterpartInv'
      <3> HIDE DEF t
      <3> QED
        BY <1>1, <1>2, <2>1, <2>2, ChannelKept
    <2>4. ReportsInv'
      BY <1>1, <1>2, <2>1, NodeFacts, ReportKept
    <2> QED
      BY <2>1, <2>3, <2>4, RestKept DEF BusInv
  <1> QED
    BY <1>3, <1>4

-----------------------------------------------------------------------------
(* The receive channels *)

Honest(n, r) == r \in RxChannels(n) /\ (r.code \in Nodes => r.code = n)

\* Node n changes its channel to r.
LEMMA ReceiverKept ==
    ASSUME RxInv, NEW n \in Nodes, NEW r, Honest(n, r), rx' = [rx EXCEPT ![n] = r]
    PROVE  RxInv'
  <1>1. /\ DOMAIN rx' = Nodes /\ rx'[n] = r
        /\ \A o \in Nodes : o # n => rx'[o] = rx[o]
    BY DEF RxInv
  <1> QED
    BY <1>1 DEF RxInv, Honest, RxChannels

LEMMA AckSent ==
    ASSUME InboxInv, RxInv, NEW n \in Nodes, inbox[n] # <<>>,
           NEW r, Honest(n, r), NEW pos \in Positions,
           NEW code \in Codes, code \in Nodes => code = n,
           sendAck(n, r, pos) \/ sendTransferAck(n, r, pos, code)
    PROVE  InboxInv' /\ RxInv'
  <1>1. PICK timer \in {Off, ReceiverTimeout}, c \in {code, invalid} :
            Answer(n, [r EXCEPT !.timer = timer], Ack(n, r, pos, c))
    BY DEF sendAck, sendTransferAck
  <1>2. c \in Codes /\ (c \in Nodes => c = n) /\ r \in RxChannels(n)
    BY NodeFacts DEF Honest
  <1>3. InboxInv'
    BY <1>1, <1>2, AckFacts, TakenFacts, BroadcastFacts DEF Answer
  <1>4. Honest(n, [r EXCEPT !.timer = timer])
    BY <1>1 DEF Honest, RxChannels
  <1>5. RxInv'
    BY <1>1, <1>4, ReceiverKept DEF Answer
  <1> QED
    BY <1>3, <1>5

\* What a receiver makes of the fields of its channel stays honest.
LEMMA FieldFacts ==
    ASSUME NEW n \in Nodes, NEW r, Honest(n, r)
    PROVE  /\ Honest(n, [r EXCEPT !.words = <<>>])
           /\ \A b \in BOOLEAN : Honest(n, [r EXCEPT !.fatal = b])
           /\ \A c \in Codes : (c \in Nodes => c = n) =>
                 Honest(n, [r EXCEPT !.words = <<>>, !.code = c])
  <1>1. <<>> \in Seq(Words)
    OBVIOUS
  <1>2. Honest(n, [r EXCEPT !.words = <<>>])
    BY <1>1 DEF Honest, RxChannels
  <1>3. ASSUME NEW b \in BOOLEAN PROVE Honest(n, [r EXCEPT !.fatal = b])
    BY DEF Honest, RxChannels
  <1>4. ASSUME NEW c \in Codes, c \in Nodes => c = n
        PROVE  Honest(n, [r EXCEPT !.words = <<>>, !.code = c])
    BY <1>1, <1>4 DEF Honest, RxChannels
  <1> QED
    BY <1>2, <1>3, <1>4

LEMMA ShredTaken ==
    ASSUME BusInv, NEW n \in Nodes, NEW m \in Shreds(n)
    PROVE  /\ m \in ShredsFor(n) /\ inbox[n] # <<>> /\ m.pos \in Positions
           /\ Honest(n, rx[n]) /\ rxPos(n) \in Nat /\ InboxInv /\ RxInv
           /\ rx[n].code \in Codes /\ (rx[n].code \in Nodes => rx[n].code = n)
  <1>1. m \in ShredsFor(n) /\ inbox[n] # <<>>
    BY NextMessage DEF Shreds, BusInv
  <1>2. rx[n] \in RxChannels(n) /\ (rx[n].code \in Nodes => rx[n].code = n)
    BY DEF BusInv, RxInv
  <1>3. rx[n].words \in Seq(Words) /\ rx[n].code \in Codes
    BY <1>2 DEF RxChannels
  <1> QED
    BY <1>1, <1>2, <1>3 DEF ShredsFor, Honest, rxPos, BusInv

LEMMA StoredFacts ==
    ASSUME BusInv, NEW n \in Nodes, NEW m \in Expected(n)
    PROVE  /\ Honest(n, Stored(n, m))
           /\ m.source \in Nodes /\ m.value \in Xfers(m.source)
  <1>1. m \in Shreds(n) /\ m.pos = rxPos(n)
    BY DEF Expected
  <1>2. m \in ShredsFor(n) /\ rxPos(n) \in Nat /\ Honest(n, rx[n])
    BY <1>1, ShredTaken
  <1>3. m.id = n /\ m.source \in Nodes /\ m.value \in Xfers(m.source)
    BY <1>1, <1>2 DEF ShredsFor, Abort
  <1>4. PICK w \in Seq(Words) : w = Append(rx[n].words, Word(m))
    <2>1. Word(m) \in Words
      BY <1>3 DEF Word, Words
    <2>2. rx[n].words \in Seq(Words)
      BY <1>2 DEF Honest, RxChannels
    <2>3. \A s \in Seq(Words), e \in Words : Append(s, e) \in Seq(Words)
      OBVIOUS
    <2> QED
      BY <2>1, <2>2, <2>3
  <1>5. PICK l \in StaleLengths \cup Lengths \cup {0} :
            l = IF m.pos = LengthWord THEN sent[m.source][m.value].length
                                      ELSE rx[n].length
    <2>1. m.value \in 0 .. Starts(m.source)
      BY <1>3, NodeFacts DEF Xfers
    <2>2. sent[m.source][m.value].length \in Lengths \cup {0}
      BY <1>3, <2>1 DEF BusInv, SentInv
    <2>3. rx[n].length \in StaleLengths \cup Lengths \cup {0}
      BY <1>2 DEF Honest, RxChannels
    <2> QED
      BY <2>2, <2>3
  <1>6. PICK c \in {n, NoNode} : c = IF m.pos = 0 THEN m.id ELSE rx[n].counter
    <2>1. rx[n].counter \in {n, NoNode}
      BY <1>2 DEF Honest, RxChannels
    <2> QED
      BY <1>3, <2>1
  <1>7. PICK r \in RxChannels(n) : r = rx[n] /\ Honest(n, r)
    BY <1>2 DEF Honest
  <1>8. Stored(n, m) = [r EXCEPT !.words = w, !.length = l, !.counter = c]
    BY <1>4, <1>5, <1>6, <1>7 DEF Stored
  <1>9. Honest(n, [r EXCEPT !.words = w, !.length = l, !.counter = c])
    BY <1>7 DEF Honest, RxChannels
  <1> QED
    BY <1>3, <1>8, <1>9

LEMMA HandleRxKeeps ==
    ASSUME BusInv, NEW n \in Nodes, handleRx(n)
    PROVE  BusInv'
  <1>1. Abort \in Positions /\ invalid \in Codes /\ invalid \notin Nodes
    BY NodeFacts DEF Positions
  <1>2. ASSUME UNCHANGED <<tx, sent, runs, verdict, reports, losses, faults>>,
               InboxInv', RxInv'
        PROVE  BusInv'
    BY <1>2, RestKept DEF BusInv
  <1>3. CASE RxAborted(n)
    <2>1. PICK m \in Shreds(n) : inbox' = Taken(n)
                                 /\ rx' = [rx EXCEPT ![n].words = <<>>]
      BY <1>3 DEF RxAborted
    <2>2. rx' = [rx EXCEPT ![n] = [rx[n] EXCEPT !.words = <<>>]]
      BY <2>1
    <2>3. InboxInv' /\ RxInv'
      BY <2>1, <2>2, ShredTaken, FieldFacts, MessageTaken, ReceiverKept
    <2> QED
      BY <1>2, <1>3, <2>3 DEF RxAborted, history
  <1>4. CASE RxKnown(n)
    <2>1. PICK m \in Shreds(n) :
            \/ sendTransferAck(n, rx[n], m.pos, rx[n].code)
            \/ sendAck(n, rx[n], m.pos)
            \/ inbox' = Taken(n) /\ rx' = [rx EXCEPT ![n].fatal = TRUE]
      BY <1>4 DEF RxKnown
    <2>2. InboxInv' /\ RxInv'
      <3>1. CASE \/ sendTransferAck(n, rx[n], m.pos, rx[n].code)
                 \/ sendAck(n, rx[n], m.pos)
        BY <3>1, ShredTaken, AckSent
      <3>2. CASE inbox' = Taken(n) /\ rx' = [rx EXCEPT ![n].fatal = TRUE]
        <4>1. rx' = [rx EXCEPT ![n] = [rx[n] EXCEPT !.fatal = TRUE]]
          BY <3>2
        <4> QED
          BY <3>2, <4>1, ShredTaken, FieldFacts, MessageTaken, ReceiverKept
      <3> QED
        BY <2>1, <3>1, <3>2
    <2> QED
      BY <1>2, <1>4, <2>2 DEF RxKnown, history
  <1>5. CASE RxOutOfOrder(n)
    <2>1. PICK m \in Shreds(n) : sendAck(n, [rx[n] EXCEPT !.words = <<>>], Abort)
      BY <1>5 DEF RxOutOfOrder
    <2>2. InboxInv' /\ RxInv'
      BY <1>1, <2>1, ShredTaken, FieldFacts, AckSent
    <2> QED
      BY <1>2, <1>5, <2>2 DEF RxOutOfOrder, history
  <1>6. CASE RxStore(n)
    <2>1. PICK m \in Expected(n), b \in BOOLEAN :
            \/ sendAck(n, [Stored(n, m) EXCEPT !.fatal = b], m.pos)
            \/ inbox' = Taken(n) /\ rx' = [rx EXCEPT ![n].fatal = TRUE]
      BY <1>6 DEF RxStore
    <2>2. m \in Shreds(n)
      BY DEF Expected
    <2>3. InboxInv' /\ RxInv'
      <3>1. CASE sendAck(n, [Stored(n, m) EXCEPT !.fatal = b], m.pos)
        <4>1. Honest(n, [Stored(n, m) EXCEPT !.fatal = b])
          BY StoredFacts, FieldFacts
        <4> QED
          BY <1>1, <2>2, <3>1, <4>1, ShredTaken, AckSent
      <3>2. CASE inbox' = Taken(n) /\ rx' = [rx EXCEPT ![n].fatal = TRUE]
        <4>1. rx' = [rx EXCEPT ![n] = [rx[n] EXCEPT !.fatal = TRUE]]
          BY <3>2
        <4> QED
          BY <2>2, <3>2, <4>1, ShredTaken, FieldFacts, MessageTaken, ReceiverKept
      <3> QED
        BY <2>1, <3>1, <3>2
    <2> QED
      BY <1>2, <1>6, <2>3 DEF RxStore, history
  <1>7. CASE RxFinish(n)
    <2>1. PICK m \in Expected(n), k \in {0, 1}, code \in {n, wrongCRC} :
            /\ sendTransferAck(n, [Stored(n, m) EXCEPT !.words = <<>>, !.code = code],
                               m.pos, code)
            /\ runs' = [runs EXCEPT ![m.source][m.value] = @ + k]
            /\ verdict' = [verdict EXCEPT ![m.source][m.value] = code]
            /\ UNCHANGED <<tx, sent, reports, losses, faults>>
      BY <1>7 DEF RxFinish, dummyHandleMmpTransfer
    <2>2. m \in Shreds(n) /\ code \in Codes /\ (code \in Nodes => code = n)
      BY NodeFacts DEF Expected
    <2>3. Honest(n, [Stored(n, m) EXCEPT !.words = <<>>, !.code = code])
      BY <2>2, StoredFacts, FieldFacts
    <2>4. InboxInv' /\ RxInv'
      BY <2>1, <2>2, <2>3, ShredTaken, AckSent
    <2>5. RunsInv'
      <3>1. m.source \in Nodes /\ m.value \in Xfers(m.source) /\ RunsInv
        BY StoredFacts DEF BusInv
      <3>2. /\ DOMAIN runs' = Nodes /\ DOMAIN verdict' = Nodes
            /\ \A o \in Nodes : runs'[o] \in [Xfers(o) -> Nat]
            /\ \A o \in Nodes : verdict'[o] \in [Xfers(o) -> Codes]
        BY <2>1, <2>2, <3>1 DEF RunsInv
      <3> QED
        BY <3>2 DEF RunsInv
    <2> QED
      BY <2>1, <2>4, <2>5, RestKept DEF BusInv
  <1> QED
    BY <1>3, <1>4, <1>5, <1>6, <1>7 DEF handleRx

-----------------------------------------------------------------------------
(* The whole *)

LEMMA FaultKeeps ==
    ASSUME BusInv, NEW n \in Nodes, rxTimeout(n) \/ Reboot(n) \/ Lose(n)
    PROVE  BusInv'
  <1>1. /\ InboxInv /\ RxInv /\ TxInv /\ Honest(n, rx[n])
        /\ losses \in 0 .. MaxLosses /\ faults \in 0 .. MaxFaults
    BY DEF BusInv, RxInv, Honest, BoundsInv
  <1>2. Fault => BoundsInv'
    BY <1>1, NodeFacts DEF Fault, BoundsInv
  <1>3. CASE rxTimeout(n)
    <2>1. Honest(n, TimedOut(n))
      <3>1. <<>> \in Seq(Words) /\ rx[n].timer \in {Off, ReceiverTimeout}
        BY <1>1 DEF Honest, RxChannels
      <3>2. PICK timer \in {Off, ReceiverTimeout} :
              timer = IF SingleShot THEN Off ELSE rx[n].timer
        BY <3>1
      <3>3. TimedOut(n) = [rx[n] EXCEPT !.words = <<>>, !.timer = timer]
        BY <3>2 DEF TimedOut
      <3>4. ASSUME NEW r, Honest(n, r)
            PROVE  Honest(n, [r EXCEPT !.words = <<>>, !.timer = timer])
        BY <3>1, <3>4 DEF Honest, RxChannels
      <3> QED
        BY <1>1, <3>3, <3>4
    <2>2. RxInv'
      BY <1>1, <1>3, <2>1, ReceiverKept DEF rxTimeout
    <2> QED
      BY <1>2, <1>3, <2>2, RestKept DEF rxTimeout, history, BusInv
  <1>4. CASE Reboot(n)
    <2>1. PICK length \in StaleLengths : rx' = [rx EXCEPT ![n] = rx0(length)]
      BY <1>4 DEF Reboot
    <2>2. Honest(n, rx0(length))
      BY NodeFacts DEF rx0, Honest, RxChannels
    <2>3. RxInv'
      BY <1>1, <2>1, <2>2, ReceiverKept
    <2>4. /\ DOMAIN tx' = Nodes /\ tx'[n] = tx0
          /\ \A o \in Nodes : o # n => tx'[o] = tx[o]
      BY <1>1, <1>4 DEF Reboot, TxInv
    <2>5. TxInv'
      BY <1>1, <2>4, ZeroedChannel DEF TxInv, TxChannels
    <2>6. CounterpartInv'
      BY <1>4, <2>4, ZeroedChannel DEF BusInv, CounterpartInv, Reboot, history
    <2> QED
      BY <1>2, <1>4, <2>3, <2>5, <2>6, RestKept DEF Reboot, history, BusInv
  <1>5. CASE Lose(n)
    <2>1. InboxInv'
      BY <1>1, <1>5, MessageTaken DEF Lose
    <2>2. BoundsInv'
      BY <1>1, <1>5, NodeFacts DEF Lose, BoundsInv
    <2> QED
      BY <1>5, <2>1, <2>2, RestKept DEF Lose, history, BusInv
  <1> QED
    BY <1>3, <1>4, <1>5

LEMMA BusInit == Init => BusInv
  <1> SUFFICES ASSUME Init PROVE BusInv
    OBVIOUS
  <1>1. PICK length \in StaleLengths : rx = [n \in Nodes |-> rx0(length)]
    BY DEF Init
  <1>2. InboxInv
    BY DEF Init, InboxInv
  <1>3. TxInv /\ CounterpartInv
    BY ZeroedChannel DEF Init, TxInv, CounterpartInv
  <1>4. RxInv
    <2>1. \A n \in Nodes : Honest(n, rx0(length))
      BY NodeFacts DEF rx0, Honest, RxChannels
    <2> QED
      BY <1>1, <2>1 DEF RxInv, Honest
  <1>5. SentInv
    BY DEF Init, SentInv
  <1>6. RunsInv
    BY NodeFacts DEF Init, RunsInv
  <1>7. ReportsInv
    BY DEF Init, ReportsInv, OwnCounterpart
  <1>8. BoundsInv
    BY NodeFacts DEF Init, BoundsInv
  <1> QED
    BY <1>2, <1>3, <1>4, <1>5, <1>6, <1>7, <1>8 DEF BusInv

LEMMA BusAlways == Spec => []BusInv
  <1>1. BusInv /\ [Next]_vars => BusInv'
    <2> SUFFICES ASSUME BusInv, [Next]_vars PROVE BusInv'
      OBVIOUS
    <2>1. CASE UNCHANGED vars
      BY <2>1, RestKept DEF vars, history, BusInv
    <2>2. CASE Next
      BY <2>2, StartKeeps, HandleTxKeeps, HandleRxKeeps, TimeoutKeeps, FaultKeeps
         DEF Next
    <2> QED
      BY <2>1, <2>2
  <1> QED
    BY BusInit, <1>1, PTL DEF Spec

\* Every variable of every node keeps its type.
THEOREM BusTypeCorrect == Spec => []TypeOK
  <1>1. BusInv => TypeOK
    BY DEF BusInv, TxInv, TxChannels, RxInv, RxChannels, RunsInv, ReportsInv,
           BoundsInv, TypeOK
  <1> QED
    BY <1>1, BusAlways, PTL

\* A result that is reported comes from the node the transfer was sent to, for
\* any number of nodes that send to each other in any way: comparing the sender
\* of an acknowledge is enough for that (mmpNode.cpp:275-281), and not enough to
\* tell which of two transmitters it answers.
THEOREM ReportsOwnCounterpart == Spec => []OwnCounterpart
  <1>1. BusInv => OwnCounterpart
    BY DEF BusInv, ReportsInv
  <1> QED
    BY <1>1, BusAlways, PTL
=============================================================================
