------------------------------- MODULE MmpBus -------------------------------
(***************************************************************************)
(* Several CMmpNodes on one CAN bus, each with its transmit and its        *)
(* receive channel.  Every node sees every acknowledge, and has to find    *)
(* out which of them are meant for it; a shred carries the id of the node  *)
(* it is for, and the application (or the filter of its CAN controller)    *)
(* hands it to that node only, since handleRx() does not look.             *)
(*                                                                         *)
(* Each node takes its messages from one buffer (pushRxMessage), shreds    *)
(* and acknowledges in the order they were sent.  As in MmpLink no time    *)
(* passes: a running timer may fire at any moment.  The callback of a      *)
(* finished transfer starts no other one here; MmpLink does that.          *)
(***************************************************************************)
EXTENDS MmpTransfer, Sequences, FiniteSets

CONSTANTS
    Nodes,          \* node ids, 0 is none
    Plan,           \* for each node the nodes its application transfers to, in
                    \* this order; bounds the number of transfers
    Restarting,     \* the nodes that may restart
    TakeTurns,      \* an application starts only while the bus is quiet
    Lengths, StaleLengths, MaxRetry,
    ShredTimeout, ExecTimeout, ReceiverTimeout, SingleShot,
    MaxLosses,      \* bound: messages a node misses
    MaxFaults       \* bound: early timeouts, retransmissions and restarts

Off     == -1
Abort   == -1
NoXfer  == 0
NoNode  == 0        \* m_counterNodeId of a node in zeroed memory

\* EReturnCode
invalid         == 0
counterPartDead == -102
wrongCRC        == -104
invalidInit     == -200

Starts(n)   == Len(Plan[n])
Partners(n) == {Plan[n][x] : x \in 1 .. Starts(n)}

ASSUME BusAssumption ==
    /\ Nodes \subseteq Nat \ {NoNode} /\ IsFiniteSet(Nodes)
    /\ Plan \in [Nodes -> Seq(Nodes)]
    /\ \A n \in Nodes : n \notin Partners(n)
    /\ Restarting \subseteq Nodes
    /\ Lengths \subseteq Nat /\ StaleLengths \subseteq Int
    /\ {MaxRetry, MaxLosses, MaxFaults} \subseteq Nat
    /\ {ShredTimeout, ExecTimeout, ReceiverTimeout} \subseteq Nat \ {0}
    /\ {TakeTurns, SingleShot} \subseteq BOOLEAN

VARIABLES
    tx,      \* m_tx and m_txTimeoutTimer of each node
    rx,      \* m_rx and m_rxTimeoutTimer of each node
    inbox,   \* messages under way to each node and in its buffer
    sent,    \* history: receiver and length of each node's transfers
    runs,    \* history: how often the handler got each node's transfers
    verdict, \* history: the last code finishRx computed for them
    reports, \* history: codes signalHandleMmpTransferAck gave each node
    losses, faults   \* their numbers so far

history == <<sent, runs, verdict, reports>>
vars    == <<tx, rx, inbox, history, losses, faults>>

Xfers(n) == 1 .. Starts(n)
Codes == Nodes \cup {invalid, counterPartDead, wrongCRC, invalidInit}

\* A word a receiver stores: whose, and of which transfer.
Word(m) == [source |-> m.source, xfer |-> m.value]
Words == {w \in [source : Nodes, xfer : UNION {Xfers(n) : n \in Nodes}] :
             w.xfer \in Xfers(w.source)}

-----------------------------------------------------------------------------
(* Messages: CMessage( id, function code, source, pos, value ) *)

\* For node id, from node n.
Shred(id, n, pos, xfer) ==
    [fc |-> "dataBlob", id |-> id, source |-> n, pos |-> pos, value |-> xfer]

\* From node n with receive channel r, and for nobody in particular: the source
\* field is the id that shreds for n carry, its own.
Ack(n, r, pos, code) ==
    [fc |-> "ackDataBlob", id |-> n, source |-> r.counter, pos |-> pos,
     value |-> code]

\* What the application of node n hands to receiveTdtMessage().
Receives(n, m) == m.fc = "ackDataBlob" \/ m.id = n

\* The buffers q after node n has sent message m.
Broadcast(n, m, q) ==
    [o \in Nodes |-> IF o # n /\ Receives(o, m) THEN Append(q[o], m) ELSE q[o]]

\* The next message of node n, if it has function code fc.
Pending(n, fc) ==
    IF inbox[n] = <<>> THEN {} ELSE {m \in {Head(inbox[n])} : m.fc = fc}

\* Mutant of Taken: the message goes back into the buffer.
TakenBack(n) == [inbox EXCEPT ![n] = Append(Tail(@), Head(@))]

\* The buffers without that message.
Taken(n) == [inbox EXCEPT ![n] = Tail(@)]

TypeOK ==
    /\ \A n \in Nodes :
        /\ tx[n].xfer \in 0 .. Starts(n) /\ tx[n].pos \in Nat
        /\ tx[n].retry \in 0 .. MaxRetry + 1
        /\ tx[n].state \in {"idle", "transmitting"}
        /\ tx[n].timer \in {Off, ShredTimeout, ExecTimeout}
        /\ tx[n].counter \in Nodes \cup {NoNode}
        /\ rx[n].words \in Seq(Words)
        /\ rx[n].length \in StaleLengths \cup Lengths \cup {0}
        /\ rx[n].code \in Codes
        /\ rx[n].timer \in {Off, ReceiverTimeout}
        /\ rx[n].counter \in {n, NoNode}
        /\ rx[n].fatal \in BOOLEAN
        /\ \A x \in Xfers(n) : runs[n][x] \in Nat /\ verdict[n][x] \in Codes
        /\ reports[n] \subseteq [xfer : Xfers(n), code : Codes]
    /\ losses \in 0 .. MaxLosses /\ faults \in 0 .. MaxFaults

\* A node whose memory was zeroed, except for the header of m_rx.
tx0 == [xfer |-> NoXfer, pos |-> 0, retry |-> 0, state |-> "idle",
        timer |-> Off, counter |-> NoNode]
rx0(length) == [words |-> <<>>, length |-> length, code |-> invalidInit,
                timer |-> Off, counter |-> NoNode, fatal |-> FALSE]

Init ==
    /\ tx = [n \in Nodes |-> tx0]
    /\ \E length \in StaleLengths : rx = [n \in Nodes |-> rx0(length)]
    /\ inbox = [n \in Nodes |-> <<>>]
    /\ sent = [n \in Nodes |-> [x \in 0 .. Starts(n) |-> [to |-> NoNode, length |-> 0]]]
    /\ runs = [n \in Nodes |-> [x \in Xfers(n) |-> 0]]
    /\ verdict = [n \in Nodes |-> [x \in Xfers(n) |-> invalidInit]]
    /\ reports = [n \in Nodes |-> {}]
    /\ losses = 0 /\ faults = 0

-----------------------------------------------------------------------------
(* The transmit channel of node n *)

txLength(n) == sent[n][tx[n].xfer].length

\* sendTxShred(): the shred of channel t, and its timer.
sendTxShred(n, t, length, q) ==
    /\ inbox' = Broadcast(n, Shred(t.counter, n, t.pos, t.xfer), q)
    /\ tx' = [tx EXCEPT ![n] = [t EXCEPT !.timer =
                 IF isLast(t.pos, length) THEN ExecTimeout ELSE ShredTimeout]]

\* The application has been told the end of its last transfer, and if it takes
\* turns with the others it waits until nobody is at work.
AppMayStart(n) ==
    /\ tx[n].state = "idle" \/ \E r \in reports[n] : r.xfer = tx[n].xfer
    /\ TakeTurns => \A o \in Nodes : tx[o].state = "idle" /\ inbox[o] = <<>>

\* setData(), setCounterNodeId() and startTx() for transfer x to node id.
txStarted(x, id) == [xfer |-> x, pos |-> 0, retry |-> 0,
                     state |-> "transmitting", timer |-> Off, counter |-> id]

startTransfer(n) ==
    /\ ~rx[n].fatal /\ AppMayStart(n)
    /\ \E length \in Lengths, x \in Xfers(n) :
        /\ \A y \in Xfers(n) : sent[n][y].to # NoNode <=> y < x
        /\ sent' = [sent EXCEPT ![n][x] = [to |-> Plan[n][x], length |-> length]]
        /\ sendTxShred(n, txStarted(x, Plan[n][x]), length, inbox)
    /\ UNCHANGED <<rx, runs, verdict, reports, losses, faults>>

\* Mutant of ForMe: every acknowledge is taken for the own transfer's.
ForMeAny(n, m) == m.id \in Nodes

\* An acknowledge of the node this one transmits to; whose shred it answers
\* cannot be told from it.
ForMe(n, m) == m.id = tx[n].counter

\* "Just some ack, not for me"
TxForeign(n) ==
    \E m \in Pending(n, "ackDataBlob") :
        /\ ~rx[n].fatal /\ ~ForMe(n, m)
        /\ inbox' = Taken(n)
        /\ UNCHANGED <<tx, rx, history, losses, faults>>

\* The next acknowledge for node n.
Acked(n) == {m \in Pending(n, "ackDataBlob") : ~rx[n].fatal /\ ForMe(n, m)}

\* Mutant of Stopped: the timer goes on.
StoppedNot(n) == tx[n]

\* The timer is stopped before anything else.
Stopped(n) == [tx[n] EXCEPT !.timer = Off]

TxAborted(n) ==
    \E m \in Acked(n) :
        /\ m.pos = Abort
        /\ inbox' = Taken(n)
        /\ tx' = [tx EXCEPT ![n] = [Stopped(n) EXCEPT
                     !.pos = 0, !.retry = 0, !.state = "idle"]]
        /\ UNCHANGED <<rx, history, losses, faults>>

TxOldAck(n) ==
    \E m \in Acked(n) :
        /\ m.pos > 0 /\ m.pos = tx[n].pos - 1
        /\ inbox' = Taken(n) /\ tx' = [tx EXCEPT ![n] = Stopped(n)]
        /\ UNCHANGED <<rx, history, losses, faults>>

TxImplausible(n) ==
    \E m \in Acked(n) :
        /\ m.pos > 0 /\ m.pos \notin {tx[n].pos - 1, tx[n].pos}
        /\ inbox' = Broadcast(n, Shred(tx[n].counter, n, Abort, NoXfer), Taken(n))
        /\ tx' = [tx EXCEPT ![n] = Stopped(n)]
        /\ UNCHANGED <<rx, history, losses, faults>>

\* The channel of node n after inc().
Advanced(n) == [Stopped(n) EXCEPT !.pos = @ + 1, !.retry = 0]

TxNext(n) ==
    \E m \in Acked(n) :
        /\ m.pos \in {0, tx[n].pos} /\ ~isFinished(tx[n].pos + 1, txLength(n))
        /\ sendTxShred(n, Advanced(n), txLength(n), Taken(n))
        /\ UNCHANGED <<rx, history, losses, faults>>

emitHandleMmpTransferAck(n, code) ==
    reports' = [reports EXCEPT ![n] = @ \cup {[xfer |-> tx[n].xfer, code |-> code]}]

TxFinish(n) ==
    \E m \in Acked(n) :
        /\ m.pos \in {0, tx[n].pos} /\ isFinished(tx[n].pos + 1, txLength(n))
        /\ inbox' = Taken(n)
        /\ tx' = [tx EXCEPT ![n] = [Advanced(n) EXCEPT !.state = "idle"]]
        /\ emitHandleMmpTransferAck(n, m.value)
        /\ UNCHANGED <<rx, sent, runs, verdict, losses, faults>>

handleTx(n) ==
    \/ TxForeign(n) \/ TxAborted(n) \/ TxOldAck(n) \/ TxImplausible(n)
    \/ TxNext(n) \/ TxFinish(n)

Fault == faults < MaxFaults /\ faults' = faults + 1 /\ UNCHANGED losses

\* txTimeout(): a retransmission, or the report that the counterpart is dead.
TxRetransmit(n) ==
    /\ Fault /\ ~rx[n].fatal /\ tx[n].timer # Off /\ tx[n].retry < MaxRetry
    /\ sendTxShred(n, [tx[n] EXCEPT !.retry = @ + 1], txLength(n), inbox)
    /\ UNCHANGED <<rx, history>>

GivenUp(n) == [tx[n] EXCEPT !.retry = MaxRetry + 1,
                            !.timer = IF SingleShot THEN Off ELSE @]

TxGiveUp(n) ==
    /\ ~rx[n].fatal /\ tx[n].timer # Off /\ tx[n].retry >= MaxRetry
    /\ tx' = [tx EXCEPT ![n] = GivenUp(n)]
    /\ emitHandleMmpTransferAck(n, counterPartDead)
    /\ UNCHANGED <<rx, inbox, sent, runs, verdict, losses, faults>>

-----------------------------------------------------------------------------
(* The receive channel of node n *)

\* Node n sends acknowledge m with its receive channel in state r.
Answer(n, r, m) ==
    /\ rx' = [rx EXCEPT ![n] = r]
    /\ inbox' = Broadcast(n, m, Taken(n))

sendAck(n, r, pos) ==
    Answer(n, [r EXCEPT !.timer = ReceiverTimeout], Ack(n, r, pos, invalid))
sendTransferAck(n, r, pos, code) ==
    Answer(n, [r EXCEPT !.timer = Off], Ack(n, r, pos, code))

\* The next shred for node n, and how far node n has got.
Shreds(n) == {m \in Pending(n, "dataBlob") : ~rx[n].fatal}
rxPos(n) == Len(rx[n].words)

RxAborted(n) ==
    \E m \in Shreds(n) :
        /\ m.pos = Abort
        /\ inbox' = Taken(n) /\ rx' = [rx EXCEPT ![n].words = <<>>]
        /\ UNCHANGED <<tx, history, losses, faults>>

\* Mutant of RxKnown: a late last shred runs the handler again.
RxKnownHandled(n) ==
    \E m \in Shreds(n) :
        /\ m.pos > 0 /\ rxPos(n) = 0
        /\ sendTransferAck(n, rx[n], m.pos, rx[n].code)
        /\ runs' = [runs EXCEPT ![m.source][m.value] = @ + 1]
        /\ UNCHANGED <<tx, sent, verdict, reports, losses, faults>>

\* A copy of the shred before, or of the last one of a transfer that is over,
\* is acknowledged, and a later one while nothing is received is senseless.
RxKnown(n) ==
    \E m \in Shreds(n) :
        /\ (m.pos > 0 /\ rxPos(n) = 0) \/ (m.pos >= 0 /\ m.pos = rxPos(n) - 1)
        /\ \/ /\ isLast(m.pos, rx[n].length)
              /\ sendTransferAck(n, rx[n], m.pos, rx[n].code)
           \/ /\ ~isLast(m.pos, rx[n].length) /\ rxPos(n) # 0
              /\ sendAck(n, rx[n], m.pos)
           \/ /\ ~isLast(m.pos, rx[n].length) /\ rxPos(n) = 0
              /\ inbox' = Taken(n) /\ rx' = [rx EXCEPT ![n].fatal = TRUE]
        /\ UNCHANGED <<tx, history, losses, faults>>

RxOutOfOrder(n) ==
    \E m \in Shreds(n) :
        /\ rxPos(n) # 0 /\ m.pos \notin {Abort, rxPos(n) - 1, rxPos(n)}
        /\ sendAck(n, [rx[n] EXCEPT !.words = <<>>], Abort)
        /\ UNCHANGED <<tx, history, losses, faults>>

\* The channel once the word of the expected shred m is stored.  The first one
\* sets the counterpart: to getNodeId() of a shred for node n, which is n.
Stored(n, m) ==
    [rx[n] EXCEPT
        !.words = Append(@, Word(m)),
        !.length = IF m.pos = LengthWord THEN sent[m.source][m.value].length ELSE @,
        !.counter = IF m.pos = 0 THEN m.id ELSE @]

Expected(n) == {m \in Shreds(n) : m.pos = rxPos(n)}
sameSender(n, m) == Stored(n, m).counter = m.id

\* "Sender missmatch" ends the program before the word is stored: not the id of
\* the transmitter is compared, but the receiver's own.
RxStore(n) ==
    \E m \in Expected(n) :
        LET r == Stored(n, m)
        IN  /\ ~isLast(m.pos, r.length) \/ ~sameSender(n, m)
            /\ IF sameSender(n, m)
               THEN sendAck(n, [r EXCEPT !.fatal = m.pos + 1 = HeaderWords
                                          /\ r.length > MaxReceiveSize], m.pos)
               ELSE inbox' = Taken(n) /\ rx' = [rx EXCEPT ![n].fatal = TRUE]
            /\ UNCHANGED <<tx, history, losses, faults>>

\* The checksum in the header is that of the transfer its word came from.
CrcOk(r) ==
    LET w == r.words[CrcWord + 1]
    IN  receivedCrc({r.words[i] : i \in HeaderWords + 1 .. Len(r.words)}, r.length)
            = updateCrc(w, sent[w.source][w.xfer].length)

\* The handler of the tests, which tells who has handled a transfer:
\* "Just store the node-id as transfer status".
dummyHandleMmpTransfer(n) == n

RxFinish(n) ==
    \E m \in Expected(n) :
        LET r    == Stored(n, m)
            ok   == CrcOk(r)
            code == IF ok THEN dummyHandleMmpTransfer(n) ELSE wrongCRC
        IN  /\ isLast(m.pos, r.length) /\ sameSender(n, m)
            /\ sendTransferAck(n, [r EXCEPT !.words = <<>>, !.code = code], m.pos, code)
            /\ runs' = [runs EXCEPT ![m.source][m.value] = @ + (IF ok THEN 1 ELSE 0)]
            /\ verdict' = [verdict EXCEPT ![m.source][m.value] = code]
            /\ UNCHANGED <<tx, sent, reports, losses, faults>>

handleRx(n) ==
    RxAborted(n) \/ RxKnown(n) \/ RxOutOfOrder(n) \/ RxStore(n) \/ RxFinish(n)

TimedOut(n) == [rx[n] EXCEPT !.words = <<>>,
                             !.timer = IF SingleShot THEN Off ELSE @]

rxTimeout(n) ==
    /\ Fault /\ ~rx[n].fatal /\ rx[n].timer # Off
    /\ rx' = [rx EXCEPT ![n] = TimedOut(n)]
    /\ UNCHANGED <<tx, inbox, history>>

-----------------------------------------------------------------------------
(* The whole *)

\* The constructor again: both channels lose all they had.
Reboot(n) ==
    /\ Fault /\ n \in Restarting
    /\ tx' = [tx EXCEPT ![n] = tx0]
    /\ \E length \in StaleLengths : rx' = [rx EXCEPT ![n] = rx0(length)]
    /\ UNCHANGED <<inbox, history>>

\* Node n misses a message: simulated drops, or the program has ended.
Lose(n) ==
    /\ inbox[n] # <<>> /\ inbox' = Taken(n)
    /\ IF rx[n].fatal THEN UNCHANGED losses
       ELSE losses < MaxLosses /\ losses' = losses + 1
    /\ UNCHANGED <<tx, rx, history, faults>>

Next ==
    \E n \in Nodes :
        \/ startTransfer(n) \/ handleTx(n) \/ handleRx(n)
        \/ TxRetransmit(n) \/ TxGiveUp(n) \/ rxTimeout(n)
        \/ Reboot(n) \/ Lose(n)

Spec == Init /\ [][Next]_vars

-----------------------------------------------------------------------------
(* Properties *)

\* Nobody's transfer is handled twice, also when the transmitter restarts or
\* its counterpart is at work on a transfer of its own.  Two that send to one
\* node are excluded, whose words it mixes (OneSender).
OnlySender(n, x) == \A o \in Nodes \ {n} : Plan[n][x] \notin Partners(o)
AtMostOnce ==
    \A n \in Nodes : \A x \in Xfers(n) : OnlySender(n, x) => runs[n][x] <= 1

\* A node that sends twice to one receiver is overtaken by nothing of its own:
\* once the later transfer has run there, no word of the earlier one is stored
\* and it does not run, be it sent again, given up or cut off by a restart.
LeavesBehind ==
    \A n \in Nodes : \A x, y \in Xfers(n) :
        (x < y /\ Plan[n][x] = Plan[n][y] /\ OnlySender(n, y) /\ runs[n][y] > 0) =>
            LET o == Plan[n][y]
            IN  /\ runs'[n][x] = runs[n][x]
                /\ Len(rx'[o].words) = rxPos(o) + 1 =>
                       rx'[o].words[rxPos(o) + 1] # [source |-> n, xfer |-> x]

InStartOrder == [][LeavesBehind]_vars

\* A message that carries a word of a transfer, and those in queue q.
Real(m)     == m.fc = "dataBlob" /\ m.pos # Abort
ShredsIn(q) == {q[i] : i \in {j \in 1 .. Len(q) : Real(q[j])}}
WordsOf(n)  == {rx[n].words[k] : k \in 1 .. rxPos(n)}

\* A node numbers its transfers in the order of its plan and works on the last
\* one; what a node has of a transfer, in its inbox, its channel or its past, is
\* of one that was started with that node.
OnlyStarted ==
    /\ \A n \in Nodes : \A x \in Xfers(n) :
        /\ sent[n][x].to \in {NoNode, Plan[n][x]}
        /\ sent[n][x].to # NoNode /\ tx[n].counter # NoNode => x <= tx[n].xfer
        /\ runs[n][x] > 0 => sent[n][x].to # NoNode
    /\ \A o \in Nodes :
        /\ \A m \in ShredsIn(inbox[o]) : sent[m.source][m.value].to = o
        /\ \A w \in WordsOf(o) : sent[w.source][w.xfer].to = o

\* Shred m may follow shred l of the same node: the transfers are in order, and
\* a first word comes behind first words only.
MayFollow(l, m) ==
    l.source = m.source =>
        l.value <= m.value /\ (l.value = m.value /\ m.pos = 0 => l.pos = 0)

Ordered(q) ==
    \A i, j \in 1 .. Len(q) :
        i < j /\ Real(q[i]) /\ Real(q[j]) => MayFollow(q[i], q[j])

SentInOrder == \A o \in Nodes : Ordered(inbox[o])

\* Node n cannot send the first word of its transfer any more.
PastFirst(n) == tx[n].pos > 0 \/ tx[n].timer = Off

TransmitterPastFirst ==
    \A o \in Nodes : \A m \in ShredsIn(inbox[o]) :
        m.value = tx[m.source].xfer /\ m.pos > 0 => PastFirst(m.source)

\* What arrives is of no earlier transfer of its node than the words stored.
ReceiverInOrder ==
    \A o \in Nodes : \A m \in ShredsIn(inbox[o]), w \in WordsOf(o) :
        w.source = m.source => w.xfer <= m.value

\* Of a transfer that has run, neither a stored word nor a first word is left at
\* its receiver, and its transmitter will not send one.
NothingLeftToRun ==
    \A n \in Nodes : \A x \in Xfers(n) : OnlySender(n, x) /\ runs[n][x] > 0 =>
        /\ \A m \in ShredsIn(inbox[Plan[n][x]]) : m.source = n =>
              m.value > x \/ (m.value = x /\ m.pos > 0)
        /\ \A w \in WordsOf(Plan[n][x]) : w.source = n => w.xfer > x
        /\ x = tx[n].xfer => PastFirst(n)

OrderInv ==
    /\ OnlyStarted /\ SentInOrder /\ TransmitterPastFirst
    /\ ReceiverInOrder /\ NothingLeftToRun /\ AtMostOnce

\* A result that a node reports comes from the node it sent that transfer to:
\* "Just some ack, not for me" (mmpNode.cpp:277).
OwnCounterpart ==
    \A n \in Nodes : \A r \in reports[n] :
        r.code \in Nodes => r.code = sent[n][r.xfer].to

\* What a transfer is answered with is the id of the node that handled it, which
\* test_mmp.cpp requires of both nodes (test_mmp.cpp:252-253).
ReturnsCounterpart ==
    \A n \in Nodes : \A r \in reports[n] : r.code = sent[n][r.xfer].to

\* The words a receiver holds come from one transmitter: "Sender missmatch"
\* (mmpNode.cpp:238).
OneSender ==
    \A n \in Nodes : \A i, j \in 1 .. rxPos(n) :
        rx[n].words[i].source = rx[n].words[j].source
=============================================================================
