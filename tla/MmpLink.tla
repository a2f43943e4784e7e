------------------------------ MODULE MmpLink ------------------------------
(***************************************************************************)
(* One direction of the MMP protocol: the transmit channel m_tx of a       *)
(* CMmpNode, the receive channel m_rx of its counterpart, and the bus      *)
(* between them.  Shreds and acknowledges travel in order, one FIFO queue  *)
(* for each direction, and may be lost.  A node handles one message or one *)
(* timeout at a time; sending never calls back into the receiver           *)
(* (test_mmp.cpp: messages are pushed into a buffer).                      *)
(*                                                                         *)
(* Timers count down from the interval they were started with.  Here no    *)
(* time passes and a running timer may fire at any moment, so a timeout    *)
(* races with every message; MmpTimed adds the clock.                      *)
(***************************************************************************)
EXTENDS MmpTransfer, Sequences, FiniteSets

CONSTANTS
    Lengths,        \* data lengths in bytes the application transfers
    StaleLengths,   \* dataLength as found in the uninitialised m_header
    HandlerCodes,   \* codes signalHandleMmpTransfer may return
    MaxRetry,       \* retransmissions before the counterpart is dead (4)
    ShredTimeout,   \* m_shredTimeout
    ExecTimeout,    \* m_transferExecutionTimeout
    ReceiverTimeout,\* m_receiverTimeout
    SingleShot,     \* do the timers stop when they fire (QTimer: no)
    AppWaits,       \* the application waits for the end of a transfer
    NestedStarts,   \* the callback may set up another transfer
    MayDrop,        \* messages may be lost
    MayReboot,      \* the receiver may restart
    MaxStarts,      \* bound: transfers started
    QueueCap        \* bound: messages under way in one direction

Off     == -1       \* a timer that is not running
Abort   == -1       \* the position that means "abort the transfer"
NoXfer  == 0        \* no transfer; transfers are numbered from 1

\* EReturnCode
invalid         == 0
counterPartDead == -102
wrongCRC        == -104
invalidInit     == -200

ASSUME LinkAssumption ==
    /\ Lengths \subseteq Nat
    /\ StaleLengths \subseteq Int /\ StaleLengths # {}
    /\ HandlerCodes \subseteq Int
    /\ MaxRetry \in Nat
    /\ {ShredTimeout, ExecTimeout, ReceiverTimeout} \subseteq Nat \ {0}
    /\ {SingleShot, AppWaits, NestedStarts, MayDrop, MayReboot} \subseteq BOOLEAN
    /\ MaxStarts \in Nat /\ QueueCap \in Nat
    /\ MaxReceiveSize % 4 = 0

Xfers == 1 .. MaxStarts
Codes == HandlerCodes \cup {invalid, counterPartDead, wrongCRC, invalidInit}

VARIABLES
    txXfer,     \* the transfer m_tx holds
    txPos,      \* m_tx.m_pos
    txRetry,    \* m_tx.m_retry, counted up to MaxRetry + 1
    txState,    \* m_tx.m_state
    txTimer,    \* m_txTimeoutTimer: remaining time or Off
    rxWords,    \* for each word m_rx has stored, the transfer it belongs to;
                \* its length is m_rx.m_pos
    rxLength,   \* m_rx.m_header.dataLength, which outlives reset()
    rxCode,     \* m_rx.m_returnCode, which outlives reset() too
    rxTimer,    \* m_rxTimeoutTimer
    rxFatal,    \* the receiver has called qFatal or lFatal
    dataQ,      \* dataBlob messages under way: position and transfer
    ackQ,       \* ackDataBlob messages under way: position and code
    dataLength, \* history: dataLength of each transfer started
    runs,       \* history: how often the handler got a transfer
    verdict,    \* history: the last code finishRx computed for a transfer
    reports     \* history: codes signalHandleMmpTransferAck gave the sender

txVars   == <<txXfer, txPos, txRetry, txState, txTimer, dataLength, reports>>
rxVars   == <<rxWords, rxLength, rxCode, rxTimer, rxFatal, runs, verdict>>
vars     == <<txVars, rxVars, dataQ, ackQ>>

-----------------------------------------------------------------------------
(* Messages *)

Shred(x, pos) == [pos |-> pos, xfer |-> x]
Ack(pos, code) == [pos |-> pos, code |-> code]

Positions == Nat \cup {Abort}
Shreds == [pos : Positions, xfer : 0 .. MaxStarts]
Acks   == [pos : Positions, code : Codes]

\* A shred that carries a word of a transfer, and not the abort indication.
Real(m) == m.pos # Abort

Room(q) == Len(q) < QueueCap

\* The message that is delivered next, if there is one.
Pending(q) == IF q = <<>> THEN {} ELSE {Head(q)}

TxInterval(pos, length) ==
    IF isLast(pos, length) THEN ExecTimeout ELSE ShredTimeout

rxPos == Len(rxWords)

TypeOK ==
    /\ txXfer \in 0 .. MaxStarts
    /\ txPos \in Nat
    /\ txRetry \in 0 .. MaxRetry + 1
    /\ txState \in {"idle", "transmitting"}
    /\ txTimer \in {Off} \cup 0 .. ShredTimeout \cup 0 .. ExecTimeout
    /\ rxWords \in Seq(Xfers)
    /\ rxLength \in StaleLengths \cup Lengths \cup {0}
    /\ rxCode \in Codes
    /\ rxTimer \in {Off} \cup 0 .. ReceiverTimeout
    /\ rxFatal \in BOOLEAN
    /\ dataQ \in Seq(Shreds)
    /\ ackQ \in Seq(Acks)
    /\ dataLength \in [0 .. MaxStarts -> Lengths \cup {0}]
    /\ runs \in [Xfers -> Nat]
    /\ verdict \in [Xfers -> Codes]
    /\ reports \subseteq [xfer : 0 .. MaxStarts, code : Codes]

Init ==
    /\ txXfer = NoXfer /\ txPos = 0 /\ txRetry = 0
    /\ txState = "idle" /\ txTimer = Off
    /\ rxWords = <<>> /\ rxLength \in StaleLengths
    /\ rxCode = invalidInit /\ rxTimer = Off /\ rxFatal = FALSE
    /\ dataQ = <<>> /\ ackQ = <<>>
    /\ dataLength = [x \in 0 .. MaxStarts |-> 0]
    /\ runs = [x \in Xfers |-> 0]
    /\ verdict = [x \in Xfers |-> invalidInit]
    /\ reports = {}

-----------------------------------------------------------------------------
(* The transmitter *)

txLength == dataLength[txXfer]

\* Mutant of sendTxShred: the last shred is sent without a timer.
sendTxShredUntimed(x, pos, length) ==
    /\ Room(dataQ)
    /\ dataQ' = Append(dataQ, Shred(x, pos))
    /\ txTimer' = IF isLast(pos, length) THEN Off ELSE ShredTimeout

\* sendTxShred( pos, value ) for a real position: the message, and the timer.
sendTxShred(x, pos, length) ==
    /\ Room(dataQ)
    /\ dataQ' = Append(dataQ, Shred(x, pos))
    /\ txTimer' = TxInterval(pos, length)

\* setData() and startTx() of the next transfer.
startTx(length) ==
    /\ txXfer < MaxStarts
    /\ txXfer' = txXfer + 1
    /\ dataLength' = [dataLength EXCEPT ![txXfer + 1] = length]
    /\ txPos' = 0 /\ txRetry' = 0
    /\ sendTxShred(txXfer + 1, 0, length)

Reported(x) == \E r \in reports : r.xfer = x

\* An application that waits polls state() or the callback for the end.
AppMayStart ==
    AppWaits => txXfer = NoXfer \/ txState = "idle" \/ Reported(txXfer)

\* Mutant of startTransfer: the state is not set.
startTransferIdle ==
    /\ AppMayStart
    /\ \E length \in Lengths : startTx(length)
    /\ UNCHANGED <<txState, reports, rxVars, ackQ>>

startTransfer ==
    /\ AppMayStart
    /\ \E length \in Lengths : startTx(length)
    /\ txState' = "transmitting"
    /\ UNCHANGED <<reports, rxVars, ackQ>>

\* handleTx() for the next acknowledge, up to the case distinction.
OnAck ==
    /\ ackQ' = Tail(ackQ)
    /\ UNCHANGED rxVars

\* Mutant of TxAborted: the timer keeps running.
TxAbortedTimed ==
    \E ack \in Pending(ackQ) :
        /\ OnAck /\ ack.pos = Abort
        /\ txPos' = 0 /\ txRetry' = 0 /\ txState' = "idle"
        /\ UNCHANGED <<txXfer, dataLength, txTimer, reports, dataQ>>

\* The receiver aborts: back to position 0, silently.
TxAborted ==
    \E ack \in Pending(ackQ) :
        /\ OnAck /\ ack.pos = Abort
        /\ txTimer' = Off /\ txPos' = 0 /\ txRetry' = 0 /\ txState' = "idle"
        /\ UNCHANGED <<txXfer, dataLength, reports, dataQ>>

\* An acknowledge of the previous position is ignored; the timer is stopped.
TxOldAck ==
    \E ack \in Pending(ackQ) :
        /\ OnAck /\ ack.pos > 0 /\ ack.pos = txPos - 1
        /\ txTimer' = Off
        /\ UNCHANGED <<txXfer, dataLength, txPos, txRetry, txState,
                       reports, dataQ>>

\* An acknowledge of any other position: sendTxAbort().
TxImplausible ==
    \E ack \in Pending(ackQ) :
        /\ OnAck /\ ack.pos > 0 /\ ack.pos \notin {txPos - 1, txPos}
        /\ txTimer' = Off
        /\ Room(dataQ) /\ dataQ' = Append(dataQ, Shred(NoXfer, Abort))
        /\ UNCHANGED <<txXfer, dataLength, txPos, txRetry, txState, reports>>

\* Position 0 is accepted whatever the current position is.
Accepted(ack) == ack.pos = 0 \/ (ack.pos > 0 /\ ack.pos = txPos)

\* Mutant of TxNext: the end of the transfer is not noticed.
TxNextEndless ==
    \E ack \in Pending(ackQ) :
        /\ OnAck /\ Accepted(ack)
        /\ txPos' = txPos + 1 /\ txRetry' = 0
        /\ sendTxShred(txXfer, txPos + 1, txLength)
        /\ UNCHANGED <<txXfer, dataLength, txState, reports>>

TxNext ==
    \E ack \in Pending(ackQ) :
        /\ OnAck /\ Accepted(ack)
        /\ ~isFinished(txPos + 1, txLength)
        /\ txPos' = txPos + 1 /\ txRetry' = 0
        /\ sendTxShred(txXfer, txPos + 1, txLength)
        /\ UNCHANGED <<txXfer, dataLength, txState, reports>>

\* emitHandleMmpTransferAck(): the callback gets m_tx with its return code.
emitHandleMmpTransferAck(code) ==
    reports' = reports \cup {[xfer |-> txXfer, code |-> code]}

\* Mutant of TxFinish: the timer goes on.
TxFinishTimed ==
    \E ack \in Pending(ackQ) :
        /\ OnAck /\ Accepted(ack)
        /\ isFinished(txPos + 1, txLength)
        /\ emitHandleMmpTransferAck(ack.code)
        /\ txState' = "idle"
        /\ txPos' = txPos + 1 /\ txRetry' = 0
        /\ UNCHANGED <<txXfer, dataLength, txTimer, dataQ>>

\* finishTx(): the callback, which may set up another transfer, and then the
\* state.
TxFinish ==
    \E ack \in Pending(ackQ) :
        /\ OnAck /\ Accepted(ack)
        /\ isFinished(txPos + 1, txLength)
        /\ emitHandleMmpTransferAck(ack.code)
        /\ txState' = "idle"
        /\ \/ /\ txPos' = txPos + 1 /\ txRetry' = 0 /\ txTimer' = Off
              /\ UNCHANGED <<txXfer, dataLength, dataQ>>
           \/ NestedStarts /\ \E length \in Lengths : startTx(length)

\* Mutant of TxRetransmit: no limit.
TxRetransmitEndless ==
    /\ txTimer # Off
    /\ txRetry' = txRetry + 1
    /\ sendTxShred(txXfer, txPos, txLength)
    /\ UNCHANGED <<txXfer, dataLength, txPos, txState, reports, rxVars, ackQ>>

\* txTimeout(), retryTransmit() succeeds.
TxRetransmit ==
    /\ txTimer # Off /\ txRetry < MaxRetry
    /\ txRetry' = txRetry + 1
    /\ sendTxShred(txXfer, txPos, txLength)
    /\ UNCHANGED <<txXfer, dataLength, txPos, txState, reports, rxVars, ackQ>>

\* Mutant of TxGiveUp: the application is not told.
TxGiveUpSilent ==
    /\ txTimer # Off /\ txRetry >= MaxRetry
    /\ txRetry' = MaxRetry + 1
    /\ txTimer' = IF SingleShot THEN Off ELSE TxInterval(txPos, txLength)
    /\ UNCHANGED <<txXfer, dataLength, txPos, txState, reports, dataQ, rxVars, ackQ>>

\* txTimeout(), too many retries: the report, and nothing else.
TxGiveUp ==
    /\ txTimer # Off /\ txRetry >= MaxRetry
    /\ emitHandleMmpTransferAck(counterPartDead)
    /\ \/ /\ txRetry' = MaxRetry + 1
          /\ txTimer' = IF SingleShot THEN Off ELSE TxInterval(txPos, txLength)
          /\ UNCHANGED <<txXfer, dataLength, txPos, txState, dataQ>>
       \/ /\ NestedStarts /\ \E length \in Lengths : startTx(length)
          /\ txState' = "transmitting"
    /\ UNCHANGED <<rxVars, ackQ>>

-----------------------------------------------------------------------------
(* The receiver *)

\* Mutant of OnShred: the message goes back into the buffer.
OnShredKept ==
    /\ ~rxFatal
    /\ dataQ' = Append(Tail(dataQ), Head(dataQ))
    /\ UNCHANGED txVars

\* handleRx() for the next shred, up to the case distinction.
OnShred ==
    /\ ~rxFatal
    /\ dataQ' = Tail(dataQ)
    /\ UNCHANGED txVars

\* Mutants of sendAck: the receiver's timer is not started, or started with the
\* transmitter's interval.
sendAckUntimed(pos) ==
    /\ Room(ackQ)
    /\ ackQ' = Append(ackQ, Ack(pos, invalid))
    /\ UNCHANGED rxTimer
sendAckShort(pos) ==
    /\ Room(ackQ)
    /\ ackQ' = Append(ackQ, Ack(pos, invalid))
    /\ rxTimer' = ShredTimeout

sendAck(pos) ==
    /\ Room(ackQ)
    /\ ackQ' = Append(ackQ, Ack(pos, invalid))
    /\ rxTimer' = ReceiverTimeout

sendTransferAck(pos, code) ==
    /\ Room(ackQ)
    /\ ackQ' = Append(ackQ, Ack(pos, code))
    /\ rxTimer' = Off

\* The transmitter aborts.
RxAborted ==
    \E m \in Pending(dataQ) :
        /\ OnShred /\ m.pos = Abort
        /\ rxWords' = <<>>
        /\ UNCHANGED <<rxLength, rxCode, rxTimer, rxFatal, runs, verdict, ackQ>>

\* Mutant of RxRetransmission: a known shred is ignored.
RxRetransmissionMute ==
    \E m \in Pending(dataQ) :
        /\ OnShred /\ rxPos # 0 /\ m.pos = rxPos - 1
        /\ UNCHANGED <<rxVars, ackQ>>

\* Mutant of RxRetransmission: any earlier shred passes for a copy.
RxRetransmissionAny ==
    \E m \in Pending(dataQ) :
        /\ OnShred /\ m.pos \in 0 .. rxPos - 1
        /\ IF isLast(m.pos, rxLength) THEN sendTransferAck(m.pos, rxCode)
                                      ELSE sendAck(m.pos)
        /\ UNCHANGED <<rxWords, rxLength, rxCode, rxFatal, runs, verdict>>

\* A shred the receiver has already: acknowledge it again.
RxRetransmission ==
    \E m \in Pending(dataQ) :
        /\ OnShred /\ rxPos # 0 /\ m.pos = rxPos - 1
        /\ IF isLast(m.pos, rxLength) THEN sendTransferAck(m.pos, rxCode)
                                      ELSE sendAck(m.pos)
        /\ UNCHANGED <<rxWords, rxLength, rxCode, rxFatal, runs, verdict>>

\* Mutant of RxLate: the handler is called again.
RxLateHandled ==
    \E m \in Pending(dataQ) :
        /\ OnShred /\ rxPos = 0 /\ m.pos > 0
        /\ isLast(m.pos, rxLength)
        /\ sendTransferAck(m.pos, rxCode)
        /\ runs' = [runs EXCEPT ![m.xfer] = @ + 1]
        /\ UNCHANGED <<rxWords, rxLength, rxCode, rxFatal, verdict>>

\* A later shred while nothing is being received: what the header of the
\* previous transfer calls the last one gets the previous return code.
RxLate ==
    \E m \in Pending(dataQ) :
        /\ OnShred /\ rxPos = 0 /\ m.pos > 0
        /\ isLast(m.pos, rxLength)
        /\ sendTransferAck(m.pos, rxCode)
        /\ UNCHANGED <<rxWords, rxLength, rxCode, rxFatal, runs, verdict>>

\* Any other later shred: "Does not make sense".
RxNonsense ==
    \E m \in Pending(dataQ) :
        /\ OnShred /\ rxPos = 0 /\ m.pos > 0
        /\ ~isLast(m.pos, rxLength)
        /\ rxFatal' = TRUE
        /\ UNCHANGED <<rxWords, rxLength, rxCode, rxTimer, runs, verdict, ackQ>>

\* Neither the next nor the previous position: give the transfer up.
RxOutOfOrder ==
    \E m \in Pending(dataQ) :
        /\ OnShred /\ rxPos # 0 /\ m.pos \notin {Abort, rxPos - 1, rxPos}
        /\ rxWords' = <<>>
        /\ sendAck(Abort)
        /\ UNCHANGED <<rxLength, rxCode, rxFatal, runs, verdict>>

\* m_rx.m_header.dataLength once the word of message m is stored.
LengthAfter(m) == IF m.pos = LengthWord THEN dataLength[m.xfer] ELSE rxLength

\* Mutant of TooBig: the buffer is thought to hold the header as well.
TooBigTotal(pos, length) ==
    pos + 1 = HeaderWords /\ length > MaxReceiveSize + HeaderBytes

\* A complete header announces more data than m_rawData holds.
TooBig(pos, length) == pos + 1 = HeaderWords /\ length > MaxReceiveSize

\* The shred the receiver waits for, and more are to come.  A header that
\* announces too much data is fatal, after the acknowledge.
RxStore ==
    \E m \in Pending(dataQ) :
        /\ OnShred /\ m.pos = rxPos
        /\ ~isLast(m.pos, LengthAfter(m))
        /\ rxWords' = Append(rxWords, m.xfer)
        /\ rxLength' = LengthAfter(m)
        /\ sendAck(m.pos)
        /\ rxFatal' = TooBig(m.pos, LengthAfter(m))
        /\ UNCHANGED <<rxCode, runs, verdict>>

\* The transfers the data words come from.
Origins(words) == {words[i] : i \in HeaderWords + 1 .. Len(words)}

CrcOk(words, length) ==
    LET x == words[CrcWord + 1]
    IN  receivedCrc(Origins(words), length) = updateCrc(x, dataLength[x])

\* The last shred: finishRx() checks the data and runs the handler.
RxFinish ==
    \E m \in Pending(dataQ) :
        /\ OnShred /\ m.pos = rxPos
        /\ isLast(m.pos, LengthAfter(m))
        /\ rxWords' = <<>> /\ rxLength' = LengthAfter(m)
        /\ \E ok \in {CrcOk(Append(rxWords, m.xfer), LengthAfter(m))},
              code \in HandlerCodes \cup {wrongCRC} :
            /\ IF ok THEN code \in HandlerCodes ELSE code = wrongCRC
            /\ runs' = [runs EXCEPT ![m.xfer] = @ + (IF ok THEN 1 ELSE 0)]
            /\ verdict' = [verdict EXCEPT ![m.xfer] = code]
            /\ rxCode' = code
            /\ sendTransferAck(m.pos, code)
        /\ UNCHANGED rxFatal

rxTimeout ==
    /\ ~rxFatal /\ rxTimer # Off
    /\ rxWords' = <<>>
    /\ rxTimer' = IF SingleShot THEN Off ELSE ReceiverTimeout
    /\ UNCHANGED <<txVars, rxLength, rxCode, rxFatal, runs, verdict, dataQ, ackQ>>

\* A restart runs the constructor again; the header is not initialised.
RxReboot ==
    /\ MayReboot
    /\ rxWords' = <<>> /\ rxLength' \in StaleLengths
    /\ rxCode' = invalidInit /\ rxTimer' = Off /\ rxFatal' = FALSE
    /\ UNCHANGED <<txVars, runs, verdict, dataQ, ackQ>>

-----------------------------------------------------------------------------
(* The bus *)

\* Lost on the bus, or by a receiver that has stopped.
LoseShred ==
    /\ MayDrop \/ rxFatal
    /\ dataQ # <<>> /\ dataQ' = Tail(dataQ)
    /\ UNCHANGED <<txVars, rxVars, ackQ>>

LoseAck ==
    /\ MayDrop /\ ackQ # <<>> /\ ackQ' = Tail(ackQ)
    /\ UNCHANGED <<txVars, rxVars, dataQ>>

handleTx  == TxAborted \/ TxOldAck \/ TxImplausible \/ TxNext \/ TxFinish
txTimeout == TxRetransmit \/ TxGiveUp
handleRx  == \/ RxAborted \/ RxRetransmission \/ RxLate \/ RxNonsense
             \/ RxOutOfOrder \/ RxStore \/ RxFinish

Next ==
    \/ startTransfer \/ handleTx \/ txTimeout
    \/ handleRx \/ rxTimeout \/ RxReboot
    \/ LoseShred \/ LoseAck

Spec == Init /\ [][Next]_vars

-----------------------------------------------------------------------------
(* Properties *)

\* Nothing is under way before the first transfer, and what is under way
\* belongs to a transfer that was started.
OnlyStarted ==
    /\ txXfer = NoXfer => txTimer = Off /\ dataQ = <<>> /\ ackQ = <<>>
    /\ \A i \in 1 .. Len(dataQ) : Real(dataQ[i]) => dataQ[i].xfer \in 1 .. txXfer
    /\ \A k \in 1 .. rxPos : rxWords[k] <= txXfer
    /\ \A x \in Xfers : runs[x] > 0 => x <= txXfer

\* Shreds are under way in the order of their transfers, and within a transfer
\* the first word is not sent again once a later one was.
SentInOrder ==
    \A i, j \in 1 .. Len(dataQ) :
        i < j /\ Real(dataQ[i]) /\ Real(dataQ[j]) =>
            /\ dataQ[i].xfer <= dataQ[j].xfer
            /\ dataQ[i].xfer = dataQ[j].xfer /\ dataQ[j].pos = 0
                 => dataQ[i].pos = 0

\* The transmitter cannot send the first word of its transfer any more.
PastFirst == txPos > 0 \/ txTimer = Off

TransmitterPastFirst ==
    \A i \in 1 .. Len(dataQ) :
        dataQ[i].xfer = txXfer /\ dataQ[i].pos > 0 => PastFirst

\* What arrives is of no earlier transfer than the words stored already.
ReceiverInOrder ==
    \A i \in 1 .. Len(dataQ), k \in 1 .. rxPos :
        Real(dataQ[i]) => rxWords[k] <= dataQ[i].xfer

\* Of a transfer that has run, neither a stored word nor a first word on the
\* bus is left, and the transmitter will not send one.
NothingLeftToRun ==
    \A x \in Xfers : runs[x] > 0 =>
        /\ \A i \in 1 .. Len(dataQ) : Real(dataQ[i]) =>
              dataQ[i].xfer > x \/ (dataQ[i].xfer = x /\ dataQ[i].pos > 0)
        /\ \A k \in 1 .. rxPos : rxWords[k] > x
        /\ x = txXfer => PastFirst

\* A transfer is handed to the handler at most once, however often its shreds
\* and acknowledges are lost, delayed or sent again: "Retransmitting an
\* transfer does not work any more" once flash is written (mmpNode.cpp:8-10).
AtMostOnce == \A x \in Xfers : runs[x] <= 1

OrderInv ==
    /\ OnlyStarted /\ SentInOrder /\ TransmitterPastFirst
    /\ ReceiverInOrder /\ NothingLeftToRun /\ AtMostOnce

\* Once a transfer has run, no word of an earlier one is stored any more and no
\* earlier one is handed over: what is left of a transfer that was given up
\* cannot disturb its successors.
LeavesBehind ==
    \A x, y \in Xfers : x < y /\ runs[y] > 0 =>
        /\ runs'[x] = runs[x]
        /\ rxPos' = rxPos + 1 => rxWords'[rxPos'] # x

InStartOrder == [][LeavesBehind]_vars

\* The receiver never waits for a word that is already the end of its
\* transfer, and while it holds a part of a transfer its timer is running, so
\* that a transmitter that vanished cannot keep the channel occupied.
ReceiverWillEnd ==
    rxWords # <<>> => /\ ~isFinished(rxPos, rxLength)
                      /\ rxTimer # Off

\* Unless it has stopped on a header that announces too much, the receiver
\* has room in m_rawData for the next word it stores.
HeaderChecked == ~rxFatal /\ rxPos >= HeaderWords => rxLength <= MaxReceiveSize
NextWordFits  == ~rxFatal => 4 * (rxPos + 1) <= HeaderBytes + MaxReceiveSize

\* The transmitter never reads behind the data it was given: only positions of
\* the transfer are sent, by retransmissions of an ended transfer too.
ShredsInTransfer ==
    \A i \in 1 .. Len(dataQ) :
        LET m == dataQ[i]
        IN  m.pos # Abort => m.pos = 0 \/ ~isFinished(m.pos, dataLength[m.xfer])

\* A transfer is reported by an acknowledge once; only counterPartDead, which
\* the running timer repeats, may come again.  This needs the timeouts: when
\* copies of the acknowledge of position 0, which is accepted anywhere
\* (mmpNode.cpp:296), are still under way, the next transfer may end twice.
OneAcknowledgedReport ==
    \A r, s \in reports :
        r.xfer = s.xfer /\ counterPartDead \notin {r.code, s.code} => r = s

\* Whoever waits for an acknowledge has a timer to send again: "Its up to the
\* transmitter to retransmit its data when he got no acknowledge"
\* (mmpNode.cpp:445-446).
TransmitterRetransmits ==
    txState = "transmitting" /\ ~Reported(txXfer) => txTimer # Off

\* The receiver never meets a shred its code calls senseless, "Does not make
\* sense: pos %d of total %d is not last?" (mmpNode.cpp:196-207).
NoFatal == ~rxFatal

\* The handler gets the words of one transfer, header and data; only the first
\* word, the magic number, may be an older one, and that is the same in every
\* transfer.  The CRC covers the data only (mmpNode.cpp:507), so nothing else
\* would notice a length, a command or a flash address of another transfer.
OfOneTransfer ==
    \A x \in Xfers : runs'[x] # runs[x] => \A k \in 2 .. rxPos : rxWords[k] = x

HandledWhole == [][OfOneTransfer]_vars

\* A transfer whose data arrive as they were sent passes the check.
IntactAccepted == \A x \in Xfers : verdict[x] # wrongCRC
=============================================================================
