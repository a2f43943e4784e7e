--------------------------- MODULE MmpTimedProofs ---------------------------
(***************************************************************************)
(* What holds of MmpTimed for every value of the constants, and on a       *)
(* prompt bus for every number of losses and restarts.                     *)
(***************************************************************************)
EXTENDS MmpTimed, MmpLinkProofs

-----------------------------------------------------------------------------
(* What MmpLink proves holds with the clock, too.                            *)

\* A step of the clock does nothing that MmpLink's order and buffers see.
LEMMA TickTypes == TypeOK /\ Tick => TypeOK'
  <1> SUFFICES ASSUME TypeOK, Tick PROVE TypeOK'
    OBVIOUS
  <1>1. /\ ShredTimeout \in Nat /\ ExecTimeout \in Nat /\ ReceiverTimeout \in Nat
    BY LinkAssumption DEF LinkAssumption
  <1>2. /\ txTimer' \in {Off} \cup 0 .. ShredTimeout \cup 0 .. ExecTimeout
        /\ rxTimer' \in {Off} \cup 0 .. ReceiverTimeout
    BY <1>1 DEF TypeOK, Tick, Down, Off
  <1> QED
    BY <1>2 DEF TypeOK, Tick

LEMMA TickKeeps ==
    ASSUME TypeOK, Tick
    PROVE  /\ (txTimer' = Off) = (txTimer = Off)
           /\ (rxTimer' = Off) = (rxTimer = Off)
           /\ UNCHANGED <<txXfer, txPos, txRetry, txState, dataLength, reports,
                          rxWords, rxLength, rxCode, rxFatal, runs, verdict,
                          dataQ, ackQ, faults>>
  <1>1. /\ ShredTimeout \in Nat /\ ExecTimeout \in Nat /\ ReceiverTimeout \in Nat
    BY LinkAssumption DEF LinkAssumption
  <1>2. (txTimer' = Off) = (txTimer = Off)
    BY <1>1 DEF TypeOK, Tick, Down, Off
  <1>3. (rxTimer' = Off) = (rxTimer = Off)
    BY <1>1 DEF TypeOK, Tick, Down, Off
  <1> QED
    BY <1>2, <1>3 DEF Tick

LEMMA TickOrder == TypeOK /\ OrderInv /\ Tick => OrderInv'
  <1> SUFFICES ASSUME TypeOK, OrderInv, Tick PROVE OrderInv'
    OBVIOUS
  <1>1. PastFirst' = PastFirst /\ rxPos' = rxPos
    BY TickKeeps DEF PastFirst, rxPos
  <1> QED
    BY <1>1, TickKeeps
    DEF OrderInv, OnlyStarted, SentInOrder, TransmitterPastFirst,
        ReceiverInOrder, NothingLeftToRun, AtMostOnce, Real

LEMMA TickReceiver == TypeOK /\ ReceiverInv /\ Tick => ReceiverInv'
  BY TickKeeps DEF ReceiverInv, ReceiverWillEnd, HeaderChecked, rxPos

\* Every step is one of MmpLink or of the clock.
LEMMA TimedSteps ==
    [TimedNext]_timedVars => [Next]_vars \/ Tick
  BY DEF TimedNext, timedVars, Next, Deliver, Miss, TxExpires, RxExpires,
         Lose, Reboot

LEMMA FaultTypes ==
    ASSUME TimedTypeOK, [TimedNext]_timedVars
    PROVE  losses' \in 0 .. MaxLosses /\ reboots' \in 0 .. MaxReboots
  <1> USE TimedAssumption DEF TimedAssumption
  <1>1. UNCHANGED faults \/ Lose \/ Reboot
    BY DEF TimedNext, timedVars, Deliver, Miss, TxExpires, RxExpires, Tick
  <1>2. CASE UNCHANGED faults
    BY <1>2 DEF TimedTypeOK, faults
  <1>3. CASE Lose
    BY <1>3 DEF TimedTypeOK, Lose
  <1>4. CASE Reboot
    BY <1>4 DEF TimedTypeOK, Reboot
  <1> QED
    BY <1>1, <1>2, <1>3, <1>4

LinkInv == TypeOK /\ OrderInv /\ ReceiverInv

LEMMA LinkStep ==
    ASSUME LinkInv, [TimedNext]_timedVars
    PROVE  LinkInv'
  <1>1. CASE Tick
    BY <1>1, TickTypes, TickOrder, TickReceiver DEF LinkInv
  <1>2. CASE [Next]_vars
    <2>1. OnlyStarted
      BY DEF LinkInv, OrderInv
    <2>2. TypeOK'
      BY <1>2, <2>1, TypeTx, TypeRx, TypeRest DEF Next, LinkInv
    <2> QED
      BY <1>2, <2>2, OrderStep, ReceiverStep DEF LinkInv
  <1> QED
    BY <1>1, <1>2, TimedSteps

LEMMA LinkAlways == TimedSpec => [](TimedTypeOK /\ LinkInv)
  <1>1. TimedInit => TimedTypeOK /\ LinkInv
    <2> SUFFICES ASSUME TimedInit PROVE TimedTypeOK /\ LinkInv
      OBVIOUS
    <2>1. TypeOK /\ OrderInv
      BY TypeInit, OrderInit DEF TimedInit
    <2>2. ReceiverInv
      BY ReceiverInit DEF TimedInit
    <2> QED
      BY <2>1, <2>2, TimedAssumption
      DEF TimedInit, TimedTypeOK, LinkInv, TimedAssumption
  <1>2. (TimedTypeOK /\ LinkInv) /\ [TimedNext]_timedVars
          => (TimedTypeOK /\ LinkInv)'
    BY LinkStep, FaultTypes DEF TimedTypeOK, LinkInv
  <1> QED
    BY <1>1, <1>2, PTL DEF TimedSpec

\* Every variable keeps its type while time passes, and the faults their bounds.
THEOREM TimedTypeCorrect == TimedSpec => []TimedTypeOK
  BY LinkAlways, PTL

\* With the clock, too, the handler never gets a transfer twice.
THEOREM TimedNeverTwice == TimedSpec => []AtMostOnce
  <1>1. LinkInv => AtMostOnce
    BY DEF LinkInv, OrderInv
  <1> QED
    BY <1>1, LinkAlways, PTL

-----------------------------------------------------------------------------
(* Stop and wait: on a prompt bus one message at a time is under way.        *)

LEMMA Single ==
    ASSUME NEW a
    PROVE  /\ Head(<<a>>) = a /\ Tail(<<a>>) = <<>> /\ <<a>> # <<>>
           /\ Append(<<>>, a) = <<a>> /\ Len(<<a>>) = 1 /\ <<a>>[1] = a
  OBVIOUS

LEMMA Fields ==
    /\ \A x, pos : Shred(x, pos).pos = pos /\ Shred(x, pos).xfer = x
    /\ \A pos, code : Ack(pos, code).pos = pos /\ Ack(pos, code).code = code
  BY DEF Shred, Ack

LEMMA Intervals ==
    ASSUME NEW pos, NEW length
    PROVE  TxInterval(pos, length) \in Nat /\ TxInterval(pos, length) > 0
  BY LinkAssumption DEF LinkAssumption, TxInterval

\* The acknowledge that arrives is the only message, and answers the last shred.
LEMMA AckArrives ==
    ASSUME TypeOK, OneMessage, NEW ack \in Pending(ackQ), OnAck
    PROVE  /\ ackQ = <<Ack(ack.pos, ack.code)>> /\ ackQ' = <<>> /\ dataQ = <<>>
           /\ ack.pos \in {Abort, txPos} /\ ack.code \in Codes
           /\ Working /\ txTimer = TxInterval(txPos, txLength)
           /\ UNCHANGED rxVars
  <1>1. ackQ # <<>> /\ ack = Head(ackQ) /\ ackQ' = Tail(ackQ) /\ UNCHANGED rxVars
    BY DEF Pending, OnAck
  <1>2. PICK pos \in {Abort, txPos}, code \in Codes : ackQ = <<Ack(pos, code)>>
    BY <1>1 DEF OneMessage, Acked
  <1>3. ack = Ack(pos, code) /\ ackQ' = <<>>
    BY <1>1, <1>2, Single
  <1>4. ack.pos = pos /\ ack.code = code
    BY <1>3, Fields
  <1> QED
    BY <1>1, <1>2, <1>3, <1>4 DEF OneMessage, UnderWay

\* The shred that arrives is the word the transmitter waits for.
LEMMA ShredArrives ==
    ASSUME OneMessage, NEW m \in Pending(dataQ)
    PROVE  /\ dataQ = <<Shred(txXfer, txPos)>> /\ Tail(dataQ) = <<>> /\ ackQ = <<>>
           /\ m.pos = txPos /\ m.xfer = txXfer
           /\ Working /\ txTimer = TxInterval(txPos, txLength)
  <1>1. dataQ # <<>> /\ m = Head(dataQ)
    BY DEF Pending
  <1>2. dataQ = <<Shred(txXfer, txPos)>> /\ ackQ = <<>>
    BY <1>1 DEF OneMessage
  <1>3. m = Shred(txXfer, txPos) /\ Tail(dataQ) = <<>>
    BY <1>1, <1>2, Single
  <1> QED
    BY <1>1, <1>2, <1>3, Fields DEF OneMessage, UnderWay

\* The receiver takes the shred and answers it or not.
LEMMA RxAnswers ==
    ASSUME TypeOK, OneMessage, handleRx
    PROVE  /\ UNCHANGED txVars /\ dataQ' = <<>> /\ dataQ # <<>>
           /\ ackQ' = <<>> \/ \E pos \in {Abort, txPos}, code \in Codes :
                                  ackQ' = <<Ack(pos, code)>>
  <1>1. PICK m \in Pending(dataQ) : OnShred
    BY DEF handleRx, RxAborted, RxRetransmission, RxLate, RxNonsense,
           RxOutOfOrder, RxStore, RxFinish
  <1>2. /\ \A n \in Pending(dataQ) : n = m
        /\ m.pos = txPos /\ Tail(dataQ) = <<>> /\ ackQ = <<>> /\ dataQ # <<>>
    BY ShredArrives DEF Pending
  <1>3. UNCHANGED txVars /\ dataQ' = <<>>
    BY <1>1, <1>2 DEF OnShred
  <1>4. /\ {invalid, rxCode, wrongCRC} \subseteq Codes
        /\ HandlerCodes \subseteq Codes
    BY CodesType DEF TypeOK
  <1>5. ASSUME NEW pos \in {Abort, txPos}, NEW code \in Codes,
               sendAck(pos) \/ sendTransferAck(pos, code)
        PROVE  \E q \in {Abort, txPos}, c \in Codes : ackQ' = <<Ack(q, c)>>
    <2>1. ackQ' = Append(ackQ, Ack(pos, invalid)) \/ ackQ' = Append(ackQ, Ack(pos, code))
      BY <1>5 DEF sendAck, sendTransferAck
    <2>2. ackQ' = <<Ack(pos, invalid)>> \/ ackQ' = <<Ack(pos, code)>>
      BY <1>2, <2>1, Single
    <2> QED
      BY <1>4, <2>2
  <1>6. CASE RxAborted \/ RxNonsense
    BY <1>2, <1>3, <1>6 DEF RxAborted, RxNonsense
  <1>7. CASE RxRetransmission
    <2>1. sendAck(m.pos) \/ sendTransferAck(m.pos, rxCode)
      BY <1>2, <1>7 DEF RxRetransmission
    <2> QED
      BY <1>2, <1>3, <1>4, <1>5, <2>1
  <1>8. CASE RxLate
    <2>1. sendTransferAck(m.pos, rxCode)
      BY <1>2, <1>8 DEF RxLate
    <2> QED
      BY <1>2, <1>3, <1>4, <1>5, <2>1
  <1>9. CASE RxOutOfOrder
    <2>1. sendAck(Abort)
      BY <1>9 DEF RxOutOfOrder
    <2> QED
      BY <1>2, <1>3, <1>4, <1>5, <2>1
  <1>10. CASE RxStore
    <2>1. sendAck(m.pos)
      BY <1>2, <1>10 DEF RxStore
    <2> QED
      BY <1>2, <1>3, <1>4, <1>5, <2>1
  <1>11. CASE RxFinish
    <2>1. PICK code \in HandlerCodes \cup {wrongCRC} : sendTransferAck(m.pos, code)
      BY <1>2, <1>11 DEF RxFinish
    <2> QED
      BY <1>2, <1>3, <1>4, <1>5, <2>1
  <1> QED
    BY <1>6, <1>7, <1>8, <1>9, <1>10, <1>11 DEF handleRx

\* A transfer that is at work has a number.
LEMMA AtWork ==
    ASSUME TypeOK, StopAndWait, UnderWay
    PROVE  txXfer \in Xfers /\ txXfer \in Nat /\ Working
  <1>1. Working /\ txXfer # NoXfer
    BY DEF StopAndWait, OneMessage, Working, WaitInv
  <1> QED
    BY <1>1, LinkAssumption DEF TypeOK, Xfers, NoXfer, LinkAssumption

\* A timer that has run out tells that nothing is under way any more.
LEMMA ExpiredAlone ==
    ASSUME OneMessage, txTimer = 0
    PROVE  dataQ = <<>> /\ ackQ = <<>>
  BY Intervals DEF OneMessage, UnderWay

\* A step that leaves the transmitter alone.
LEMMA TxRests ==
    ASSUME StopAndWait, UNCHANGED txVars,
           \/ dataQ' = dataQ /\ ackQ' = ackQ
           \/ dataQ' = <<>> /\ ackQ' = <<>>
           \/ /\ dataQ' = <<>> /\ UnderWay
              /\ \E pos \in {Abort, txPos}, code \in Codes : ackQ' = <<Ack(pos, code)>>
    PROVE  StopAndWait'
  <1>1. UNCHANGED <<txXfer, txPos, txRetry, txState, txTimer, dataLength, reports>>
    BY DEF txVars
  <1>2. Working' = Working /\ Reported(txXfer)' = Reported(txXfer) /\ txLength' = txLength
    BY <1>1 DEF Working, Reported, txLength
  <1>3. WaitInv'
    BY <1>1, <1>2 DEF StopAndWait, WaitInv
  <1>4. OneMessage'
    BY <1>1, <1>2, Single DEF StopAndWait, OneMessage, Acked, UnderWay
  <1> QED
    BY <1>3, <1>4 DEF StopAndWait

\* The word at position pos of transfer x is sent, nothing being under way.
LEMMA WordGoes ==
    ASSUME dataQ = <<>>, ackQ' = <<>>, NEW x, NEW pos, NEW length,
           sendTxShred(x, pos, length)
    PROVE  /\ dataQ' = <<Shred(x, pos)>> /\ txTimer' = TxInterval(pos, length)
           /\ txTimer' # Off
  BY Single, IntervalType DEF sendTxShred

LEMMA WordUnderWay ==
    ASSUME dataQ' = <<Shred(txXfer', txPos')>>, ackQ' = <<>>, Working',
           txTimer' = TxInterval(txPos', txLength')
    PROVE  OneMessage'
  BY DEF OneMessage, Acked, UnderWay

\* Only a transmitter that is at work is answered, and only while it waits.
LEMMA StartWaits ==
    ASSUME TypeOK, StopAndWait, PromptBus, startTransfer
    PROVE  StopAndWait'
  <1>1. ~Working /\ dataQ = <<>> /\ ackQ = <<>>
    BY DEF PromptBus, startTransfer, AppMayStart, Working, StopAndWait, WaitInv,
           OneMessage, UnderWay
  <1>2. PICK length \in Lengths : startTx(length)
    BY DEF startTransfer
  <1>3. /\ txXfer \in Nat /\ MaxStarts \in Nat
        /\ txXfer' = txXfer + 1 /\ txXfer + 1 \in 0 .. MaxStarts
        /\ txPos' = 0 /\ txRetry' = 0
        /\ txState' = "transmitting" /\ reports' = reports /\ ackQ' = <<>>
    BY <1>1, <1>2, StartType, LinkAssumption
    DEF startTransfer, LinkAssumption, TypeOK
  <1>4. txLength' = length
    BY <1>2, <1>3 DEF startTx, txLength, TypeOK
  <1>5. ~Reported(txXfer)'
    BY <1>3 DEF Reported, StopAndWait, WaitInv
  <1>6. /\ dataQ' = <<Shred(txXfer + 1, 0)>> /\ txTimer' = TxInterval(0, length)
        /\ txTimer' # Off
    BY <1>1, <1>2, <1>3, WordGoes DEF startTx
  <1>7. Working'
    BY <1>3, <1>5 DEF Working
  <1>8. OneMessage'
    BY <1>3, <1>4, <1>6, <1>7, WordUnderWay
  <1>9. WaitInv'
    BY <1>3, <1>5, <1>6, <1>7, LinkAssumption
    DEF StopAndWait, WaitInv, NoXfer, LinkAssumption
  <1> QED
    BY <1>8, <1>9 DEF StopAndWait

LEMMA AckWaits ==
    ASSUME TypeOK, StopAndWait, PromptBus, handleTx
    PROVE  StopAndWait'
  <1>1. PICK ack \in Pending(ackQ) : OnAck
    BY DEF handleTx, TxAborted, TxOldAck, TxImplausible, TxNext, TxFinish
  <1>2. /\ \A a \in Pending(ackQ) : a = ack
        /\ ackQ' = <<>> /\ dataQ = <<>> /\ ack.pos \in {Abort, txPos}
        /\ Working /\ txXfer \in Nat \ {0} /\ txPos \in Nat
    <2>1. /\ ackQ' = <<>> /\ dataQ = <<>> /\ ack.pos \in {Abort, txPos} /\ Working
      BY <1>1, AckArrives DEF StopAndWait
    <2>2. txXfer # NoXfer
      BY <2>1 DEF Working, StopAndWait, WaitInv
    <2> QED
      BY <2>1, <2>2 DEF Pending, TypeOK, NoXfer
  <1>3. MaxRetry \in Nat /\ ~NestedStarts
    BY LinkAssumption DEF LinkAssumption, PromptBus
  <1>4. CASE TxAborted
    <2>1. /\ txTimer' = Off /\ txRetry' = 0 /\ txState' = "idle"
          /\ UNCHANGED <<txXfer, reports, dataQ>>
      BY <1>4 DEF TxAborted
    <2> QED
      BY <1>2, <1>3, <2>1 DEF StopAndWait, OneMessage, WaitInv, UnderWay, Working,
                              Reported
  <1>5. ~TxOldAck /\ ~TxImplausible
    BY <1>2 DEF TxOldAck, TxImplausible, Abort
  <1>6. CASE TxNext
    <2>1. /\ txPos' = txPos + 1 /\ txRetry' = 0
          /\ sendTxShred(txXfer, txPos + 1, txLength)
          /\ UNCHANGED <<txXfer, dataLength, txState, reports>>
      BY <1>6 DEF TxNext
    <2>2. /\ dataQ' = <<Shred(txXfer, txPos + 1)>>
          /\ txTimer' = TxInterval(txPos + 1, txLength) /\ txTimer' # Off
      BY <1>2, <2>1, WordGoes
    <2>3. Working' /\ txLength' = txLength
      BY <1>2, <2>1 DEF Working, Reported, txLength
    <2>4. OneMessage'
      BY <1>2, <2>1, <2>2, <2>3, WordUnderWay
    <2>5. WaitInv'
      BY <1>2, <1>3, <2>1, <2>2, <2>3 DEF StopAndWait, WaitInv, Working, Reported
    <2> QED
      BY <2>4, <2>5 DEF StopAndWait
  <1>7. CASE TxFinish
    <2>1. /\ reports' = reports \cup {[xfer |-> txXfer, code |-> ack.code]}
          /\ txState' = "idle" /\ txRetry' = 0 /\ txTimer' = Off
          /\ UNCHANGED <<txXfer, dataQ>>
      BY <1>2, <1>3, <1>7 DEF TxFinish, emitHandleMmpTransferAck
    <2>2. \A r \in reports' : r.xfer \in 1 .. txXfer
      BY <1>2, <2>1 DEF StopAndWait, WaitInv
    <2> QED
      BY <1>2, <1>3, <2>1, <2>2
      DEF StopAndWait, OneMessage, WaitInv, UnderWay, Working
  <1> QED
    BY <1>4, <1>5, <1>6, <1>7 DEF handleTx

LEMMA TimeoutWaits ==
    ASSUME TypeOK, StopAndWait, PromptBus, TxExpires
    PROVE  StopAndWait'
  <1>1. /\ dataQ = <<>> /\ ackQ = <<>> /\ txTimer # Off /\ txTimer = 0
        /\ txState = "transmitting" /\ txXfer \in Nat \ {0}
        /\ MaxRetry \in Nat /\ txRetry \in Nat /\ ~NestedStarts
    BY ExpiredAlone, LinkAssumption
    DEF TxExpires, StopAndWait, WaitInv, TypeOK, NoXfer, Off, LinkAssumption,
        PromptBus
  <1>2. CASE TxRetransmit
    <2>1. /\ txRetry < MaxRetry /\ txRetry' = txRetry + 1
          /\ sendTxShred(txXfer, txPos, txLength)
          /\ UNCHANGED <<txXfer, dataLength, txPos, txState, reports, ackQ>>
      BY <1>2 DEF TxRetransmit
    <2>2. /\ dataQ' = <<Shred(txXfer, txPos)>>
          /\ txTimer' = TxInterval(txPos, txLength) /\ txTimer' # Off
      BY <1>1, <2>1, WordGoes
    <2>3. Working' /\ txLength' = txLength
      BY <1>1, <2>1 DEF StopAndWait, WaitInv, Working, Reported, txLength
    <2>4. OneMessage'
      BY <1>1, <2>1, <2>2, <2>3, WordUnderWay
    <2>5. WaitInv'
      BY <1>1, <2>1, <2>2, <2>3 DEF StopAndWait, WaitInv, Working, Reported
    <2> QED
      BY <2>4, <2>5 DEF StopAndWait
  <1>3. CASE TxGiveUp
    <2>1. /\ reports' = reports \cup {[xfer |-> txXfer, code |-> counterPartDead]}
          /\ txRetry' = MaxRetry + 1
          /\ UNCHANGED <<txXfer, txPos, txState, dataQ, ackQ>>
      BY <1>1, <1>3 DEF TxGiveUp, emitHandleMmpTransferAck
    <2>2. \A r \in reports' : r.xfer \in 1 .. txXfer
      BY <1>1, <2>1 DEF StopAndWait, WaitInv
    <2>3. \E r \in reports' : r.xfer = txXfer
      BY <2>1, [xfer |-> txXfer, code |-> counterPartDead].xfer = txXfer
    <2> QED
      BY <1>1, <2>1, <2>2, <2>3
      DEF StopAndWait, OneMessage, WaitInv, UnderWay, Working, Reported
  <1> QED
    BY <1>2, <1>3 DEF TxExpires, txTimeout

LEMMA TickWaits ==
    ASSUME TypeOK, StopAndWait, PromptBus, Tick
    PROVE  StopAndWait'
  <1>1. dataQ = <<>> /\ ackQ = <<>> /\ (txTimer' = Off) = (txTimer = Off)
        /\ UNCHANGED <<txXfer, txPos, txRetry, txState, reports, dataQ, ackQ>>
    BY TickKeeps DEF PromptBus, Tick
  <1> QED
    BY <1>1 DEF StopAndWait, OneMessage, WaitInv, UnderWay, Working, Reported

\* What losing a message, a timeout of the receiver or its restart changes.
LEMMA RestWaits ==
    ASSUME TypeOK, StopAndWait,
           LoseShred \/ LoseAck \/ rxTimeout \/ RxReboot \/ UNCHANGED vars
    PROVE  StopAndWait'
  <1>1. CASE LoseShred
    <2>1. Head(dataQ) \in Pending(dataQ)
      BY <1>1 DEF LoseShred, Pending
    <2>2. dataQ' = <<>> /\ ackQ' = <<>> /\ UNCHANGED txVars
      BY <1>1, <2>1, ShredArrives DEF LoseShred, StopAndWait
    <2> QED
      BY <2>2, TxRests
  <1>2. CASE LoseAck
    <2>1. ackQ # <<>> /\ ackQ' = Tail(ackQ) /\ UNCHANGED <<txVars, dataQ>>
      BY <1>2 DEF LoseAck
    <2>2. ackQ' = <<>> /\ dataQ' = <<>>
      BY <2>1, Single DEF StopAndWait, OneMessage, Acked
    <2> QED
      BY <2>1, <2>2, TxRests
  <1>3. CASE rxTimeout \/ RxReboot \/ UNCHANGED vars
    BY <1>3, TxRests DEF rxTimeout, RxReboot, vars
  <1> QED
    BY <1>1, <1>2, <1>3

LEMMA StopAndWaitStep ==
    ASSUME TypeOK, StopAndWait, PromptBus, [TimedNext]_timedVars
    PROVE  StopAndWait'
  <1>1. CASE handleRx
    <2>1. /\ UNCHANGED txVars /\ dataQ' = <<>> /\ UnderWay
          /\ ackQ' = <<>> \/ \E pos \in {Abort, txPos}, code \in Codes :
                                 ackQ' = <<Ack(pos, code)>>
      BY <1>1, RxAnswers DEF StopAndWait, UnderWay
    <2> QED
      BY <2>1, TxRests
  <1> QED
    BY <1>1, StartWaits, AckWaits, TimeoutWaits, TickWaits, RestWaits
    DEF TimedNext, timedVars, Deliver, Miss, RxExpires, Lose, Reboot

LEMMA StopAndWaitInit == TimedInit => StopAndWait
  <1> SUFFICES ASSUME TimedInit PROVE StopAndWait
    OBVIOUS
  <1>1. /\ txXfer = NoXfer /\ txRetry = 0 /\ txState = "idle" /\ txTimer = Off
        /\ dataQ = <<>> /\ ackQ = <<>> /\ reports = {} /\ MaxRetry \in Nat
    BY LinkAssumption DEF TimedInit, Init, LinkAssumption
  <1> QED
    BY <1>1 DEF StopAndWait, OneMessage, WaitInv, UnderWay, Working

\* On a prompt bus there is one token: a shred, its answer, or the transmitter's
\* timer, and the timer runs as long as the transfer is not reported, whatever is
\* lost and restarted (sendTxShred() and handleTx(), mmpNode.cpp:127-147, 273-334).
THEOREM StopAndWaitAlways ==
    ASSUME PromptBus
    PROVE  TimedSpec => [](TimedTypeOK /\ LinkInv /\ StopAndWait)
  <1>1. TimedTypeOK /\ StopAndWait /\ [TimedNext]_timedVars => StopAndWait'
    BY StopAndWaitStep DEF TimedTypeOK
  <1> QED
    BY <1>1, StopAndWaitInit, LinkAlways, PTL DEF TimedSpec

\* Whoever waits for an acknowledge has a timer to send again, whatever is lost
\* and however often the receiver restarts (mmpNode.cpp:445-446).
THEOREM AlwaysRetransmits ==
    ASSUME PromptBus
    PROVE  TimedSpec => []TransmitterRetransmits
  <1>1. StopAndWait => TransmitterRetransmits
    BY DEF StopAndWait, WaitInv, Working, TransmitterRetransmits
  <1> QED
    BY <1>1, StopAndWaitAlways, PTL

\* state() tells that the transmitter is at work whenever its timer is running
\* for a transfer whose end was not reported (mmpNode.cpp:491).
THEOREM StateTells ==
    ASSUME PromptBus
    PROVE  TimedSpec => []StateTellsTransmitting
  <1>1. TypeOK /\ StopAndWait => StateTellsTransmitting
    BY DEF TypeOK, StopAndWait, WaitInv, StateTellsTransmitting
  <1> QED
    BY <1>1, StopAndWaitAlways, PTL DEF TimedTypeOK

\* A report is the first of its transfer, or says that the counterpart is dead.
LEMMA ReportSteps ==
    ASSUME TypeOK, StopAndWait, PromptBus, [TimedNext]_timedVars
    PROVE  \/ UNCHANGED reports
           \/ \E code : /\ reports' = reports \cup {[xfer |-> txXfer, code |-> code]}
                        /\ Reported(txXfer) => code = counterPartDead
  <1>1. CASE startTransfer \/ TxAborted \/ TxOldAck \/ TxImplausible \/ TxNext
              \/ TxRetransmit
    BY <1>1 DEF startTransfer, TxAborted, TxOldAck, TxImplausible, TxNext,
                TxRetransmit
  <1>2. CASE TxFinish
    <2>1. PICK ack \in Pending(ackQ) :
             OnAck /\ reports' = reports \cup {[xfer |-> txXfer, code |-> ack.code]}
      BY <1>2 DEF TxFinish, emitHandleMmpTransferAck
    <2>2. ~Reported(txXfer)
      BY <2>1, AckArrives DEF StopAndWait, Working
    <2> QED
      BY <2>1, <2>2
  <1>3. CASE TxGiveUp
    BY <1>3 DEF TxGiveUp, emitHandleMmpTransferAck
  <1>4. CASE handleRx
    BY <1>4, RxAnswers DEF StopAndWait, txVars
  <1>5. CASE rxTimeout \/ RxReboot \/ LoseShred \/ LoseAck \/ Tick
              \/ UNCHANGED timedVars
    BY <1>5 DEF rxTimeout, RxReboot, LoseShred, LoseAck, Tick, timedVars, vars,
                txVars
  <1> QED
    BY <1>1, <1>2, <1>3, <1>4, <1>5
    DEF TimedNext, Deliver, Miss, RxExpires, TxExpires, Lose, Reboot, handleTx,
        txTimeout

\* A transfer is reported by one acknowledge at most, whatever is lost and
\* however often the receiver restarts.
THEOREM AcknowledgedOnce ==
    ASSUME PromptBus
    PROVE  TimedSpec => []OneAcknowledgedReport
  <1>1. TimedInit => OneAcknowledgedReport
    BY DEF TimedInit, Init, OneAcknowledgedReport
  <1>2. (TimedTypeOK /\ StopAndWait) /\ OneAcknowledgedReport
          /\ [TimedNext]_timedVars => OneAcknowledgedReport'
    <2> SUFFICES ASSUME TypeOK, StopAndWait, [TimedNext]_timedVars,
                        OneAcknowledgedReport
                 PROVE  OneAcknowledgedReport'
      BY DEF TimedTypeOK
    <2>1. CASE UNCHANGED reports
      BY <2>1 DEF OneAcknowledgedReport
    <2>2. ASSUME NEW code,
                 reports' = reports \cup {[xfer |-> txXfer, code |-> code]},
                 Reported(txXfer) => code = counterPartDead
          PROVE  OneAcknowledgedReport'
      BY <2>2 DEF OneAcknowledgedReport, Reported
    <2> QED
      BY <2>1, <2>2, ReportSteps
  <1> QED
    BY <1>1, <1>2, StopAndWaitAlways, PTL DEF TimedSpec

-----------------------------------------------------------------------------
(* The words the receiver stores are of one transfer.                        *)

LEMMA NoneAcked == ASSUME ackQ' = <<>> PROVE \A pos : ~Acked(pos)'
  BY Single DEF Acked

LEMMA WordsGone ==
    ASSUME rxWords' = <<>>, LengthWord \in Nat
    PROVE  WordsInv'
  <1>1. rxPos' = 0
    BY DEF rxPos
  <1> QED
    BY <1>1 DEF WordsInv

LEMMA WordsKept ==
    ASSUME TypeOK, WordsInv, UNCHANGED <<txXfer, txPos, dataLength, rxWords, rxLength>>,
           ackQ' = ackQ \/ ackQ' = <<>> \/ txPos > 0 \/ rxPos <= 1
    PROVE  WordsInv'
  <1>1. rxPos' = rxPos /\ rxPos \in Nat
    BY DEF rxPos, TypeOK
  <1>2. ASSUME txPos' > 0 \/ Acked(0)'
        PROVE  \A k \in 2 .. rxPos' : rxWords'[k] = txXfer'
    <2>1. CASE txPos > 0 \/ rxPos <= 1
      BY <1>1, <2>1 DEF WordsInv
    <2>2. CASE ackQ' = ackQ
      BY <1>1, <1>2, <2>2 DEF WordsInv, Acked
    <2>3. CASE ackQ' = <<>>
      BY <1>1, <1>2, <2>3, NoneAcked DEF WordsInv
    <2> QED
      BY <2>1, <2>2, <2>3
  <1> QED
    BY <1>1, <1>2 DEF WordsInv

\* The receiver stores the next word of the transmitter's transfer.
LEMMA WordsGrow ==
    ASSUME TypeOK, WordsInv, HeaderShape, txXfer \in Xfers, rxPos = txPos,
           rxWords' = Append(rxWords, txXfer),
           rxLength' = IF rxPos = LengthWord THEN txLength ELSE rxLength,
           UNCHANGED <<txXfer, txPos, dataLength>>
    PROVE  WordsInv'
  <1>1. /\ rxPos' = rxPos + 1 /\ rxWords'[rxPos + 1] = txXfer
        /\ \A k \in 1 .. rxPos : rxWords'[k] = rxWords[k]
    <2>1. rxWords \in Seq(Xfers)
      BY DEF TypeOK
    <2>2. /\ Len(rxWords') = Len(rxWords) + 1 /\ rxWords'[Len(rxWords) + 1] = txXfer
          /\ \A k \in 1 .. Len(rxWords) : rxWords'[k] = rxWords[k]
      BY <2>1, AppendFacts
    <2> QED
      BY <2>2 DEF rxPos
  <1>2. /\ rxPos \in Nat /\ LengthWord \in Nat /\ LengthWord >= 1
        /\ UNCHANGED <<txXfer, txPos, dataLength>>
    BY TransferAssumption DEF TypeOK, HeaderShape, TransferAssumption
  <1>3. ASSUME NEW k \in 2 .. rxPos + 1 PROVE rxWords'[k] = txXfer
    <2>1. CASE k = rxPos + 1
      BY <1>1, <2>1
    <2>2. CASE k # rxPos + 1
      <3>1. k \in 2 .. rxPos /\ k \in 1 .. rxPos /\ rxPos > 0
        BY <1>2, <2>2
      <3>2. rxWords[k] = txXfer
        BY <3>1 DEF WordsInv
      <3> QED
        BY <1>1, <3>1, <3>2
    <2> QED
      BY <2>1, <2>2
  <1>4. ASSUME rxPos + 1 > LengthWord
        PROVE  rxLength' = dataLength[rxWords'[LengthWord + 1]]
    <2>1. CASE rxPos = LengthWord
      BY <1>1, <2>1 DEF txLength
    <2>2. CASE rxPos # LengthWord
      <3>1. rxPos > LengthWord /\ LengthWord + 1 \in 1 .. rxPos
        BY <1>2, <1>4, <2>2
      <3>2. rxWords'[LengthWord + 1] = rxWords[LengthWord + 1] /\ rxLength' = rxLength
        BY <1>1, <2>2, <3>1
      <3> QED
        BY <3>1, <3>2 DEF WordsInv
    <2> QED
      BY <2>1, <2>2
  <1>5. \A k \in 2 .. rxPos' : rxWords'[k] = txXfer'
    BY <1>1, <1>2, <1>3
  <1>6. rxPos' > LengthWord => rxLength' = dataLength'[rxWords'[LengthWord + 1]]
    BY <1>1, <1>2, <1>4
  <1> QED
    BY <1>5, <1>6 DEF WordsInv

LEMMA StoredStarted ==
    ASSUME TypeOK, OnlyStarted, NEW k \in 1 .. rxPos
    PROVE  rxWords[k] \in 1 .. txXfer
  <1>1. rxWords[k] \in Xfers
    BY DEF TypeOK, rxPos
  <1>2. rxWords[k] <= txXfer
    BY DEF OnlyStarted
  <1>3. txXfer \in Nat
    BY LinkAssumption DEF TypeOK, Xfers, LinkAssumption
  <1> QED
    BY <1>1, <1>2, <1>3 DEF Xfers

\* The next transfer is another one than those of the words stored.
LEMMA WordsOfOlder ==
    ASSUME TypeOK, OnlyStarted, WordsInv, HeaderShape, NEW length,
           txXfer + 1 \in 0 .. MaxStarts,
           dataLength' = [dataLength EXCEPT ![txXfer + 1] = length],
           txPos' = 0, ackQ' = <<>>, UNCHANGED <<rxWords, rxLength>>
    PROVE  WordsInv'
  <1>1. rxPos' = rxPos /\ rxPos \in Nat /\ LengthWord \in Nat /\ txXfer \in Nat
    BY DEF rxPos, TypeOK, HeaderShape
  <1>2. ASSUME rxPos > LengthWord
        PROVE  dataLength'[rxWords[LengthWord + 1]] = dataLength[rxWords[LengthWord + 1]]
    <2>1. rxWords[LengthWord + 1] \in 1 .. txXfer
      BY <1>1, <1>2, StoredStarted
    <2> QED
      BY <1>1, <2>1 DEF TypeOK
  <1> QED
    BY <1>1, <1>2, NoneAcked DEF WordsInv

LEMMA TxWords ==
    ASSUME TypeOK, OnlyStarted, StopAndWait, WordsInv, PromptBus, HeaderShape,
           startTransfer \/ handleTx \/ TxExpires
    PROVE  WordsInv'
  <1>1. CASE startTransfer
    <2>1. PICK length \in Lengths : startTx(length)
      BY <1>1 DEF startTransfer
    <2>2. ~Working
      BY <1>1 DEF PromptBus, startTransfer, AppMayStart, Working, StopAndWait, WaitInv
    <2>3. ackQ' = <<>> /\ UNCHANGED <<rxWords, rxLength>>
      BY <1>1, <2>2 DEF startTransfer, rxVars, StopAndWait, OneMessage, UnderWay
    <2>4. txXfer + 1 \in 0 .. MaxStarts /\ txPos' = 0
      BY <2>1, StartType
    <2> QED
      BY <2>1, <2>3, <2>4, WordsOfOlder DEF startTx
  <1>2. CASE handleTx
    <2>1. PICK ack \in Pending(ackQ) : OnAck
      BY <1>2 DEF handleTx, TxAborted, TxOldAck, TxImplausible, TxNext, TxFinish
    <2>2. /\ \A a \in Pending(ackQ) : a = ack
          /\ ackQ = <<Ack(ack.pos, ack.code)>> /\ ackQ' = <<>> /\ ack.code \in Codes
          /\ ack.pos \in {Abort, txPos} /\ txPos \in Nat
          /\ UNCHANGED <<rxWords, rxLength>>
      BY <2>1, AckArrives DEF StopAndWait, Pending, TypeOK, rxVars
    <2>3. ~TxOldAck /\ ~TxImplausible
      BY <2>2 DEF TxOldAck, TxImplausible, Abort
    <2>4. rxPos' = rxPos
      BY <2>2 DEF rxPos
    <2>5. CASE TxAborted
      <3>1. txPos' = 0 /\ UNCHANGED <<txXfer, dataLength>>
        BY <2>5 DEF TxAborted
      <3> QED
        BY <2>2, <2>4, <3>1, NoneAcked DEF WordsInv
    <2>6. CASE TxNext \/ TxFinish
      <3>1. Accepted(ack) /\ UNCHANGED <<txXfer, dataLength>>
        BY <2>2, <2>6 DEF TxNext, TxFinish, PromptBus
      <3>2. txPos > 0 \/ Acked(0)
        BY <2>2, <3>1 DEF Accepted, Acked, Abort
      <3> QED
        BY <2>2, <2>4, <3>1, <3>2 DEF WordsInv
    <2> QED
      BY <1>2, <2>3, <2>5, <2>6 DEF handleTx
  <1>3. CASE TxExpires
    <2>1. UNCHANGED <<txXfer, txPos, dataLength, rxWords, rxLength, ackQ>>
      BY <1>3 DEF TxExpires, txTimeout, TxRetransmit, TxGiveUp, PromptBus, rxVars
    <2> QED
      BY <2>1, WordsKept
  <1> QED
    BY <1>1, <1>2, <1>3

LEMMA RxWordsKept ==
    ASSUME TypeOK, OnlyStarted, StopAndWait, WordsInv, HeaderShape, handleRx
    PROVE  WordsInv'
  <1>1. PICK m \in Pending(dataQ) : OnShred
    BY DEF handleRx, RxAborted, RxRetransmission, RxLate, RxNonsense,
           RxOutOfOrder, RxStore, RxFinish
  <1>2. /\ \A n \in Pending(dataQ) : n = m
        /\ m.pos = txPos /\ ackQ = <<>> /\ UnderWay
        /\ UNCHANGED <<txXfer, txPos, dataLength>>
    BY <1>1, ShredArrives DEF StopAndWait, Pending, OnShred, txVars, UnderWay
  <1>3. rxPos \in Nat /\ txPos \in Nat /\ LengthWord \in Nat
    BY DEF TypeOK, rxPos, HeaderShape
  <1>4. CASE RxAborted \/ RxOutOfOrder \/ RxFinish
    BY <1>3, <1>4, WordsGone DEF RxAborted, RxOutOfOrder, RxFinish
  <1>5. CASE RxRetransmission
    <2>1. m.pos = rxPos - 1 /\ UNCHANGED <<rxWords, rxLength>>
      BY <1>2, <1>5 DEF RxRetransmission
    <2> QED
      BY <1>2, <1>3, <2>1, WordsKept
  <1>6. CASE RxLate
    <2>1. m.pos > 0 /\ UNCHANGED <<rxWords, rxLength>>
      BY <1>2, <1>6 DEF RxLate
    <2> QED
      BY <1>2, <1>3, <2>1, WordsKept
  <1>7. CASE RxNonsense
    BY <1>2, <1>7, WordsKept DEF RxNonsense
  <1>8. CASE RxStore
    <2>1. /\ m.pos = rxPos /\ m.xfer = txXfer
          /\ rxWords' = Append(rxWords, m.xfer) /\ rxLength' = LengthAfter(m)
      BY <1>2, <1>8, ShredArrives DEF RxStore, StopAndWait
    <2>2. /\ rxPos = txPos /\ rxWords' = Append(rxWords, txXfer)
          /\ rxLength' = IF rxPos = LengthWord THEN txLength ELSE rxLength
      BY <1>2, <2>1 DEF LengthAfter, txLength
    <2> QED
      BY <1>2, <2>2, AtWork, WordsGrow
  <1> QED
    BY <1>4, <1>5, <1>6, <1>7, <1>8 DEF handleRx

LEMMA WordsStep ==
    ASSUME TypeOK, OnlyStarted, StopAndWait, WordsInv, PromptBus, HeaderShape,
           [TimedNext]_timedVars
    PROVE  WordsInv'
  <1>1. CASE rxTimeout \/ RxReboot
    BY <1>1, WordsGone DEF rxTimeout, RxReboot, HeaderShape
  <1>2. CASE Tick \/ LoseShred \/ UNCHANGED timedVars
    <2>1. UNCHANGED <<txXfer, txPos, dataLength, rxWords, rxLength, ackQ>>
      BY <1>2 DEF Tick, LoseShred, timedVars, vars, txVars, rxVars
    <2> QED
      BY <2>1, WordsKept
  <1>3. CASE LoseAck
    <2>1. ackQ # <<>> /\ ackQ' = Tail(ackQ)
          /\ UNCHANGED <<txXfer, txPos, dataLength, rxWords, rxLength>>
      BY <1>3 DEF LoseAck, txVars, rxVars
    <2>2. ackQ' = <<>>
      BY <2>1, Single DEF StopAndWait, OneMessage, Acked
    <2> QED
      BY <2>1, <2>2, WordsKept
  <1> QED
    BY <1>1, <1>2, <1>3, TxWords, RxWordsKept
    DEF TimedNext, Deliver, Miss, RxExpires, Lose, Reboot

LEMMA WordsInitially == TimedInit /\ HeaderShape => WordsInv
  <1> SUFFICES ASSUME TimedInit, HeaderShape PROVE WordsInv
    OBVIOUS
  <1>1. txPos = 0 /\ ackQ = <<>> /\ rxPos = 0 /\ LengthWord \in Nat
    BY DEF TimedInit, Init, rxPos, HeaderShape
  <1>2. ~Acked(0)
    BY <1>1, Single DEF Acked
  <1> QED
    BY <1>1, <1>2 DEF WordsInv

\* Behind the magic number the words a receiver has stored are of one transfer, the
\* one its transmitter is at, and the stored length belongs to them, although
\* handleRx() keeps the words of a transfer that was given up (mmpNode.cpp:212-264).
THEOREM WordsAlways ==
    ASSUME PromptBus, HeaderShape
    PROVE  TimedSpec => [](TimedTypeOK /\ LinkInv /\ StopAndWait /\ WordsInv)
  <1>1. TimedInit => WordsInv
    BY WordsInitially
  <1>2. (TimedTypeOK /\ LinkInv /\ StopAndWait) /\ WordsInv
          /\ [TimedNext]_timedVars => WordsInv'
    BY WordsStep DEF TimedTypeOK, LinkInv, OrderInv
  <1> QED
    BY <1>1, <1>2, StopAndWaitAlways, PTL DEF TimedSpec

\* When the receiver has the last word of what it takes for the transfer, it is
\* the last word of the transmitter's transfer.
LEMMA LastOfTransfer ==
    ASSUME TypeOK, StopAndWait, WordsInv, HeaderShape,
           NEW m \in Pending(dataQ), m.pos = rxPos,
           isLast(m.pos, LengthAfter(m))
    PROVE  /\ rxPos = txPos /\ m.xfer = txXfer /\ txXfer \in Xfers
           /\ rxPos + 1 >= HeaderWords /\ rxPos \in Nat /\ txPos > 0
           /\ \A k \in 2 .. rxPos : rxWords[k] = txXfer
           /\ LengthAfter(m) = txLength
  <1>1. rxPos = txPos /\ m.xfer = txXfer /\ txXfer \in Xfers
    BY ShredArrives, AtWork DEF StopAndWait, UnderWay
  <1>2. /\ rxPos \in Nat /\ HeaderWords \in Nat /\ LengthWord \in Nat
        /\ LengthWord >= 1 /\ LengthWord + 2 <= HeaderWords
    BY TransferAssumption DEF TypeOK, rxPos, HeaderShape, TransferAssumption
  <1>3. rxPos + 1 >= HeaderWords /\ rxPos > 0
    <2>1. (rxPos + 1) * 4 >= 4 * HeaderWords
      BY DEF isLast, isFinished, HeaderBytes
    <2> QED
      BY <1>2, <2>1
  <1>4. \A k \in 2 .. rxPos : rxWords[k] = txXfer
    BY <1>1, <1>3 DEF WordsInv
  <1>5. rxPos > LengthWord /\ LengthWord + 1 \in 2 .. rxPos
    BY <1>2, <1>3
  <1>6. LengthAfter(m) = rxLength
    BY <1>2, <1>5 DEF LengthAfter
  <1> QED
    BY <1>1, <1>2, <1>3, <1>4, <1>5, <1>6 DEF WordsInv, txLength

LEMMA LengthFacts ==
    ASSUME TypeOK, NEW x \in 0 .. MaxStarts
    PROVE  dataLength[x] \in Nat /\ (Storable => dataLength[x] <= MaxReceiveSize)
  <1>1. dataLength[x] \in Lengths \cup {0}
    BY DEF TypeOK
  <1>2. CASE dataLength[x] = 0
    BY <1>2, TransferAssumption DEF TransferAssumption
  <1>3. CASE dataLength[x] \in Lengths
    BY <1>3, LinkAssumption, Zenon DEF LinkAssumption, Storable
  <1> QED
    BY <1>1, <1>2, <1>3, Zenon

\* Data words that are all of one transfer have the CRC of its header.
LEMMA CrcOfOne ==
    ASSUME UseLepto, NEW words, NEW x, words[CrcWord + 1] = x,
           Origins(words) = {x} \/ dataLength[x] = 0
    PROVE  CrcOk(words, dataLength[x])
  <1>1. CASE dataLength[x] = 0
    BY <1>1, Zenon DEF CrcOk, receivedCrc, updateCrc
  <1>2. CASE Origins(words) = {x} /\ dataLength[x] # 0
    BY <1>2, Zenon DEF CrcOk, receivedCrc, updateCrc
  <1> QED
    BY <1>1, <1>2

\* The checksum of a transfer's words is the one in its header.
LEMMA CrcOfTransfer ==
    ASSUME TypeOK, HeaderShape, UseLepto, txXfer \in Xfers,
           rxPos + 1 >= HeaderWords, isLast(rxPos, txLength),
           \A k \in 2 .. rxPos : rxWords[k] = txXfer
    PROVE  CrcOk(Append(rxWords, txXfer), txLength)
  <1> DEFINE words == Append(rxWords, txXfer)
  <1>1. Len(words) = rxPos + 1 /\ \A k \in 2 .. rxPos + 1 : words[k] = txXfer
    <2>1. rxWords \in Seq(Xfers)
      BY DEF TypeOK
    <2>2. /\ Len(words) = Len(rxWords) + 1 /\ words[Len(rxWords) + 1] = txXfer
          /\ \A k \in 1 .. Len(rxWords) : words[k] = rxWords[k]
      BY <2>1, AppendFacts
    <2>3. rxPos \in Nat
      BY <2>1 DEF rxPos
    <2> QED
      BY <2>2, <2>3 DEF rxPos
  <1> HIDE DEF words
  <1>2. /\ HeaderWords \in Nat /\ CrcWord + 1 \in 2 .. HeaderWords /\ rxPos \in Nat
        /\ HeaderWords >= 2
    BY TransferAssumption DEF TypeOK, rxPos, HeaderShape, TransferAssumption
  <1>3. words[CrcWord + 1] = txXfer
    BY <1>1, <1>2
  <1>4. txLength \in Nat
    BY LengthFacts DEF TypeOK, txLength
  <1>5. Origins(words) = {txXfer} \/ txLength = 0
    <2>1. CASE txLength # 0
      <3>1. (rxPos + 1) * 4 >= 4 * HeaderWords + txLength
        BY DEF isLast, isFinished, HeaderBytes
      <3>2. rxPos + 1 \in HeaderWords + 1 .. rxPos + 1
        BY <1>2, <1>4, <2>1, <3>1
      <3>3. \A i \in HeaderWords + 1 .. rxPos + 1 : i \in 2 .. rxPos + 1
        BY <1>2
      <3> QED
        BY <1>1, <3>2, <3>3 DEF Origins
    <2> QED
      BY <2>1
  <1>6. CrcOk(words, txLength)
    BY <1>3, <1>5, CrcOfOne DEF txLength
  <1> QED
    BY <1>6 DEF words

\* The end of a transfer on a prompt bus: its data are accepted.
LEMMA FinishIntact ==
    ASSUME TypeOK, StopAndWait, WordsInv, HeaderShape, UseLepto, RxFinish
    PROVE  /\ txXfer \in Xfers /\ rxPos = txPos /\ txPos > 0 /\ isLast(txPos, txLength)
           /\ rxWords' = <<>> /\ rxLength' = txLength /\ UNCHANGED rxFatal
           /\ \E code \in HandlerCodes :
                /\ verdict' = [verdict EXCEPT ![txXfer] = code]
                /\ rxCode' = code
                /\ ackQ' = Append(ackQ, Ack(txPos, code))
  <1>1. PICK m \in Pending(dataQ) :
          /\ m.pos = rxPos /\ isLast(m.pos, LengthAfter(m))
          /\ rxWords' = <<>> /\ rxLength' = LengthAfter(m) /\ UNCHANGED rxFatal
          /\ \E ok \in {CrcOk(Append(rxWords, m.xfer), LengthAfter(m))},
                code \in HandlerCodes \cup {wrongCRC} :
              /\ IF ok THEN code \in HandlerCodes ELSE code = wrongCRC
              /\ verdict' = [verdict EXCEPT ![m.xfer] = code]
              /\ rxCode' = code
              /\ sendTransferAck(m.pos, code)
    BY DEF RxFinish
  <1>2. /\ rxPos = txPos /\ m.xfer = txXfer /\ txXfer \in Xfers
        /\ rxPos + 1 >= HeaderWords /\ txPos > 0
        /\ \A k \in 2 .. rxPos : rxWords[k] = txXfer
        /\ LengthAfter(m) = txLength
    BY <1>1, LastOfTransfer
  <1>3. isLast(rxPos, txLength)
    BY <1>1, <1>2
  <1>4. CrcOk(Append(rxWords, m.xfer), LengthAfter(m))
    BY <1>2, <1>3, CrcOfTransfer
  <1> QED
    BY <1>1, <1>2, <1>3, <1>4 DEF sendTransferAck

\* Who changes what the handler was given and what it returned.
LEMMA OnlyFinishRuns ==
    ASSUME [TimedNext]_timedVars, ~RxFinish
    PROVE  UNCHANGED <<runs, verdict>>
  <1>1. CASE startTransfer \/ handleTx \/ txTimeout
    BY <1>1 DEF startTransfer, handleTx, TxAborted, TxOldAck, TxImplausible,
                TxNext, TxFinish, OnAck, txTimeout, TxRetransmit, TxGiveUp, rxVars
  <1>2. CASE handleRx
    BY <1>2 DEF handleRx, RxAborted, RxRetransmission, RxLate, RxNonsense,
                RxOutOfOrder, RxStore
  <1>3. CASE rxTimeout \/ RxReboot \/ LoseShred \/ LoseAck \/ Tick
              \/ UNCHANGED timedVars
    BY <1>3 DEF rxTimeout, RxReboot, LoseShred, LoseAck, Tick, timedVars, vars,
                rxVars
  <1> QED
    BY <1>1, <1>2, <1>3
    DEF TimedNext, Deliver, Miss, TxExpires, RxExpires, Lose, Reboot

\* The handler gets the words of one transfer, header and data, whatever is lost
\* and however often the receiver restarts; only the magic number may be older
\* (mmpNode.cpp:507: the CRC covers the data only).
THEOREM WholeHandled ==
    ASSUME PromptBus, HeaderShape
    PROVE  TimedSpec => HandledWhole
  <1>1. (TimedTypeOK /\ LinkInv /\ StopAndWait /\ WordsInv)
          /\ [TimedNext]_timedVars => [OfOneTransfer]_vars
    <2> SUFFICES ASSUME TypeOK, StopAndWait, WordsInv, [TimedNext]_timedVars
                 PROVE  OfOneTransfer
      BY DEF TimedTypeOK
    <2>1. CASE ~RxFinish
      BY <2>1, OnlyFinishRuns DEF OfOneTransfer
    <2>2. CASE RxFinish
      <3>1. PICK m \in Pending(dataQ), n \in {0, 1} :
              /\ m.pos = rxPos /\ isLast(m.pos, LengthAfter(m))
              /\ runs' = [runs EXCEPT ![m.xfer] = @ + n]
        BY <2>2 DEF RxFinish
      <3>2. m.xfer = txXfer /\ \A k \in 2 .. rxPos : rxWords[k] = txXfer
        BY <3>1, LastOfTransfer
      <3>3. ASSUME NEW x \in Xfers, runs'[x] # runs[x] PROVE x = txXfer
        BY <3>1, <3>2, <3>3 DEF TypeOK
      <3> QED
        BY <3>2, <3>3 DEF OfOneTransfer
    <2> QED
      BY <2>1, <2>2
  <1> QED
    BY <1>1, WordsAlways, PTL DEF TimedSpec, HandledWhole

\* A transfer whose data arrive as they were sent passes the check, in a build
\* that computes the CRC (mmpNode.cpp:505-530).
THEOREM IntactAlwaysAccepted ==
    ASSUME PromptBus, HeaderShape, UseLepto, wrongCRC \notin HandlerCodes
    PROVE  TimedSpec => []IntactAccepted
  <1>1. TimedInit => IntactAccepted
    BY DEF TimedInit, Init, IntactAccepted, invalidInit, wrongCRC
  <1>2. (TimedTypeOK /\ LinkInv /\ StopAndWait /\ WordsInv) /\ IntactAccepted
          /\ [TimedNext]_timedVars => IntactAccepted'
    <2> SUFFICES ASSUME TypeOK, StopAndWait, WordsInv, IntactAccepted,
                        [TimedNext]_timedVars
                 PROVE  IntactAccepted'
      BY DEF TimedTypeOK
    <2>1. CASE ~RxFinish
      BY <2>1, OnlyFinishRuns DEF IntactAccepted
    <2>2. CASE RxFinish
      BY <2>2, FinishIntact DEF IntactAccepted, TypeOK
    <2> QED
      BY <2>1, <2>2
  <1> QED
    BY <1>1, <1>2, WordsAlways, PTL DEF TimedSpec

-----------------------------------------------------------------------------
(* The receiver keeps in step with the transmitter unless it is restarted.   *)

LEMMA PatienceFacts ==
    ASSUME LongEnough, NEW r \in 0 .. MaxRetry
    PROVE  /\ Patience(r) \in Nat
           /\ ShredTimeout + Patience(r) < ReceiverTimeout
           /\ r < MaxRetry => ShredTimeout + Patience(r + 1) = Patience(r)
  <1>1. /\ MaxRetry \in Nat /\ ShredTimeout \in Nat /\ ReceiverTimeout \in Nat
        /\ r \in Nat /\ r <= MaxRetry
    BY LinkAssumption DEF LinkAssumption
  <1>2. \A a, b, c \in Nat : (a - b) * c = a * c - b * c
    OBVIOUS
  <1>3. \A b, c \in Nat : (b + 1) * c = b * c + c
    OBVIOUS
  <1>4. \A b, c \in Nat : b * c \in Nat
    OBVIOUS
  <1>5. \A a, b, c \in Nat : b <= a => b * c <= a * c
    OBVIOUS
  <1> DEFINE S == ShredTimeout
             RS == r * S
             MS == MaxRetry * S
  <1>6. /\ Patience(r) = MS - RS
        /\ Patience(r + 1) = MS - (RS + S)
        /\ (MaxRetry + 1) * ShredTimeout = MS + S
    BY <1>1, <1>2, <1>3 DEF Patience
  <1>7. RS \in Nat /\ MS \in Nat /\ RS <= MS /\ S \in Nat
    BY <1>1, <1>4, <1>5
  <1> HIDE DEF RS, MS
  <1>8. MS + S < ReceiverTimeout
    BY <1>6 DEF LongEnough
  <1> QED
    BY <1>1, <1>6, <1>7, <1>8

\* The last word is no word of the first part of the header.
LEMMA LastBehind ==
    ASSUME HeaderShape, NEW pos \in Nat, NEW length, isLast(pos, length)
    PROVE  pos > LengthWord /\ pos > 0 /\ pos + 1 >= HeaderWords
  <1>1. (pos + 1) * 4 >= 4 * HeaderWords
    BY DEF isLast, isFinished, HeaderBytes
  <1> QED
    BY <1>1, TransferAssumption DEF HeaderShape, TransferAssumption

\* No header that is complete announces more than the receiver can store.
LEMMA NeverTooBig ==
    ASSUME TypeOK, WordsInv, HeaderShape, Storable,
           NEW m, m.pos = rxPos
    PROVE  TooBig(m.pos, LengthAfter(m)) = FALSE
  <1>1. /\ rxPos \in Nat /\ LengthWord \in Nat /\ HeaderWords \in Nat
        /\ LengthWord + 2 <= HeaderWords /\ MaxReceiveSize \in Nat
    BY TransferAssumption DEF TypeOK, rxPos, HeaderShape, TransferAssumption
  <1>2. CASE rxPos + 1 # HeaderWords
    BY <1>2 DEF TooBig
  <1>3. CASE rxPos + 1 = HeaderWords
    <2>1. rxPos > LengthWord /\ LengthWord + 1 \in 1 .. rxPos /\ m.pos # LengthWord
      BY <1>1, <1>3
    <2>2. rxWords[LengthWord + 1] \in Xfers
      BY <2>1 DEF TypeOK, rxPos
    <2>3. rxWords[LengthWord + 1] \in 0 .. MaxStarts
      BY <2>2, LinkAssumption DEF Xfers, LinkAssumption
    <2>4. LengthAfter(m) = dataLength[rxWords[LengthWord + 1]]
      BY <2>1 DEF WordsInv, LengthAfter
    <2>5. LengthAfter(m) \in Nat /\ LengthAfter(m) <= MaxReceiveSize
      BY <2>3, <2>4, LengthFacts
    <2> QED
      BY <1>1, <2>5 DEF TooBig
  <1> QED
    BY <1>2, <1>3

\* What the receiver's answer to the transmitter's word must be.
LEMMA AnswerInStep ==
    ASSUME TypeOK, OneMessage, WaitInv, LongEnough, HeaderShape,
           dataQ # <<>>, UNCHANGED txVars, ~rxFatal',
           txPos > LengthWord => rxLength' = txLength,
           \/ /\ ackQ' = <<Ack(txPos, invalid)>>
              /\ rxPos' = txPos + 1 /\ rxTimer' = ReceiverTimeout
           \/ /\ \E code \in Codes : ackQ' = <<Ack(txPos, code)>>
              /\ isLast(txPos, txLength) /\ rxPos' \in {txPos + 1, 0}
           \/ \E code \in Codes : ackQ' = <<Ack(Abort, code)>> /\ txPos = 0
    PROVE  InStep'
  <1>1. /\ UNCHANGED <<txXfer, txPos, txRetry, txState, txTimer, dataLength, reports>>
        /\ Working' = Working /\ txLength' = txLength
    BY DEF txVars, Working, Reported, txLength
  <1>2. txPos \in Nat /\ txTimer = TxInterval(txPos, txLength) /\ Working
    BY DEF TypeOK, OneMessage, UnderWay
  <1>3. \A q, p : (\E c, d : <<Ack(p, c)>> = <<Ack(q, d)>>) => p = q
    BY Single, Fields
  <1>4. Acked(Abort)' => txPos = 0
    BY <1>2, <1>3 DEF Acked, Abort
  <1>5. Acked(txPos)' /\ ~isLast(txPos, txLength)
          => rxPos' = txPos + 1 /\ rxTimer' = ReceiverTimeout
    BY <1>1, <1>2, <1>3 DEF Acked, Abort
  <1>6. txPos > 0 => rxPos' \in {txPos, txPos + 1}
                       \/ (rxPos' = 0 /\ isLast(txPos, txLength))
    OBVIOUS
  <1>7. ASSUME txPos > 0, ~isLast(txPos, txLength)
        PROVE  rxTimer' > txTimer + Patience(txRetry)
    <2>1. rxTimer' = ReceiverTimeout /\ txTimer = ShredTimeout
      BY <1>2, <1>7 DEF TxInterval
    <2>2. txRetry \in 0 .. MaxRetry
      BY <1>2, LinkAssumption DEF Working, WaitInv, TypeOK, LinkAssumption
    <2>3. /\ ShredTimeout + Patience(txRetry) < ReceiverTimeout
          /\ Patience(txRetry) \in Nat /\ ShredTimeout \in Nat /\ ReceiverTimeout \in Nat
      BY <2>2, PatienceFacts, LinkAssumption DEF LinkAssumption
    <2> QED
      BY <2>1, <2>3
  <1>8. Patience(txRetry)' = Patience(txRetry) /\ isLast(txPos, txLength)' = isLast(txPos, txLength)
    BY <1>1 DEF Patience
  <1> QED
    BY <1>1, <1>4, <1>5, <1>6, <1>7, <1>8 DEF InStep

LEMMA RxInStep ==
    ASSUME TypeOK, StopAndWait, WordsInv, InStep, HeaderShape, LongEnough, Storable,
           handleRx
    PROVE  InStep'
  <1>1. PICK m \in Pending(dataQ) : OnShred
    BY DEF handleRx, RxAborted, RxRetransmission, RxLate, RxNonsense,
           RxOutOfOrder, RxStore, RxFinish
  <1>2. /\ \A n \in Pending(dataQ) : n = m
        /\ m.pos = txPos /\ m.xfer = txXfer /\ ackQ = <<>> /\ dataQ # <<>>
        /\ UNCHANGED txVars /\ Working
    BY <1>1, ShredArrives DEF StopAndWait, Pending, OnShred
  <1>3. /\ rxPos \in Nat /\ txPos \in Nat /\ LengthWord \in Nat /\ HeaderWords \in Nat
        /\ HeaderWords >= 2 /\ ~rxFatal
    BY TransferAssumption
    DEF TypeOK, rxPos, HeaderShape, InStep, TransferAssumption
  <1>4. OneMessage /\ WaitInv
    BY DEF StopAndWait
  <1>5. /\ txPos > LengthWord => rxLength = txLength
        /\ txPos > 0 => rxPos \in {txPos, txPos + 1}
                          \/ (rxPos = 0 /\ isLast(txPos, txLength))
    BY <1>2, <1>3 DEF InStep
  <1>6. \A length : isLast(txPos, length) => txPos > LengthWord /\ txPos > 0
    BY <1>3, LastBehind
  <1>7. \A pos, code : sendAck(pos) => ackQ' = <<Ack(pos, invalid)>> /\ rxTimer' = ReceiverTimeout
    BY <1>2, Single DEF sendAck
  <1>8. \A pos, code : sendTransferAck(pos, code) => ackQ' = <<Ack(pos, code)>>
    BY <1>2, Single DEF sendTransferAck
  <1>9. /\ {invalid, rxCode, wrongCRC} \subseteq Codes
        /\ HandlerCodes \subseteq Codes
    BY CodesType DEF TypeOK
  <1>10. ~RxAborted
    BY <1>2, <1>3 DEF RxAborted, Abort
  <1>11. ~RxNonsense
    BY <1>2, <1>3, <1>5, <1>6 DEF RxNonsense
  <1>12. CASE RxRetransmission
    <2>1. /\ rxPos = txPos + 1 /\ UNCHANGED <<rxWords, rxLength, rxFatal>>
          /\ IF isLast(txPos, rxLength) THEN sendTransferAck(txPos, rxCode)
                                        ELSE sendAck(txPos)
      BY <1>2, <1>3, <1>12 DEF RxRetransmission
    <2>2. rxPos' = txPos + 1
      BY <2>1 DEF rxPos
    <2>3. CASE isLast(txPos, rxLength)
      BY <1>2, <1>3, <1>4, <1>5, <1>6, <1>8, <1>9, <2>1, <2>2, <2>3, AnswerInStep
    <2>4. CASE ~isLast(txPos, rxLength)
      BY <1>2, <1>3, <1>4, <1>5, <1>7, <2>1, <2>2, <2>4, AnswerInStep
    <2> QED
      BY <2>3, <2>4
  <1>13. CASE RxLate
    <2>1. /\ rxPos = 0 /\ txPos > 0 /\ UNCHANGED <<rxWords, rxLength, rxFatal>>
          /\ sendTransferAck(txPos, rxCode)
      BY <1>2, <1>13 DEF RxLate
    <2>2. rxPos' = 0 /\ isLast(txPos, txLength)
      BY <1>3, <1>5, <2>1 DEF rxPos
    <2> QED
      BY <1>2, <1>3, <1>4, <1>5, <1>8, <1>9, <2>1, <2>2, AnswerInStep
  <1>14. CASE RxOutOfOrder
    <2>1. /\ rxPos # 0 /\ txPos \notin {rxPos - 1, rxPos}
          /\ UNCHANGED <<rxLength, rxFatal>> /\ sendAck(Abort)
      BY <1>2, <1>14 DEF RxOutOfOrder
    <2>2. txPos = 0
      BY <1>3, <1>5, <2>1
    <2> QED
      BY <1>2, <1>3, <1>4, <1>7, <1>9, <2>1, <2>2, AnswerInStep
  <1>15. CASE RxStore
    <2>1. /\ txPos = rxPos /\ rxWords' = Append(rxWords, m.xfer)
          /\ rxLength' = LengthAfter(m) /\ sendAck(txPos)
          /\ rxFatal' = TooBig(m.pos, LengthAfter(m))
      BY <1>2, <1>15 DEF RxStore
    <2>2. rxPos' = txPos + 1
      <3>1. m.xfer \in Xfers /\ rxWords \in Seq(Xfers)
        BY <1>2, AtWork DEF UnderWay, TypeOK
      <3> QED
        BY <2>1, <3>1, AppendFacts DEF rxPos
    <2>3. ~rxFatal'
      BY <1>2, <2>1, NeverTooBig
    <2>4. txPos > LengthWord => rxLength' = txLength
      BY <1>2, <1>3, <1>5, <2>1 DEF LengthAfter
    <2> QED
      BY <1>2, <1>4, <1>7, <2>1, <2>2, <2>3, <2>4, AnswerInStep
  <1>16. CASE RxFinish
    <2>1. PICK code \in HandlerCodes \cup {wrongCRC} :
            /\ m.pos = rxPos /\ isLast(m.pos, LengthAfter(m))
            /\ rxWords' = <<>> /\ rxLength' = LengthAfter(m) /\ UNCHANGED rxFatal
            /\ sendTransferAck(txPos, code)
      BY <1>2, <1>16 DEF RxFinish
    <2>2. LengthAfter(m) = txLength /\ isLast(txPos, txLength)
      BY <1>2, <2>1, LastOfTransfer
    <2>3. rxPos' = 0
      BY <2>1 DEF rxPos
    <2> QED
      BY <1>2, <1>3, <1>4, <1>8, <1>9, <2>1, <2>2, <2>3, AnswerInStep
  <1> QED
    BY <1>10, <1>11, <1>12, <1>13, <1>14, <1>15, <1>16 DEF handleRx

\* A transmitter that is not at work, or is at the first word, asks for nothing.
LEMMA IdleInStep ==
    ASSUME ~rxFatal', ackQ' = <<>>, ~Working' \/ txPos' = 0
    PROVE  InStep'
  <1>1. ~Acked(txPos)' /\ ~Acked(Abort)'
    BY Single DEF Acked
  <1> QED
    BY <1>1 DEF InStep

LEMMA AckInStep ==
    ASSUME TypeOK, StopAndWait, WordsInv, InStep, PromptBus, HeaderShape, LongEnough,
           handleTx
    PROVE  InStep'
  <1>1. PICK ack \in Pending(ackQ) : OnAck
    BY DEF handleTx, TxAborted, TxOldAck, TxImplausible, TxNext, TxFinish
  <1>2. /\ \A a \in Pending(ackQ) : a = ack
        /\ ackQ = <<Ack(ack.pos, ack.code)>> /\ ack.code \in Codes
        /\ ackQ' = <<>> /\ dataQ = <<>> /\ ack.pos \in {Abort, txPos}
        /\ Working /\ UNCHANGED rxVars
    BY <1>1, AckArrives DEF StopAndWait, Pending
  <1>3. /\ txPos \in Nat /\ rxPos \in Nat /\ rxPos' = rxPos /\ ~rxFatal'
        /\ UNCHANGED <<rxWords, rxLength, rxTimer>>
    BY <1>2 DEF TypeOK, rxPos, rxVars, InStep
  <1>4. CASE TxAborted
    <2>1. txPos' = 0
      BY <1>4 DEF TxAborted
    <2> QED
      BY <1>2, <1>3, <2>1, IdleInStep
  <1>5. ~TxOldAck /\ ~TxImplausible
    BY <1>2, <1>3 DEF TxOldAck, TxImplausible, Abort
  <1>6. CASE TxFinish
    <2>1. txState' = "idle"
      BY <1>6 DEF TxFinish
    <2> QED
      BY <1>2, <1>3, <2>1, IdleInStep DEF Working
  <1>7. CASE TxNext
    <2>1. /\ txPos' = txPos + 1 /\ txRetry' = 0
          /\ sendTxShred(txXfer, txPos + 1, txLength)
          /\ ~isFinished(txPos + 1, txLength) /\ Accepted(ack)
          /\ UNCHANGED <<txXfer, dataLength, txState, reports>>
      BY <1>2, <1>7 DEF TxNext
    <2>2. /\ txTimer' = TxInterval(txPos + 1, txLength) /\ txLength' = txLength
          /\ Acked(txPos) /\ ~isLast(txPos, txLength)
      BY <1>2, <1>3, <2>1
      DEF sendTxShred, txLength, Accepted, Acked, Abort, isLast
    <2>3. rxPos = txPos + 1 /\ rxTimer = ReceiverTimeout
      BY <2>2 DEF InStep
    <2>4. ASSUME txPos + 1 > LengthWord PROVE rxLength = txLength
      <3>1. \A k \in 2 .. rxPos : rxWords[k] = txXfer
        BY <1>3, <2>2, <2>3 DEF WordsInv
      <3>2. LengthWord + 1 \in 2 .. rxPos
        BY <1>3, <2>3, <2>4, TransferAssumption DEF HeaderShape, TransferAssumption
      <3> QED
        BY <2>3, <2>4, <3>1, <3>2 DEF WordsInv, txLength
    <2>5. ASSUME ~isLast(txPos + 1, txLength)
          PROVE  rxTimer > TxInterval(txPos + 1, txLength) + Patience(0)
      <3>1. MaxRetry \in Nat /\ ShredTimeout \in Nat /\ ReceiverTimeout \in Nat
        BY LinkAssumption DEF LinkAssumption
      <3>2. ShredTimeout + Patience(0) < ReceiverTimeout /\ Patience(0) \in Nat
        BY <3>1, PatienceFacts
      <3> QED
        BY <2>3, <2>5, <3>1, <3>2 DEF TxInterval
    <2>6. ~Acked(txPos)' /\ ~Acked(Abort)'
      BY <1>2, Single DEF Acked
    <2>7. Patience(txRetry)' = Patience(0)
      BY <2>1 DEF Patience
    <2> QED
      BY <1>3, <2>1, <2>2, <2>3, <2>4, <2>5, <2>6, <2>7 DEF InStep
  <1> QED
    BY <1>4, <1>5, <1>6, <1>7 DEF handleTx

LEMMA TimeoutInStep ==
    ASSUME TypeOK, StopAndWait, InStep, PromptBus, HeaderShape, LongEnough, TxExpires
    PROVE  InStep'
  <1>1. /\ dataQ = <<>> /\ ackQ = <<>> /\ txTimer # Off /\ txTimer = 0
        /\ UNCHANGED rxVars /\ ackQ' = <<>> /\ ~rxFatal' /\ rxPos' = rxPos
        /\ UNCHANGED <<rxLength, rxTimer, rxWords>>
    BY ExpiredAlone
    DEF TxExpires, StopAndWait, Off, txTimeout, TxRetransmit, TxGiveUp, rxVars,
        InStep, rxPos
  <1>2. CASE TxGiveUp
    <2>1. reports' = reports \cup {[xfer |-> txXfer, code |-> counterPartDead]}
          /\ UNCHANGED txXfer
      BY <1>2 DEF TxGiveUp, emitHandleMmpTransferAck, PromptBus
    <2>2. \E r \in reports' : r.xfer = txXfer
      BY <2>1, [xfer |-> txXfer, code |-> counterPartDead].xfer = txXfer
    <2>3. ~Working'
      BY <2>1, <2>2 DEF Working, Reported
    <2> QED
      BY <1>1, <2>3, IdleInStep
  <1>3. CASE TxRetransmit
    <2>1. /\ txRetry < MaxRetry /\ txRetry' = txRetry + 1
          /\ txTimer' = TxInterval(txPos, txLength)
          /\ UNCHANGED <<txXfer, dataLength, txPos, txState, reports>>
      BY <1>3 DEF TxRetransmit, sendTxShred
    <2>2. Working' = Working /\ txLength' = txLength
      BY <2>1 DEF Working, Reported, txLength
    <2>3. ~Acked(txPos)' /\ ~Acked(Abort)'
      BY <1>1, Single DEF Acked
    <2>4. ASSUME Working, txPos > 0, ~isLast(txPos, txLength)
          PROVE  rxTimer > TxInterval(txPos, txLength) + Patience(txRetry + 1)
      <3>1. rxTimer > txTimer + Patience(txRetry)
        BY <2>4 DEF InStep
      <3>2. txRetry \in 0 .. MaxRetry /\ ShredTimeout \in Nat
        BY <2>1, LinkAssumption DEF TypeOK, LinkAssumption
      <3>3. Patience(txRetry) \in Nat
            /\ ShredTimeout + Patience(txRetry + 1) = Patience(txRetry)
        BY <2>1, <3>2, PatienceFacts
      <3> QED
        BY <1>1, <2>4, <3>1, <3>3 DEF TxInterval
    <2>5. Patience(txRetry)' = Patience(txRetry + 1)
      BY <2>1 DEF Patience
    <2> QED
      BY <1>1, <2>1, <2>2, <2>3, <2>4, <2>5 DEF InStep
  <1> QED
    BY <1>2, <1>3 DEF TxExpires, txTimeout

LEMMA TickInStep ==
    ASSUME TypeOK, StopAndWait, InStep, PromptBus, LongEnough, Tick
    PROVE  InStep'
  <1>1. /\ dataQ = <<>> /\ ackQ = <<>> /\ txTimer # 0
        /\ txTimer' = Down(txTimer) /\ rxTimer' = Down(rxTimer)
        /\ UNCHANGED <<txXfer, txPos, txRetry, txState, dataLength, reports,
                       rxWords, rxLength, rxFatal, dataQ, ackQ>>
    BY DEF PromptBus, Tick
  <1>2. /\ Working' = Working /\ txLength' = txLength /\ rxPos' = rxPos
        /\ ~rxFatal'
    BY <1>1 DEF Working, Reported, txLength, rxPos, InStep
  <1>3. ~Acked(txPos)' /\ ~Acked(Abort)'
    BY <1>1, Single DEF Acked
  <1>4. ASSUME Working, rxTimer > txTimer + Patience(txRetry)
        PROVE  rxTimer' > txTimer' + Patience(txRetry)
    <2>1. txRetry \in 0 .. MaxRetry /\ txTimer # Off
      BY <1>4, LinkAssumption DEF Working, StopAndWait, WaitInv, TypeOK, LinkAssumption
    <2>2. Patience(txRetry) \in Nat
      BY <2>1, PatienceFacts
    <2>3. txTimer \in Nat /\ rxTimer \in Int
      BY <2>1, LinkAssumption DEF TypeOK, Off, LinkAssumption
    <2> QED
      BY <1>1, <1>4, <2>2, <2>3 DEF Down
  <1>5. Patience(txRetry)' = Patience(txRetry)
    BY <1>1 DEF Patience
  <1> QED
    BY <1>1, <1>2, <1>3, <1>4, <1>5 DEF InStep

\* The receiver's timer cannot run out while it has to wait for a word.
LEMMA RxTimeoutInStep ==
    ASSUME TypeOK, StopAndWait, InStep, LongEnough, RxExpires
    PROVE  InStep'
  <1>1. /\ rxTimer = 0 /\ rxWords' = <<>> /\ rxPos' = 0
        /\ UNCHANGED <<txVars, rxLength, rxFatal, dataQ, ackQ>>
    BY DEF RxExpires, rxTimeout, rxPos
  <1>2. /\ UNCHANGED <<txXfer, txPos, txRetry, txState, txTimer, dataLength, reports>>
        /\ Working' = Working /\ txLength' = txLength
        /\ Acked(txPos)' = Acked(txPos) /\ Acked(Abort)' = Acked(Abort)
    BY <1>1 DEF txVars, Working, Reported, txLength, Acked
  <1>3. ASSUME Working, txPos > 0 PROVE isLast(txPos, txLength)
    <2>1. txRetry \in 0 .. MaxRetry /\ txTimer # Off
      BY <1>3, LinkAssumption DEF Working, StopAndWait, WaitInv, TypeOK, LinkAssumption
    <2>2. Patience(txRetry) \in Nat
      BY <2>1, PatienceFacts
    <2>3. txTimer \in Nat
      BY <2>1, LinkAssumption DEF TypeOK, Off, LinkAssumption
    <2>4. ~(rxTimer > txTimer + Patience(txRetry))
      BY <1>1, <2>2, <2>3
    <2> QED
      BY <1>3, <2>4 DEF InStep
  <1>4. ~(Acked(txPos) /\ ~isLast(txPos, txLength))
    BY <1>1, LinkAssumption DEF InStep, LinkAssumption
  <1> QED
    BY <1>1, <1>2, <1>3, <1>4 DEF InStep

LEMMA LossInStep ==
    ASSUME StopAndWait, InStep, LoseShred \/ LoseAck \/ UNCHANGED vars
    PROVE  InStep'
  <1>1. UNCHANGED <<txVars, rxVars>> /\ (ackQ' = ackQ \/ ackQ' = <<>>)
    BY Single DEF LoseShred, LoseAck, StopAndWait, OneMessage, Acked, vars
  <1>2. /\ UNCHANGED <<txXfer, txPos, txRetry, txState, txTimer, dataLength, reports>>
        /\ Working' = Working /\ txLength' = txLength
        /\ UNCHANGED <<rxWords, rxLength, rxTimer, rxFatal>>
        /\ rxPos' = rxPos /\ Patience(txRetry)' = Patience(txRetry)
    BY <1>1 DEF txVars, Working, Reported, txLength, rxVars, rxPos, Patience
  <1>3. (Acked(txPos)' => Acked(txPos)) /\ (Acked(Abort)' => Acked(Abort))
    BY <1>1, <1>2, Single DEF Acked
  <1> QED
    BY <1>2, <1>3 DEF InStep

LEMMA InStepStep ==
    ASSUME TimedTypeOK, StopAndWait, WordsInv, InStepInv, PromptBus, HeaderShape,
           LongEnough, Storable, [TimedNext]_timedVars
    PROVE  InStepInv'
  <1>1. TypeOK /\ reboots \in Nat
    BY TimedAssumption DEF TimedTypeOK, TimedAssumption
  <1>2. CASE Reboot
    BY <1>1, <1>2 DEF Reboot, InStepInv
  <1>3. CASE ~Reboot
    <2>1. reboots' = reboots
      BY <1>3 DEF TimedNext, timedVars, Deliver, Miss, TxExpires, RxExpires, Tick,
                  Lose, faults
    <2>2. SUFFICES ASSUME InStep PROVE InStep'
      BY <2>1 DEF InStepInv
    <2>3. CASE startTransfer
      <3>1. txPos' = 0 /\ UNCHANGED <<ackQ, rxVars>>
        BY <2>3 DEF startTransfer, startTx
      <3>2. ackQ = <<>>
        BY <2>3 DEF PromptBus, startTransfer, AppMayStart, Working, StopAndWait,
                    WaitInv, OneMessage, UnderWay
      <3> QED
        BY <2>2, <3>1, <3>2, IdleInStep DEF rxVars, InStep
    <2> QED
      BY <1>1, <1>3, <2>2, <2>3, AckInStep, RxInStep, TimeoutInStep, TickInStep,
         RxTimeoutInStep, LossInStep
      DEF TimedNext, timedVars, Deliver, Miss, Lose
  <1> QED
    BY <1>2, <1>3

\* Without a restart the receiver is at the transmitter's position, one ahead, or
\* done, and its timer outlasts the transmitter's and all retransmissions that are
\* left (mmpNode.hpp:84-88): neither side drops what the other still works on.
THEOREM InStepAlways ==
    ASSUME PromptBus, HeaderShape, LongEnough, Storable
    PROVE  TimedSpec => [](TimedTypeOK /\ LinkInv /\ StopAndWait /\ WordsInv /\ InStepInv)
  <1>1. TimedInit => InStepInv
    <2> SUFFICES ASSUME TimedInit PROVE InStep
      BY DEF InStepInv
    <2>1. txPos = 0 /\ ackQ = <<>> /\ ~rxFatal
      BY DEF TimedInit, Init
    <2>2. ~Acked(txPos) /\ ~Acked(Abort)
      BY <2>1, Single DEF Acked
    <2> QED
      BY <2>1, <2>2 DEF InStep
  <1>2. (TimedTypeOK /\ LinkInv /\ StopAndWait /\ WordsInv) /\ InStepInv
          /\ [TimedNext]_timedVars => InStepInv'
    BY InStepStep
  <1> QED
    BY <1>1, <1>2, WordsAlways, PTL DEF TimedSpec

\* As long as it is not restarted, the receiver does not come to the assertion
\* "Does not make sense" (mmpNode.cpp:204) nor to a header that is too big,
\* whatever is lost: its timeout outlasts all retransmissions.
THEOREM NeverFatalUnlessRestarted ==
    ASSUME PromptBus, HeaderShape, LongEnough, Storable
    PROVE  TimedSpec => []NoFatalWithoutRestart
  <1>1. InStepInv => NoFatalWithoutRestart
    BY DEF InStepInv, InStep, NoFatalWithoutRestart, NoFatal
  <1> QED
    BY <1>1, InStepAlways, PTL

-----------------------------------------------------------------------------
(* With few faults the protocol keeps what MmpService promises.              *)

LEMMA LossFacts ==
    ASSUME FewFaults, NEW l \in 0 .. MaxLosses
    PROVE  /\ LossTime(l) \in Nat /\ LossTime(l) < ReceiverTimeout
           /\ l < MaxLosses => ExecTimeout + LossTime(l + 1) = LossTime(l)
  <1>1. /\ MaxLosses \in Nat /\ ExecTimeout \in Nat /\ ReceiverTimeout \in Nat
        /\ l \in Nat /\ l <= MaxLosses
    BY LinkAssumption, TimedAssumption DEF LinkAssumption, TimedAssumption
  <1>2. \A a, b, c \in Nat : (a - b) * c = a * c - b * c
    OBVIOUS
  <1>3. \A b, c \in Nat : (b + 1) * c = b * c + c
    OBVIOUS
  <1>4. \A b, c \in Nat : b * c \in Nat
    OBVIOUS
  <1>5. \A a, b, c \in Nat : b <= a => b * c <= a * c
    OBVIOUS
  <1> DEFINE E == ExecTimeout
             LE == l * E
             ME == MaxLosses * E
  <1>6. LossTime(l) = ME - LE /\ LossTime(l + 1) = ME - (LE + E)
    BY <1>1, <1>2, <1>3 DEF LossTime
  <1>7. LE \in Nat /\ ME \in Nat /\ LE <= ME /\ E \in Nat
    BY <1>1, <1>4, <1>5
  <1>8. ME < ReceiverTimeout
    BY DEF FewFaults
  <1> HIDE DEF LE, ME
  <1> QED
    BY <1>1, <1>6, <1>7, <1>8

\* With few faults the transmitter never gives up, and the receiver, never
\* restarted, keeps in step.
LEMMA FewFaultsFacts ==
    ASSUME TimedTypeOK, InStepInv, FewFaults
    PROVE  InStep /\ losses \in 0 .. MaxLosses /\ MaxLosses \in Nat /\ MaxRetry \in Nat
           /\ MaxLosses <= MaxRetry /\ txRetry \in Nat
  BY TimedAssumption, LinkAssumption
  DEF TimedTypeOK, TypeOK, InStepInv, FewFaults, TimedAssumption, LinkAssumption

\* A running timer means that the transmitter is at work.
LEMMA TimerTellsWork ==
    ASSUME TypeOK, StopAndWait, ServiceInv, txTimer # Off
    PROVE  Working
  BY DEF TypeOK, StopAndWait, WaitInv, ServiceInv

LEMMA NoGiveUp ==
    ASSUME TimedTypeOK, StopAndWait, InStepInv, ServiceInv, FewFaults, TxExpires
    PROVE  TxRetransmit /\ Working /\ ~UnderWay /\ txTimer = 0
  <1>1. ~UnderWay /\ txTimer # Off /\ txTimer = 0
    BY ExpiredAlone
    DEF TxExpires, txTimeout, TxRetransmit, TxGiveUp, StopAndWait, UnderWay, Off
  <1>2. Working
    BY <1>1, TimerTellsWork DEF TimedTypeOK
  <1>3. losses >= txRetry + 1
    BY <1>1, <1>2 DEF ServiceInv
  <1>4. ~TxGiveUp
    BY <1>3, FewFaultsFacts DEF TxGiveUp
  <1> QED
    BY <1>1, <1>2, <1>4 DEF TxExpires, txTimeout

LEMMA StartServes ==
    ASSUME TimedTypeOK, StopAndWait, InStepInv, ServiceInv, PromptBus, HeaderShape,
           FewFaults, startTransfer, UNCHANGED faults
    PROVE  ServiceInv'
  <1>1. /\ ~Working /\ dataQ = <<>> /\ ackQ = <<>>
        /\ ackQ' = <<>> /\ UNCHANGED <<rxWords, verdict, losses>>
    BY DEF PromptBus, startTransfer, AppMayStart, Working, StopAndWait, WaitInv,
           OneMessage, UnderWay, rxVars, faults
  <1>2. /\ txXfer \in Nat /\ txXfer' = txXfer + 1 /\ txXfer + 1 \in Xfers
        /\ txPos' = 0 /\ txRetry' = 0 /\ txState' = "transmitting" /\ reports' = reports
        /\ dataQ' # <<>>
    <2>1. PICK length \in Lengths : startTx(length)
      BY DEF startTransfer
    <2>2. txXfer \in Nat /\ txXfer < MaxStarts /\ MaxStarts \in Nat
      BY <2>1, LinkAssumption DEF startTx, TimedTypeOK, TypeOK, LinkAssumption
    <2>3. dataQ' = <<Shred(txXfer + 1, 0)>>
      BY <1>1, <2>1, Single DEF startTx, sendTxShred
    <2> QED
      BY <2>1, <2>2, <2>3 DEF startTransfer, startTx, Xfers
  <1>3. Working'
    BY <1>2 DEF Working, Reported, StopAndWait, WaitInv
  <1>4. ~Acked(Abort)'
    BY <1>1, Single DEF Acked
  <1>5. losses' >= txRetry' + 0 /\ UnderWay'
    BY <1>1, <1>2, FewFaultsFacts DEF UnderWay
  <1>6. Unhandled'
    <2>1. rxPos' = 0
      BY <1>1 DEF rxPos, ServiceInv
    <2>2. verdict'[txXfer'] = invalidInit
      BY <1>1, <1>2 DEF ServiceInv
    <2>3. ~isLast(0, txLength')
      BY LastBehind
    <2> QED
      BY <1>2, <2>1, <2>2, <2>3 DEF Unhandled
  <1>7. \A x \in Xfers : x > txXfer' => verdict'[x] = invalidInit
    BY <1>1, <1>2 DEF ServiceInv, Xfers
  <1> QED
    BY <1>3, <1>4, <1>5, <1>6, <1>7 DEF ServiceInv

LEMMA AckServes ==
    ASSUME TimedTypeOK, StopAndWait, WordsInv, InStepInv, ServiceInv, PromptBus,
           HeaderShape, FewFaults, handleTx, UNCHANGED faults
    PROVE  ServiceInv'
  <1>1. PICK ack \in Pending(ackQ) : OnAck
    BY DEF handleTx, TxAborted, TxOldAck, TxImplausible, TxNext, TxFinish
  <1>2. /\ \A a \in Pending(ackQ) : a = ack
        /\ ackQ = <<Ack(ack.pos, ack.code)>> /\ ack.code \in Codes
        /\ ackQ' = <<>> /\ dataQ = <<>> /\ ack.pos \in {Abort, txPos}
        /\ Working /\ UNCHANGED rxVars /\ UnderWay
    BY <1>1, AckArrives, Single DEF StopAndWait, Pending, TimedTypeOK, UnderWay
  <1>3. /\ txPos \in Nat /\ rxPos' = rxPos
        /\ UNCHANGED <<rxTimer, verdict, losses>>
    BY <1>2 DEF TimedTypeOK, TypeOK, rxPos, rxVars, faults
  <1>4. ack.pos # Abort
    BY <1>2 DEF ServiceInv, Acked
  <1>5. Acked(txPos) /\ ack.pos = txPos
    BY <1>2, <1>4 DEF Acked
  <1>6. ~Acked(Abort)'
    BY <1>2, Single DEF Acked
  <1>7. CASE TxFinish
    <2>1. /\ reports' = reports \cup {[xfer |-> txXfer, code |-> ack.code]}
          /\ txState' = "idle" /\ UNCHANGED txXfer
          /\ isLast(txPos, txLength)
      BY <1>2, <1>7 DEF TxFinish, emitHandleMmpTransferAck, PromptBus, isLast
    <2>2. \E r \in reports' : r.xfer = txXfer'
      BY <2>1, [xfer |-> txXfer, code |-> ack.code].xfer = txXfer
    <2>3. Handled
      BY <1>2, <2>1 DEF ServiceInv, Unhandled
    <2>4. ~Working' /\ Reported(txXfer)' /\ rxPos' = 0
      BY <1>3, <2>1, <2>2, <2>3 DEF Working, Reported, Handled
    <2>5. \A x \in Xfers : x > txXfer' => verdict'[x] = invalidInit
      BY <1>3, <2>1 DEF ServiceInv
    <2> QED
      BY <1>6, <2>1, <2>4, <2>5 DEF ServiceInv
  <1>8. CASE TxNext
    <2>1. /\ txPos' = txPos + 1 /\ txRetry' = 0 /\ dataQ' # <<>>
          /\ ~isLast(txPos, txLength)
          /\ UNCHANGED <<txXfer, dataLength, txState, reports>>
      BY <1>2, <1>8, Single DEF TxNext, isLast, sendTxShred
    <2>2. Working' /\ UnderWay'
      BY <1>2, <2>1 DEF Working, Reported, UnderWay
    <2>3. losses' >= txRetry' + 0
      BY <1>3, <2>1, FewFaultsFacts
    <2>4. rxPos = txPos + 1 /\ rxTimer = ReceiverTimeout
      BY <1>5, <2>1, FewFaultsFacts DEF InStep
    <2>5. verdict[txXfer] = invalidInit
      BY <1>2, <2>1 DEF ServiceInv, Unhandled, Handled
    <2>6. rxTimer' > Waiting' + LossTime(losses')
      <3>1. LossTime(losses) \in Nat /\ LossTime(losses) < ReceiverTimeout
        BY FewFaultsFacts, LossFacts
      <3>2. Waiting' = 0 /\ LossTime(losses') = LossTime(losses) /\ rxTimer' = ReceiverTimeout
        BY <1>3, <2>2, <2>4 DEF Waiting
      <3> QED
        BY <3>1, <3>2, LinkAssumption DEF LinkAssumption
    <2>7. Unhandled'
      BY <1>2, <1>3, <2>1, <2>4, <2>5, <2>6 DEF Unhandled
    <2>8. \A x \in Xfers : x > txXfer' => verdict'[x] = invalidInit
      BY <1>3, <2>1 DEF ServiceInv
    <2> QED
      BY <1>6, <2>2, <2>3, <2>7, <2>8 DEF ServiceInv
  <1> QED
    BY <1>2, <1>3, <1>4, <1>5, <1>7, <1>8
    DEF handleTx, TxAborted, TxOldAck, TxImplausible

LEMMA TimeoutServes ==
    ASSUME TimedTypeOK, StopAndWait, InStepInv, ServiceInv, FewFaults, TxExpires
    PROVE  ServiceInv'
  <1>1. /\ TxRetransmit /\ Working /\ ~UnderWay /\ txTimer = 0
        /\ dataQ = <<>> /\ ackQ = <<>>
    BY NoGiveUp DEF UnderWay
  <1>2. /\ txRetry' = txRetry + 1 /\ dataQ' # <<>>
        /\ UNCHANGED <<txXfer, dataLength, txPos, txState, reports, ackQ,
                       rxWords, rxCode, rxTimer, verdict, losses>>
    BY <1>1, Single DEF TxRetransmit, sendTxShred, rxVars, TxExpires, faults
  <1>3. /\ Working' /\ UnderWay' /\ ~Acked(Abort)' /\ rxPos' = rxPos
        /\ txLength' = txLength
    BY <1>1, <1>2, Single DEF Working, Reported, UnderWay, Acked, rxPos, txLength
  <1>4. losses' >= txRetry' + 0
    BY <1>1, <1>2, FewFaultsFacts DEF ServiceInv
  <1>5. Waiting = 0 /\ Waiting' = 0 /\ LossTime(losses)' = LossTime(losses)
    BY <1>1, <1>2, <1>3 DEF Waiting, LossTime
  <1>6. Unhandled => Unhandled'
    BY <1>1, <1>2, <1>3, <1>5 DEF Unhandled
  <1>7. Handled => Handled'
    BY <1>1, <1>2, <1>3 DEF Handled
  <1>8. \A x \in Xfers : x > txXfer' => verdict'[x] = invalidInit
    BY <1>2 DEF ServiceInv
  <1> QED
    BY <1>1, <1>3, <1>4, <1>6, <1>7, <1>8 DEF ServiceInv

LEMMA TickServes ==
    ASSUME TimedTypeOK, StopAndWait, ServiceInv, PromptBus, FewFaults, Tick
    PROVE  ServiceInv'
  <1>1. /\ dataQ = <<>> /\ ackQ = <<>> /\ txTimer # 0
        /\ txTimer' = Down(txTimer) /\ rxTimer' = Down(rxTimer)
        /\ UNCHANGED <<txXfer, txPos, txRetry, txState, dataLength, reports,
                       rxWords, rxCode, verdict, dataQ, ackQ, losses>>
    BY DEF PromptBus, Tick, faults
  <1>2. /\ Working' = Working /\ ~UnderWay /\ ~UnderWay' /\ rxPos' = rxPos
        /\ Reported(txXfer)' = Reported(txXfer) /\ txLength' = txLength
        /\ LossTime(losses)' = LossTime(losses)
    BY <1>1 DEF Working, Reported, UnderWay, rxPos, txLength, LossTime
  <1>3. ~Acked(Abort)'
    BY <1>1, Single DEF Acked
  <1>4. ASSUME Working, rxTimer > Waiting + LossTime(losses)
        PROVE  rxTimer' > Waiting' + LossTime(losses)
    <2>1. txTimer \in Nat /\ rxTimer \in Int
      <3>1. txTimer # Off
        BY <1>4 DEF StopAndWait, WaitInv
      <3> QED
        BY <3>1, LinkAssumption DEF TimedTypeOK, TypeOK, Off, LinkAssumption
    <2>2. LossTime(losses) \in Nat
      BY LossFacts DEF TimedTypeOK
    <2>3. Waiting = txTimer /\ Waiting' = txTimer'
      BY <1>2 DEF Waiting
    <2> QED
      BY <1>1, <1>4, <2>1, <2>2, <2>3 DEF Down
  <1>5. Working /\ Unhandled => Unhandled'
    BY <1>1, <1>2, <1>4 DEF Unhandled
  <1>6. Handled => Handled'
    BY <1>1, <1>2 DEF Handled
  <1>7. \A x \in Xfers : x > txXfer' => verdict'[x] = invalidInit
    BY <1>1 DEF ServiceInv
  <1>8. ServiceInv!2' /\ ServiceInv!3'
    BY <1>1, <1>2 DEF ServiceInv
  <1> QED
    BY <1>2, <1>3, <1>5, <1>6, <1>7, <1>8 DEF ServiceInv

\* A loss is a retransmission to come, and the time until then.
LEMMA LossServes ==
    ASSUME TimedTypeOK, StopAndWait, InStepInv, ServiceInv, FewFaults, Lose
    PROVE  ServiceInv'
  <1>1. /\ UnderWay /\ losses' = losses + 1 /\ losses < MaxLosses
        /\ dataQ' = <<>> /\ ackQ' = <<>>
        /\ UNCHANGED <<txVars, rxVars>>
        /\ Working /\ txTimer = TxInterval(txPos, txLength)
    <2>1. CASE LoseShred
      <3>1. Head(dataQ) \in Pending(dataQ)
        BY <2>1 DEF LoseShred, Pending
      <3> QED
        BY <2>1, <3>1, ShredArrives DEF LoseShred, StopAndWait, UnderWay, Lose
    <2>2. CASE LoseAck
      BY <2>2, Single DEF LoseAck, StopAndWait, OneMessage, Acked, UnderWay, Lose
    <2> QED
      BY <2>1, <2>2 DEF Lose
  <1>2. UNCHANGED <<txXfer, txPos, txRetry, txState, txTimer, dataLength, reports,
                    rxWords, rxCode, rxTimer, verdict>>
    BY <1>1 DEF txVars, rxVars
  <1>3. /\ Working' /\ ~UnderWay' /\ ~Acked(Abort)' /\ rxPos' = rxPos
        /\ txLength' = txLength
    BY <1>1, <1>2, Single DEF Working, Reported, UnderWay, Acked, rxPos, txLength
  <1>4. losses' >= txRetry' + 1
    <2>1. losses >= txRetry + 0
      BY <1>1 DEF ServiceInv
    <2> QED
      BY <1>1, <1>2, <2>1, FewFaultsFacts
  <1>5. Waiting = 0 /\ Waiting' = TxInterval(txPos, txLength)
        /\ LossTime(losses)' = LossTime(losses + 1)
        /\ ExecTimeout + LossTime(losses + 1) = LossTime(losses)
    BY <1>1, <1>2, <1>3, FewFaultsFacts, LossFacts DEF Waiting, LossTime
  <1>6. ASSUME Unhandled PROVE Unhandled'
    <2>1. ASSUME isLast(txPos, txLength)
          PROVE  rxPos = txPos /\ rxTimer > Waiting' + LossTime(losses')
      <3>1. rxPos = txPos /\ rxTimer > 0 + LossTime(losses)
        BY <1>5, <1>6, <2>1 DEF Unhandled
      <3>2. Waiting' = ExecTimeout /\ LossTime(losses') = LossTime(losses + 1)
        BY <1>1, <1>5, <2>1 DEF TxInterval
      <3>3. ExecTimeout \in Nat /\ LossTime(losses + 1) \in Nat
        <4>1. losses + 1 \in 0 .. MaxLosses
          BY <1>1, FewFaultsFacts
        <4> QED
          BY <4>1, LossFacts, LinkAssumption DEF LinkAssumption
      <3> QED
        BY <1>5, <3>1, <3>2, <3>3
    <2> QED
      BY <1>1, <1>2, <1>3, <1>6, <2>1 DEF Unhandled
  <1>7. Handled => Handled'
    BY <1>1, <1>2, <1>3 DEF Handled
  <1>8. \A x \in Xfers : x > txXfer' => verdict'[x] = invalidInit
    BY <1>2 DEF ServiceInv
  <1> QED
    BY <1>1, <1>3, <1>4, <1>6, <1>7, <1>8 DEF ServiceInv

\* The receiver's timer runs out between the transfers, or at the first word.
LEMMA RxTimeoutServes ==
    ASSUME TimedTypeOK, StopAndWait, InStepInv, ServiceInv, HeaderShape,
           LongEnough, FewFaults, RxExpires
    PROVE  ServiceInv'
  <1>1. /\ rxTimer = 0 /\ rxWords' = <<>> /\ rxPos' = 0
        /\ UNCHANGED <<txVars, rxCode, verdict, dataQ, ackQ, losses>>
    BY DEF RxExpires, rxTimeout, rxPos, faults
  <1>2. /\ UNCHANGED <<txXfer, txPos, txRetry, txState, txTimer, dataLength, reports>>
        /\ Working' = Working /\ txLength' = txLength /\ UnderWay' = UnderWay
        /\ Reported(txXfer)' = Reported(txXfer) /\ Acked(Abort)' = Acked(Abort)
    BY <1>1 DEF txVars, Working, Reported, txLength, UnderWay, Acked
  <1>3. ASSUME Working, Unhandled PROVE Unhandled'
    <2>1. txRetry \in 0 .. MaxRetry /\ txTimer \in Nat /\ txPos \in Nat
      <3>1. txRetry \in 0 .. MaxRetry /\ txTimer # Off
        BY <1>3, LinkAssumption
        DEF Working, StopAndWait, WaitInv, TimedTypeOK, TypeOK, LinkAssumption
      <3> QED
        BY <3>1, LinkAssumption DEF TimedTypeOK, TypeOK, Off, LinkAssumption
    <2>2. Patience(txRetry) \in Nat /\ LossTime(losses) \in Nat
      BY <2>1, PatienceFacts, LossFacts DEF TimedTypeOK
    <2>3. Waiting \in Nat
      BY <2>1 DEF Waiting
    <2>4. ~(rxTimer > txTimer + Patience(txRetry)) /\ ~(rxTimer > Waiting + LossTime(losses))
      BY <1>1, <2>1, <2>2, <2>3
    <2>5. ~isLast(txPos, txLength)
      BY <1>3, <2>4 DEF Unhandled
    <2>6. txPos = 0
      BY <1>3, <2>1, <2>4, <2>5, FewFaultsFacts DEF InStep
    <2> QED
      BY <1>1, <1>2, <1>3, <2>5, <2>6 DEF Unhandled
  <1>4. Handled => Handled'
    BY <1>1, <1>2 DEF Handled
  <1>5. \A x \in Xfers : x > txXfer' => verdict'[x] = invalidInit
    BY <1>1, <1>2 DEF ServiceInv
  <1>6. ServiceInv!2'
    BY <1>1, <1>2 DEF ServiceInv
  <1> QED
    BY <1>1, <1>2, <1>3, <1>4, <1>5, <1>6 DEF ServiceInv

LEMMA RxServes ==
    ASSUME TimedTypeOK, StopAndWait, WordsInv, InStepInv, ServiceInv, HeaderShape,
           LongEnough, Storable, FewFaults, UseLepto, handleRx, UNCHANGED faults
    PROVE  ServiceInv'
  <1>1. PICK m \in Pending(dataQ) : OnShred
    BY DEF handleRx, RxAborted, RxRetransmission, RxLate, RxNonsense,
           RxOutOfOrder, RxStore, RxFinish
  <1>2. /\ \A n \in Pending(dataQ) : n = m
        /\ m.pos = txPos /\ m.xfer = txXfer /\ ackQ = <<>> /\ dataQ # <<>>
        /\ dataQ' = <<>> /\ UNCHANGED <<txVars, losses>> /\ Working /\ UnderWay
        /\ txXfer \in Xfers
    <2>1. \A n \in Pending(dataQ) : n = m
      BY DEF Pending
    <2>2. UNCHANGED losses
      BY DEF faults
    <2>3. dataQ # <<>>
      BY DEF Pending
    <2>4. txXfer \in Xfers /\ UnderWay
      BY <2>3, AtWork DEF UnderWay, TimedTypeOK
    <2>5. /\ m.pos = txPos /\ m.xfer = txXfer /\ ackQ = <<>>
          /\ Tail(dataQ) = <<>> /\ Working
      BY ShredArrives DEF StopAndWait
    <2> QED
      BY <1>1, <2>1, <2>2, <2>3, <2>4, <2>5 DEF OnShred
  <1>3. /\ rxPos \in Nat /\ txPos \in Nat /\ LengthWord \in Nat
        /\ \A length : isLast(txPos, length) => txPos > LengthWord /\ txPos > 0
    BY LastBehind DEF TimedTypeOK, TypeOK, rxPos, HeaderShape
  <1>4. /\ UNCHANGED <<txXfer, txPos, txRetry, txState, txTimer, dataLength, reports>>
        /\ Working' /\ txLength' = txLength
    BY <1>2 DEF txVars, Working, Reported, txLength
  <1>5. InStep /\ (txPos > LengthWord => rxLength = txLength)
    BY <1>2, <1>3, FewFaultsFacts DEF InStep
  <1>6. Unhandled \/ Handled
    BY <1>2 DEF ServiceInv
  <1>7. losses' >= txRetry' + (IF UnderWay' THEN 0 ELSE 1)
        \/ ackQ' = <<>>
    <2>1. ackQ' # <<>> => UnderWay'
      BY DEF UnderWay
    <2>2. losses >= txRetry + 0
      BY <1>2 DEF ServiceInv
    <2> QED
      BY <1>2, <1>4, <2>1, <2>2
  <1>8. \A pos, code : sendAck(pos) => ackQ' = <<Ack(pos, invalid)>>
    BY <1>2, Single DEF sendAck
  <1>9. \A pos, code : sendTransferAck(pos, code) => ackQ' = <<Ack(pos, code)>>
    BY <1>2, Single DEF sendTransferAck
  <1>10. ASSUME NEW code, ackQ' = <<Ack(txPos, code)>>,
                Unhandled' \/ Handled',
                \A x \in Xfers : x > txXfer => verdict'[x] = invalidInit
         PROVE  ServiceInv'
    <2>1. \A c : <<Ack(txPos, code)>> # <<Ack(Abort, c)>>
      BY <1>3, Single, Fields DEF Abort
    <2>2. ~Acked(Abort)'
      BY <1>10, <2>1 DEF Acked
    <2>3. ackQ' # <<>>
      BY <1>10, Single
    <2> QED
      BY <1>4, <1>7, <1>10, <2>2, <2>3 DEF ServiceInv
  <1>11. ~RxAborted
    BY <1>2, <1>3 DEF RxAborted, Abort
  <1>12. ~RxNonsense
    BY <1>2, <1>3, <1>5, <1>6 DEF RxNonsense, Unhandled, Handled
  <1>13. ~RxOutOfOrder
    BY <1>2, <1>3, <1>6 DEF RxOutOfOrder, Unhandled, Handled
  <1>14. CASE RxRetransmission
    <2>1. /\ rxPos = txPos + 1 /\ UNCHANGED <<rxWords, verdict>>
          /\ IF isLast(txPos, rxLength) THEN sendTransferAck(txPos, rxCode)
                                        ELSE sendAck(txPos)
      BY <1>2, <1>3, <1>14 DEF RxRetransmission
    <2>2. \E code : ackQ' = <<Ack(txPos, code)>>
      BY <1>8, <1>9, <2>1
    <2>3. Unhandled /\ ~isLast(txPos, txLength)
      BY <1>3, <1>6, <2>1 DEF Unhandled, Handled
    <2>4. Unhandled'
      BY <1>4, <2>1, <2>3 DEF Unhandled, rxPos
    <2> QED
      BY <1>10, <2>1, <2>2, <2>4 DEF ServiceInv
  <1>15. CASE RxLate
    <2>1. /\ rxPos = 0 /\ txPos > 0 /\ sendTransferAck(txPos, rxCode)
          /\ UNCHANGED <<rxWords, rxCode, verdict>>
      BY <1>2, <1>15 DEF RxLate
    <2>2. Handled /\ ackQ' = <<Ack(txPos, rxCode)>>
      BY <1>3, <1>6, <1>9, <2>1 DEF Unhandled
    <2>3. Handled'
      BY <1>4, <2>1, <2>2 DEF Handled, rxPos
    <2> QED
      BY <1>10, <2>1, <2>2, <2>3 DEF ServiceInv
  <1>16. CASE RxStore
    <2>1. /\ txPos = rxPos /\ rxWords' = Append(rxWords, m.xfer)
          /\ sendAck(txPos) /\ ~isLast(txPos, LengthAfter(m))
          /\ UNCHANGED verdict
      BY <1>2, <1>16 DEF RxStore
    <2>2. ~isLast(txPos, txLength)
      BY <1>2, <1>3, <1>5, <2>1 DEF LengthAfter
    <2>3. Unhandled
      BY <1>6, <2>2 DEF Handled
    <2>4. rxPos' = txPos + 1
      <3>1. rxWords \in Seq(Xfers)
        BY DEF TimedTypeOK, TypeOK
      <3> QED
        BY <1>2, <2>1, <3>1, AppendFacts DEF rxPos
    <2>5. Unhandled'
      BY <1>4, <2>1, <2>2, <2>3, <2>4 DEF Unhandled
    <2> QED
      BY <1>8, <1>10, <2>1, <2>5 DEF ServiceInv
  <1>17. CASE RxFinish
    <2>1. /\ isLast(txPos, txLength) /\ rxWords' = <<>>
          /\ \E code \in HandlerCodes :
               /\ verdict' = [verdict EXCEPT ![txXfer] = code]
               /\ rxCode' = code
               /\ ackQ' = Append(ackQ, Ack(txPos, code))
      BY <1>17, FinishIntact DEF TimedTypeOK
    <2>2. PICK code \in HandlerCodes :
               /\ verdict' = [verdict EXCEPT ![txXfer] = code]
               /\ rxCode' = code
               /\ ackQ' = <<Ack(txPos, code)>>
      BY <1>2, <2>1, Single
    <2>3. verdict'[txXfer] = code /\ rxPos' = 0
      BY <1>2, <2>1, <2>2 DEF TimedTypeOK, TypeOK, rxPos
    <2>4. Handled'
      BY <1>4, <2>1, <2>2, <2>3 DEF Handled
    <2>5. \A x \in Xfers : x > txXfer => verdict'[x] = invalidInit
      BY <1>2, <2>2 DEF TimedTypeOK, TypeOK, ServiceInv, Xfers
    <2> QED
      BY <1>10, <2>2, <2>4, <2>5
  <1> QED
    BY <1>11, <1>12, <1>13, <1>14, <1>15, <1>16, <1>17 DEF handleRx

LEMMA ServiceStep ==
    ASSUME TimedTypeOK, StopAndWait, WordsInv, InStepInv, ServiceInv, PromptBus,
           HeaderShape, LongEnough, Storable, FewFaults, UseLepto,
           [TimedNext]_timedVars
    PROVE  ServiceInv'
  <1>1. CASE UNCHANGED timedVars
    <2>1. UNCHANGED <<txXfer, txPos, txRetry, txState, txTimer, dataLength, reports,
                      rxWords, rxCode, rxTimer, verdict, dataQ, ackQ, losses>>
      BY <1>1 DEF timedVars, vars, txVars, rxVars, faults
    <2> QED
      BY <2>1 DEF ServiceInv, Working, Reported, UnderWay, Acked, Unhandled, Handled,
                  rxPos, txLength, Waiting, LossTime
  <1>2. ~Reboot
    BY TimedAssumption DEF Reboot, FewFaults, TimedTypeOK, TimedAssumption
  <1>3. ~Miss
    BY FewFaultsFacts DEF Miss, InStep
  <1> QED
    BY <1>1, <1>2, <1>3, StartServes, AckServes, RxServes, TimeoutServes,
       RxTimeoutServes, TickServes, LossServes
    DEF TimedNext, Deliver

\* With few losses the receiver has still to handle the transfer, and its timer
\* outlasts what the losses to come may cost, or it has handled it and answers each
\* copy of the last shred with that result (mmpNode.cpp:163-210, 364-389).
THEOREM ServiceAlways ==
    ASSUME PromptBus, HeaderShape, LongEnough, Storable, FewFaults, UseLepto
    PROVE  TimedSpec => [](/\ TimedTypeOK /\ LinkInv /\ StopAndWait /\ WordsInv
                           /\ InStepInv /\ ServiceInv)
  <1>1. TimedInit => ServiceInv
    <2> SUFFICES ASSUME TimedInit PROVE ServiceInv
      OBVIOUS
    <2>1. txState = "idle" /\ txXfer = NoXfer /\ ackQ = <<>> /\ rxPos = 0
          /\ verdict = [x \in Xfers |-> invalidInit]
      BY DEF TimedInit, Init, rxPos
    <2>2. ~Acked(Abort)
      BY <2>1, Single DEF Acked
    <2> QED
      BY <2>1, <2>2 DEF ServiceInv, Working
  <1>2. (TimedTypeOK /\ LinkInv /\ StopAndWait /\ WordsInv /\ InStepInv) /\ ServiceInv
          /\ [TimedNext]_timedVars => ServiceInv'
    BY ServiceStep
  <1> QED
    BY <1>1, <1>2, InStepAlways, PTL DEF TimedSpec

\* The steps that the application and the handler see are those of MmpService.
LEMMA StepServes ==
    ASSUME TimedTypeOK, StopAndWait, WordsInv, InStepInv, ServiceInv, PromptBus,
           HeaderShape, LongEnough, Storable, FewFaults, UseLepto,
           [TimedNext]_timedVars
    PROVE  [Service!Next]_(Service!serviceVars)
  <1>1. CASE startTransfer
    <2>1. txXfer < MaxStarts /\ txXfer' = txXfer + 1
      BY <1>1 DEF startTransfer, startTx
    <2>2. txXfer = 0 \/ Service!Told(txXfer)
      BY <1>1 DEF startTransfer, AppMayStart, PromptBus, ServiceInv, Working, NoXfer,
                  Service!Told, Reported
    <2>3. UNCHANGED <<verdict, reports>>
      BY <1>1 DEF startTransfer, rxVars
    <2>4. Service!Start
      BY <2>1, <2>2, <2>3 DEF Service!Start
    <2> QED
      BY <2>4 DEF Service!Next
  <1>2. CASE RxFinish
    <2>1. /\ txXfer \in Xfers /\ rxPos = txPos /\ txPos > 0
          /\ \E code \in HandlerCodes : verdict' = [verdict EXCEPT ![txXfer] = code]
      BY <1>2, FinishIntact DEF TimedTypeOK
    <2>2. UNCHANGED <<txXfer, reports>> /\ UnderWay
      BY <1>2 DEF RxFinish, OnShred, txVars, Pending, UnderWay
    <2>3. verdict[txXfer] = invalidInit
      BY <2>1, <2>2 DEF ServiceInv, Handled, Unhandled, StopAndWait, OneMessage
    <2>4. txXfer > 0
      BY <2>1, LinkAssumption DEF Xfers, LinkAssumption
    <2>5. Service!Handle
      BY <2>1, <2>2, <2>3, <2>4 DEF Service!Handle
    <2> QED
      BY <2>5 DEF Service!Next
  <1>3. CASE TxFinish
    <2>1. PICK ack \in Pending(ackQ) :
            /\ OnAck /\ Accepted(ack) /\ isLast(txPos, txLength)
            /\ reports' = reports \cup {[xfer |-> txXfer, code |-> ack.code]}
            /\ UNCHANGED txXfer
      BY <1>3 DEF TxFinish, emitHandleMmpTransferAck, PromptBus, isLast
    <2>2. /\ ackQ = <<Ack(ack.pos, ack.code)>> /\ Working /\ UnderWay
          /\ UNCHANGED verdict
      BY <2>1, AckArrives, Single DEF StopAndWait, TimedTypeOK, UnderWay, rxVars
    <2>3. Handled /\ ackQ # <<>>
      BY <2>1, <2>2, Single DEF ServiceInv, Unhandled
    <2>4. ack.code = rxCode
      <3>1. <<Ack(ack.pos, ack.code)>> = <<Ack(txPos, rxCode)>>
        BY <2>2, <2>3 DEF Handled
      <3> QED
        BY <3>1, Single, Fields
    <2>5. verdict[txXfer] = ack.code /\ verdict[txXfer] # invalidInit
      BY <2>3, <2>4 DEF Handled, FewFaults
    <2>6. txXfer > 0
      BY <2>2, AtWork, LinkAssumption DEF Xfers, LinkAssumption, TimedTypeOK
    <2>7. ~Service!Told(txXfer)
      BY <2>2 DEF Service!Told, Working, Reported
    <2>8. Service!Tell
      BY <2>1, <2>2, <2>5, <2>6, <2>7 DEF Service!Tell
    <2> QED
      BY <2>8 DEF Service!Next
  <1>4. CASE ~(startTransfer \/ RxFinish \/ TxFinish)
    <2>1. UNCHANGED verdict
      BY <1>4, OnlyFinishRuns
    <2>2. UNCHANGED <<txXfer, reports>>
      <3>1. CASE TxExpires
        BY <3>1, NoGiveUp DEF TxRetransmit
      <3>2. CASE handleTx
        BY <1>4, <3>2 DEF handleTx, TxAborted, TxOldAck, TxImplausible, TxNext
      <3>3. CASE handleRx
        BY <3>3, RxAnswers DEF StopAndWait, TimedTypeOK, txVars
      <3>4. CASE rxTimeout \/ RxReboot \/ LoseShred \/ LoseAck \/ Tick
                  \/ UNCHANGED timedVars
        BY <3>4 DEF rxTimeout, RxReboot, LoseShred, LoseAck, Tick, timedVars, vars,
                    txVars
      <3> QED
        BY <1>4, <3>1, <3>2, <3>3, <3>4
        DEF TimedNext, Deliver, Miss, RxExpires, Lose, Reboot
    <2> QED
      BY <2>1, <2>2 DEF Service!serviceVars
  <1> QED
    BY <1>1, <1>2, <1>3, <1>4

\* The protocol does nothing that MmpService does not allow, as long as no more
\* than a few messages are lost: a transfer is handled once, and what is reported
\* is the result of that, before the next one starts.
THEOREM ServiceKept ==
    ASSUME PromptBus, HeaderShape, LongEnough, Storable, FewFaults, UseLepto
    PROVE  TimedSpec => KeepsService
  <1>1. TimedInit => Service!Init
    BY DEF TimedInit, Init, Service!Init, NoXfer, Xfers
  <1>2. (/\ TimedTypeOK /\ LinkInv /\ StopAndWait /\ WordsInv /\ InStepInv
         /\ ServiceInv) /\ [TimedNext]_timedVars
          => [Service!Next]_(Service!serviceVars)
    BY StepServes
  <1> QED
    BY <1>1, <1>2, ServiceAlways, PTL DEF TimedSpec, KeepsService
=============================================================================
