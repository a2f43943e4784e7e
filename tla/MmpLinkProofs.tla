--------------------------- MODULE MmpLinkProofs ---------------------------
(***************************************************************************)
(* What holds of MmpLink for every header size, every set of lengths and   *)
(* codes, every number of transfers and every queue capacity.              *)
(***************************************************************************)
EXTENDS MmpLink, TLAPS

-----------------------------------------------------------------------------
(* Queues *)

LEMMA AppendFacts ==
    ASSUME NEW S, NEW s \in Seq(S), NEW e \in S
    PROVE  /\ Append(s, e) \in Seq(S)
           /\ Len(Append(s, e)) = Len(s) + 1
           /\ \A i \in 1 .. Len(s) : Append(s, e)[i] = s[i]
           /\ Append(s, e)[Len(s) + 1] = e
  OBVIOUS

LEMMA TailFacts ==
    ASSUME NEW S, NEW s \in Seq(S), s # <<>>
    PROVE  /\ Head(s) \in S /\ Head(s) = s[1] /\ 1 \in 1 .. Len(s)
           /\ Tail(s) \in Seq(S)
           /\ \A i \in 1 .. Len(Tail(s)) :
                 i + 1 \in 1 .. Len(s) /\ Tail(s)[i] = s[i + 1]
  OBVIOUS

-----------------------------------------------------------------------------
(* Type correctness *)

Assumptions == TransferAssumption /\ LinkAssumption

LEMMA PendingHead ==
    ASSUME NEW S, NEW q \in Seq(S), NEW m \in Pending(q)
    PROVE  q # <<>> /\ m = Head(q) /\ m \in S
  BY DEF Pending

\* The interval a timer is started with is a legal timer value.
LEMMA IntervalType ==
    ASSUME NEW pos, NEW length
    PROVE  /\ TxInterval(pos, length) \in 0 .. ShredTimeout \cup 0 .. ExecTimeout
           /\ TxInterval(pos, length) # Off
  BY LinkAssumption DEF TxInterval, LinkAssumption, Off

\* A shred that is sent is one of the transmitter's type.
LEMMA SendType ==
    ASSUME NEW x \in 0 .. MaxStarts, NEW pos \in Nat, NEW length,
           dataQ \in Seq(Shreds), sendTxShred(x, pos, length)
    PROVE  /\ dataQ' \in Seq(Shreds)
           /\ txTimer' \in {Off} \cup 0 .. ShredTimeout \cup 0 .. ExecTimeout
           /\ txTimer' # Off
  <1>1. Shred(x, pos) \in Shreds
    BY DEF Shred, Shreds, Positions
  <1>2. dataQ' \in Seq(Shreds)
    BY <1>1, AppendFacts DEF sendTxShred
  <1> QED
    BY <1>2, IntervalType DEF sendTxShred

LEMMA AckType ==
    ASSUME NEW pos \in Positions, NEW code \in Codes, ackQ \in Seq(Acks)
    PROVE  Append(ackQ, Ack(pos, code)) \in Seq(Acks)
  BY AppendFacts, Ack(pos, code) \in Acks DEF Ack, Acks

LEMMA CodesType ==
    /\ HandlerCodes \subseteq Codes
    /\ {invalid, counterPartDead, wrongCRC, invalidInit} \subseteq Codes
  BY DEF Codes

\* startTx() keeps the types of everything it assigns.
LEMMA StartType ==
    ASSUME TypeOK, NEW length \in Lengths, startTx(length)
    PROVE  /\ txXfer' \in 0 .. MaxStarts
           /\ txXfer' = txXfer + 1
           /\ txPos' = 0 /\ txRetry' = 0
           /\ txTimer' \in {Off} \cup 0 .. ShredTimeout \cup 0 .. ExecTimeout
           /\ txTimer' # Off
           /\ dataQ' \in Seq(Shreds)
           /\ dataLength' \in [0 .. MaxStarts -> Lengths \cup {0}]
  <1>1. txXfer + 1 \in 0 .. MaxStarts /\ MaxStarts \in Nat
    BY LinkAssumption DEF TypeOK, startTx, LinkAssumption
  <1>2. dataQ' \in Seq(Shreds) /\ txTimer' # Off
        /\ txTimer' \in {Off} \cup 0 .. ShredTimeout \cup 0 .. ExecTimeout
    BY <1>1, SendType DEF TypeOK, startTx
  <1> QED
    BY <1>1, <1>2 DEF TypeOK, startTx

\* The callback's report has the type of reports.
LEMMA ReportType ==
    ASSUME TypeOK, NEW code \in Codes, emitHandleMmpTransferAck(code)
    PROVE  reports' \subseteq [xfer : 0 .. MaxStarts, code : Codes]
  BY DEF TypeOK, emitHandleMmpTransferAck

\* Every variable keeps its type.
LEMMA TypeInit == Init => TypeOK
  <1> SUFFICES ASSUME Init PROVE TypeOK
    OBVIOUS
  <1> USE LinkAssumption DEF LinkAssumption
  <1>1. invalidInit \in Codes
    BY CodesType
  <1>2. 0 \in 0 .. MaxStarts
    OBVIOUS
  <1>3. <<>> \in Seq(Xfers) /\ <<>> \in Seq(Shreds) /\ <<>> \in Seq(Acks)
    OBVIOUS
  <1>4. runs \in [Xfers -> Nat] /\ verdict \in [Xfers -> Codes]
        /\ dataLength \in [0 .. MaxStarts -> Lengths \cup {0}]
    BY <1>1 DEF Init
  <1>5. /\ txXfer \in 0 .. MaxStarts
    /\ txPos \in Nat
    /\ txRetry \in 0 .. MaxRetry + 1
    BY <1>2 DEF Init, NoXfer
  <1>6. /\ txState \in {"idle", "transmitting"}
    /\ txTimer \in {Off} \cup 0 .. ShredTimeout \cup 0 .. ExecTimeout
    BY DEF Init
  <1>7. /\ rxLength \in StaleLengths \cup Lengths \cup {0}
    /\ rxCode \in Codes
    /\ rxTimer \in {Off} \cup 0 .. ReceiverTimeout
    /\ rxFatal \in BOOLEAN
    BY <1>1 DEF Init
  <1>8. /\ reports \subseteq [xfer : 0 .. MaxStarts, code : Codes]
    BY DEF Init
  <1>9. /\ rxWords \in Seq(Xfers) 
    /\ dataQ \in Seq(Shreds)
    /\ ackQ \in Seq(Acks)
    BY <1>3 DEF Init
  <1> QED
    BY <1>4, <1>5, <1>6, <1>7, <1>8, <1>9 DEF TypeOK

LEMMA TypeTx == TypeOK /\ (startTransfer \/ handleTx \/ txTimeout) => TypeOK'
  <1> SUFFICES ASSUME TypeOK, startTransfer \/ handleTx \/ txTimeout
               PROVE  TypeOK'
    OBVIOUS
  <1>0. MaxRetry \in Nat /\ MaxStarts \in Nat
    BY LinkAssumption DEF LinkAssumption
  <1> USE <1>0
  <1>1. CASE startTransfer
    <2>1. PICK length \in Lengths : startTx(length)
      BY <1>1 DEF startTransfer
    <2> QED
      BY <1>1, <2>1, StartType DEF startTransfer, TypeOK, rxVars
  <1>2. CASE handleTx
    <2>0. PICK ack \in Pending(ackQ) : OnAck
          /\ (TxAborted \/ TxOldAck \/ TxImplausible \/ TxNext \/ TxFinish)
      BY <1>2 DEF handleTx, TxAborted, TxOldAck, TxImplausible, TxNext, TxFinish
    <2>1. ackQ' \in Seq(Acks) /\ UNCHANGED rxVars
      BY <2>0, PendingHead, TailFacts DEF TypeOK, OnAck
    <2> USE <2>1
    <2>2. CASE TxAborted
      BY <2>2 DEF TxAborted, TypeOK, rxVars
    <2>3. CASE TxOldAck
      BY <2>3 DEF TxOldAck, TypeOK, rxVars
    <2>4. CASE TxImplausible
      <3>1. Shred(NoXfer, Abort) \in Shreds
        BY DEF Shred, Shreds, Positions, NoXfer
      <3>2. dataQ' \in Seq(Shreds)
        BY <2>4, <3>1, AppendFacts DEF TxImplausible, TypeOK
      <3> QED
        BY <2>4, <3>2 DEF TxImplausible, TypeOK, rxVars
    <2>5. CASE TxNext
      <3>1. txPos + 1 \in Nat
        BY DEF TypeOK
      <3>2. sendTxShred(txXfer, txPos + 1, txLength)
        BY <2>5 DEF TxNext
      <3>3. dataQ' \in Seq(Shreds)
            /\ txTimer' \in {Off} \cup 0 .. ShredTimeout \cup 0 .. ExecTimeout
        BY <3>1, <3>2, SendType DEF TypeOK
      <3> QED
        BY <2>5, <3>1, <3>3 DEF TxNext, TypeOK, rxVars
    <2>6. CASE TxFinish
      <3>1. PICK a \in Pending(ackQ) :
              /\ emitHandleMmpTransferAck(a.code) /\ txState' = "idle"
              /\ \/ /\ txPos' = txPos + 1 /\ txRetry' = 0 /\ txTimer' = Off
                    /\ UNCHANGED <<txXfer, dataLength, dataQ>>
                 \/ \E length \in Lengths : startTx(length)
        BY <2>6 DEF TxFinish
      <3>2. reports' \subseteq [xfer : 0 .. MaxStarts, code : Codes]
        <4>1. a \in Acks
          BY <3>1, PendingHead DEF TypeOK
        <4>2. a.code \in Codes
          BY <4>1 DEF Acks
        <4> QED
          BY <3>1, <4>2, ReportType
      <3>3. CASE \E length \in Lengths : startTx(length)
        <4>1. PICK length \in Lengths : startTx(length)
          BY <3>3
        <4>2. /\ txXfer' \in 0 .. MaxStarts /\ txPos' \in Nat
              /\ txRetry' \in 0 .. MaxRetry + 1
              /\ txTimer' \in {Off} \cup 0 .. ShredTimeout \cup 0 .. ExecTimeout
              /\ dataQ' \in Seq(Shreds)
              /\ dataLength' \in [0 .. MaxStarts -> Lengths \cup {0}]
          BY <4>1, StartType
        <4> QED
          BY <3>1, <3>2, <4>2 DEF TypeOK, rxVars
      <3>4. CASE /\ txPos' = txPos + 1 /\ txRetry' = 0 /\ txTimer' = Off
                 /\ UNCHANGED <<txXfer, dataLength, dataQ>>
        <4>1. txPos' \in Nat /\ txRetry' \in 0 .. MaxRetry + 1
          BY <3>4 DEF TypeOK
        <4> QED
          BY <3>1, <3>2, <3>4, <4>1 DEF TypeOK, rxVars
      <3> QED
        BY <3>1, <3>3, <3>4
    <2> QED
      BY <2>0, <2>2, <2>3, <2>4, <2>5, <2>6
  <1>3. CASE TxRetransmit
    <2>1. dataQ' \in Seq(Shreds)
          /\ txTimer' \in {Off} \cup 0 .. ShredTimeout \cup 0 .. ExecTimeout
      BY <1>3, SendType DEF TxRetransmit, TypeOK
    <2>2. txRetry' \in 0 .. MaxRetry + 1
      BY <1>3 DEF TxRetransmit, TypeOK
    <2> QED
      BY <1>3, <2>1, <2>2 DEF TxRetransmit, TypeOK, rxVars
  <1>4. CASE TxGiveUp
    <2>1. reports' \subseteq [xfer : 0 .. MaxStarts, code : Codes]
      BY <1>4, CodesType, ReportType DEF TxGiveUp
    <2>2. CASE \E length \in Lengths : startTx(length) /\ txState' = "transmitting"
      <3>1. PICK length \in Lengths : startTx(length)
        BY <2>2
      <3>2. /\ txXfer' \in 0 .. MaxStarts /\ txPos' \in Nat
            /\ txRetry' \in 0 .. MaxRetry + 1
            /\ txTimer' \in {Off} \cup 0 .. ShredTimeout \cup 0 .. ExecTimeout
            /\ dataQ' \in Seq(Shreds)
            /\ dataLength' \in [0 .. MaxStarts -> Lengths \cup {0}]
        BY <3>1, StartType
      <3>3. UNCHANGED <<rxVars, ackQ>> /\ txState' = "transmitting"
        BY <1>4, <2>2 DEF TxGiveUp
      <3> QED
        BY <2>1, <3>2, <3>3 DEF TypeOK, rxVars
    <2>3. CASE /\ txRetry' = MaxRetry + 1
               /\ txTimer' = IF SingleShot THEN Off
                             ELSE TxInterval(txPos, txLength)
               /\ UNCHANGED <<txXfer, dataLength, txPos, txState, dataQ>>
      <3>1. txTimer' \in {Off} \cup 0 .. ShredTimeout \cup 0 .. ExecTimeout
        BY <2>3, IntervalType
      <3> QED
        BY <1>4, <2>1, <2>3, <3>1 DEF TxGiveUp, TypeOK, rxVars
    <2> QED
      BY <1>4, <2>2, <2>3 DEF TxGiveUp
  <1> QED
    BY <1>1, <1>2, <1>3, <1>4 DEF txTimeout

\* The next message on the data queue, and the queue without it.
LEMMA ShredTaken ==
    ASSUME TypeOK, NEW m \in Pending(dataQ), OnShred
    PROVE  /\ dataQ # <<>> /\ m = dataQ[1] /\ m \in Shreds
           /\ 1 \in 1 .. Len(dataQ)
           /\ dataQ' \in Seq(Shreds)
           /\ \A i \in 1 .. Len(dataQ') :
                 i + 1 \in 1 .. Len(dataQ) /\ dataQ'[i] = dataQ[i + 1]
           /\ UNCHANGED txVars
  <1>1. dataQ \in Seq(Shreds) /\ dataQ # <<>> /\ m = Head(dataQ)
    BY DEF TypeOK, Pending
  <1>2. dataQ' = Tail(dataQ) /\ UNCHANGED txVars
    BY DEF OnShred
  <1> QED
    BY <1>1, <1>2, TailFacts

\* What a step of handleRx leaves in the queues has their types.
LEMMA AckSent ==
    ASSUME TypeOK, NEW pos \in Positions, NEW code \in Codes,
           sendAck(pos) \/ sendTransferAck(pos, code)
    PROVE  ackQ' \in Seq(Acks) /\ rxTimer' \in {Off} \cup 0 .. ReceiverTimeout
  <1>1. Append(ackQ, Ack(pos, code)) \in Seq(Acks)
        /\ Append(ackQ, Ack(pos, invalid)) \in Seq(Acks)
    BY AckType, CodesType DEF TypeOK
  <1>2. ReceiverTimeout \in 0 .. ReceiverTimeout
    BY LinkAssumption DEF LinkAssumption
  <1> QED
    BY <1>1, <1>2 DEF sendAck, sendTransferAck

LEMMA TypeRx == TypeOK /\ OnlyStarted /\ handleRx => TypeOK'
  <1> SUFFICES ASSUME TypeOK, OnlyStarted, handleRx PROVE TypeOK'
    OBVIOUS
  <1>0. PICK m \in Pending(dataQ) : OnShred
    BY DEF handleRx, RxAborted, RxRetransmission, RxLate, RxNonsense,
           RxOutOfOrder, RxStore, RxFinish
  <1>1. /\ m \in Shreds /\ dataQ' \in Seq(Shreds) /\ UNCHANGED txVars
        /\ \A n \in Pending(dataQ) : n = m
        /\ Real(m) => m.xfer \in Xfers
    <2>1. /\ m \in Shreds /\ dataQ' \in Seq(Shreds) /\ UNCHANGED txVars
          /\ m = dataQ[1] /\ 1 \in 1 .. Len(dataQ)
      BY <1>0, ShredTaken
    <2>2. Real(m) => m.xfer \in 1 .. txXfer
      BY <2>1 DEF OnlyStarted
    <2> QED
      BY <2>1, <2>2, LinkAssumption DEF TypeOK, Xfers, Pending, LinkAssumption
  <1>2. /\ m.pos \in Positions /\ Abort \in Positions /\ rxPos \in Nat
        /\ <<>> \in Seq(Xfers)
    BY <1>1 DEF Shreds, Positions, TypeOK, rxPos
  <1>3. rxCode \in Codes /\ wrongCRC \in Codes /\ HandlerCodes \subseteq Codes
        /\ invalid \in Codes
    BY CodesType DEF TypeOK
  <1>4. CASE RxAborted
    BY <1>1, <1>2, <1>4 DEF RxAborted, TypeOK, txVars
  <1>5. CASE RxRetransmission
    <2>1. sendAck(m.pos) \/ sendTransferAck(m.pos, rxCode)
      BY <1>1, <1>5 DEF RxRetransmission
    <2>2. ackQ' \in Seq(Acks) /\ rxTimer' \in {Off} \cup 0 .. ReceiverTimeout
      BY <2>1, <1>2, <1>3, AckSent
    <2> QED
      BY <1>1, <1>5, <2>2 DEF RxRetransmission, TypeOK, txVars
  <1>6. CASE RxLate
    <2>1. sendTransferAck(m.pos, rxCode)
      BY <1>1, <1>6 DEF RxLate
    <2>2. ackQ' \in Seq(Acks) /\ rxTimer' \in {Off} \cup 0 .. ReceiverTimeout
      BY <2>1, <1>2, <1>3, AckSent
    <2> QED
      BY <1>1, <1>6, <2>2 DEF RxLate, TypeOK, txVars
  <1>7. CASE RxNonsense
    BY <1>1, <1>7 DEF RxNonsense, TypeOK, txVars
  <1>8. CASE RxOutOfOrder
    <2>1. ackQ' \in Seq(Acks) /\ rxTimer' \in {Off} \cup 0 .. ReceiverTimeout
      BY <1>2, <1>3, <1>8, AckSent DEF RxOutOfOrder
    <2> QED
      BY <1>1, <1>2, <1>8, <2>1 DEF RxOutOfOrder, TypeOK, txVars
  <1>9. ASSUME m.pos = rxPos
        PROVE  /\ Real(m) /\ m.xfer \in Xfers
               /\ LengthAfter(m) \in StaleLengths \cup Lengths \cup {0}
    <2>1. Real(m) /\ m.xfer \in Xfers
      BY <1>1, <1>2, <1>9 DEF Real, Abort
    <2>2. m.xfer \in 0 .. MaxStarts
      BY <1>1 DEF Shreds
    <2> QED
      BY <2>1, <2>2 DEF LengthAfter, TypeOK
  <1>10. CASE RxStore
    <2>1. m.pos = rxPos /\ sendAck(m.pos)
      BY <1>1, <1>10 DEF RxStore
    <2>2. ackQ' \in Seq(Acks) /\ rxTimer' \in {Off} \cup 0 .. ReceiverTimeout
      BY <2>1, <1>2, <1>3, AckSent
    <2>3. rxWords' \in Seq(Xfers)
      BY <1>1, <1>9, <1>10, <2>1, AppendFacts DEF RxStore, TypeOK
    <2>4. rxLength' \in StaleLengths \cup Lengths \cup {0} /\ rxFatal' \in BOOLEAN
      BY <1>1, <1>9, <1>10, <2>1 DEF RxStore, TooBig
    <2> QED
      BY <1>1, <1>10, <2>2, <2>3, <2>4 DEF RxStore, TypeOK, txVars
  <1>11. CASE RxFinish
    <2>1. /\ m.pos = rxPos /\ rxWords' = <<>> /\ rxLength' = LengthAfter(m)
          /\ UNCHANGED rxFatal
      BY <1>1, <1>11 DEF RxFinish
    <2>2. PICK ok \in {CrcOk(Append(rxWords, m.xfer), LengthAfter(m))},
               code \in HandlerCodes \cup {wrongCRC} :
              /\ runs' = [runs EXCEPT ![m.xfer] = @ + (IF ok THEN 1 ELSE 0)]
              /\ verdict' = [verdict EXCEPT ![m.xfer] = code]
              /\ rxCode' = code
              /\ sendTransferAck(m.pos, code)
      BY <1>1, <1>11 DEF RxFinish
    <2>3. code \in Codes
      BY <2>2, <1>3
    <2>4. ackQ' \in Seq(Acks) /\ rxTimer' \in {Off} \cup 0 .. ReceiverTimeout
      BY <2>2, <2>3, <1>2, AckSent
    <2>5. runs' \in [Xfers -> Nat] /\ verdict' \in [Xfers -> Codes]
      BY <2>1, <2>2, <2>3, <1>9 DEF TypeOK
    <2>6. rxLength' \in StaleLengths \cup Lengths \cup {0}
      BY <2>1, <1>9
    <2> QED
      BY <1>1, <1>2, <2>1, <2>2, <2>3, <2>4, <2>5, <2>6 DEF TypeOK, txVars
  <1> QED
    BY <1>4, <1>5, <1>6, <1>7, <1>8, <1>10, <1>11 DEF handleRx

LEMMA TypeRest ==
    TypeOK /\ (rxTimeout \/ RxReboot \/ LoseShred \/ LoseAck \/ UNCHANGED vars)
      => TypeOK'
  <1> SUFFICES ASSUME TypeOK PROVE
        rxTimeout \/ RxReboot \/ LoseShred \/ LoseAck \/ UNCHANGED vars => TypeOK'
    OBVIOUS
  <1>0. <<>> \in Seq(Xfers) /\ ReceiverTimeout \in 0 .. ReceiverTimeout
    BY LinkAssumption DEF LinkAssumption
  <1>1. CASE rxTimeout
    BY <1>0, <1>1 DEF rxTimeout, TypeOK, txVars
  <1>2. CASE RxReboot
    BY <1>0, <1>2, CodesType DEF RxReboot, TypeOK, txVars
  <1>3. CASE LoseShred
    BY <1>3, TailFacts DEF LoseShred, TypeOK, txVars, rxVars
  <1>4. CASE LoseAck
    BY <1>4, TailFacts DEF LoseAck, TypeOK, txVars, rxVars
  <1>5. CASE UNCHANGED vars
    BY <1>5 DEF vars, TypeOK, txVars, rxVars
  <1> QED
    BY <1>1, <1>2, <1>3, <1>4, <1>5

-----------------------------------------------------------------------------
(* The order of the transfers.  Every step of the transmitter is quiet, sends *)
(* a word of its transfer, or starts the next one; every step of the          *)
(* receiver stores a word, hands over a transfer, or stores nothing.          *)

TxQuiet ==
    /\ txXfer # NoXfer /\ txXfer' = txXfer
    /\ PastFirst => PastFirst'
    /\ dataQ' = dataQ \/ dataQ' = Append(dataQ, Shred(NoXfer, Abort))
    /\ UNCHANGED <<rxWords, runs>>

TxSends ==
    /\ txXfer # NoXfer /\ txXfer' = txXfer
    /\ PastFirst => txPos' > 0
    /\ txPos' \in Nat
    /\ dataQ' = Append(dataQ, Shred(txXfer, txPos'))
    /\ UNCHANGED <<rxWords, runs>>

TxStarts ==
    /\ txXfer' = txXfer + 1 /\ txXfer' \in 0 .. MaxStarts
    /\ dataQ' = Append(dataQ, Shred(txXfer', 0))
    /\ UNCHANGED <<rxWords, runs>>

LEMMA TxShape ==
    TypeOK /\ OnlyStarted /\ (startTransfer \/ handleTx \/ txTimeout)
      => TxQuiet \/ TxSends \/ TxStarts
  <1> SUFFICES ASSUME TypeOK, OnlyStarted,
                      startTransfer \/ handleTx \/ txTimeout
               PROVE  TxQuiet \/ TxSends \/ TxStarts
    OBVIOUS
  <1>1. ASSUME NEW length \in Lengths, startTx(length), UNCHANGED <<rxWords, runs>>
        PROVE  TxStarts
    <2>1. txXfer' = txXfer + 1 /\ txXfer' \in 0 .. MaxStarts
      BY <1>1, StartType
    <2>2. dataQ' = Append(dataQ, Shred(txXfer', 0))
      BY <1>1, <2>1 DEF startTx, sendTxShred
    <2> QED
      BY <1>1, <2>1, <2>2 DEF TxStarts
  <1>2. CASE startTransfer
    BY <1>1, <1>2 DEF startTransfer, rxVars
  <1>3. CASE handleTx
    <2>1. /\ UNCHANGED <<rxWords, runs>> /\ txXfer # NoXfer
          /\ txPos \in Nat
      BY <1>3 DEF handleTx, TxAborted, TxOldAck, TxImplausible, TxNext, TxFinish,
                  OnAck, rxVars, Pending, OnlyStarted, TypeOK
    <2>2. CASE TxAborted
      BY <2>1, <2>2 DEF TxAborted, TxQuiet, PastFirst
    <2>3. CASE TxOldAck
      BY <2>1, <2>3 DEF TxOldAck, TxQuiet, PastFirst
    <2>4. CASE TxImplausible
      BY <2>1, <2>4 DEF TxImplausible, TxQuiet, PastFirst
    <2>5. CASE TxNext
      <3>1. txXfer' = txXfer /\ txPos' = txPos + 1
            /\ sendTxShred(txXfer, txPos + 1, txLength)
        BY <2>5 DEF TxNext
      <3> QED
        BY <2>1, <3>1 DEF sendTxShred, TxSends
    <2>6. CASE TxFinish
      <3>1. \/ /\ txPos' = txPos + 1
               /\ UNCHANGED <<txXfer, dataLength, dataQ>>
            \/ \E length \in Lengths : startTx(length)
        BY <2>6 DEF TxFinish
      <3> QED
        BY <1>1, <2>1, <3>1 DEF TxQuiet, PastFirst
    <2> QED
      BY <1>3, <2>2, <2>3, <2>4, <2>5, <2>6 DEF handleTx
  <1>4. CASE TxRetransmit
    <2>1. txXfer # NoXfer /\ txTimer # Off
      BY <1>4 DEF TxRetransmit, OnlyStarted
    <2> QED
      BY <1>4, <2>1 DEF TxRetransmit, sendTxShred, TxSends, rxVars, PastFirst, TypeOK
  <1>5. CASE TxGiveUp
    <2>1. txXfer # NoXfer /\ txTimer # Off /\ UNCHANGED <<rxWords, runs>>
      BY <1>5 DEF TxGiveUp, OnlyStarted, rxVars
    <2>2. \/ UNCHANGED <<txXfer, dataLength, txPos, txState, dataQ>>
          \/ \E length \in Lengths : startTx(length)
      BY <1>5 DEF TxGiveUp
    <2> QED
      BY <1>1, <2>1, <2>2 DEF TxQuiet, PastFirst
  <1> QED
    BY <1>2, <1>3, <1>4, <1>5 DEF txTimeout

RxForgets ==   \* stores nothing; what was stored stays or is given up
    /\ rxWords' = rxWords \/ rxWords' = <<>>
    /\ UNCHANGED <<txVars, runs>>
    /\ \/ UNCHANGED dataQ /\ (ackQ = <<>> => ackQ' = <<>>)
       \/ \E m \in Pending(dataQ) : dataQ' = Tail(dataQ)

RxStores ==
    /\ UNCHANGED <<txVars, runs>>
    /\ \E m \in Pending(dataQ) :
          /\ dataQ' = Tail(dataQ) /\ Real(m)
          /\ m.pos = rxPos
          /\ rxWords' = Append(rxWords, m.xfer)

RxRuns ==
    /\ UNCHANGED txVars
    /\ \E m \in Pending(dataQ) :
          /\ dataQ' = Tail(dataQ)
          /\ m.pos = rxPos /\ m.pos > 0
          /\ rxWords' = <<>>
          /\ runs' = [runs EXCEPT ![m.xfer] = @ + 1]

LEMMA RxShape ==
    TypeOK /\ (handleRx \/ rxTimeout \/ RxReboot \/ LoseShred \/ LoseAck)
      => RxForgets \/ RxStores \/ RxRuns
  <1> SUFFICES ASSUME TypeOK,
                      handleRx \/ rxTimeout \/ RxReboot \/ LoseShred \/ LoseAck
               PROVE  RxForgets \/ RxStores \/ RxRuns
    OBVIOUS
  <1>1. CASE RxAborted \/ RxRetransmission \/ RxLate \/ RxNonsense \/ RxOutOfOrder
    BY <1>1 DEF RxAborted, RxRetransmission, RxLate, RxNonsense, RxOutOfOrder,
                OnShred, RxForgets
  <1>2. CASE RxStore
    <2>1. PICK m \in Pending(dataQ) :
              OnShred /\ m.pos = rxPos /\ rxWords' = Append(rxWords, m.xfer)
              /\ UNCHANGED runs
      BY <1>2 DEF RxStore
    <2>2. rxPos \in Nat
      BY DEF TypeOK, rxPos
    <2> QED
      BY <2>1, <2>2 DEF OnShred, RxStores, Real, Abort
  <1>3. CASE RxFinish
    <2>1. PICK m \in Pending(dataQ) :
              /\ OnShred /\ m.pos = rxPos /\ isLast(m.pos, LengthAfter(m))
              /\ rxWords' = <<>>
              /\ \/ UNCHANGED runs
                 \/ runs' = [runs EXCEPT ![m.xfer] = @ + 1]
      <3>1. PICK m \in Pending(dataQ) :
              /\ OnShred /\ m.pos = rxPos /\ isLast(m.pos, LengthAfter(m))
              /\ rxWords' = <<>>
              /\ \E ok \in {CrcOk(Append(rxWords, m.xfer), LengthAfter(m))} :
                   runs' = [runs EXCEPT ![m.xfer] = @ + (IF ok THEN 1 ELSE 0)]
        BY <1>3 DEF RxFinish
      <3>2. [runs EXCEPT ![m.xfer] = @ + 0] = runs
        BY DEF TypeOK
      <3> QED
        BY <3>1, <3>2
    <2>2. rxPos \in Nat
      BY DEF TypeOK, rxPos
    <2>3. m.pos > 0
      BY <2>1, <2>2, TransferAssumption
         DEF isLast, isFinished, HeaderBytes, TransferAssumption
    <2> QED
      BY <2>1, <2>3 DEF OnShred, RxForgets, RxRuns
  <1>4. CASE rxTimeout \/ RxReboot \/ LoseAck
    BY <1>4 DEF rxTimeout, RxReboot, LoseAck, RxForgets, rxVars
  <1>5. CASE LoseShred
    <2>1. Head(dataQ) \in Pending(dataQ)
      BY <1>5 DEF LoseShred, Pending
    <2> QED
      BY <1>5, <2>1 DEF LoseShred, RxForgets, rxVars
  <1> QED
    BY <1>1, <1>2, <1>3, <1>4, <1>5 DEF handleRx

\* Sending one more message keeps the order when the message is an abort or
\* belongs to the transmitter's transfer, after what was sent of it.
LEMMA Sent ==
    ASSUME TypeOK, OrderInv, NEW m \in Shreds,
           dataQ' = Append(dataQ, m),
           UNCHANGED <<rxWords, runs>>,
           txXfer' \in 0 .. MaxStarts, txXfer' # NoXfer, txXfer <= txXfer',
           Real(m) => m.xfer = txXfer',
           txXfer' = txXfer => (PastFirst => PastFirst'),
           Real(m) /\ txXfer' = txXfer => (PastFirst => m.pos > 0),
           Real(m) /\ m.pos > 0 => PastFirst'
    PROVE  OrderInv'
  <1>1. /\ Len(dataQ') = Len(dataQ) + 1 /\ dataQ'[Len(dataQ) + 1] = m
        /\ \A i \in 1 .. Len(dataQ) : dataQ'[i] = dataQ[i]
        /\ Len(dataQ) \in Nat
    BY AppendFacts DEF TypeOK
  <1>2. \A i \in 1 .. Len(dataQ') :
           i \in 1 .. Len(dataQ) \/ (i = Len(dataQ) + 1 /\ i \notin 1 .. Len(dataQ))
    BY <1>1
  <1>3. /\ txXfer \in Nat /\ txXfer' \in Nat /\ rxPos \in Nat /\ rxPos' = rxPos
        /\ \A k \in 1 .. rxPos : rxWords[k] \in Nat
        /\ \A i \in 1 .. Len(dataQ) : dataQ[i] \in Shreds
    <2>1. /\ txXfer \in Nat /\ txXfer' \in Nat
          /\ rxWords \in Seq(Xfers) /\ dataQ \in Seq(Shreds)
      BY LinkAssumption DEF TypeOK, LinkAssumption
    <2>2. rxPos \in Nat /\ rxPos' = rxPos
      BY <2>1 DEF rxPos
    <2>3. \A k \in 1 .. rxPos : rxWords[k] \in Xfers
      BY <2>1 DEF rxPos
    <2>4. \A k \in 1 .. rxPos : rxWords[k] \in Nat
      BY <2>3, LinkAssumption DEF Xfers, LinkAssumption
    <2>5. \A i \in 1 .. Len(dataQ) : dataQ[i] \in Shreds
      BY <2>1
    <2> QED
      BY <2>1, <2>2, <2>4, <2>5
  <1>4. \A s \in Shreds : /\ s.xfer \in Nat
                          /\ s.pos \in Nat \/ ~Real(s)
                          /\ s.pos > 0 => Real(s)
    BY LinkAssumption DEF Shreds, Positions, Real, Abort, LinkAssumption
  <1>5. /\ \A i \in 1 .. Len(dataQ) : Real(dataQ[i]) =>
              dataQ[i].xfer >= 1 /\ dataQ[i].xfer <= txXfer
        /\ \A k \in 1 .. rxPos : rxWords[k] <= txXfer
        /\ \A x \in Xfers : runs[x] > 0 => x <= txXfer
    BY <1>3 DEF OrderInv, OnlyStarted
  <1>6. OnlyStarted'
    <2>1. \A i \in 1 .. Len(dataQ') : Real(dataQ'[i]) =>
             dataQ'[i].xfer \in 1 .. txXfer'
      BY <1>1, <1>2, <1>3, <1>4, <1>5 DEF Real, NoXfer
    <2>2. \A k \in 1 .. rxPos' : rxWords'[k] <= txXfer'
      BY <1>3, <1>5
    <2>3. \A x \in Xfers : runs'[x] > 0 => x <= txXfer'
      BY <1>3, <1>5, LinkAssumption DEF Xfers, LinkAssumption
    <2> QED
      BY <2>1, <2>2, <2>3 DEF OnlyStarted, Real
  <1>7. SentInOrder'
    <2> SUFFICES ASSUME NEW i \in 1 .. Len(dataQ'), NEW j \in 1 .. Len(dataQ'),
                        i < j, Real(dataQ'[i]), Real(dataQ'[j])
                 PROVE  /\ dataQ'[i].xfer <= dataQ'[j].xfer
                        /\ dataQ'[i].xfer = dataQ'[j].xfer /\ dataQ'[j].pos = 0
                             => dataQ'[i].pos = 0
      BY DEF SentInOrder, Real
    <2>1. i \in 1 .. Len(dataQ) /\ dataQ'[i] = dataQ[i]
      BY <1>1
    <2>2. CASE j \in 1 .. Len(dataQ)
      BY <1>1, <2>1, <2>2 DEF OrderInv, SentInOrder
    <2>3. CASE j = Len(dataQ) + 1
      <3>1. dataQ[i].xfer <= txXfer /\ dataQ'[j] = m /\ m.xfer = txXfer'
        BY <1>1, <1>5, <2>1, <2>3
      <3>2. dataQ[i] \in Shreds
        BY <1>3, <2>1
      <3>3. dataQ[i].xfer <= m.xfer
        BY <1>3, <1>4, <3>1, <3>2
      <3>4. ASSUME dataQ[i].xfer = m.xfer, m.pos = 0, dataQ[i].pos # 0
            PROVE  FALSE
        <4>1. txXfer' = txXfer /\ dataQ[i].xfer = txXfer
          BY <1>3, <1>4, <3>1, <3>2, <3>4
        <4>2. dataQ[i].pos > 0
          BY <1>4, <2>1, <3>2, <3>4
        <4>3. PastFirst
          BY <2>1, <4>1, <4>2 DEF OrderInv, TransmitterPastFirst
        <4> QED
          BY <2>3, <3>1, <3>4, <4>1, <4>3
      <3> QED
        BY <2>1, <3>1, <3>3, <3>4
    <2> QED
      BY <1>2, <2>2, <2>3
  <1>8. TransmitterPastFirst'
    <2> SUFFICES ASSUME NEW i \in 1 .. Len(dataQ'),
                        dataQ'[i].xfer = txXfer', dataQ'[i].pos > 0
                 PROVE  PastFirst'
      BY DEF TransmitterPastFirst, PastFirst
    <2>1. CASE i \in 1 .. Len(dataQ)
      <3>1. Real(dataQ[i]) /\ dataQ'[i] = dataQ[i]
        BY <1>1, <1>3, <1>4, <2>1
      <3>2. txXfer' = txXfer
        BY <1>3, <1>5, <2>1, <3>1
      <3> QED
        BY <2>1, <3>1, <3>2 DEF OrderInv, TransmitterPastFirst
    <2>2. CASE i = Len(dataQ) + 1
      BY <1>1, <1>4, <2>2
    <2> QED
      BY <1>2, <2>1, <2>2
  <1>9. ReceiverInOrder'
    <2> SUFFICES ASSUME NEW i \in 1 .. Len(dataQ'), NEW k \in 1 .. rxPos',
                        Real(dataQ'[i])
                 PROVE  rxWords'[k] <= dataQ'[i].xfer
      BY DEF ReceiverInOrder, Real
    <2>1. CASE i \in 1 .. Len(dataQ)
      BY <1>1, <1>3, <2>1 DEF OrderInv, ReceiverInOrder
    <2>2. CASE i = Len(dataQ) + 1
      <3>1. dataQ'[i] = m /\ m.xfer = txXfer' /\ rxWords[k] <= txXfer
        BY <1>1, <1>3, <1>5, <2>2
      <3> QED
        BY <1>3, <3>1
    <2> QED
      BY <1>2, <2>1, <2>2
  <1>10. NothingLeftToRun'
    <2> SUFFICES ASSUME NEW x \in Xfers, runs[x] > 0
                 PROVE  /\ \A i \in 1 .. Len(dataQ') : Real(dataQ'[i]) =>
                              dataQ'[i].xfer > x
                              \/ (dataQ'[i].xfer = x /\ dataQ'[i].pos > 0)
                        /\ \A k \in 1 .. rxPos' : rxWords'[k] > x
                        /\ x = txXfer' => PastFirst'
      BY DEF NothingLeftToRun, Real, PastFirst
    <2>0. x \in Nat /\ x <= txXfer
      BY <1>5, LinkAssumption DEF Xfers, LinkAssumption
    <2>1. x = txXfer' => PastFirst /\ txXfer' = txXfer
      BY <1>3, <2>0 DEF OrderInv, NothingLeftToRun
    <2>2. ASSUME NEW i \in 1 .. Len(dataQ'), Real(dataQ'[i])
          PROVE  dataQ'[i].xfer > x \/ (dataQ'[i].xfer = x /\ dataQ'[i].pos > 0)
      <3>1. CASE i \in 1 .. Len(dataQ)
        BY <1>1, <2>2, <3>1 DEF OrderInv, NothingLeftToRun
      <3>2. CASE i = Len(dataQ) + 1
        BY <1>1, <1>3, <2>0, <2>1, <2>2, <3>2
      <3> QED
        BY <1>2, <3>1, <3>2
    <2>3. \A k \in 1 .. rxPos' : rxWords'[k] > x
      BY <1>3 DEF OrderInv, NothingLeftToRun
    <2> QED
      BY <2>1, <2>2, <2>3
  <1>11. AtMostOnce'
    BY DEF OrderInv, AtMostOnce
  <1> QED
    BY <1>6, <1>7, <1>8, <1>9, <1>10, <1>11 DEF OrderInv

\* Taking the next message keeps the order of the rest.
LEMMA Taken ==
    ASSUME TypeOK, NEW m \in Pending(dataQ), dataQ' = Tail(dataQ)
    PROVE  /\ m = dataQ[1] /\ m \in Shreds /\ 1 \in 1 .. Len(dataQ)
           /\ \A i \in 1 .. Len(dataQ') :
                 i + 1 \in 1 .. Len(dataQ) /\ dataQ'[i] = dataQ[i + 1] /\ 1 < i + 1
           /\ \A i, j \in 1 .. Len(dataQ') : i < j => i + 1 < j + 1
  <1>1. dataQ \in Seq(Shreds) /\ dataQ # <<>> /\ m = Head(dataQ)
    BY DEF TypeOK, Pending
  <1> QED
    BY <1>1, TailFacts

LEMMA QueueShrinks ==
    ASSUME TypeOK, OrderInv, NEW m \in Pending(dataQ), dataQ' = Tail(dataQ),
           UNCHANGED txVars, UNCHANGED runs, rxWords' = rxWords \/ rxWords' = <<>>
    PROVE  OrderInv'
  <1>1. /\ 1 \in 1 .. Len(dataQ)
        /\ \A i \in 1 .. Len(dataQ') :
              i + 1 \in 1 .. Len(dataQ) /\ dataQ'[i] = dataQ[i + 1]
        /\ \A i, j \in 1 .. Len(dataQ') : i < j => i + 1 < j + 1
    BY Taken
  <1>2. \A k \in 1 .. rxPos' : k \in 1 .. rxPos /\ rxWords'[k] = rxWords[k]
    BY DEF rxPos
  <1>3. txXfer # NoXfer /\ UNCHANGED <<txXfer, txPos, txTimer>>
    BY DEF OrderInv, OnlyStarted, Pending, txVars
  <1>4. OnlyStarted'
    BY <1>1, <1>2, <1>3 DEF OrderInv, OnlyStarted, Real
  <1>5. SentInOrder'
    BY <1>1 DEF OrderInv, SentInOrder, Real
  <1>6. TransmitterPastFirst'
    BY <1>1, <1>3 DEF OrderInv, TransmitterPastFirst, PastFirst
  <1>7. ReceiverInOrder'
    BY <1>1, <1>2 DEF OrderInv, ReceiverInOrder, Real
  <1>8. NothingLeftToRun'
    BY <1>1, <1>2, <1>3 DEF OrderInv, NothingLeftToRun, Real, PastFirst
  <1>9. AtMostOnce'
    BY DEF OrderInv, AtMostOnce
  <1> QED
    BY <1>4, <1>5, <1>6, <1>7, <1>8, <1>9 DEF OrderInv

LEMMA WordStored ==
    ASSUME TypeOK, OrderInv, RxStores
    PROVE  OrderInv' /\ LeavesBehind
  <1>0. PICK m \in Pending(dataQ) :
            /\ dataQ' = Tail(dataQ) /\ Real(m)
            /\ m.pos = rxPos
            /\ rxWords' = Append(rxWords, m.xfer)
    BY DEF RxStores
  <1>1. /\ 1 \in 1 .. Len(dataQ) /\ m = dataQ[1] /\ m \in Shreds
        /\ \A i \in 1 .. Len(dataQ') :
              i + 1 \in 1 .. Len(dataQ) /\ dataQ'[i] = dataQ[i + 1] /\ 1 < i + 1
        /\ \A i, j \in 1 .. Len(dataQ') : i < j => i + 1 < j + 1
    BY <1>0, Taken
  <1>2. /\ txXfer # NoXfer /\ UNCHANGED <<txXfer, txPos, txTimer, runs>>
        /\ m.xfer \in 1 .. txXfer /\ txXfer \in Nat /\ m.xfer \in Xfers
    BY <1>0, <1>1, LinkAssumption
       DEF OrderInv, OnlyStarted, RxStores, txVars, TypeOK, Xfers, Pending,
           LinkAssumption
  <1>3. /\ rxPos' = rxPos + 1 /\ rxPos \in Nat
        /\ \A k \in 1 .. rxPos : rxWords'[k] = rxWords[k]
        /\ rxWords'[rxPos + 1] = m.xfer
    BY <1>0, <1>2, AppendFacts DEF TypeOK, rxPos
  <1>4. \A k \in 1 .. rxPos' : k \in 1 .. rxPos \/ k = rxPos + 1
    BY <1>3
  <1>5. OnlyStarted'
    <2>1. \A k \in 1 .. rxPos' : rxWords'[k] <= txXfer'
      BY <1>2, <1>3, <1>4 DEF OrderInv, OnlyStarted
    <2> QED
      BY <1>1, <1>2, <2>1 DEF OrderInv, OnlyStarted, Real
  <1>6. SentInOrder'
    BY <1>1 DEF OrderInv, SentInOrder, Real
  <1>7. TransmitterPastFirst'
    BY <1>1, <1>2 DEF OrderInv, TransmitterPastFirst, PastFirst
  <1>8. ReceiverInOrder'
    <2> SUFFICES ASSUME NEW i \in 1 .. Len(dataQ'), NEW k \in 1 .. rxPos',
                        Real(dataQ'[i])
                 PROVE  rxWords'[k] <= dataQ'[i].xfer
      BY DEF ReceiverInOrder, Real
    <2>1. CASE k \in 1 .. rxPos
      BY <1>1, <1>3, <2>1 DEF OrderInv, ReceiverInOrder
    <2>2. CASE k = rxPos + 1
      BY <1>0, <1>1, <1>3, <2>2 DEF OrderInv, SentInOrder
    <2> QED
      BY <1>4, <2>1, <2>2
  <1>9. \A x \in Xfers : runs[x] > 0 => m.xfer > x
    <2> SUFFICES ASSUME NEW x \in Xfers, runs[x] > 0 PROVE m.xfer > x
      OBVIOUS
    <2>0. x \in Nat
      BY LinkAssumption DEF Xfers, LinkAssumption
    <2>1. CASE m.pos = 0
      BY <1>0, <1>1, <2>1 DEF OrderInv, NothingLeftToRun
    <2>2. CASE m.pos # 0
      <3>1. 1 \in 1 .. rxPos
        BY <1>0, <1>3, <2>2
      <3>2. rxWords[1] > x /\ rxWords[1] <= m.xfer
        BY <1>0, <1>1, <3>1 DEF OrderInv, NothingLeftToRun, ReceiverInOrder
      <3>3. rxWords[1] \in Nat
        <4>1. rxWords[1] \in Xfers
          BY <3>1 DEF TypeOK, rxPos
        <4> QED
          BY <4>1, LinkAssumption DEF Xfers, LinkAssumption
      <3> QED
        BY <1>2, <2>0, <3>2, <3>3
    <2> QED
      BY <2>1, <2>2
  <1>10. NothingLeftToRun'
    <2> SUFFICES ASSUME NEW x \in Xfers, runs[x] > 0
                 PROVE  /\ \A i \in 1 .. Len(dataQ') : Real(dataQ'[i]) =>
                              dataQ'[i].xfer > x
                              \/ (dataQ'[i].xfer = x /\ dataQ'[i].pos > 0)
                        /\ \A k \in 1 .. rxPos' : rxWords'[k] > x
                        /\ x = txXfer' => PastFirst'
      BY <1>2 DEF NothingLeftToRun, Real, PastFirst
    <2>1. x \in Nat
      BY LinkAssumption DEF Xfers, LinkAssumption
    <2>3. \A k \in 1 .. rxPos' : rxWords'[k] > x
      BY <1>3, <1>4, <1>9 DEF OrderInv, NothingLeftToRun
    <2> QED
      BY <1>1, <1>2, <2>1, <2>3 DEF OrderInv, NothingLeftToRun, Real, PastFirst
  <1>11. AtMostOnce'
    BY <1>2 DEF OrderInv, AtMostOnce
  <1>12. LeavesBehind
    <2> SUFFICES ASSUME NEW x \in Xfers, NEW y \in Xfers, x < y, runs[y] > 0
                 PROVE  rxWords'[rxPos'] # x
      BY <1>2 DEF LeavesBehind
    <2>1. x \in Nat /\ y \in Nat /\ m.xfer \in Nat
      BY <1>2, LinkAssumption DEF Xfers, LinkAssumption
    <2> QED
      BY <1>3, <1>9, <2>1
  <1> QED
    BY <1>5, <1>6, <1>7, <1>8, <1>10, <1>11, <1>12 DEF OrderInv

LEMMA TransferRuns ==
    ASSUME TypeOK, OrderInv, RxRuns
    PROVE  OrderInv' /\ LeavesBehind
  <1>0. PICK m \in Pending(dataQ) :
            /\ dataQ' = Tail(dataQ)
            /\ m.pos = rxPos /\ m.pos > 0
            /\ rxWords' = <<>>
            /\ runs' = [runs EXCEPT ![m.xfer] = @ + 1]
    BY DEF RxRuns
  <1>1. /\ 1 \in 1 .. Len(dataQ) /\ m = dataQ[1] /\ m \in Shreds /\ Real(m)
        /\ \A i \in 1 .. Len(dataQ') :
              i + 1 \in 1 .. Len(dataQ) /\ dataQ'[i] = dataQ[i + 1] /\ 1 < i + 1
        /\ \A i, j \in 1 .. Len(dataQ') : i < j => i + 1 < j + 1
    BY <1>0, Taken DEF Real, Abort
  <1>2. /\ txXfer # NoXfer /\ UNCHANGED <<txXfer, txPos, txTimer>>
        /\ m.xfer \in 1 .. txXfer /\ txXfer \in Nat /\ m.xfer \in Xfers
    BY <1>0, <1>1, LinkAssumption
       DEF OrderInv, OnlyStarted, RxRuns, txVars, TypeOK, Xfers, Pending,
           LinkAssumption
  <1>3. \A x \in Xfers : x \in Nat /\ runs[x] \in Nat
    BY LinkAssumption DEF Xfers, TypeOK, LinkAssumption
  <1>4. \A x \in Xfers : runs[x] > 0 => m.xfer > x
    <2> SUFFICES ASSUME NEW x \in Xfers, runs[x] > 0 PROVE m.xfer > x
      OBVIOUS
    <2>1. 1 \in 1 .. rxPos
      BY <1>0 DEF TypeOK, rxPos
    <2>2. rxWords[1] > x /\ rxWords[1] <= m.xfer
      BY <1>1, <2>1 DEF OrderInv, NothingLeftToRun, ReceiverInOrder
    <2>3. rxWords[1] \in Xfers
      BY <2>1 DEF TypeOK, rxPos
    <2> QED
      BY <1>2, <1>3, <2>2, <2>3
  <1>5. /\ runs[m.xfer] = 0 /\ runs'[m.xfer] = 1
        /\ \A x \in Xfers : x # m.xfer => runs'[x] = runs[x]
    <2>1. ~(runs[m.xfer] > 0)
      BY <1>2, <1>3, <1>4
    <2> QED
      BY <1>0, <1>2, <1>3, <2>1 DEF TypeOK
  <1>6. \A x \in Xfers : runs'[x] > 0 => x <= m.xfer
    BY <1>2, <1>3, <1>4, <1>5
  <1>7. rxPos' = 0 /\ 1 .. rxPos' = {}
    BY <1>0 DEF rxPos
  <1>8. OnlyStarted'
    <2>1. txXfer' # NoXfer
      BY <1>2
    <2>2. \A i \in 1 .. Len(dataQ') : Real(dataQ'[i]) => dataQ'[i].xfer \in 1 .. txXfer
      BY <1>1 DEF OrderInv, OnlyStarted
    <2>3. \A x \in Xfers : runs'[x] > 0 => x <= txXfer
      BY <1>2, <1>3, <1>6
    <2> QED
      BY <1>2, <1>7, <2>1, <2>2, <2>3 DEF OnlyStarted, Real
  <1>9. SentInOrder'
    <2> SUFFICES ASSUME NEW i \in 1 .. Len(dataQ'), NEW j \in 1 .. Len(dataQ'), i < j,
                        Real(dataQ'[i]), Real(dataQ'[j])
                 PROVE  /\ dataQ'[i].xfer <= dataQ'[j].xfer
                        /\ dataQ'[i].xfer = dataQ'[j].xfer /\ dataQ'[j].pos = 0
                              => dataQ'[i].pos = 0
      BY DEF SentInOrder, Real
    <2>1. PICK k \in 1 .. Len(dataQ), l \in 1 .. Len(dataQ) :
             k < l /\ dataQ'[i] = dataQ[k] /\ dataQ'[j] = dataQ[l]
      BY <1>1
    <2> QED
      BY <2>1 DEF OrderInv, SentInOrder
  <1>10. TransmitterPastFirst'
    BY <1>1, <1>2 DEF OrderInv, TransmitterPastFirst, PastFirst
  <1>11. ReceiverInOrder'
    BY <1>7 DEF ReceiverInOrder
  <1>12. NothingLeftToRun'
    <2> SUFFICES ASSUME NEW x \in Xfers, runs'[x] > 0
                 PROVE  /\ \A i \in 1 .. Len(dataQ') : Real(dataQ'[i]) =>
                              dataQ'[i].xfer > x
                              \/ (dataQ'[i].xfer = x /\ dataQ'[i].pos > 0)
                        /\ x = txXfer' => PastFirst'
      BY <1>7 DEF NothingLeftToRun, Real, PastFirst
    <2>1. CASE x # m.xfer
      <3>1. runs[x] > 0
        BY <1>5, <2>1
      <3> QED
        BY <1>1, <1>2, <3>1 DEF OrderInv, NothingLeftToRun, Real, PastFirst
    <2>2. CASE x = m.xfer
      <3>1. ASSUME NEW i \in 1 .. Len(dataQ'), Real(dataQ'[i])
            PROVE  dataQ'[i].xfer > x \/ (dataQ'[i].xfer = x /\ dataQ'[i].pos > 0)
        <4>1. /\ i + 1 \in 1 .. Len(dataQ) /\ dataQ'[i] = dataQ[i + 1]
              /\ 1 < i + 1 /\ Real(dataQ[i + 1])
          BY <1>1, <3>1
        <4>2. /\ m.xfer <= dataQ[i + 1].xfer
              /\ m.xfer = dataQ[i + 1].xfer /\ dataQ[i + 1].pos = 0 => m.pos = 0
          BY <1>1, <4>1 DEF OrderInv, SentInOrder
        <4>3. dataQ[i + 1] \in Shreds
          BY <4>1 DEF TypeOK
        <4>4. dataQ[i + 1].xfer \in Nat /\ dataQ[i + 1].pos \in Nat
          BY <4>1, <4>3, LinkAssumption
             DEF Shreds, Positions, Real, LinkAssumption
        <4> QED
          BY <1>0, <1>2, <2>2, <4>1, <4>2, <4>4
      <3>2. x = txXfer' => PastFirst'
        BY <1>0, <1>1, <1>2, <2>2 DEF OrderInv, TransmitterPastFirst, PastFirst
      <3> QED
        BY <3>1, <3>2
    <2> QED
      BY <2>1, <2>2
  <1>13. AtMostOnce'
    BY <1>5 DEF OrderInv, AtMostOnce
  <1>14. LeavesBehind
    <2>1. \A x, y \in Xfers : x < y /\ runs[y] > 0 => runs'[x] = runs[x]
      BY <1>2, <1>3, <1>4, <1>5
    <2>2. rxPos' # rxPos + 1
      BY <1>7 DEF TypeOK, rxPos
    <2> QED
      BY <2>1, <2>2 DEF LeavesBehind
  <1> QED
    BY <1>8, <1>9, <1>10, <1>11, <1>12, <1>13, <1>14 DEF OrderInv

-----------------------------------------------------------------------------
(* The theorems *)

LEMMA OrderInit == Init => OrderInv
  <1> SUFFICES ASSUME Init PROVE OrderInv
    OBVIOUS
  <1>1. /\ dataQ = <<>> /\ ackQ = <<>> /\ rxWords = <<>> /\ txTimer = Off
        /\ \A x \in Xfers : runs[x] = 0
        /\ 1 .. Len(dataQ) = {} /\ 1 .. rxPos = {}
    BY DEF Init, rxPos
  <1> QED
    BY <1>1 DEF OrderInv, OnlyStarted, SentInOrder, TransmitterPastFirst,
                ReceiverInOrder, NothingLeftToRun, AtMostOnce

LEMMA QueueKept ==
    ASSUME TypeOK, OrderInv, UNCHANGED <<txVars, runs, dataQ>>,
           ackQ = <<>> => ackQ' = <<>>, rxWords' = rxWords \/ rxWords' = <<>>
    PROVE  OrderInv'
  <1>1. \A k \in 1 .. rxPos' : k \in 1 .. rxPos /\ rxWords'[k] = rxWords[k]
    BY DEF rxPos
  <1>2. UNCHANGED <<txXfer, txPos, txTimer, runs, dataQ>>
    BY DEF txVars
  <1>3. OnlyStarted'
    BY <1>1, <1>2 DEF OrderInv, OnlyStarted, Real
  <1>4. SentInOrder'
    BY <1>2 DEF OrderInv, SentInOrder, Real
  <1>5. TransmitterPastFirst'
    BY <1>2 DEF OrderInv, TransmitterPastFirst, PastFirst
  <1>6. ReceiverInOrder'
    BY <1>1, <1>2 DEF OrderInv, ReceiverInOrder, Real
  <1>7. NothingLeftToRun'
    BY <1>1, <1>2 DEF OrderInv, NothingLeftToRun, Real, PastFirst
  <1>8. AtMostOnce'
    BY <1>2 DEF OrderInv, AtMostOnce
  <1> QED
    BY <1>3, <1>4, <1>5, <1>6, <1>7, <1>8 DEF OrderInv

\* One step keeps the order, and runs no transfer after a later one.
LEMMA OrderStep ==
    ASSUME TypeOK, OrderInv, [Next]_vars
    PROVE  OrderInv' /\ LeavesBehind
  <1>0. /\ OnlyStarted /\ txXfer \in 0 .. MaxStarts /\ txPos \in Nat
        /\ MaxStarts \in Nat
    BY LinkAssumption DEF OrderInv, TypeOK, LinkAssumption
  <1>1. ASSUME UNCHANGED runs, rxWords' = rxWords \/ rxWords' = <<>>
        PROVE  LeavesBehind
    <2>1. rxPos' # rxPos + 1
      BY <1>1 DEF TypeOK, rxPos
    <2> QED
      BY <1>1, <2>1 DEF LeavesBehind
  <1>2. CASE TxQuiet
    <2>1. CASE dataQ' = dataQ
      <3>1. OnlyStarted'
        BY <1>0, <1>2, <2>1 DEF OnlyStarted, TxQuiet, Real, rxPos
      <3> QED
        BY <1>1, <1>2, <2>1, <3>1
           DEF TxQuiet, OrderInv, SentInOrder, TransmitterPastFirst,
               ReceiverInOrder, NothingLeftToRun, AtMostOnce, rxPos, Real
    <2>2. CASE dataQ' = Append(dataQ, Shred(NoXfer, Abort))
      <3>1. Shred(NoXfer, Abort) \in Shreds /\ ~Real(Shred(NoXfer, Abort))
        BY <1>0 DEF Shred, Shreds, Positions, NoXfer, Real
      <3> QED
        BY <1>0, <1>1, <1>2, <2>2, <3>1, Sent DEF TxQuiet
    <2> QED
      BY <1>2, <2>1, <2>2 DEF TxQuiet
  <1>3. CASE TxSends
    <2>1. /\ Shred(txXfer, txPos') \in Shreds
          /\ Shred(txXfer, txPos').xfer = txXfer
          /\ Shred(txXfer, txPos').pos = txPos'
      BY <1>0, <1>3 DEF Shred, Shreds, Positions, TxSends
    <2>2. txPos' > 0 => PastFirst'
      BY DEF PastFirst
    <2> QED
      BY <1>0, <1>1, <1>3, <2>1, <2>2, Sent DEF TxSends
  <1>4. CASE TxStarts
    <2>1. /\ Shred(txXfer', 0) \in Shreds
          /\ Shred(txXfer', 0).xfer = txXfer' /\ Shred(txXfer', 0).pos = 0
      BY <1>0, <1>4 DEF Shred, Shreds, Positions, TxStarts
    <2>2. txXfer' # NoXfer /\ txXfer <= txXfer' /\ txXfer' # txXfer
      BY <1>0, <1>4 DEF TxStarts, NoXfer
    <2> QED
      BY <1>0, <1>1, <1>4, <2>1, <2>2, Sent DEF TxStarts
  <1>5. CASE RxForgets
    <2>1. CASE UNCHANGED dataQ /\ (ackQ = <<>> => ackQ' = <<>>)
      BY <1>1, <1>5, <2>1, QueueKept DEF RxForgets
    <2>2. CASE \E m \in Pending(dataQ) : dataQ' = Tail(dataQ)
      BY <1>1, <1>5, <2>2, QueueShrinks DEF RxForgets
    <2> QED
      BY <1>5, <2>1, <2>2 DEF RxForgets
  <1>6. CASE RxStores
    BY <1>6, WordStored
  <1>7. CASE RxRuns
    BY <1>7, TransferRuns
  <1>8. CASE UNCHANGED vars
    BY <1>1, <1>8, QueueKept DEF vars, rxVars
  <1> QED
    BY <1>0, <1>2, <1>3, <1>4, <1>5, <1>6, <1>7, <1>8, TxShape, RxShape DEF Next

\* Every variable keeps its type, the order invariant holds, in every state
\* of every behaviour.
THEOREM TypeAndOrder == Spec => [](TypeOK /\ OrderInv)
  <1>1. Init => TypeOK /\ OrderInv
    BY TypeInit, OrderInit
  <1>2. TypeOK /\ OrderInv /\ [Next]_vars => TypeOK' /\ OrderInv'
    <2> SUFFICES ASSUME TypeOK, OrderInv, [Next]_vars PROVE TypeOK' /\ OrderInv'
      OBVIOUS
    <2>1. OnlyStarted
      BY DEF OrderInv
    <2>2. TypeOK'
      BY <2>1, TypeTx, TypeRx, TypeRest DEF Next
    <2> QED
      BY <2>2, OrderStep
  <1> QED
    BY <1>1, <1>2, PTL DEF Spec

\* Every variable keeps its type; of the position and the retries of m_tx this
\* says that no sequence of acknowledges and timeouts carries them out of range.
THEOREM TypeCorrect == Spec => []TypeOK
  BY TypeAndOrder, PTL

\* The handler never gets a transfer a second time, whatever is lost, delayed
\* or retransmitted, and whenever timers fire, nodes restart and transfers are
\* started: the promise mmpNode.cpp:8-10 needs when a handler writes flash.
THEOREM NeverTwice == Spec => []AtMostOnce
  <1>1. OrderInv => AtMostOnce
    BY DEF OrderInv
  <1> QED
    BY <1>1, TypeAndOrder, PTL

\* Once a transfer has run, nothing of an earlier one is stored or run.
THEOREM NeverOutOfOrder == Spec => InStartOrder
  <1>1. TypeOK /\ OrderInv /\ [Next]_vars => [LeavesBehind]_vars
    BY OrderStep
  <1> QED
    BY <1>1, TypeAndOrder, PTL DEF Spec, InStartOrder

-----------------------------------------------------------------------------
(* The receiver *)

ReceiverInv == ReceiverWillEnd /\ HeaderChecked

LEMMA ReceiverStep ==
    ASSUME TypeOK, ReceiverInv, [Next]_vars
    PROVE  ReceiverInv'
  <1>0. /\ HeaderWords >= 2 /\ HeaderWords \in Nat
        /\ LengthWord \in 0 .. HeaderWords - 1
        /\ rxPos \in Nat /\ ReceiverTimeout # Off
    BY TransferAssumption, LinkAssumption
       DEF TypeOK, rxPos, TransferAssumption, LinkAssumption, Off
  <1>1. ASSUME rxWords' = <<>> PROVE ReceiverInv'
    <2>1. rxPos' = 0
      BY <1>1 DEF rxPos
    <2> QED
      BY <1>0, <1>1, <2>1 DEF ReceiverInv, ReceiverWillEnd, HeaderChecked
  <1>2. ASSUME UNCHANGED <<rxWords, rxLength, rxFatal>>,
               rxTimer' = rxTimer \/ rxTimer' # Off \/ rxWords = <<>>
        PROVE  ReceiverInv'
    BY <1>2 DEF ReceiverInv, ReceiverWillEnd, HeaderChecked, rxPos
  <1>3. CASE startTransfer \/ handleTx \/ txTimeout \/ LoseShred \/ LoseAck
              \/ UNCHANGED vars
    <2>1. UNCHANGED rxVars
      BY <1>3 DEF startTransfer, handleTx, TxAborted, TxOldAck, TxImplausible,
                  TxNext, TxFinish, OnAck, txTimeout, TxRetransmit, TxGiveUp,
                  LoseShred, LoseAck, vars, rxVars
    <2> QED
      BY <1>2, <2>1 DEF rxVars
  <1>4. CASE RxAborted \/ RxOutOfOrder \/ RxFinish \/ rxTimeout \/ RxReboot
    BY <1>1, <1>4 DEF RxAborted, RxOutOfOrder, RxFinish, rxTimeout, RxReboot
  <1>5. CASE RxRetransmission
    <2>1. PICK m \in Pending(dataQ) :
            /\ rxPos # 0 /\ m.pos = rxPos - 1
            /\ IF isLast(m.pos, rxLength) THEN sendTransferAck(m.pos, rxCode)
                                          ELSE sendAck(m.pos)
            /\ UNCHANGED <<rxWords, rxLength, rxFatal>>
      BY <1>5 DEF RxRetransmission
    <2>2. rxWords # <<>> /\ m.pos + 1 = rxPos
      BY <1>0, <2>1 DEF rxPos
    <2>3. ~isLast(m.pos, rxLength)
      BY <2>2 DEF ReceiverInv, ReceiverWillEnd, isLast
    <2> QED
      BY <1>0, <1>2, <2>1, <2>3 DEF sendAck
  <1>6. CASE RxLate \/ RxNonsense
    <2>1. rxPos = 0 /\ UNCHANGED <<rxWords>>
      BY <1>6 DEF RxLate, RxNonsense
    <2>2. rxWords' = <<>>
      BY <2>1 DEF rxPos, TypeOK
    <2> QED
      BY <1>1, <2>2
  <1>7. CASE RxStore
    <2>1. PICK m \in Pending(dataQ) :
            /\ ~rxFatal /\ m.pos = rxPos /\ m \in Shreds
            /\ ~isLast(m.pos, LengthAfter(m))
            /\ rxWords' = Append(rxWords, m.xfer)
            /\ rxLength' = LengthAfter(m)
            /\ rxTimer' = ReceiverTimeout
            /\ rxFatal' = TooBig(m.pos, LengthAfter(m))
      BY <1>7 DEF RxStore, OnShred, sendAck, Pending, TypeOK
    <2>2. rxPos' = rxPos + 1
      BY <2>1, <1>0 DEF rxPos, TypeOK
    <2>3. ReceiverWillEnd'
      BY <1>0, <2>1, <2>2 DEF ReceiverWillEnd, isLast
    <2>4. HeaderChecked'
      <3> SUFFICES ASSUME ~rxFatal', rxPos' >= HeaderWords
                   PROVE  rxLength' <= MaxReceiveSize
        BY DEF HeaderChecked
      <3>1. rxLength' \in Int /\ MaxReceiveSize \in Int
        <4>1. m.xfer \in 0 .. MaxStarts
          BY <2>1 DEF Shreds
        <4>2. LengthAfter(m) \in StaleLengths \cup Lengths \cup {0}
          BY <4>1 DEF LengthAfter, TypeOK
        <4>3. StaleLengths \subseteq Int /\ Lengths \subseteq Nat
              /\ MaxReceiveSize \in Nat
          BY TransferAssumption, LinkAssumption
             DEF TransferAssumption, LinkAssumption
        <4>4. rxLength' \in StaleLengths \cup Lengths \cup {0}
          BY <2>1, <4>2
        <4> QED
          BY <4>3, <4>4
      <3>2. CASE m.pos + 1 = HeaderWords
        <4>1. ~(LengthAfter(m) > MaxReceiveSize)
          BY <2>1, <3>2 DEF TooBig
        <4> QED
          BY <2>1, <3>1, <4>1
      <3>3. CASE m.pos + 1 # HeaderWords
        <4>1. rxPos >= HeaderWords /\ m.pos # LengthWord
          BY <1>0, <2>1, <2>2, <3>3
        <4> QED
          BY <2>1, <4>1 DEF LengthAfter, ReceiverInv, HeaderChecked
      <3> QED
        BY <3>2, <3>3
    <2> QED
      BY <2>3, <2>4 DEF ReceiverInv
  <1> QED
    BY <1>3, <1>4, <1>5, <1>6, <1>7 DEF Next, handleRx

LEMMA ReceiverInit == Init => ReceiverInv
  <1> SUFFICES ASSUME Init PROVE ReceiverInv
    OBVIOUS
  <1>1. rxWords = <<>> /\ rxPos = 0 /\ HeaderWords >= 2 /\ HeaderWords \in Nat
    BY TransferAssumption DEF Init, rxPos, TransferAssumption
  <1> QED
    BY <1>1 DEF ReceiverInv, ReceiverWillEnd, HeaderChecked

LEMMA ReceiverAlways == Spec => [](TypeOK /\ ReceiverInv)
  <1>1. TypeOK /\ ReceiverInv /\ [Next]_vars => ReceiverInv'
    BY ReceiverStep
  <1> QED
    BY <1>1, ReceiverInit, TypeAndOrder, PTL DEF Spec

\* The receiver always waits for a word that is still missing and its timer
\* runs while it does (mmpNode.cpp:337-348, 444-447).
THEOREM ReceiverEnds == Spec => []ReceiverWillEnd
  <1>1. ReceiverInv => ReceiverWillEnd
    BY DEF ReceiverInv
  <1> QED
    BY <1>1, ReceiverAlways, PTL

\* The receiver never stores behind the end of m_rawData
\* (mmpTransfer.hpp:126-136): the check of the header comes in time.
THEOREM StoresInBounds == Spec => []NextWordFits
  <1>1. TypeOK /\ ReceiverInv => NextWordFits
    <2> SUFFICES ASSUME TypeOK, ReceiverInv, ~rxFatal
                 PROVE  4 * (rxPos + 1) <= HeaderBytes + MaxReceiveSize
      BY DEF NextWordFits
    <2>1. /\ rxLength \in Int /\ rxPos \in Nat
          /\ HeaderWords \in Nat /\ HeaderWords >= 2
          /\ MaxReceiveSize \in Nat /\ MaxReceiveSize % 4 = 0
      BY TransferAssumption, LinkAssumption
         DEF TypeOK, rxPos, TransferAssumption, LinkAssumption
    <2>2. CASE rxPos < HeaderWords
      BY <2>1, <2>2 DEF HeaderBytes
    <2>3. CASE rxPos >= HeaderWords
      <3>1. rxWords # <<>>
        BY <2>1, <2>3 DEF rxPos
      <3>2. rxLength <= MaxReceiveSize /\ ~isFinished(rxPos, rxLength)
        BY <2>3, <3>1 DEF ReceiverInv, ReceiverWillEnd, HeaderChecked
      <3>3. 4 * rxPos < 4 * HeaderWords + MaxReceiveSize
        BY <2>1, <2>3, <3>2 DEF isFinished, HeaderBytes
      <3>4. PICK k \in Nat : MaxReceiveSize = 4 * k
        BY <2>1
      <3> QED
        BY <2>1, <3>3, <3>4 DEF HeaderBytes
    <2> QED
      BY <2>1, <2>2, <2>3
  <1> QED
    BY <1>1, ReceiverAlways, PTL

-----------------------------------------------------------------------------
(* The transmitter *)

\* What a running timer will send again is a word of the transfer, too.
SendInv ==
    /\ ShredsInTransfer
    /\ txTimer # Off => txPos = 0 \/ ~isFinished(txPos, txLength)

\* What is under way stays legal when another message is sent that is.
LEMMA LegalSent ==
    ASSUME TypeOK, ShredsInTransfer, NEW m \in Shreds,
           dataQ' = Append(dataQ, m), UNCHANGED dataLength,
           Real(m) => m.pos = 0 \/ ~isFinished(m.pos, dataLength[m.xfer])
    PROVE  ShredsInTransfer'
  <1>1. /\ Len(dataQ') = Len(dataQ) + 1 /\ dataQ'[Len(dataQ) + 1] = m
        /\ \A i \in 1 .. Len(dataQ) : dataQ'[i] = dataQ[i]
        /\ Len(dataQ) \in Nat
    BY AppendFacts DEF TypeOK
  <1>2. \A i \in 1 .. Len(dataQ') : i \in 1 .. Len(dataQ) \/ i = Len(dataQ) + 1
    BY <1>1
  <1> QED
    BY <1>1, <1>2 DEF ShredsInTransfer, Real

\* startTx() does not touch the lengths of what is under way.
LEMMA LegalStarted ==
    ASSUME TypeOK, OnlyStarted, SendInv, NEW length \in Lengths, startTx(length)
    PROVE  SendInv'
  <1>1. /\ txXfer \in Nat /\ txXfer + 1 \in 0 .. MaxStarts
        /\ txPos' = 0 /\ dataLength' = [dataLength EXCEPT ![txXfer + 1] = length]
        /\ dataQ' = Append(dataQ, Shred(txXfer + 1, 0))
    <2>1. txXfer' \in 0 .. MaxStarts /\ txXfer' = txXfer + 1 /\ txPos' = 0
      BY StartType
    <2>2. /\ dataLength' = [dataLength EXCEPT ![txXfer + 1] = length]
          /\ dataQ' = Append(dataQ, Shred(txXfer + 1, 0))
      BY DEF startTx, sendTxShred
    <2> QED
      BY <2>1, <2>2 DEF TypeOK
  <1>2. Shred(txXfer + 1, 0) \in Shreds /\ Shred(txXfer + 1, 0).pos = 0
    BY <1>1 DEF Shred, Shreds, Positions
  <1>3. /\ Len(dataQ') = Len(dataQ) + 1
        /\ dataQ'[Len(dataQ) + 1] = Shred(txXfer + 1, 0)
        /\ \A i \in 1 .. Len(dataQ) : dataQ'[i] = dataQ[i]
        /\ Len(dataQ) \in Nat
    BY <1>1, <1>2, AppendFacts DEF TypeOK
  <1>4. ASSUME NEW i \in 1 .. Len(dataQ), Real(dataQ[i])
        PROVE  dataLength'[dataQ[i].xfer] = dataLength[dataQ[i].xfer]
    <2>1. dataQ[i].xfer \in 1 .. txXfer
      BY <1>4 DEF OnlyStarted
    <2>2. dataQ[i].xfer # txXfer + 1 /\ dataQ[i].xfer \in 0 .. MaxStarts
      BY <1>1, <2>1, LinkAssumption DEF LinkAssumption
    <2> QED
      BY <1>1, <2>2 DEF TypeOK
  <1>5. \A i \in 1 .. Len(dataQ') : i \in 1 .. Len(dataQ) \/ i = Len(dataQ) + 1
    BY <1>3
  <1>6. ShredsInTransfer'
    <2> SUFFICES ASSUME NEW i \in 1 .. Len(dataQ'), dataQ'[i].pos # Abort
                 PROVE  \/ dataQ'[i].pos = 0
                        \/ ~isFinished(dataQ'[i].pos, dataLength'[dataQ'[i].xfer])
      BY DEF ShredsInTransfer
    <2>1. CASE i \in 1 .. Len(dataQ)
      BY <1>3, <1>4, <2>1 DEF SendInv, ShredsInTransfer, Real
    <2>2. CASE i = Len(dataQ) + 1
      BY <1>2, <1>3, <2>2
    <2> QED
      BY <1>5, <2>1, <2>2
  <1> QED
    BY <1>1, <1>6 DEF SendInv

\* Sending a word of the current transfer.
LEMMA LegalWord ==
    ASSUME TypeOK, SendInv, NEW pos \in Nat,
           sendTxShred(txXfer, pos, txLength),
           txPos' = pos, UNCHANGED <<txXfer, dataLength>>,
           pos = 0 \/ ~isFinished(pos, txLength)
    PROVE  SendInv'
  <1>1. /\ Shred(txXfer, pos) \in Shreds
        /\ Shred(txXfer, pos).pos = pos /\ Shred(txXfer, pos).xfer = txXfer
    BY DEF TypeOK, Shred, Shreds, Positions
  <1>2. ShredsInTransfer'
    BY <1>1, LegalSent DEF SendInv, sendTxShred, txLength
  <1> QED
    BY <1>2 DEF SendInv, txLength

\* A step that takes a message from the bus, or none, and keeps the rest.
LEMMA LegalKept ==
    ASSUME TypeOK, SendInv,
           dataQ' = dataQ \/ (dataQ # <<>> /\ dataQ' = Tail(dataQ)),
           UNCHANGED <<txXfer, dataLength>>,
           txTimer' = Off \/ (txTimer # Off /\ UNCHANGED txPos)
    PROVE  SendInv'
  <1>1. ShredsInTransfer'
    <2>1. CASE dataQ' = dataQ
      BY <2>1 DEF SendInv, ShredsInTransfer
    <2>2. CASE dataQ # <<>> /\ dataQ' = Tail(dataQ)
      <3>1. \A i \in 1 .. Len(dataQ') :
               i + 1 \in 1 .. Len(dataQ) /\ dataQ'[i] = dataQ[i + 1]
        BY <2>2, TailFacts DEF TypeOK
      <3> QED
        BY <3>1 DEF SendInv, ShredsInTransfer
    <2> QED
      BY <2>1, <2>2
  <1> QED
    BY <1>1 DEF SendInv, txLength

LEMMA SendStep ==
    ASSUME TypeOK, OnlyStarted, SendInv, [Next]_vars
    PROVE  SendInv'
  <1>1. CASE startTransfer
    BY <1>1, LegalStarted DEF startTransfer
  <1>2. CASE TxAborted \/ TxOldAck
    BY <1>2, LegalKept DEF TxAborted, TxOldAck
  <1>3. CASE TxImplausible
    <2>1. /\ dataQ' = Append(dataQ, Shred(NoXfer, Abort))
          /\ txTimer' = Off /\ UNCHANGED dataLength
      BY <1>3 DEF TxImplausible
    <2>2. Shred(NoXfer, Abort) \in Shreds /\ ~Real(Shred(NoXfer, Abort))
      BY LinkAssumption DEF LinkAssumption, Shred, Shreds, Positions, NoXfer, Real
    <2>3. ShredsInTransfer'
      BY <2>1, <2>2, LegalSent DEF SendInv
    <2> QED
      BY <2>1, <2>3 DEF SendInv
  <1>4. CASE TxNext
    <2>1. txPos + 1 \in Nat
      BY DEF TypeOK
    <2> QED
      BY <1>4, <2>1, LegalWord DEF TxNext
  <1>5. CASE TxFinish
    <2>1. \/ txTimer' = Off /\ UNCHANGED <<txXfer, dataLength, dataQ>>
          \/ \E length \in Lengths : startTx(length)
      BY <1>5 DEF TxFinish
    <2> QED
      BY <2>1, LegalKept, LegalStarted
  <1>6. CASE TxRetransmit
    BY <1>6, LegalWord DEF TxRetransmit, SendInv, TypeOK
  <1>7. CASE TxGiveUp
    <2>1. \/ txTimer # Off /\ UNCHANGED <<txXfer, dataLength, txPos, dataQ>>
          \/ \E length \in Lengths : startTx(length)
      BY <1>7 DEF TxGiveUp
    <2> QED
      BY <2>1, LegalKept, LegalStarted
  <1>8. ASSUME UNCHANGED txVars,
               dataQ' = dataQ \/ (dataQ # <<>> /\ dataQ' = Tail(dataQ))
        PROVE  SendInv'
    BY <1>8, LegalKept DEF txVars
  <1>9. CASE handleRx
    BY <1>8, <1>9, PendingHead
       DEF handleRx, RxAborted, RxRetransmission, RxLate, RxNonsense, RxOutOfOrder,
           RxStore, RxFinish, OnShred, TypeOK
  <1>10. CASE rxTimeout \/ RxReboot \/ LoseShred \/ LoseAck \/ UNCHANGED vars
    BY <1>8, <1>10 DEF rxTimeout, RxReboot, LoseShred, LoseAck, vars
  <1> QED
    BY <1>1, <1>2, <1>3, <1>4, <1>5, <1>6, <1>7, <1>9, <1>10
       DEF Next, handleTx, txTimeout

\* The transmitter never reads behind the data it was given
\* (mmpNode.cpp:127-142, 318-333), whatever acknowledges arrive when.
THEOREM ShredsStayInTransfer == Spec => []ShredsInTransfer
  <1>1. Init => SendInv
    BY DEF Init, SendInv, ShredsInTransfer
  <1>2. TypeOK /\ OrderInv /\ SendInv /\ [Next]_vars => SendInv'
    BY SendStep DEF OrderInv
  <1>3. SendInv => ShredsInTransfer
    BY DEF SendInv
  <1> QED
    BY <1>1, <1>2, <1>3, TypeAndOrder, PTL DEF Spec
=============================================================================
