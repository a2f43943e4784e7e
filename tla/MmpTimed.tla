------------------------------ MODULE MmpTimed ------------------------------
(***************************************************************************)
(* MmpLink with a clock: the timers of both nodes run down together and a  *)
(* timeout happens when its timer has reached 0, not before.  On a prompt  *)
(* bus a message is handled before the next unit of time passes (a message *)
(* takes far less than the 125 ms of m_shredTimeout); on a bus that is not *)
(* prompt it may be held up, as the code's authors saw it happen           *)
(* (mmpNode.cpp:300-301).  The number of lost messages and of restarts is  *)
(* bounded, which tells how many faults a property survives.               *)
(***************************************************************************)
EXTENDS MmpLink

CONSTANTS
    Prompt,      \* messages are handled before time passes
    MaxLosses,   \* bound: messages lost
    MaxReboots   \* bound: restarts of the receiver

ASSUME TimedAssumption ==
    Prompt \in BOOLEAN /\ MaxLosses \in Nat /\ MaxReboots \in Nat

VARIABLES losses, reboots

faults    == <<losses, reboots>>
timedVars == <<vars, faults>>

\* The variables of both modules keep their types, and the faults their bounds.
TimedTypeOK == TypeOK /\ losses \in 0 .. MaxLosses /\ reboots \in 0 .. MaxReboots

TimedInit == Init /\ losses = 0 /\ reboots = 0

\* A running timer comes closer to its end.
Down(timer) == IF timer > 0 THEN timer - 1 ELSE timer

\* One unit of time, which no timer that has run down lets pass.
Tick ==
    /\ {txTimer, rxTimer} # {Off}
    /\ txTimer # 0 /\ (rxTimer # 0 \/ rxFatal)
    /\ Prompt => dataQ = <<>> /\ ackQ = <<>>
    /\ txTimer' = Down(txTimer) /\ rxTimer' = Down(rxTimer)
    /\ UNCHANGED <<txXfer, txPos, txRetry, txState, dataLength, reports,
                   rxWords, rxLength, rxCode, rxFatal, runs, verdict,
                   dataQ, ackQ, faults>>

Deliver == (handleTx \/ handleRx) /\ UNCHANGED faults
TxExpires == txTimer = 0 /\ txTimeout /\ UNCHANGED faults
RxExpires == rxTimer = 0 /\ rxTimeout /\ UNCHANGED faults

\* A stopped receiver misses a message without any fault of the bus.
Miss == rxFatal /\ LoseShred /\ UNCHANGED faults

Lose ==
    /\ losses < MaxLosses /\ losses' = losses + 1
    /\ (~rxFatal /\ LoseShred) \/ LoseAck
    /\ UNCHANGED reboots

Reboot ==
    /\ reboots < MaxReboots /\ reboots' = reboots + 1
    /\ RxReboot
    /\ UNCHANGED losses

TimedNext ==
    \/ startTransfer /\ UNCHANGED faults
    \/ Deliver \/ Miss \/ TxExpires \/ RxExpires \/ Tick
    \/ Lose \/ Reboot

\* The nodes' event loops handle messages and timeouts, and time passes.
Fairness ==
    /\ WF_timedVars(Deliver) /\ WF_timedVars(Miss)
    /\ WF_timedVars(TxExpires) /\ WF_timedVars(RxExpires)
    /\ WF_timedVars(Tick)

TimedSpec     == TimedInit /\ [][TimedNext]_timedVars
FairTimedSpec == TimedSpec /\ Fairness

-----------------------------------------------------------------------------
(* Why it works on a prompt bus: the transmitter stops and waits.  The       *)
(* invariants are inductive where the application waits for the end of a     *)
(* transfer and callbacks start no other one.                                *)

PromptBus == Prompt /\ AppWaits /\ ~NestedStarts

\* The transmitter has a transfer whose end the application waits for.
Working == txState = "transmitting" /\ ~Reported(txXfer)

UnderWay == dataQ # <<>> \/ ackQ # <<>>

Acked(pos) == \E code \in Codes : ackQ = <<Ack(pos, code)>>

\* At most one message is under way, the transmitter's word or the answer to it,
\* and the timer that was started with the word has not gone on.
OneMessage ==
    /\ dataQ = <<>> \/ dataQ = <<Shred(txXfer, txPos)>>
    /\ ackQ = <<>> \/ Acked(Abort) \/ Acked(txPos)
    /\ dataQ = <<>> \/ ackQ = <<>>
    /\ UnderWay => Working /\ txTimer = TxInterval(txPos, txLength)

\* What is not under way will be sent again, until the transfer is reported.
WaitInv ==
    /\ Working => txTimer # Off
    /\ txState = "idle" => txTimer = Off
    /\ txXfer = NoXfer => txState = "idle"
    /\ \A r \in reports : r.xfer \in 1 .. txXfer
    /\ txTimer # Off /\ Reported(txXfer) => txRetry > MaxRetry
    /\ txRetry > MaxRetry => Reported(txXfer)

StopAndWait == OneMessage /\ WaitInv

\* The words of SMmpHeader: the length and the CRC are behind the magic number,
\* and the length is not the last one.
HeaderShape ==
    LengthWord \in 1 .. HeaderWords - 2 /\ CrcWord \in 1 .. HeaderWords - 1

\* Once the receiver has answered the first word, what it stores behind it is of
\* the transmitter's transfer; and its length is that of the transfer whose
\* length word it has.
WordsInv ==
    /\ txPos > 0 \/ Acked(0) => \A k \in 2 .. rxPos : rxWords[k] = txXfer
    /\ rxPos > LengthWord => rxLength = dataLength[rxWords[LengthWord + 1]]

\* The receiver's timeout outlasts the retransmissions, and the application
\* transfers what the receiver can store (mmpNode.hpp:84-88, mmpTransfer.hpp:38).
LongEnough == (MaxRetry + 1) * ShredTimeout < ReceiverTimeout
Storable   == \A length \in Lengths : length <= MaxReceiveSize

\* The time the retransmissions take that a transmitter has left.
Patience(retry) == (MaxRetry - retry) * ShredTimeout

\* As long as it is not restarted, the receiver waits for the transmitter's word
\* or has it already, and will not give up before the transmitter does.
InStep ==
    /\ ~rxFatal
    /\ Working /\ txPos > 0 =>
        /\ txPos > LengthWord => rxLength = txLength
        /\ \/ rxPos \in {txPos, txPos + 1}
           \/ rxPos = 0 /\ isLast(txPos, txLength)
        /\ ~isLast(txPos, txLength) => rxTimer > txTimer + Patience(txRetry)
    /\ Acked(txPos) /\ ~isLast(txPos, txLength) =>
        rxPos = txPos + 1 /\ rxTimer = ReceiverTimeout
    /\ Acked(Abort) => txPos = 0

InStepInv == reboots = 0 => InStep

\* Few faults: no restart, no more losses than retries, and less time lost at
\* the end of a transfer than the receiver waits.  No handler returns what the
\* code of a transfer is before it is handled.
FewFaults ==
    /\ MaxReboots = 0 /\ MaxLosses <= MaxRetry
    /\ MaxLosses * ExecTimeout < ReceiverTimeout
    /\ invalidInit \notin HandlerCodes

\* The time for which the losses still to come can hold up the last word.
LossTime(lost) == (MaxLosses - lost) * ExecTimeout

\* How long the transmitter will go on waiting for what was lost.
Waiting == IF UnderWay THEN 0 ELSE txTimer

\* The receiver has the words the transmitter sent, or all but the last of them,
\* and does not give up before it gets the last word of the transfer.
Unhandled ==
    /\ rxPos \in {txPos, txPos + 1}
    /\ verdict[txXfer] = invalidInit
    /\ isLast(txPos, txLength) =>
        rxPos = txPos /\ ackQ = <<>> /\ rxTimer > Waiting + LossTime(losses)

\* The transfer is handled, and its result is what the receiver answers.
Handled ==
    /\ rxPos = 0 /\ isLast(txPos, txLength)
    /\ rxCode \in HandlerCodes /\ verdict[txXfer] = rxCode
    /\ ackQ = <<>> \/ ackQ = <<Ack(txPos, rxCode)>>

\* With few faults, no transfer is given up or aborted, and a transfer ends when
\* its result is reported; every retransmission is due to a loss.
ServiceInv ==
    /\ ~Acked(Abort)
    /\ Working => losses >= txRetry + (IF UnderWay THEN 0 ELSE 1)
    /\ ~Working => rxPos = 0 /\ (txXfer = NoXfer \/ (txState = "idle" /\ Reported(txXfer)))
    /\ Working => Unhandled \/ Handled
    /\ \A x \in Xfers : x > txXfer => verdict[x] = invalidInit

-----------------------------------------------------------------------------
(* Properties *)

\* When the transmitter is idle after a transfer, the transfer was handled
\* exactly once, which is what test_mmp.cpp waits for and then requires of
\* getTotalRxTransfers().
IdleMeansHandled == txState = "idle" /\ txXfer # NoXfer => runs[txXfer] = 1

\* Every transfer that is started is reported to the application.
Answered == \A x \in Xfers : txXfer = x ~> Reported(x)

\* The retransmissions make up for as many losses as there are retries:
\* "testing will simulate frame drops" (mmpNode.hpp:87).  One more, and the
\* transfer behind the one given up may end without a report.
AnsweredDespiteLosses ==
    \A x \in Xfers : txXfer = x ~> Reported(x) \/ losses > MaxRetry

\* As long as the receiver is not restarted, losses alone do not bring it to
\* the assertion "Does not make sense" (mmpNode.cpp:204): the timeouts are long
\* enough for the retransmissions.
NoFatalWithoutRestart == reboots = 0 => NoFatal

\* state() tells that the transmitter is at work on a transfer: "Handling mmp
\* transfer ack could setup another transfer" (mmpNode.cpp:491).
StateTellsTransmitting ==
    txTimer # Off /\ ~Reported(txXfer) => txState = "transmitting"

\* The protocol does what MmpService promises: exactly one handling and one
\* truthful report of each transfer, in order, and both eventually.
Service == INSTANCE MmpService WITH
    Results <- HandlerCodes, NoResult <- invalidInit,
    started <- txXfer, result <- verdict, told <- reports

ImplementsService == Service!Spec

\* Of that, what no step may break.
KeepsService == Service!Init /\ [][Service!Next]_(Service!serviceVars)
=============================================================================
