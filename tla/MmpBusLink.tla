----------------------------- MODULE MmpBusLink -----------------------------
(***************************************************************************)
(* A pair of nodes on the bus is a MmpLink.                                *)
(***************************************************************************)
EXTENDS MmpBus

\* What one transmitter a and its only counterpart b do on the bus is what
\* MmpLink says of two nodes that are alone, all the other traffic left out.
Link(a, b) == INSTANCE MmpLink WITH
    HandlerCodes <- {b}, AppWaits <- TRUE, NestedStarts <- FALSE,
    MayDrop <- TRUE, MayReboot <- TRUE,
    MaxStarts <- Starts(a), QueueCap <- 100,
    txXfer <- tx[a].xfer, txPos <- tx[a].pos, txRetry <- tx[a].retry,
    txState <- tx[a].state, txTimer <- tx[a].timer,
    rxWords <- [i \in 1 .. rxPos(b) |-> rx[b].words[i].xfer],
    rxLength <- rx[b].length, rxCode <- rx[b].code,
    rxTimer <- rx[b].timer, rxFatal <- rx[b].fatal,
    dataQ <- LET q == SelectSeq(inbox[b], LAMBDA m : m.fc = "dataBlob")
             IN  [i \in 1 .. Len(q) |-> [pos |-> q[i].pos, xfer |-> q[i].value]],
    ackQ  <- LET q == SelectSeq(inbox[a], LAMBDA m : m.fc = "ackDataBlob" /\ m.id = b)
             IN  [i \in 1 .. Len(q) |-> [pos |-> q[i].pos, code |-> q[i].value]],
    dataLength <- [x \in 0 .. Starts(a) |-> sent[a][x].length],
    runs <- runs[a], verdict <- verdict[a], reports <- reports[a]

\* The pairs to which this applies: the transmitter has one counterpart and does
\* not restart, and nobody else sends to that counterpart.
Pairs == {<<a, b>> \in Nodes \X Nodes :
             /\ Partners(a) = {b} /\ a \notin Restarting
             /\ \A o \in Nodes \ {a} : b \notin Partners(o)}

\* \A p \in Pairs : Link(p[1], p[2])!Spec, in a form TLC takes.
ImplementsLink ==
    /\ \A p \in Pairs : Link(p[1], p[2])!Init
    /\ [][\A p \in Pairs : [Link(p[1], p[2])!Next]_(Link(p[1], p[2])!vars)]_vars
=============================================================================
