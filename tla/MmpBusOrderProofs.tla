------------------------- MODULE MmpBusOrderProofs -------------------------
(***************************************************************************)
(* Why no transfer is handled twice on a bus: the words of each node's     *)
(* transfers arrive in the order they were sent, whoever else is at work,  *)
(* restarts or is lost.                                                    *)
(***************************************************************************)
EXTENDS MmpBusProofs

-----------------------------------------------------------------------------
(* Queues                                                                    *)

LEMMA AppendedTo ==
    ASSUME NEW S, NEW s \in Seq(S), NEW e \in S
    PROVE  /\ Append(s, e) \in Seq(S)
           /\ Len(Append(s, e)) = Len(s) + 1
           /\ \A i \in 1 .. Len(s) : Append(s, e)[i] = s[i]
           /\ Append(s, e)[Len(s) + 1] = e
  OBVIOUS

LEMMA TailOf ==
    ASSUME NEW S, NEW s \in Seq(S), s # <<>>
    PROVE  /\ Head(s) = s[1] /\ 1 \in 1 .. Len(s)
           /\ Tail(s) \in Seq(S)
           /\ \A i \in 1 .. Len(Tail(s)) :
                 i + 1 \in 1 .. Len(s) /\ Tail(s)[i] = s[i + 1]
  OBVIOUS

LEMMA ShredsOfTail ==
    ASSUME NEW S, NEW q \in Seq(S), q # <<>>
    PROVE  /\ ShredsIn(Tail(q)) \subseteq ShredsIn(q)
           /\ Real(Head(q)) => Head(q) \in ShredsIn(q)
           /\ Ordered(q) => Ordered(Tail(q))
           /\ Ordered(q) /\ Real(Head(q)) =>
                \A m \in ShredsIn(Tail(q)) : MayFollow(Head(q), m)
  <1>1. Head(q) = q[1] /\ 1 \in 1 .. Len(q) /\ Tail(q) \in Seq(S)
    BY TailOf
  <1>2. \A i \in 1 .. Len(Tail(q)) : i + 1 \in 1 .. Len(q) /\ Tail(q)[i] = q[i + 1]
    BY TailOf
  <1>3. ShredsIn(Tail(q)) \subseteq ShredsIn(q)
    BY <1>2 DEF ShredsIn
  <1>4. Real(Head(q)) => Head(q) \in ShredsIn(q)
    BY <1>1 DEF ShredsIn
  <1>5. \A i, j \in 1 .. Len(Tail(q)) : i < j => i + 1 < j + 1 /\ 1 < j + 1
    BY <1>1
  <1>6. Ordered(q) => Ordered(Tail(q))
    BY <1>2, <1>5 DEF Ordered
  <1>7. ASSUME Ordered(q), Real(Head(q)), NEW m \in ShredsIn(Tail(q))
        PROVE  MayFollow(Head(q), m)
    <2>1. PICK i \in 1 .. Len(Tail(q)) : m = Tail(q)[i] /\ Real(m)
      BY <1>7 DEF ShredsIn
    <2>2. i + 1 \in 1 .. Len(q) /\ m = q[i + 1] /\ 1 < i + 1
      BY <1>2, <2>1
    <2> QED
      BY <1>1, <1>7, <2>1, <2>2 DEF Ordered
  <1> QED
    BY <1>3, <1>4, <1>6, <1>7

LEMMA ShredsOfAppend ==
    ASSUME NEW S, NEW q \in Seq(S), NEW m \in S, Ordered(q),
           Real(m) => \A l \in ShredsIn(q) : MayFollow(l, m)
    PROVE  /\ Ordered(Append(q, m))
           /\ \A k \in ShredsIn(Append(q, m)) : k \in ShredsIn(q) \/ (k = m /\ Real(m))
  <1> DEFINE r == Append(q, m)
  <1>1. /\ Len(r) = Len(q) + 1 /\ r[Len(q) + 1] = m /\ Len(q) \in Nat
        /\ \A i \in 1 .. Len(q) : r[i] = q[i]
    BY AppendedTo
  <1> HIDE DEF r
  <1>2. \A i \in 1 .. Len(r) : i \in 1 .. Len(q) \/ i = Len(q) + 1
    BY <1>1
  <1>3. \A k \in ShredsIn(r) : k \in ShredsIn(q) \/ (k = m /\ Real(m))
    BY <1>1, <1>2 DEF ShredsIn
  <1>4. ASSUME NEW i \in 1 .. Len(r), NEW j \in 1 .. Len(r), i < j,
               Real(r[i]), Real(r[j])
        PROVE  MayFollow(r[i], r[j])
    <2>1. i \in 1 .. Len(q)
      BY <1>1, <1>4
    <2>2. CASE j \in 1 .. Len(q)
      BY <1>1, <1>4, <2>1, <2>2 DEF Ordered
    <2>3. CASE j = Len(q) + 1
      <3>1. r[i] = q[i] /\ q[i] \in ShredsIn(q) /\ r[j] = m
        BY <1>1, <1>4, <2>1, <2>3 DEF ShredsIn
      <3> QED
        BY <1>4, <3>1
    <2> QED
      BY <1>2, <2>2, <2>3
  <1>5. Ordered(r)
    BY <1>4 DEF Ordered
  <1> QED
    BY <1>3, <1>5 DEF r

\* What is under way and what is stored.
LEMMA ShredType ==
    ASSUME NEW o \in Nodes, NEW q \in Seq(Messages(o)), NEW m \in ShredsIn(q)
    PROVE  /\ m \in ShredsFor(o) /\ m.source \in Nodes /\ m.value \in Xfers(m.source)
           /\ m.pos \in Nat /\ m.value \in Nat /\ m.value # NoXfer
           /\ m.value \in 0 .. Starts(m.source)
  <1>1. PICK i \in 1 .. Len(q) : m = q[i] /\ Real(m)
    BY DEF ShredsIn
  <1>2. m \in Messages(o)
    BY <1>1
  <1>3. m \in ShredsFor(o) /\ m.pos # Abort
    BY <1>1, <1>2 DEF Messages, HonestAcks, Real
  <1>4. m.source \in Nodes /\ m.value \in Xfers(m.source) /\ m.pos \in Nat
    BY <1>3 DEF ShredsFor, Positions
  <1> QED
    BY <1>3, <1>4, NodeFacts DEF Xfers, NoXfer

LEMMA WordType ==
    ASSUME RxInv, NEW o \in Nodes, NEW w \in WordsOf(o)
    PROVE  w.source \in Nodes /\ w.xfer \in Xfers(w.source) /\ w.xfer \in Nat
  <1>1. rx[o].words \in Seq(Words)
    BY DEF RxInv, RxChannels
  <1>2. w \in Words
    BY <1>1 DEF WordsOf, rxPos
  <1> QED
    BY <1>2, NodeFacts DEF Words, Xfers

-----------------------------------------------------------------------------
(* Steps that bring nothing new to a receiver                                *)

\* What node n puts into the inbox of node o is of its own transfer to o, and
\* a first word only as long as no later one was sent.
Resent(n, o, m) ==
    /\ Real(m) /\ m.source = n /\ m.value = tx[n].xfer
    /\ tx[n].counter # NoNode /\ sent[n][tx[n].xfer].to = o
    /\ m.pos = 0 => ~PastFirst(n)

LEMMA ResentFollows ==
    ASSUME BusInv, OrderInv, NEW n \in Nodes, NEW o \in Nodes, NEW m, Resent(n, o, m),
           NEW l \in ShredsIn(inbox[o])
    PROVE  MayFollow(l, m)
  <1> SUFFICES ASSUME l.source = n
               PROVE  l.value <= m.value /\ (l.value = m.value /\ m.pos = 0 => l.pos = 0)
    BY DEF MayFollow, Resent
  <1>1. l.value \in Xfers(n) /\ l.pos \in Nat /\ l.value \in Nat
    BY ShredType DEF BusInv, InboxInv
  <1>2. sent[n][l.value].to = o /\ o # NoNode
    BY NodeFacts DEF OrderInv, OnlyStarted
  <1>3. l.value <= tx[n].xfer
    BY <1>1, <1>2 DEF OrderInv, OnlyStarted, Resent
  <1>4. l.value = tx[n].xfer /\ l.pos > 0 => PastFirst(n)
    BY DEF OrderInv, TransmitterPastFirst
  <1> QED
    BY <1>1, <1>3, <1>4 DEF Resent

LEMMA QuietOrder ==
    ASSUME BusInv, OrderInv, NEW n \in Nodes, UNCHANGED <<sent, runs>>,
           InboxInv', RxInv',
           \A o \in Nodes : WordsOf(o)' \subseteq WordsOf(o),
           \A o \in Nodes : o # n => tx'[o] = tx[o],
           tx'[n].xfer \in {tx[n].xfer, NoXfer},
           tx'[n].counter # NoNode =>
                tx'[n].xfer = tx[n].xfer /\ tx[n].counter # NoNode,
           PastFirst(n) => PastFirst(n)',
           \A o \in Nodes : Ordered(inbox'[o]),
           \A o \in Nodes : \A m \in ShredsIn(inbox'[o]) :
                \/ m \in ShredsIn(inbox[o])
                \/ Resent(n, o, m) /\ (m.pos > 0 => PastFirst(n)')
    PROVE  OrderInv'
  <1>1. \A o \in Nodes : \A m \in ShredsIn(inbox[o]) :
            /\ m.source \in Nodes /\ m.value \in Xfers(m.source) /\ m.value # NoXfer
            /\ m.pos \in Nat /\ m.value \in Nat
    BY ShredType DEF BusInv, InboxInv
  <1>2. \A o \in Nodes : \A w \in WordsOf(o) :
            w.source \in Nodes /\ w.xfer \in Xfers(w.source) /\ w.xfer \in Nat
    BY WordType DEF BusInv
  <1>3. \A o \in Nodes : o # n => PastFirst(o)' = PastFirst(o)
    BY DEF PastFirst
  <1>4. \A o \in Nodes : o # NoNode
    BY NodeFacts
  <1>5. OnlyStarted'
    <2>1. ASSUME NEW o \in Nodes, NEW x \in Xfers(o)
          PROVE  /\ sent'[o][x].to \in {NoNode, Plan[o][x]}
                 /\ sent'[o][x].to # NoNode /\ tx'[o].counter # NoNode
                        => x <= tx'[o].xfer
                 /\ runs'[o][x] > 0 => sent'[o][x].to # NoNode
      BY DEF OrderInv, OnlyStarted
    <2>2. ASSUME NEW o \in Nodes, NEW m \in ShredsIn(inbox'[o])
          PROVE  sent'[m.source][m.value].to = o
      BY <2>2 DEF OrderInv, OnlyStarted, Resent
    <2>3. ASSUME NEW o \in Nodes, NEW w \in WordsOf(o)'
          PROVE  sent'[w.source][w.xfer].to = o
      BY <2>3 DEF OrderInv, OnlyStarted
    <2> QED
      BY <2>1, <2>2, <2>3 DEF OnlyStarted
  <1>6. SentInOrder'
    BY DEF SentInOrder, Ordered, MayFollow, Real
  <1>7. TransmitterPastFirst'
    <2> SUFFICES ASSUME NEW o \in Nodes, NEW m \in ShredsIn(inbox'[o]),
                        m.value = tx'[m.source].xfer, m.pos > 0
                 PROVE  PastFirst(m.source)'
      BY DEF TransmitterPastFirst, ShredsIn, Real
    <2>1. CASE m \in ShredsIn(inbox[o])
      <3>1. m.source \in Nodes /\ m.value # NoXfer
        BY <1>1, <2>1
      <3>2. m.value = tx[m.source].xfer
        BY <3>1
      <3>3. PastFirst(m.source)
        BY <2>1, <3>2 DEF OrderInv, TransmitterPastFirst
      <3> QED
        BY <1>3, <3>1, <3>3
    <2>2. CASE Resent(n, o, m) /\ PastFirst(n)'
      BY <2>2 DEF Resent
    <2> QED
      BY <2>1, <2>2
  <1>8. ReceiverInOrder'
    <2> SUFFICES ASSUME NEW o \in Nodes, NEW m \in ShredsIn(inbox'[o]),
                        NEW w \in WordsOf(o), w.source = m.source
                 PROVE  w.xfer <= m.value
      BY DEF ReceiverInOrder, ShredsIn, Real
    <2>1. CASE m \in ShredsIn(inbox[o])
      BY <2>1 DEF OrderInv, ReceiverInOrder
    <2>2. CASE Resent(n, o, m)
      BY <1>2, <1>4, <2>2 DEF OrderInv, OnlyStarted, Resent
    <2> QED
      BY <2>1, <2>2
  <1>9. NothingLeftToRun'
    <2> SUFFICES ASSUME NEW s \in Nodes, NEW x \in Xfers(s), OnlySender(s, x),
                        runs[s][x] > 0
                 PROVE  /\ \A m \in ShredsIn(inbox'[Plan[s][x]]) : m.source = s =>
                              m.value > x \/ (m.value = x /\ m.pos > 0)
                        /\ \A w \in WordsOf(Plan[s][x])' : w.source = s => w.xfer > x
                        /\ x = tx'[s].xfer => PastFirst(s)'
      BY DEF NothingLeftToRun, ShredsIn, Real, OnlySender
    <2>1. /\ \A m \in ShredsIn(inbox[Plan[s][x]]) : m.source = s =>
                m.value > x \/ (m.value = x /\ m.pos > 0)
          /\ \A w \in WordsOf(Plan[s][x]) : w.source = s => w.xfer > x
          /\ x = tx[s].xfer => PastFirst(s)
      BY DEF OrderInv, NothingLeftToRun
    <2>2. Plan[s][x] \in Nodes /\ x \in Nat /\ x # NoXfer
      BY NodeFacts DEF Xfers, NoXfer
    <2>3. ASSUME NEW m \in ShredsIn(inbox'[Plan[s][x]]), m.source = s
          PROVE  m.value > x \/ (m.value = x /\ m.pos > 0)
      <3>1. CASE m \in ShredsIn(inbox[Plan[s][x]])
        BY <2>1, <2>3, <3>1
      <3>2. CASE Resent(n, Plan[s][x], m)
        <4>1. m \in ShredsFor(Plan[s][x]) /\ m.pos \in Nat /\ m.value \in Nat
          <5>1. inbox'[Plan[s][x]] \in Seq(Messages(Plan[s][x]))
            BY <2>2 DEF InboxInv, Messages, ShredsFor, HonestAcks
          <5> QED
            BY <2>2, <5>1, ShredType
        <4>2. s = n /\ m.value = tx[s].xfer /\ x <= tx[s].xfer
          BY <2>2, <2>3, <3>2 DEF OrderInv, OnlyStarted, Resent
        <4>3. m.value = x => m.pos > 0
          BY <2>1, <3>2, <4>1, <4>2 DEF Resent
        <4> QED
          BY <2>2, <4>1, <4>2, <4>3
      <3> QED
        BY <2>2, <2>3, <3>1, <3>2
    <2>4. \A w \in WordsOf(Plan[s][x])' : w.source = s => w.xfer > x
      BY <2>1, <2>2
    <2>5. x = tx'[s].xfer => PastFirst(s)'
      BY <1>3, <2>1, <2>2
    <2> QED
      BY <2>3, <2>4, <2>5
  <1>10. AtMostOnce'
    BY DEF OrderInv, AtMostOnce, OnlySender
  <1> QED
    BY <1>5, <1>6, <1>7, <1>8, <1>9, <1>10 DEF OrderInv

\* The messages that the queues q hold were all under way before.
FromInbox(q) ==
    \A o \in Nodes : /\ q[o] \in Seq(Messages(o)) /\ Ordered(q[o])
                     /\ ShredsIn(q[o]) \subseteq ShredsIn(inbox[o])

LEMMA OldQueues ==
    ASSUME BusInv, OrderInv, NEW n \in Nodes
    PROVE  FromInbox(inbox) /\ (inbox[n] # <<>> => FromInbox(Taken(n)))
  <1>1. DOMAIN inbox = Nodes /\ \A o \in Nodes : inbox[o] \in Seq(Messages(o))
    BY DEF BusInv, InboxInv
  <1>2. \A o \in Nodes : Ordered(inbox[o])
    BY DEF OrderInv, SentInOrder
  <1>3. ASSUME inbox[n] # <<>> PROVE FromInbox(Taken(n))
    <2>1. \A o \in Nodes : Taken(n)[o] = IF o = n THEN Tail(inbox[n]) ELSE inbox[o]
      BY <1>1 DEF Taken
    <2>2. Ordered(Tail(inbox[n])) /\ ShredsIn(Tail(inbox[n])) \subseteq ShredsIn(inbox[n])
      BY <1>1, <1>2, <1>3, ShredsOfTail
    <2>3. \A o \in Nodes : Taken(n)[o] \in Seq(Messages(o))
      BY <1>3, TakenFacts DEF BusInv
    <2> QED
      BY <1>2, <2>1, <2>2, <2>3 DEF FromInbox
  <1> QED
    BY <1>1, <1>2, <1>3 DEF FromInbox

LEMMA BroadcastOrder ==
    ASSUME NEW n \in Nodes, NEW m, NEW q, FromInbox(q),
           \A o \in Nodes : Receives(o, m) => m \in Messages(o),
           Real(m) => \A o \in Nodes : Receives(o, m) =>
                          \A l \in ShredsIn(inbox[o]) : MayFollow(l, m),
           inbox' = Broadcast(n, m, q), NEW o \in Nodes
    PROVE  /\ Ordered(inbox'[o])
           /\ \A k \in ShredsIn(inbox'[o]) :
                 k \in ShredsIn(q[o]) \/ (k = m /\ Real(m) /\ Receives(o, m))
  <1>1. inbox'[o] = IF o # n /\ Receives(o, m) THEN Append(q[o], m) ELSE q[o]
    BY DEF Broadcast
  <1>2. /\ q[o] \in Seq(Messages(o)) /\ Ordered(q[o])
        /\ ShredsIn(q[o]) \subseteq ShredsIn(inbox[o])
    BY DEF FromInbox
  <1>3. CASE o # n /\ Receives(o, m)
    <2>1. m \in Messages(o) /\ (Real(m) => \A l \in ShredsIn(q[o]) : MayFollow(l, m))
      BY <1>2, <1>3
    <2> QED
      BY <1>1, <1>2, <1>3, <2>1, ShredsOfAppend
  <1>4. CASE ~(o # n /\ Receives(o, m))
    BY <1>1, <1>2, <1>4
  <1> QED
    BY <1>3, <1>4

\* The channel of node n does not go back to its first word, nor start anew.
GoesOn(n) ==
    /\ \A o \in Nodes : o # n => tx'[o] = tx[o]
    /\ tx'[n].xfer \in {tx[n].xfer, NoXfer}
    /\ tx'[n].counter # NoNode =>
          tx'[n].xfer = tx[n].xfer /\ tx[n].counter # NoNode
    /\ PastFirst(n) => PastFirst(n)'

WordsKept == \A o \in Nodes : WordsOf(o)' \subseteq WordsOf(o)

\* Queues q, with or without a message m that node n sends.
LEMMA SilentOrder ==
    ASSUME BusInv, OrderInv, BusInv', NEW n \in Nodes, UNCHANGED <<sent, runs>>,
           WordsKept, GoesOn(n), NEW q, FromInbox(q), inbox' = q
    PROVE  OrderInv'
  <1>1. \A o \in Nodes : Ordered(inbox'[o])
    BY DEF FromInbox
  <1>2. \A o \in Nodes : \A m \in ShredsIn(inbox'[o]) : m \in ShredsIn(inbox[o])
    BY DEF FromInbox
  <1>3. InboxInv' /\ RxInv'
    BY DEF BusInv
  <1> QED
    BY <1>1, <1>2, <1>3, QuietOrder DEF WordsKept, GoesOn

LEMMA AnswerOrder ==
    ASSUME BusInv, OrderInv, BusInv', NEW n \in Nodes, UNCHANGED <<sent, runs>>,
           WordsKept, GoesOn(n), NEW q, FromInbox(q), NEW m, inbox' = Broadcast(n, m, q),
           \A o \in Nodes : Receives(o, m) => m \in Messages(o),
           Real(m) => \A o \in Nodes : Receives(o, m) =>
                          Resent(n, o, m) /\ (m.pos > 0 => PastFirst(n)')
    PROVE  OrderInv'
  <1>1. Real(m) => \A o \in Nodes : Receives(o, m) =>
                       \A l \in ShredsIn(inbox[o]) : MayFollow(l, m)
    BY ResentFollows
  <1>2. ASSUME NEW o \in Nodes
        PROVE  /\ Ordered(inbox'[o])
               /\ \A k \in ShredsIn(inbox'[o]) :
                     k \in ShredsIn(q[o]) \/ (k = m /\ Real(m) /\ Receives(o, m))
    BY <1>1, BroadcastOrder
  <1>3. \A o \in Nodes : \A k \in ShredsIn(inbox'[o]) :
            \/ k \in ShredsIn(inbox[o])
            \/ Resent(n, o, k) /\ (k.pos > 0 => PastFirst(n)')
    BY <1>2 DEF FromInbox
  <1>4. InboxInv' /\ RxInv'
    BY DEF BusInv
  <1> QED
    BY <1>2, <1>3, <1>4, QuietOrder DEF WordsKept, GoesOn

LEMMA ChannelGoesOn ==
    ASSUME BusInv, NEW n \in Nodes
    PROVE  /\ tx' = tx => GoesOn(n)
           /\ rx' = rx => WordsKept
           /\ \A t : /\ tx' = [tx EXCEPT ![n] = t]
                     /\ t.xfer = tx[n].xfer /\ t.counter = tx[n].counter
                     /\ PastFirst(n) => t.pos > 0 \/ t.timer = Off
                     => GoesOn(n)
  <1>1. DOMAIN tx = Nodes
    BY DEF BusInv, TxInv
  <1>2. tx' = tx => GoesOn(n)
    BY DEF GoesOn, PastFirst
  <1>3. rx' = rx => WordsKept
    BY DEF WordsKept, WordsOf, rxPos
  <1>4. ASSUME NEW t, tx' = [tx EXCEPT ![n] = t],
               t.xfer = tx[n].xfer, t.counter = tx[n].counter,
               PastFirst(n) => t.pos > 0 \/ t.timer = Off
        PROVE  GoesOn(n)
    <2>1. tx'[n] = t /\ \A o \in Nodes : o # n => tx'[o] = tx[o]
      BY <1>1, <1>4
    <2> QED
      BY <1>4, <2>1 DEF GoesOn, PastFirst
  <1> QED
    BY <1>2, <1>3, <1>4

-----------------------------------------------------------------------------
(* The transmit channels                                                     *)

\* The shred of a channel that goes on is of the transfer it is about.
LEMMA ShredOrder ==
    ASSUME BusInv, OrderInv, BusInv', NEW n \in Nodes, UNCHANGED <<sent, runs, rx>>,
           NEW t \in TxChannels(n), t.xfer = tx[n].xfer, t.counter = tx[n].counter,
           t.counter # NoNode, NEW length, NEW q, FromInbox(q),
           sendTxShred(n, t, length, q),
           t.pos = 0 => ~PastFirst(n)
    PROVE  OrderInv'
  <1> DEFINE m == Shred(t.counter, n, t.pos, t.xfer)
             u == [t EXCEPT !.timer =
                      IF isLast(t.pos, length) THEN ExecTimeout ELSE ShredTimeout]
  <1>1. t.xfer \in Xfers(n) /\ sent[n][t.xfer].to = t.counter
    BY DEF BusInv, CounterpartInv
  <1>2. t.pos \in Nat /\ t.pos \in Positions /\ t.pos # Abort /\ t.xfer \in Nat
    BY <1>1, NodeFacts DEF TxChannels, Positions, Abort, Xfers
  <1>3. inbox' = Broadcast(n, m, q) /\ tx' = [tx EXCEPT ![n] = u]
    BY DEF sendTxShred
  <1>4. u.xfer = t.xfer /\ u.counter = t.counter /\ u.pos = t.pos
    BY DEF TxChannels
  <1>5. \A o \in Nodes : Receives(o, m) => m \in Messages(o)
    BY <1>1, <1>2, ShredFacts
  <1>6. /\ m.fc = "dataBlob" /\ m.id = t.counter /\ m.source = n /\ m.pos = t.pos
        /\ m.value = t.xfer
    BY DEF Shred
  <1>7. PastFirst(n) => u.pos > 0
    BY <1>2, <1>4
  <1> HIDE DEF m, u
  <1>8. GoesOn(n) /\ WordsKept
    BY <1>3, <1>4, <1>7, ChannelGoesOn
  <1>9. m.pos > 0 => PastFirst(n)'
    <2>1. tx'[n] = u
      BY <1>3 DEF BusInv, TxInv
    <2> QED
      BY <1>4, <1>6, <2>1 DEF PastFirst
  <1>10. \A o \in Nodes : Receives(o, m) => Resent(n, o, m)
    BY <1>1, <1>2, <1>6 DEF Receives, Resent, Real
  <1> QED
    BY <1>3, <1>5, <1>8, <1>9, <1>10, AnswerOrder

\* A channel whose timer is stopped is past its first word.
LEMMA StoppedGoesOn ==
    ASSUME BusInv, NEW n \in Nodes, NEW t,
           t.xfer = tx[n].xfer, t.counter = tx[n].counter, t.timer = Off,
           tx' = [tx EXCEPT ![n] = t]
    PROVE  GoesOn(n)
  BY ChannelGoesOn

LEMMA HandleTxOrder ==
    ASSUME BusInv, OrderInv, BusInv', NEW n \in Nodes, handleTx(n)
    PROVE  OrderInv'
  <1>1. tx[n] \in TxChannels(n)
    BY DEF BusInv, TxInv
  <1>2. /\ Stopped(n).xfer = tx[n].xfer /\ Stopped(n).counter = tx[n].counter
        /\ Stopped(n).timer = Off /\ Stopped(n) \in TxChannels(n)
        /\ Advanced(n).xfer = tx[n].xfer /\ Advanced(n).counter = tx[n].counter
        /\ Advanced(n).timer = Off /\ Advanced(n) \in TxChannels(n)
    BY <1>1, StoppedFacts
  <1>3. \A m \in Acked(n) : inbox[n] # <<>> /\ tx[n].counter # NoNode
    BY AckedFacts
  <1>4. inbox[n] # <<>> => FromInbox(Taken(n))
    BY OldQueues
  <1>5. CASE TxForeign(n)
    <2>1. \E m \in Pending(n, "ackDataBlob") : TRUE
      BY <1>5 DEF TxForeign
    <2>2. FromInbox(Taken(n))
      BY <1>4, <2>1 DEF Pending
    <2>3. inbox' = Taken(n) /\ UNCHANGED <<tx, rx, sent, runs>>
      BY <1>5 DEF TxForeign, history
    <2>4. GoesOn(n) /\ WordsKept
      BY <2>3, ChannelGoesOn
    <2> QED
      BY <2>2, <2>3, <2>4, SilentOrder
  <1>6. CASE TxAborted(n)
    <2> DEFINE t == [Stopped(n) EXCEPT !.pos = 0, !.retry = 0, !.state = "idle"]
    <2>1. inbox' = Taken(n) /\ UNCHANGED <<rx, sent, runs>> /\ FromInbox(Taken(n))
          /\ tx' = [tx EXCEPT ![n] = t]
      BY <1>3, <1>4, <1>6 DEF TxAborted, history
    <2>2. t.xfer = tx[n].xfer /\ t.counter = tx[n].counter /\ t.timer = Off
      BY <1>2 DEF TxChannels
    <2>3. GoesOn(n) /\ WordsKept
      <3> HIDE DEF t
      <3> QED
        BY <2>1, <2>2, StoppedGoesOn, ChannelGoesOn
    <2> QED
      BY <2>1, <2>3, SilentOrder
  <1>7. CASE TxOldAck(n)
    <2>1. inbox' = Taken(n) /\ UNCHANGED <<rx, sent, runs>> /\ FromInbox(Taken(n))
          /\ tx' = [tx EXCEPT ![n] = Stopped(n)]
      BY <1>3, <1>4, <1>7 DEF TxOldAck, history
    <2>2. GoesOn(n) /\ WordsKept
      BY <1>2, <2>1, StoppedGoesOn, ChannelGoesOn
    <2> QED
      BY <2>1, <2>2, SilentOrder
  <1>8. CASE TxImplausible(n)
    <2> DEFINE m == Shred(tx[n].counter, n, Abort, NoXfer)
    <2>1. inbox' = Broadcast(n, m, Taken(n)) /\ UNCHANGED <<rx, sent, runs>>
          /\ FromInbox(Taken(n)) /\ tx' = [tx EXCEPT ![n] = Stopped(n)]
      BY <1>3, <1>4, <1>8 DEF TxImplausible, history
    <2>2. GoesOn(n) /\ WordsKept
      BY <1>2, <2>1, StoppedGoesOn, ChannelGoesOn
    <2>3. \A o \in Nodes : Receives(o, m) => m \in Messages(o)
      <3>1. NoXfer \in Nat /\ Abort \in Positions
        BY DEF NoXfer, Positions
      <3> QED
        BY <3>1, ShredFacts
    <2>4. ~Real(m)
      BY DEF Real, Shred
    <2> QED
      BY <2>1, <2>2, <2>3, <2>4, AnswerOrder
  <1>9. CASE TxNext(n)
    <2>1. /\ sendTxShred(n, Advanced(n), txLength(n), Taken(n))
          /\ UNCHANGED <<rx, sent, runs>> /\ FromInbox(Taken(n))
          /\ tx[n].counter # NoNode
      BY <1>3, <1>4, <1>9 DEF TxNext, history
    <2>2. Advanced(n).pos # 0
      <3>1. PICK t \in TxChannels(n) : t = Stopped(n) /\ t.pos = tx[n].pos
        BY <1>1, <1>2 DEF Stopped, TxChannels
      <3>2. Advanced(n).pos = t.pos + 1
        BY <3>1 DEF Advanced, TxChannels
      <3>3. t.pos \in Nat
        BY DEF TxChannels
      <3> QED
        BY <3>2, <3>3
    <2> QED
      BY <1>2, <2>1, <2>2, ShredOrder
  <1>10. CASE TxFinish(n)
    <2> DEFINE t == [Advanced(n) EXCEPT !.state = "idle"]
    <2>1. inbox' = Taken(n) /\ UNCHANGED <<rx, sent, runs>> /\ FromInbox(Taken(n))
          /\ tx' = [tx EXCEPT ![n] = t]
      BY <1>3, <1>4, <1>10 DEF TxFinish
    <2>2. t.xfer = tx[n].xfer /\ t.counter = tx[n].counter /\ t.timer = Off
      BY <1>2 DEF TxChannels
    <2>3. GoesOn(n) /\ WordsKept
      <3> HIDE DEF t
      <3> QED
        BY <2>1, <2>2, StoppedGoesOn, ChannelGoesOn
    <2> QED
      BY <2>1, <2>3, SilentOrder
  <1> QED
    BY <1>5, <1>6, <1>7, <1>8, <1>9, <1>10 DEF handleTx

LEMMA TimeoutOrder ==
    ASSUME BusInv, OrderInv, BusInv', NEW n \in Nodes, TxRetransmit(n) \/ TxGiveUp(n)
    PROVE  OrderInv'
  <1>1. tx[n] \in TxChannels(n) /\ FromInbox(inbox) /\ MaxRetry \in Nat
    BY OldQueues, NodeFacts DEF BusInv, TxInv
  <1>2. CASE TxRetransmit(n)
    <2> DEFINE t == [tx[n] EXCEPT !.retry = @ + 1]
    <2>1. /\ sendTxShred(n, t, txLength(n), inbox) /\ tx[n].timer # Off
          /\ tx[n].retry < MaxRetry /\ UNCHANGED <<rx, sent, runs>>
      BY <1>2 DEF TxRetransmit, history
    <2>2. /\ t \in TxChannels(n) /\ t.xfer = tx[n].xfer /\ t.counter = tx[n].counter
          /\ t.pos = tx[n].pos
      BY <1>1, <2>1 DEF TxChannels
    <2>3. t.counter # NoNode /\ (t.pos = 0 => ~PastFirst(n))
      BY <2>1, <2>2 DEF BusInv, TxInv, PastFirst
    <2> HIDE DEF t
    <2> QED
      BY <1>1, <2>1, <2>2, <2>3, ShredOrder
  <1>3. CASE TxGiveUp(n)
    <2> DEFINE t == GivenUp(n)
    <2>1. inbox' = inbox /\ tx' = [tx EXCEPT ![n] = t] /\ UNCHANGED <<rx, sent, runs>>
      BY <1>3 DEF TxGiveUp
    <2>2. /\ t.xfer = tx[n].xfer /\ t.counter = tx[n].counter /\ t.pos = tx[n].pos
          /\ t.timer \in {Off, tx[n].timer}
      BY <1>1 DEF TxChannels, GivenUp
    <2>3. GoesOn(n) /\ WordsKept
      <3> HIDE DEF t
      <3> QED
        BY <2>1, <2>2, ChannelGoesOn DEF PastFirst
    <2> QED
      BY <1>1, <2>1, <2>3, SilentOrder
  <1> QED
    BY <1>2, <1>3

\* A new transfer is later than all that node n has started.
LEMMA StartOrder ==
    ASSUME BusInv, OrderInv, BusInv', NEW n \in Nodes, startTransfer(n)
    PROVE  OrderInv'
  <1>1. PICK length \in Lengths, x \in Xfers(n) :
            /\ \A y \in Xfers(n) : sent[n][y].to # NoNode <=> y < x
            /\ sent' = [sent EXCEPT ![n][x] = [to |-> Plan[n][x], length |-> length]]
            /\ sendTxShred(n, txStarted(x, Plan[n][x]), length, inbox)
    BY DEF startTransfer
  <1>2. UNCHANGED <<rx, runs>>
    BY DEF startTransfer
  <1>3. /\ x \in Nat /\ x \in 0 .. Starts(n) /\ Plan[n][x] \in Nodes
        /\ \A o \in Nodes : o # NoNode
        /\ \A o \in Nodes : \A y \in Xfers(o) : y \in Nat /\ y \in 0 .. Starts(o)
    BY NodeFacts DEF Xfers
  <1>4. PICK m : /\ m.fc = "dataBlob" /\ m.id = Plan[n][x] /\ m.source = n
                 /\ m.pos = 0 /\ m.value = x /\ inbox' = Broadcast(n, m, inbox)
                 /\ \A o \in Nodes : Receives(o, m) => m \in Messages(o)
    <2> DEFINE m == Shred(Plan[n][x], n, 0, x)
    <2>1. inbox' = Broadcast(n, m, inbox)
      BY <1>1 DEF sendTxShred, txStarted
    <2>2. \A o \in Nodes : Receives(o, m) => m \in Messages(o)
      BY <1>3, ShredFacts DEF Positions
    <2> QED
      BY <2>1, <2>2 DEF Shred
  <1>5. \A o \in Nodes : Receives(o, m) => o = Plan[n][x]
    BY <1>4 DEF Receives
  <1>6. /\ tx'[n].xfer = x /\ \A o \in Nodes : o # n => tx'[o] = tx[o]
    <2> DEFINE u == [txStarted(x, Plan[n][x]) EXCEPT !.timer =
                        IF isLast(0, length) THEN ExecTimeout ELSE ShredTimeout]
    <2>1. tx' = [tx EXCEPT ![n] = u] /\ u.xfer = x
      BY <1>1 DEF sendTxShred, txStarted
    <2> HIDE DEF u
    <2> QED
      BY <2>1 DEF BusInv, TxInv
  <1>7. /\ sent'[n][x].to = Plan[n][x]
        /\ \A o \in Nodes : \A y \in Xfers(o) :
              ~(o = n /\ y = x) => sent'[o][y] = sent[o][y]
    <2>1. DOMAIN sent = Nodes /\ DOMAIN sent[n] = 0 .. Starts(n)
      BY DEF BusInv, SentInv
    <2>2. PICK e : e = [to |-> Plan[n][x], length |-> length]
      OBVIOUS
    <2>3. e.to = Plan[n][x] /\ sent' = [sent EXCEPT ![n][x] = e]
      BY <1>1, <2>2
    <2>4. sent'[n] = [sent[n] EXCEPT ![x] = e]
          /\ \A o \in Nodes : o # n => sent'[o] = sent[o]
      BY <2>1, <2>3
    <2>5. sent'[n][x] = e /\ \A y \in Xfers(n) : y # x => sent'[n][y] = sent[n][y]
      BY <1>3, <2>1, <2>4
    <2> QED
      BY <2>3, <2>4, <2>5
  <1>8. sent[n][x].to = NoNode
    BY <1>1, <1>3
  \* What there is of node n's transfers is of earlier ones.
  <1>9. ASSUME NEW o \in Nodes, NEW l \in ShredsIn(inbox[o])
        PROVE  /\ l.source \in Nodes /\ l.value \in Xfers(l.source) /\ l.value \in Nat
               /\ l.pos \in Nat /\ sent[l.source][l.value].to = o
               /\ sent'[l.source][l.value].to = o
               /\ l.source = n => l.value < x
    <2>1. /\ l.source \in Nodes /\ l.value \in Xfers(l.source) /\ l.value \in Nat
          /\ l.pos \in Nat
      BY ShredType DEF BusInv, InboxInv
    <2>2. sent[l.source][l.value].to = o
      BY DEF OrderInv, OnlyStarted
    <2> QED
      BY <1>1, <1>3, <1>7, <1>8, <2>1, <2>2
  <1>10. ASSUME NEW o \in Nodes, NEW w \in WordsOf(o)
         PROVE  /\ w.xfer \in Nat /\ sent'[w.source][w.xfer].to = o
                /\ w.source = n => w.xfer < x
    <2>1. w.source \in Nodes /\ w.xfer \in Xfers(w.source) /\ w.xfer \in Nat
      BY WordType DEF BusInv
    <2>2. sent[w.source][w.xfer].to = o
      BY DEF OrderInv, OnlyStarted
    <2> QED
      BY <1>1, <1>3, <1>7, <1>8, <2>1, <2>2
  <1>11. ASSUME NEW o \in Nodes
         PROVE  /\ Ordered(inbox'[o])
                /\ \A k \in ShredsIn(inbox'[o]) :
                      k \in ShredsIn(inbox[o]) \/ (k = m /\ o = Plan[n][x])
    <2>1. \A p \in Nodes : Receives(p, m) =>
             \A l \in ShredsIn(inbox[p]) : MayFollow(l, m)
      BY <1>3, <1>4, <1>9 DEF MayFollow
    <2>2. FromInbox(inbox)
      BY OldQueues
    <2> QED
      BY <1>4, <1>5, <2>1, <2>2, BroadcastOrder
  <1>12. WordsKept
    BY <1>2 DEF WordsKept, WordsOf, rxPos
  <1>13. OnlyStarted'
    <2>1. ASSUME NEW o \in Nodes, NEW y \in Xfers(o)
          PROVE  /\ sent'[o][y].to \in {NoNode, Plan[o][y]}
                 /\ sent'[o][y].to # NoNode /\ tx'[o].counter # NoNode
                        => y <= tx'[o].xfer
                 /\ runs'[o][y] > 0 => sent'[o][y].to # NoNode
      <3>1. CASE o = n /\ y = x
        BY <1>3, <1>6, <1>7, <3>1
      <3>2. CASE o = n /\ y # x
        <4>1. sent'[o][y] = sent[o][y] /\ y \in Nat
          BY <1>3, <1>7, <3>2
        <4>2. /\ sent[o][y].to \in {NoNode, Plan[o][y]}
              /\ runs[o][y] > 0 => sent[o][y].to # NoNode
          BY DEF OrderInv, OnlyStarted
        <4>3. sent[o][y].to # NoNode => y < x
          BY <1>1, <3>2
        <4> QED
          BY <1>2, <1>3, <1>6, <3>2, <4>1, <4>2, <4>3
      <3>3. CASE o # n
        BY <1>2, <1>6, <1>7, <3>3 DEF OrderInv, OnlyStarted
      <3> QED
        BY <3>1, <3>2, <3>3
    <2>2. ASSUME NEW o \in Nodes, NEW k \in ShredsIn(inbox'[o])
          PROVE  sent'[k.source][k.value].to = o
      BY <1>4, <1>7, <1>9, <1>11
    <2>3. ASSUME NEW o \in Nodes, NEW w \in WordsOf(o)'
          PROVE  sent'[w.source][w.xfer].to = o
      BY <1>10, <1>12 DEF WordsKept
    <2> QED
      BY <2>1, <2>2, <2>3 DEF OnlyStarted
  <1>14. SentInOrder'
    BY <1>11 DEF SentInOrder, Ordered, MayFollow, Real
  <1>15. TransmitterPastFirst'
    <2> SUFFICES ASSUME NEW o \in Nodes, NEW k \in ShredsIn(inbox'[o]),
                        k.value = tx'[k.source].xfer, k.pos > 0
                 PROVE  PastFirst(k.source)'
      BY DEF TransmitterPastFirst, ShredsIn, Real
    <2>1. k \in ShredsIn(inbox[o])
      BY <1>4, <1>11
    <2>2. k.source \in Nodes /\ k.source # n
      BY <1>3, <1>6, <1>9, <2>1
    <2>3. tx'[k.source] = tx[k.source]
      BY <1>6, <2>2
    <2> QED
      BY <2>1, <2>3 DEF OrderInv, TransmitterPastFirst, PastFirst
  <1>16. ReceiverInOrder'
    <2> SUFFICES ASSUME NEW o \in Nodes, NEW k \in ShredsIn(inbox'[o]),
                        NEW w \in WordsOf(o), w.source = k.source
                 PROVE  w.xfer <= k.value
      BY <1>12 DEF ReceiverInOrder, ShredsIn, Real, WordsKept
    <2>1. CASE k \in ShredsIn(inbox[o])
      BY <2>1 DEF OrderInv, ReceiverInOrder
    <2>2. CASE k = m
      BY <1>3, <1>4, <1>10, <2>2
    <2> QED
      BY <1>11, <2>1, <2>2
  <1>17. NothingLeftToRun'
    <2> SUFFICES ASSUME NEW s \in Nodes, NEW y \in Xfers(s), OnlySender(s, y),
                        runs[s][y] > 0
                 PROVE  /\ \A k \in ShredsIn(inbox'[Plan[s][y]]) : k.source = s =>
                              k.value > y \/ (k.value = y /\ k.pos > 0)
                        /\ \A w \in WordsOf(Plan[s][y])' : w.source = s => w.xfer > y
                        /\ y = tx'[s].xfer => PastFirst(s)'
      BY <1>2 DEF NothingLeftToRun, ShredsIn, Real, OnlySender
    <2>1. /\ \A k \in ShredsIn(inbox[Plan[s][y]]) : k.source = s =>
                k.value > y \/ (k.value = y /\ k.pos > 0)
          /\ \A w \in WordsOf(Plan[s][y]) : w.source = s => w.xfer > y
          /\ y = tx[s].xfer => PastFirst(s)
          /\ sent[s][y].to # NoNode
      BY DEF OrderInv, NothingLeftToRun, OnlyStarted
    <2>2. Plan[s][y] \in Nodes /\ y \in Nat
      BY NodeFacts DEF Xfers
    <2>3. s = n => y < x
      BY <1>1, <2>1
    <2>4. ASSUME NEW k \in ShredsIn(inbox'[Plan[s][y]]), k.source = s
          PROVE  k.value > y \/ (k.value = y /\ k.pos > 0)
      BY <1>3, <1>4, <1>11, <2>1, <2>2, <2>3, <2>4
    <2>5. \A w \in WordsOf(Plan[s][y])' : w.source = s => w.xfer > y
      BY <1>12, <2>1, <2>2 DEF WordsKept
    <2>6. y = tx'[s].xfer => PastFirst(s)'
      BY <1>3, <1>6, <2>1, <2>2, <2>3 DEF PastFirst
    <2> QED
      BY <2>4, <2>5, <2>6
  <1>18. AtMostOnce'
    BY <1>2 DEF OrderInv, AtMostOnce, OnlySender
  <1> QED
    BY <1>13, <1>14, <1>15, <1>16, <1>17, <1>18 DEF OrderInv

-----------------------------------------------------------------------------
(* The receive channels                                                      *)

\* A receiver keeps its words, or drops them.
LEMMA DroppedWords ==
    ASSUME BusInv, NEW n \in Nodes, NEW r, rx' = [rx EXCEPT ![n] = r],
           r.words \in {<<>>, rx[n].words}
    PROVE  WordsKept
  <1>1. rx'[n] = r /\ \A o \in Nodes : o # n => rx'[o] = rx[o]
    BY DEF BusInv, RxInv
  <1>2. \A o \in Nodes : rx'[o].words \in {<<>>, rx[o].words}
    BY <1>1
  <1>3. Len(<<>>) = 0 /\ 1 .. 0 = {}
    OBVIOUS
  <1> QED
    BY <1>2, <1>3 DEF WordsKept, WordsOf, rxPos

\* An acknowledge takes the place of the shred, and carries no word.
LEMMA AckQueued ==
    ASSUME NEW n \in Nodes, NEW r, Honest(n, r), NEW pos \in Positions,
           NEW code \in Codes, code \in Nodes => code = n,
           sendAck(n, r, pos) \/ sendTransferAck(n, r, pos, code)
    PROVE  /\ \E m : /\ ~Real(m) /\ inbox' = Broadcast(n, m, Taken(n))
                     /\ \A o \in Nodes : Receives(o, m) => m \in Messages(o)
           /\ \E timer : rx' = [rx EXCEPT ![n] = [r EXCEPT !.timer = timer]]
  <1>1. PICK timer \in {Off, ReceiverTimeout}, c \in {code, invalid} :
            Answer(n, [r EXCEPT !.timer = timer], Ack(n, r, pos, c))
    BY DEF sendAck, sendTransferAck
  <1>2. c \in Codes /\ (c \in Nodes => c = n) /\ r \in RxChannels(n)
    BY NodeFacts DEF Honest
  <1>3. \A o \in Nodes : Ack(n, r, pos, c) \in Messages(o)
    BY <1>2, AckFacts
  <1>4. ~Real(Ack(n, r, pos, c))
    BY DEF Real, Ack
  <1> QED
    BY <1>1, <1>3, <1>4 DEF Answer

\* A shred that adds no word and runs no handler, and is not answered.
LEMMA ShredIgnored ==
    ASSUME BusInv, OrderInv, BusInv', NEW n \in Nodes, inbox[n] # <<>>,
           UNCHANGED <<tx, sent, runs>>, WordsKept, inbox' = Taken(n)
    PROVE  OrderInv'
  <1>1. FromInbox(Taken(n)) /\ GoesOn(n)
    BY OldQueues, ChannelGoesOn
  <1> QED
    BY <1>1, SilentOrder

\* One that is.
LEMMA ShredAcked ==
    ASSUME BusInv, OrderInv, BusInv', NEW n \in Nodes, inbox[n] # <<>>,
           UNCHANGED <<tx, sent, runs>>, NEW r, Honest(n, r),
           r.words = <<>> \/ r.words = rx[n].words, NEW pos \in Positions,
           NEW code \in Codes, code \in Nodes => code = n,
           sendAck(n, r, pos) \/ sendTransferAck(n, r, pos, code)
    PROVE  OrderInv'
  <1>1. FromInbox(Taken(n)) /\ GoesOn(n)
    BY OldQueues, ChannelGoesOn
  <1>2. PICK timer : rx' = [rx EXCEPT ![n] = [r EXCEPT !.timer = timer]]
    BY AckQueued
  <1>3. [r EXCEPT !.timer = timer].words = r.words
    BY DEF Honest, RxChannels
  <1>4. WordsKept
    BY <1>2, <1>3, DroppedWords
  <1>5. PICK a : /\ ~Real(a) /\ inbox' = Broadcast(n, a, Taken(n))
                 /\ \A o \in Nodes : Receives(o, a) => a \in Messages(o)
    BY AckQueued
  <1> QED
    BY <1>1, <1>4, <1>5, AnswerOrder

\* The next shred, seen from the buffer it is in.
LEMMA ExpectedShred ==
    ASSUME BusInv, OrderInv, NEW n \in Nodes, NEW m \in Expected(n)
    PROVE  /\ m \in ShredsIn(inbox[n]) /\ m.pos = rxPos(n) /\ m.pos \in Nat
           /\ m.source \in Nodes /\ m.value \in Xfers(m.source) /\ m.value \in Nat
           /\ sent[m.source][m.value].to = n /\ Plan[m.source][m.value] = n
           /\ \A k \in ShredsIn(Taken(n)[n]) : MayFollow(m, k)
  <1>1. m = Head(inbox[n]) /\ m.fc = "dataBlob" /\ inbox[n] # <<>> /\ m.pos = rxPos(n)
    BY DEF Expected, Shreds, Pending
  <1>2. inbox[n] \in Seq(Messages(n)) /\ DOMAIN inbox = Nodes /\ Ordered(inbox[n])
    BY DEF BusInv, InboxInv, OrderInv, SentInOrder
  <1>3. m.pos \in Nat /\ m.pos # Abort
    <2>1. rx[n].words \in Seq(Words)
      BY DEF BusInv, RxInv, RxChannels
    <2>2. rxPos(n) \in Nat
      BY <2>1 DEF rxPos
    <2> QED
      BY <1>1, <2>2 DEF Abort
  <1>4. Real(m)
    BY <1>1, <1>3 DEF Real
  <1>5. m \in ShredsIn(inbox[n]) /\ \A k \in ShredsIn(Tail(inbox[n])) : MayFollow(m, k)
    BY <1>1, <1>2, <1>4, ShredsOfTail
  <1>6. m.source \in Nodes /\ m.value \in Xfers(m.source) /\ m.value \in Nat
    BY <1>2, <1>5, ShredType
  <1>7. sent[m.source][m.value].to = n
    BY <1>5 DEF OrderInv, OnlyStarted
  <1>8. Plan[m.source][m.value] = n
    BY <1>6, <1>7, NodeFacts DEF OrderInv, OnlyStarted
  <1>9. Taken(n)[n] = Tail(inbox[n])
    BY <1>2 DEF Taken
  <1> QED
    BY <1>1, <1>3, <1>5, <1>6, <1>7, <1>8, <1>9

\* A receiver expects no word of a transfer that has run: either it is a first
\* word, or there are words before it, and they are of that very transfer or of an
\* earlier one of the only node that sends to it.
LEMMA ExpectedNotRun ==
    ASSUME BusInv, OrderInv, NEW n \in Nodes, NEW m \in Expected(n),
           OnlySender(m.source, m.value), runs[m.source][m.value] > 0
    PROVE  FALSE
  <1> DEFINE s == m.source
             x == m.value
  <1>1. /\ m \in ShredsIn(inbox[n]) /\ m.pos = rxPos(n) /\ s \in Nodes
        /\ x \in Xfers(s) /\ x \in Nat /\ Plan[s][x] = n
    BY ExpectedShred
  <1>2. /\ m.value > x \/ m.pos > 0
        /\ \A w \in WordsOf(n) : w.source = s => w.xfer > x
    BY <1>1 DEF OrderInv, NothingLeftToRun
  <1>3. rxPos(n) > 0 /\ rxPos(n) \in Nat
    BY <1>1, <1>2, ExpectedShred
  <1>4. PICK w \in WordsOf(n) : w = rx[n].words[1]
    BY <1>3 DEF WordsOf
  <1>5. w.source \in Nodes /\ w.xfer \in Xfers(w.source) /\ w.xfer \in Nat
    BY WordType DEF BusInv
  <1>6. Plan[w.source][w.xfer] = n
    <2>1. sent[w.source][w.xfer].to = n
      BY DEF OrderInv, OnlyStarted
    <2>2. sent[w.source][w.xfer].to \in {NoNode, Plan[w.source][w.xfer]}
      BY <1>5 DEF OrderInv, OnlyStarted
    <2> QED
      BY <2>1, <2>2, NodeFacts
  <1>7. n \in Partners(w.source)
    BY <1>5, <1>6 DEF Partners, Xfers
  <1>8. w.source = s
    BY <1>1, <1>5, <1>7 DEF OnlySender
  <1>9. w.xfer <= x
    BY <1>1, <1>8 DEF OrderInv, ReceiverInOrder
  <1> QED
    BY <1>1, <1>2, <1>5, <1>8, <1>9

\* What is left once that shred has been answered.
LEMMA ShredAnswered ==
    ASSUME BusInv, OrderInv, NEW n \in Nodes, NEW m \in Expected(n), UNCHANGED <<tx, sent>>,
           NEW a, ~Real(a), inbox' = Broadcast(n, a, Taken(n)),
           \A o \in Nodes : Receives(o, a) => a \in Messages(o)
    PROVE  /\ \A o \in Nodes : ShredsIn(inbox'[o]) \subseteq ShredsIn(inbox[o])
           /\ \A k \in ShredsIn(inbox'[n]) : MayFollow(m, k)
           /\ SentInOrder' /\ TransmitterPastFirst'
  <1>1. FromInbox(Taken(n))
    BY ShredTaken, OldQueues DEF Expected
  <1>2. \A o \in Nodes : Ordered(inbox'[o])
                         /\ ShredsIn(inbox'[o]) \subseteq ShredsIn(Taken(n)[o])
    BY <1>1, BroadcastOrder
  <1>3. \A o \in Nodes : ShredsIn(inbox'[o]) \subseteq ShredsIn(inbox[o])
    BY <1>1, <1>2 DEF FromInbox
  <1>4. \A k \in ShredsIn(inbox'[n]) : MayFollow(m, k)
    BY <1>2, ExpectedShred
  <1>5. SentInOrder'
    BY <1>2 DEF SentInOrder, Ordered, MayFollow, Real
  <1>6. \A p : PastFirst(p)' = PastFirst(p)
    BY DEF PastFirst
  <1>7. TransmitterPastFirst'
    <2> SUFFICES ASSUME NEW o \in Nodes, NEW k \in ShredsIn(inbox'[o]),
                        k.value = tx[k.source].xfer, k.pos > 0
                 PROVE  PastFirst(k.source)'
      BY DEF TransmitterPastFirst, ShredsIn, Real
    <2> QED
      BY <1>3, <1>6 DEF OrderInv, TransmitterPastFirst
  <1> QED
    BY <1>3, <1>4, <1>5, <1>7

LEMMA StoreOrder ==
    ASSUME BusInv, OrderInv, BusInv', NEW n \in Nodes, NEW m \in Expected(n),
           UNCHANGED <<tx, sent, runs>>, NEW b \in BOOLEAN,
           sendAck(n, [Stored(n, m) EXCEPT !.fatal = b], m.pos)
    PROVE  OrderInv'
  <1> DEFINE r == [Stored(n, m) EXCEPT !.fatal = b]
  <1>1. /\ m \in ShredsIn(inbox[n]) /\ m.pos \in Nat /\ m.source \in Nodes
        /\ m.value \in Xfers(m.source) /\ m.value \in Nat
        /\ sent[m.source][m.value].to = n /\ Plan[m.source][m.value] = n
    BY ExpectedShred
  <1>2. Honest(n, Stored(n, m)) /\ Honest(n, r)
    BY StoredFacts, FieldFacts
  <1>3. PICK words : words = Append(rx[n].words, Word(m)) /\ r.words = words
    BY <1>2 DEF Stored, Honest, RxChannels
  <1> HIDE DEF r
  <1>4. m.pos \in Positions /\ invalid \in Codes /\ invalid \notin Nodes
    BY <1>1, NodeFacts DEF Positions
  <1>5. PICK a : /\ ~Real(a) /\ inbox' = Broadcast(n, a, Taken(n))
                 /\ \A o \in Nodes : Receives(o, a) => a \in Messages(o)
    BY <1>2, <1>4, AckQueued DEF r
  <1>6. PICK timer : rx' = [rx EXCEPT ![n] = [r EXCEPT !.timer = timer]]
    BY <1>2, <1>4, AckQueued DEF r
  <1>7. /\ \A o \in Nodes : ShredsIn(inbox'[o]) \subseteq ShredsIn(inbox[o])
        /\ \A k \in ShredsIn(inbox'[n]) : MayFollow(m, k)
        /\ SentInOrder' /\ TransmitterPastFirst'
    BY <1>5, ShredAnswered
  <1>8. /\ rx'[n].words = words
        /\ \A o \in Nodes : o # n => rx'[o] = rx[o]
    <2>1. [r EXCEPT !.timer = timer].words = words
      BY <1>2, <1>3 DEF Honest, RxChannels
    <2> QED
      BY <1>6, <2>1 DEF BusInv, RxInv
  <1>9. \A o \in Nodes : o # n => WordsOf(o)' = WordsOf(o)
    BY <1>8 DEF WordsOf, rxPos
  <1>10. \A w \in WordsOf(n)' : w \in WordsOf(n) \/ w = Word(m)
    <2>1. rx[n].words \in Seq(Words) /\ Word(m) \in Words
      BY <1>1 DEF BusInv, RxInv, RxChannels, Word, Words
    <2>2. /\ Len(words) = Len(rx[n].words) + 1 /\ Len(rx[n].words) \in Nat
          /\ \A i \in 1 .. Len(rx[n].words) : words[i] = rx[n].words[i]
          /\ words[Len(rx[n].words) + 1] = Word(m)
      BY <1>3, <2>1, AppendedTo
    <2> QED
      BY <1>8, <2>2 DEF WordsOf, rxPos
  <1>11. \A o \in Nodes : \A w \in WordsOf(o)' :
            w \in WordsOf(o) \/ (o = n /\ w = Word(m))
    BY <1>9, <1>10
  <1>12. OnlyStarted'
    <2>1. \A o \in Nodes : \A k \in ShredsIn(inbox'[o]) : sent'[k.source][k.value].to = o
      BY <1>7 DEF OrderInv, OnlyStarted
    <2>2. \A o \in Nodes : \A w \in WordsOf(o)' : sent'[w.source][w.xfer].to = o
      BY <1>1, <1>11 DEF OrderInv, OnlyStarted, Word
    <2> QED
      BY <2>1, <2>2 DEF OrderInv, OnlyStarted, ShredsIn, Real
  <1>13. ReceiverInOrder'
    <2> SUFFICES ASSUME NEW o \in Nodes, NEW k \in ShredsIn(inbox'[o]),
                        NEW w \in WordsOf(o)', w.source = k.source
                 PROVE  w.xfer <= k.value
      BY DEF ReceiverInOrder, ShredsIn, Real
    <2>1. CASE w \in WordsOf(o)
      BY <1>7, <2>1 DEF OrderInv, ReceiverInOrder
    <2>2. CASE o = n /\ w = Word(m)
      BY <1>7, <2>2 DEF MayFollow, Word
    <2> QED
      BY <1>11, <2>1, <2>2
  <1>14. NothingLeftToRun'
    <2> SUFFICES ASSUME NEW s \in Nodes, NEW x \in Xfers(s), OnlySender(s, x),
                        runs[s][x] > 0
                 PROVE  /\ \A k \in ShredsIn(inbox'[Plan[s][x]]) : k.source = s =>
                              k.value > x \/ (k.value = x /\ k.pos > 0)
                        /\ \A w \in WordsOf(Plan[s][x])' : w.source = s => w.xfer > x
                        /\ x = tx[s].xfer => PastFirst(s)'
      BY DEF NothingLeftToRun, ShredsIn, Real, OnlySender
    <2>1. /\ \A k \in ShredsIn(inbox[Plan[s][x]]) : k.source = s =>
                k.value > x \/ (k.value = x /\ k.pos > 0)
          /\ \A w \in WordsOf(Plan[s][x]) : w.source = s => w.xfer > x
          /\ x = tx[s].xfer => PastFirst(s)'
      BY DEF OrderInv, NothingLeftToRun, PastFirst
    <2>2. Plan[s][x] \in Nodes /\ x \in Nat
      BY NodeFacts DEF Xfers
    <2>3. ASSUME NEW w \in WordsOf(Plan[s][x])', w.source = s
          PROVE  w.xfer > x
      <3>1. CASE w \in WordsOf(Plan[s][x])
        BY <2>1, <2>3, <3>1
      <3>2. CASE Plan[s][x] = n /\ w = Word(m)
        <4>1. m.source = s /\ w.xfer = m.value
          BY <2>3, <3>2 DEF Word
        <4>2. m.value # x
          BY <4>1, ExpectedNotRun
        <4> QED
          BY <1>1, <2>1, <2>2, <3>2, <4>1, <4>2
      <3> QED
        BY <1>11, <2>2, <3>1, <3>2
    <2> QED
      BY <1>7, <2>1, <2>2, <2>3
  <1>15. AtMostOnce'
    BY DEF OrderInv, AtMostOnce, OnlySender
  <1> QED
    BY <1>7, <1>12, <1>13, <1>14, <1>15 DEF OrderInv

\* The handler runs: for the first time, and at a word that is not the first one.
LEMMA FinishOrder ==
    ASSUME BusInv, OrderInv, BusInv', NEW n \in Nodes, NEW m \in Expected(n),
           UNCHANGED <<tx, sent>>, NEW k \in {0, 1}, NEW code \in {n, wrongCRC},
           NEW length, isLast(m.pos, length),
           sendTransferAck(n, [Stored(n, m) EXCEPT !.words = <<>>, !.code = code],
                           m.pos, code),
           runs' = [runs EXCEPT ![m.source][m.value] = @ + k]
    PROVE  OrderInv'
  <1> DEFINE r == [Stored(n, m) EXCEPT !.words = <<>>, !.code = code]
  <1>1. /\ m \in ShredsIn(inbox[n]) /\ m.pos \in Nat /\ m.source \in Nodes
        /\ m.value \in Xfers(m.source) /\ m.value \in Nat
        /\ sent[m.source][m.value].to = n /\ Plan[m.source][m.value] = n /\ n # NoNode
    BY ExpectedShred, NodeFacts
  <1>2. m.pos > 0
    <2>1. HeaderWords \in Nat /\ HeaderWords >= 2
      BY TransferAssumption DEF TransferAssumption
    <2>2. (m.pos + 1) * 4 >= 4 * HeaderWords
      BY DEF isLast, isFinished, HeaderBytes
    <2> QED
      BY <1>1, <2>1, <2>2
  <1>3. /\ code \in Codes /\ (code \in Nodes => code = n) /\ Honest(n, r)
        /\ m.pos \in Positions
    BY <1>1, NodeFacts, StoredFacts, FieldFacts DEF Positions
  <1>4. r.words = <<>>
    BY StoredFacts DEF Honest, RxChannels
  <1> HIDE DEF r
  <1>5. PICK a : /\ ~Real(a) /\ inbox' = Broadcast(n, a, Taken(n))
                 /\ \A o \in Nodes : Receives(o, a) => a \in Messages(o)
    <2>1. sendTransferAck(n, r, m.pos, code)
      BY DEF r
    <2> QED
      BY <1>3, <2>1, AckQueued
  <1>6. PICK timer : rx' = [rx EXCEPT ![n] = [r EXCEPT !.timer = timer]]
    <2>1. sendTransferAck(n, r, m.pos, code)
      BY DEF r
    <2> QED
      BY <1>3, <2>1, AckQueued
  <1>7. /\ \A o \in Nodes : ShredsIn(inbox'[o]) \subseteq ShredsIn(inbox[o])
        /\ \A l \in ShredsIn(inbox'[n]) : MayFollow(m, l)
        /\ SentInOrder' /\ TransmitterPastFirst'
    BY <1>5, ShredAnswered
  <1>8. [r EXCEPT !.timer = timer].words = <<>>
    BY <1>3, <1>4 DEF Honest, RxChannels
  <1>9. WordsKept
    BY <1>6, <1>8, DroppedWords
  <1>10. WordsOf(n)' = {}
    <2>1. rx'[n].words = <<>>
      BY <1>6, <1>8 DEF BusInv, RxInv
    <2>2. Len(<<>>) = 0 /\ 1 .. 0 = {}
      OBVIOUS
    <2> QED
      BY <2>1, <2>2 DEF WordsOf, rxPos
  <1>11. /\ runs'[m.source][m.value] = runs[m.source][m.value] + k
         /\ \A s \in Nodes : \A x \in Xfers(s) : runs[s][x] \in Nat
         /\ \A s \in Nodes : \A x \in Xfers(s) :
               ~(s = m.source /\ x = m.value) => runs'[s][x] = runs[s][x]
    <2>1. DOMAIN runs = Nodes /\ \A s \in Nodes : runs[s] \in [Xfers(s) -> Nat]
      BY DEF BusInv, RunsInv
    <2> QED
      BY <1>1, <2>1
  <1>12. OnlySender(m.source, m.value) => runs[m.source][m.value] = 0
    BY <1>1, <1>11, ExpectedNotRun
  <1>13. OnlyStarted'
    <2>1. \A o \in Nodes : \A l \in ShredsIn(inbox'[o]) : sent'[l.source][l.value].to = o
      BY <1>7 DEF OrderInv, OnlyStarted
    <2>2. \A o \in Nodes : \A w \in WordsOf(o)' : sent'[w.source][w.xfer].to = o
      BY <1>9 DEF OrderInv, OnlyStarted, WordsKept
    <2>3. \A s \in Nodes : \A x \in Xfers(s) :
             runs'[s][x] > 0 => sent'[s][x].to # NoNode
      BY <1>1, <1>11 DEF OrderInv, OnlyStarted
    <2> QED
      BY <2>1, <2>2, <2>3 DEF OrderInv, OnlyStarted, ShredsIn, Real
  <1>14. ReceiverInOrder'
    <2> SUFFICES ASSUME NEW o \in Nodes, NEW l \in ShredsIn(inbox'[o]),
                        NEW w \in WordsOf(o)', w.source = l.source
                 PROVE  w.xfer <= l.value
      BY DEF ReceiverInOrder, ShredsIn, Real
    <2> QED
      BY <1>7, <1>9 DEF OrderInv, ReceiverInOrder, WordsKept
  <1>15. NothingLeftToRun'
    <2> SUFFICES ASSUME NEW s \in Nodes, NEW x \in Xfers(s), OnlySender(s, x),
                        runs'[s][x] > 0
                 PROVE  /\ \A l \in ShredsIn(inbox'[Plan[s][x]]) : l.source = s =>
                              l.value > x \/ (l.value = x /\ l.pos > 0)
                        /\ \A w \in WordsOf(Plan[s][x])' : w.source = s => w.xfer > x
                        /\ x = tx[s].xfer => PastFirst(s)'
      BY DEF NothingLeftToRun, ShredsIn, Real, OnlySender
    <2>1. Plan[s][x] \in Nodes /\ x \in Nat
      BY NodeFacts DEF Xfers
    <2>2. CASE s = m.source /\ x = m.value
      <3>1. Plan[s][x] = n
        BY <1>1, <2>2
      <3>2. ASSUME NEW l \in ShredsIn(inbox'[n]), l.source = s
            PROVE  l.value > x \/ (l.value = x /\ l.pos > 0)
        <4>1. l \in ShredsIn(inbox[n]) /\ MayFollow(m, l)
          BY <1>7
        <4>2. l.pos \in Nat /\ l.value \in Nat
          BY <4>1, ShredType DEF BusInv, InboxInv
        <4> QED
          BY <1>1, <1>2, <2>2, <3>2, <4>1, <4>2 DEF MayFollow
      <3>3. x = tx[s].xfer => PastFirst(s)'
        BY <1>1, <1>2, <2>2 DEF OrderInv, TransmitterPastFirst, PastFirst
      <3> QED
        BY <1>10, <3>1, <3>2, <3>3
    <2>3. CASE ~(s = m.source /\ x = m.value)
      <3>1. runs[s][x] > 0
        BY <1>11, <2>3
      <3>2. /\ \A l \in ShredsIn(inbox[Plan[s][x]]) : l.source = s =>
                  l.value > x \/ (l.value = x /\ l.pos > 0)
            /\ \A w \in WordsOf(Plan[s][x]) : w.source = s => w.xfer > x
            /\ x = tx[s].xfer => PastFirst(s)'
        BY <3>1 DEF OrderInv, NothingLeftToRun, PastFirst
      <3> QED
        BY <1>7, <1>9, <2>1, <3>2 DEF WordsKept
    <2> QED
      BY <2>2, <2>3
  <1>16. AtMostOnce'
    <2> SUFFICES ASSUME NEW s \in Nodes, NEW x \in Xfers(s), OnlySender(s, x)
                 PROVE  runs'[s][x] <= 1
      BY DEF AtMostOnce, OnlySender
    <2>1. CASE s = m.source /\ x = m.value
      BY <1>11, <1>12, <2>1
    <2>2. CASE ~(s = m.source /\ x = m.value)
      BY <1>11, <2>2 DEF OrderInv, AtMostOnce
    <2> QED
      BY <2>1, <2>2
  <1> QED
    BY <1>7, <1>13, <1>14, <1>15, <1>16 DEF OrderInv

LEMMA HandleRxOrder ==
    ASSUME BusInv, OrderInv, BusInv', NEW n \in Nodes, handleRx(n)
    PROVE  OrderInv'
  <1>1. \A m \in Shreds(n) : /\ m.pos \in Positions /\ inbox[n] # <<>>
                             /\ rx[n].code \in Codes
                             /\ (rx[n].code \in Nodes => rx[n].code = n)
    BY ShredTaken
  <1>2. rx[n] \in RxChannels(n) /\ Honest(n, rx[n])
    BY DEF BusInv, RxInv, Honest
  <1>3. PICK s : s = [rx[n] EXCEPT !.words = <<>>] /\ Honest(n, s) /\ s.words = <<>>
    <2>1. \A r \in RxChannels(n) : [r EXCEPT !.words = <<>>].words = <<>>
      BY DEF RxChannels
    <2> QED
      BY <1>2, <2>1, FieldFacts
  <1>4. PICK f : f = [rx[n] EXCEPT !.fatal = TRUE] /\ f.words = rx[n].words
    <2>1. \A r \in RxChannels(n) : [r EXCEPT !.fatal = TRUE].words = r.words
      BY DEF RxChannels
    <2> QED
      BY <1>2, <2>1
  <1>5. invalid \in Codes /\ invalid \notin Nodes /\ Abort \in Positions
    BY NodeFacts DEF Positions
  <1>6. CASE RxAborted(n)
    <2>1. inbox' = Taken(n) /\ rx' = [rx EXCEPT ![n] = s] /\ UNCHANGED <<tx, sent, runs>>
          /\ inbox[n] # <<>>
      BY <1>1, <1>3, <1>6 DEF RxAborted, history
    <2>2. WordsKept
      BY <1>3, <2>1, DroppedWords
    <2> QED
      BY <2>1, <2>2, ShredIgnored
  <1>7. CASE RxKnown(n)
    <2>1. UNCHANGED <<tx, sent, runs>>
      BY <1>7 DEF RxKnown, history
    <2>2. PICK m \in Shreds(n) :
            \/ sendTransferAck(n, rx[n], m.pos, rx[n].code)
            \/ sendAck(n, rx[n], m.pos)
            \/ inbox' = Taken(n) /\ rx' = [rx EXCEPT ![n].fatal = TRUE]
      BY <1>7 DEF RxKnown
    <2>3. CASE \/ sendTransferAck(n, rx[n], m.pos, rx[n].code)
               \/ sendAck(n, rx[n], m.pos)
      BY <1>1, <1>2, <2>1, <2>3, ShredAcked
    <2>4. CASE inbox' = Taken(n) /\ rx' = [rx EXCEPT ![n] = f]
      <3>1. WordsKept
        BY <1>4, <2>4, DroppedWords
      <3> QED
        BY <1>1, <2>1, <2>4, <3>1, ShredIgnored
    <2> QED
      BY <1>4, <2>2, <2>3, <2>4
  <1>8. CASE RxOutOfOrder(n)
    <2>1. PICK m \in Shreds(n) : sendAck(n, s, Abort)
      BY <1>3, <1>8 DEF RxOutOfOrder
    <2>2. UNCHANGED <<tx, sent, runs>>
      BY <1>8 DEF RxOutOfOrder, history
    <2> QED
      BY <1>1, <1>3, <1>5, <2>1, <2>2, ShredAcked
  <1>9. CASE RxStore(n)
    <2>1. PICK m \in Expected(n), b \in BOOLEAN :
            \/ sendAck(n, [Stored(n, m) EXCEPT !.fatal = b], m.pos)
            \/ inbox' = Taken(n) /\ rx' = [rx EXCEPT ![n].fatal = TRUE]
      BY <1>9 DEF RxStore
    <2>2. UNCHANGED <<tx, sent, runs>> /\ m \in Shreds(n)
      BY <1>9 DEF RxStore, history, Expected
    <2>3. CASE sendAck(n, [Stored(n, m) EXCEPT !.fatal = b], m.pos)
      BY <2>2, <2>3, StoreOrder
    <2>4. CASE inbox' = Taken(n) /\ rx' = [rx EXCEPT ![n] = f]
      <3>1. WordsKept
        BY <1>4, <2>4, DroppedWords
      <3> QED
        BY <1>1, <2>2, <2>4, <3>1, ShredIgnored
    <2> QED
      BY <1>4, <2>1, <2>3, <2>4
  <1>10. CASE RxFinish(n)
    <2>1. PICK m \in Expected(n), k \in {0, 1}, code \in {n, wrongCRC} :
            /\ isLast(m.pos, Stored(n, m).length)
            /\ sendTransferAck(n, [Stored(n, m) EXCEPT !.words = <<>>, !.code = code],
                               m.pos, code)
            /\ runs' = [runs EXCEPT ![m.source][m.value] = @ + k]
            /\ UNCHANGED <<tx, sent>>
      BY <1>10 DEF RxFinish, dummyHandleMmpTransfer
    <2> QED
      BY <2>1, FinishOrder
  <1> QED
    BY <1>6, <1>7, <1>8, <1>9, <1>10 DEF handleRx

-----------------------------------------------------------------------------
(* The whole                                                                 *)

LEMMA FaultOrder ==
    ASSUME BusInv, OrderInv, BusInv', NEW n \in Nodes,
           rxTimeout(n) \/ Reboot(n) \/ Lose(n)
    PROVE  OrderInv'
  <1>1. FromInbox(inbox)
    BY OldQueues
  <1>2. rx[n] \in RxChannels(n) /\ DOMAIN tx = Nodes
    BY DEF BusInv, RxInv, TxInv
  <1>3. CASE rxTimeout(n)
    <2>1. inbox' = inbox /\ UNCHANGED <<tx, sent, runs>>
          /\ rx' = [rx EXCEPT ![n] = TimedOut(n)]
      BY <1>3 DEF rxTimeout, history
    <2>2. TimedOut(n).words = <<>>
      BY <1>2 DEF TimedOut, RxChannels
    <2>3. GoesOn(n) /\ WordsKept
      BY <2>1, <2>2, ChannelGoesOn, DroppedWords
    <2> QED
      BY <1>1, <2>1, <2>3, SilentOrder
  <1>4. CASE Reboot(n)
    <2>1. PICK length \in StaleLengths : rx' = [rx EXCEPT ![n] = rx0(length)]
      BY <1>4 DEF Reboot
    <2>2. inbox' = inbox /\ UNCHANGED <<sent, runs>> /\ tx' = [tx EXCEPT ![n] = tx0]
      BY <1>4 DEF Reboot, history
    <2>3. WordsKept
      <3>1. rx0(length).words = <<>>
        BY DEF rx0
      <3> QED
        BY <2>1, <3>1, DroppedWords
    <2>4. tx'[n] = tx0 /\ \A o \in Nodes : o # n => tx'[o] = tx[o]
      BY <1>2, <2>2
    <2>5. tx0.xfer = NoXfer /\ tx0.counter = NoNode /\ tx0.timer = Off
      BY DEF tx0
    <2>6. GoesOn(n)
      BY <2>4, <2>5 DEF GoesOn, PastFirst
    <2> QED
      BY <1>1, <2>2, <2>3, <2>6, SilentOrder
  <1>5. CASE Lose(n)
    <2>1. inbox[n] # <<>> /\ inbox' = Taken(n) /\ UNCHANGED <<tx, rx, sent, runs>>
      BY <1>5 DEF Lose, history
    <2>2. WordsKept
      BY <2>1, ChannelGoesOn
    <2> QED
      BY <2>1, <2>2, ShredIgnored
  <1> QED
    BY <1>3, <1>4, <1>5

LEMMA OrderInit == Init => OrderInv
  <1> SUFFICES ASSUME Init PROVE OrderInv
    OBVIOUS
  <1>1. PICK length \in StaleLengths : rx = [n \in Nodes |-> rx0(length)]
    BY DEF Init
  <1>2. Len(<<>>) = 0 /\ 1 .. 0 = {}
    OBVIOUS
  <1>3. ASSUME NEW o \in Nodes
        PROVE  ShredsIn(inbox[o]) = {} /\ Ordered(inbox[o]) /\ WordsOf(o) = {}
    <2>1. inbox[o] = <<>> /\ rx[o].words = <<>>
      BY <1>1 DEF Init, rx0
    <2> QED
      BY <1>2, <2>1 DEF ShredsIn, Ordered, WordsOf, rxPos
  <1>4. ASSUME NEW n \in Nodes, NEW x \in Xfers(n)
        PROVE  sent[n][x].to = NoNode /\ runs[n][x] = 0 /\ tx[n].counter = NoNode
    <2>1. x \in 0 .. Starts(n)
      BY NodeFacts DEF Xfers
    <2> QED
      BY <2>1 DEF Init, tx0
  <1>5. \A n \in Nodes : \A x \in Xfers(n) : Plan[n][x] \in Nodes
    BY NodeFacts
  <1> QED
    BY <1>3, <1>4, <1>5 DEF OrderInv, OnlyStarted, SentInOrder, TransmitterPastFirst,
       ReceiverInOrder, NothingLeftToRun, AtMostOnce

\* What a node has of a transfer, in its inbox, its channel or its past, was started
\* with it and is in order, and of a transfer that has run at a receiver with one
\* transmitter nothing is left that could run again: the invariant of the two
\* theorems below, from the numbering of transfers and shreds (mmpNode.cpp:127-270).
THEOREM OrderAlways == Spec => []OrderInv
  <1>1. ASSUME BusInv, OrderInv, BusInv', [Next]_vars PROVE OrderInv'
    <2>1. CASE UNCHANGED vars
      BY <1>1, <2>1 DEF vars, history, OrderInv, OnlyStarted, SentInOrder, Ordered,
         TransmitterPastFirst, PastFirst, ReceiverInOrder, NothingLeftToRun,
         AtMostOnce, WordsOf, rxPos
    <2>2. CASE Next
      BY <1>1, <2>2, StartOrder, HandleTxOrder, HandleRxOrder, TimeoutOrder, FaultOrder
         DEF Next
    <2> QED
      BY <1>1, <2>1, <2>2
  <1>2. BusInv /\ OrderInv /\ BusInv' /\ [Next]_vars => OrderInv'
    BY <1>1
  <1> QED
    BY OrderInit, <1>2, BusAlways, PTL DEF Spec

\* No transfer is handled twice by its receiver, for any number of nodes that send
\* to each other in any way, as long as the receiver has one transmitter only: with
\* messages lost, shreds and acknowledges sent again, and nodes that restart at any
\* moment.  handleRx() takes a late shred of a transfer that is over for one to be
\* acknowledged again (mmpNode.cpp:163-200).
THEOREM BusNeverTwice == Spec => []AtMostOnce
  <1>1. OrderInv => AtMostOnce
    BY DEF OrderInv
  <1> QED
    BY <1>1, OrderAlways, PTL

-----------------------------------------------------------------------------
(* The order of transfers                                                    *)

\* Only the handler counts a run, of the transfer of an expected shred.
LEMMA RunsCount ==
    ASSUME Next
    PROVE  \/ runs' = runs
           \/ \E o \in Nodes : \E m \in Expected(o), k \in {0, 1} :
                 runs' = [runs EXCEPT ![m.source][m.value] = @ + k]
  <1>1. PICK n \in Nodes :
            \/ startTransfer(n) \/ handleTx(n) \/ handleRx(n)
            \/ TxRetransmit(n) \/ TxGiveUp(n) \/ rxTimeout(n) \/ Reboot(n) \/ Lose(n)
    BY DEF Next
  <1>2. CASE RxFinish(n)
    <2>1. PICK m \in Expected(n), k \in {0, 1} :
            runs' = [runs EXCEPT ![m.source][m.value] = @ + k]
      BY <1>2 DEF RxFinish
    <2> QED
      BY <2>1
  <1>3. CASE startTransfer(n) \/ handleTx(n)
    BY <1>3 DEF startTransfer, handleTx, TxForeign, TxAborted, TxOldAck, TxImplausible,
       TxNext, TxFinish, history
  <1>4. CASE RxAborted(n) \/ RxKnown(n) \/ RxOutOfOrder(n) \/ RxStore(n)
    BY <1>4 DEF RxAborted, RxKnown, RxOutOfOrder, RxStore, history
  <1>5. CASE \/ TxRetransmit(n) \/ TxGiveUp(n) \/ rxTimeout(n) \/ Reboot(n) \/ Lose(n)
    BY <1>5 DEF TxRetransmit, TxGiveUp, rxTimeout, Reboot, Lose, history
  <1> QED
    BY <1>1, <1>2, <1>3, <1>4, <1>5 DEF handleRx

\* A transfer that a later one has overtaken neither runs nor is stored.
LEMMA OvertakenRests ==
    ASSUME BusInv, OrderInv, BusInv', OrderInv', Next,
           NEW n \in Nodes, NEW x \in Xfers(n), NEW y \in Xfers(n), x < y,
           Plan[n][x] = Plan[n][y], OnlySender(n, y), runs[n][y] > 0,
           NEW o, o = Plan[n][y]
    PROVE  /\ runs'[n][x] = runs[n][x]
           /\ Len(rx'[o].words) = rxPos(o) + 1 =>
                 rx'[o].words[rxPos(o) + 1] # [source |-> n, xfer |-> x]
  <1>1. /\ DOMAIN runs = Nodes /\ \A s \in Nodes : runs[s] \in [Xfers(s) -> Nat]
        /\ o \in Nodes /\ x \in Nat /\ y \in Nat
    BY NodeFacts DEF BusInv, RunsInv, Xfers
  <1>2. runs'[n][x] = runs[n][x] /\ runs'[n][y] > 0
    <2>1. CASE runs' = runs
      BY <2>1
    <2>2. CASE \E l \in Nodes : \E m \in Expected(l), k \in {0, 1} :
                  runs' = [runs EXCEPT ![m.source][m.value] = @ + k]
      <3>1. PICK l \in Nodes : \E m \in Expected(l), k \in {0, 1} :
                  runs' = [runs EXCEPT ![m.source][m.value] = @ + k]
        BY <2>2
      <3>2. PICK m \in Expected(l), k \in {0, 1} :
                  runs' = [runs EXCEPT ![m.source][m.value] = @ + k]
        BY <3>1
      <3>3. /\ m \in ShredsIn(inbox[l]) /\ m.source \in Nodes /\ m.value \in Nat
            /\ m.value \in Xfers(m.source) /\ Plan[m.source][m.value] = l
        BY ExpectedShred
      <3>4. ~(m.source = n /\ m.value = x)
        <4>1. m.source = n /\ m.value = x => l = o
          BY <3>3
        <4>2. m.source = n /\ l = o => m.value >= y
          BY <1>1, <3>3 DEF OrderInv, NothingLeftToRun
        <4> QED
          BY <1>1, <4>1, <4>2
      <3>5. runs'[n][x] = runs[n][x]
        BY <1>1, <3>2, <3>3, <3>4
      <3>6. runs'[n][y] = runs[n][y] + k \/ runs'[n][y] = runs[n][y]
        BY <1>1, <3>2, <3>3
      <3>7. runs[n][y] \in Nat
        BY <1>1
      <3> QED
        BY <3>5, <3>6, <3>7
    <2> QED
      BY <2>1, <2>2, RunsCount
  <1>3. ASSUME Len(rx'[o].words) = rxPos(o) + 1,
               rx'[o].words[rxPos(o) + 1] = [source |-> n, xfer |-> x]
        PROVE  FALSE
    <2>1. rxPos(o) \in Nat /\ Len(rx'[o].words) \in Nat
      BY <1>1, <1>3 DEF BusInv, RxInv, RxChannels, rxPos
    <2>2. PICK w : w = rx'[o].words[rxPos(o) + 1] /\ w.source = n /\ w.xfer = x
      BY <1>3
    <2>3. w \in WordsOf(o)'
      <3>1. WordsOf(o)' = {rx'[o].words[k] : k \in 1 .. Len(rx'[o].words)}
        BY DEF WordsOf, rxPos
      <3>2. rxPos(o) + 1 \in 1 .. Len(rx'[o].words)
        BY <1>3, <2>1
      <3> QED
        BY <2>2, <3>1, <3>2
    <2>4. \A v \in WordsOf(Plan[n][y])' : v.source = n => v.xfer > y
      BY <1>2 DEF OrderInv, NothingLeftToRun, OnlySender
    <2>5. w.xfer > y
      BY <2>2, <2>3, <2>4
    <2> QED
      BY <1>1, <2>2, <2>5
  <1> QED
    BY <1>2, <1>3

\* Of the transfers of a node to one receiver, of which it is the only transmitter,
\* a later one that has run leaves the earlier ones behind: none of them is handled
\* or stored any more, whatever is lost, sent again, given up or restarted.  What
\* arrives of it is taken for a shred of the running transfer (mmpNode.cpp:212-223).
THEOREM BusNeverOutOfOrder == Spec => InStartOrder
  <1>1. ASSUME BusInv, OrderInv, BusInv', OrderInv', Next PROVE LeavesBehind
    BY <1>1, OvertakenRests DEF LeavesBehind
  <1>2. BusInv /\ OrderInv /\ BusInv' /\ OrderInv' /\ [Next]_vars => [LeavesBehind]_vars
    BY <1>1
  <1> QED
    BY <1>2, BusAlways, OrderAlways, PTL DEF Spec, InStartOrder
=============================================================================
