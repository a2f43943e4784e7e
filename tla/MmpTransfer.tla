---------------------------- MODULE MmpTransfer ----------------------------
(***************************************************************************)
(* The pure part of CMmpTransfer: the shape of a transfer and the position *)
(* arithmetic that transmitter and receiver both use.  A transfer is a     *)
(* header followed by the data, cut into 32 bit words ("shreds"); position *)
(* p is the index of a word, the header comes first.                       *)
(***************************************************************************)
EXTENDS Integers

CONSTANTS
    HeaderWords,    \* words of SMmpHeader (8 in the code)
    LengthWord,     \* index of the word that holds dataLength (1)
    CrcWord,        \* index of the word that holds crc32Data (3)
    MaxReceiveSize, \* m_maxReceiveSize, bytes the receiver can store (0x200)
    UseLepto        \* TRUE: built with USE_LEPTO, the CRC is really computed

ASSUME TransferAssumption ==
    /\ HeaderWords \in Nat /\ HeaderWords >= 2
    /\ LengthWord \in 0 .. HeaderWords - 1
    /\ CrcWord \in 0 .. HeaderWords - 1
    /\ MaxReceiveSize \in Nat
    /\ UseLepto \in BOOLEAN

HeaderBytes == 4 * HeaderWords

\* isFinished(_pos): all words before position pos are there.
isFinished(pos, length) ==
    /\ pos * 4 >= HeaderBytes
    /\ pos * 4 >= HeaderBytes + length

\* isLast(_pos): the word at pos is the last one of the transfer.
isLast(pos, length) == isFinished(pos + 1, length)

\* The checksum of the data words, taken as ideal: it names the transfers the
\* words come from, and their number of bytes.  An empty block has a constant
\* checksum, and a build without a CRC library uses 0.
EmptyCrc == <<"ffffffff">>
ZeroCrc  == <<"0">>
Crc(origins, length) == <<"crc", origins, length>>

\* updateCrc(): the CRC word of the header of transfer x.
updateCrc(x, length) ==
    IF length = 0 THEN EmptyCrc
    ELSE IF UseLepto THEN Crc({x}, length) ELSE ZeroCrc

\* Mutant of receivedCrc: the empty block is no special case.
receivedCrcPlain(origins, length) ==
    IF UseLepto THEN Crc(origins, length) ELSE ZeroCrc

\* What finishRx() compares that word with, for the data words it has stored.
receivedCrc(origins, length) ==
    IF ~UseLepto THEN ZeroCrc
    ELSE IF length = 0 THEN EmptyCrc ELSE Crc(origins, length)
=============================================================================
