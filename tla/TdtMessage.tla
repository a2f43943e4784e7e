----------------------------- MODULE TdtMessage -----------------------------
(***************************************************************************)
(* A TDT message, which is a CAN frame with names for its parts: the node  *)
(* id and the function code share the CAN id, and the low word is an       *)
(* object and its unit, or the source and the position of an MMP shred.    *)
(* A number that the code masks, shifts and ORs is the set of its bits;    *)
(* the payload is eight bytes.                                             *)
(*                                                                         *)
(* The state machine is a program that builds a message with the           *)
(* constructors and setters in any order, and another one that gets it by  *)
(* copy or by assignment.                                                  *)
(***************************************************************************)
EXTENDS Integers

CONSTANTS
    NodeIds,        \* node ids, as sets of bits
    FunctionCodes,  \* codes of EFunctionCode, as sets of bits
    Objects, Units, Positions,
    Payloads,       \* values: the four bytes of an SValue
    FrameLengths    \* what setLen() is called with

Bits == 0 .. 31                     \* of a canId_t
NODEID_BITMASK == 0 .. 6
FUNCTIONCODE_BITSHIFT == 7
FUNCTIONCODE_RSHIFTED_BITMASK == 0 .. 3
UInt8  == {n \in Int : 0 <= n /\ n <= 255}
UInt16 == {n \in Int : 0 <= n /\ n <= 65535}
Int16  == {n \in Int : -32768 <= n /\ n <= 32767}

ASSUME MessageAssumption ==
    /\ NodeIds \subseteq SUBSET NODEID_BITMASK
    /\ FunctionCodes \subseteq SUBSET FUNCTIONCODE_RSHIFTED_BITMASK
    /\ Objects \subseteq UInt16 /\ Units \subseteq UInt8
    /\ Positions \subseteq Int16
    /\ Payloads \subseteq [4 .. 7 -> UInt8]
    /\ FrameLengths \subseteq Nat

-----------------------------------------------------------------------------
(* SCanMessage and CMessage *)

\* The bytes of a word of 16 bits, whether it has a sign or not.
low(n)  == n % 256
high(n) == (n \div 256) % 256
uint16(l, h) == l + 256 * h
int16(l, h)  == IF h < 128 THEN uint16(l, h) ELSE uint16(l, h) - 65536

shiftLeft(bits)  == {b \in Bits : b - FUNCTIONCODE_BITSHIFT \in bits}
shiftRight(bits) == {b \in Bits : b + FUNCTIONCODE_BITSHIFT \in bits}

Frame == [id : SUBSET Bits, len : Nat, data : [0 .. 7 -> UInt8]]

\* A frame of full length with this payload.
Full(id, functionCode, b0, b1, b2, b3, value) ==
    [id   |-> id \cup shiftLeft(functionCode),
     len  |-> 8,
     data |-> [i \in 0 .. 7 |-> CASE i = 0 -> b0 [] i = 1 -> b1 [] i = 2 -> b2
                                  [] i = 3 -> b3 [] OTHER -> value[i]]]

\* The two constructors.
ObjectMessage(id, functionCode, object, unit, value) ==
    Full(id, functionCode, low(object), high(object), unit, 0, value)
MmpMessage(id, functionCode, source, pos, value) ==
    Full(id, functionCode, low(source), high(source), low(pos), high(pos), value)

getNodeId(m)       == m.id \cap NODEID_BITMASK
getFunctionCode(m) == shiftRight(m.id) \cap FUNCTIONCODE_RSHIFTED_BITMASK
getTdtObject(m)    == uint16(m.data[0], m.data[1])
getTdtUnit(m)      == m.data[2]
getMmpPos(m)       == int16(m.data[2], m.data[3])
getTdtValue(m)     == [i \in 4 .. 7 |-> m.data[i]]

setNodeId(m, id) == [m EXCEPT !.id = id]

\* Mutant of setFunctionCode: the mask of the other part of the id.
setFunctionCodeMasked(m, functionCode) ==
    [m EXCEPT !.id = (@ \cap (7 .. 10)) \cup shiftLeft(functionCode)]

setFunctionCode(m, functionCode) ==
    [m EXCEPT !.id = (@ \cap NODEID_BITMASK) \cup shiftLeft(functionCode)]

setTdtObject(m, object) == [m EXCEPT !.data[0] = low(object), !.data[1] = high(object)]
setUnit(m, unit)        == [m EXCEPT !.data[2] = unit]
setValue(m, value) ==
    [m EXCEPT !.data = [i \in 0 .. 7 |-> IF i < 4 THEN @[i] ELSE value[i]]]

\* setLen() takes any length, setData() copies 8 bytes at most and leaves the
\* rest of the message as it was.
setLen(m, len) == [m EXCEPT !.len = len]
setData(m, len, data) ==
    LET n == IF len > 8 THEN 8 ELSE len
    IN  [m EXCEPT !.len = n, !.data = [i \in 0 .. 7 |-> IF i < n THEN data[i] ELSE @[i]]]

\* Mutant of assign: the id stays.
assignData(m, from) == setData(m, from.len, from.data)

\* The assignment operator.
assign(m, from) == setData([m EXCEPT !.id = from.id], from.len, from.data)

-----------------------------------------------------------------------------
(* Two programs *)

VARIABLES
    sent,    \* the message that is built
    meant,   \* history: what it was built with
    got,     \* the message of the other program
    gotMeant \* history: what the last complete message it got was built with,
             \* or Nothing after a shorter one

msgVars == <<sent, meant, got, gotMeant>>

Nothing == [kind |-> "nothing"]
Meaning(id, functionCode, object, unit, value) ==
    [kind |-> "object", id |-> id, functionCode |-> functionCode,
     object |-> object, unit |-> unit, value |-> value]
MmpMeaning(id, functionCode, pos, value) ==
    [kind |-> "mmp", id |-> id, functionCode |-> functionCode,
     pos |-> pos, value |-> value]

\* What a program reads in a message it takes for one of this kind.
Read(m, kind) ==
    IF kind = "mmp"
    THEN MmpMeaning(getNodeId(m), getFunctionCode(m), getMmpPos(m), getTdtValue(m))
    ELSE Meaning(getNodeId(m), getFunctionCode(m), getTdtObject(m),
                 getTdtUnit(m), getTdtValue(m))

\* Both default constructors leave the memory as it is.
MsgInit ==
    /\ \E junk \in Payloads : \E len \in FrameLengths :
        LET m == [id |-> Bits, len |-> len,
                  data |-> [i \in 0 .. 7 |-> IF i < 4 THEN junk[i + 4] ELSE junk[i]]]
        IN  sent = m /\ got = m
    /\ meant = Nothing /\ gotMeant = Nothing

Build(m, meaning) == sent' = m /\ meant' = meaning /\ UNCHANGED <<got, gotMeant>>

construct ==
    \E id \in NodeIds, functionCode \in FunctionCodes, object \in Objects,
       unit \in Units, value \in Payloads :
        Build(ObjectMessage(id, functionCode, object, unit, value),
              Meaning(id, functionCode, object, unit, value))

constructMmp ==
    \E id \in NodeIds, source \in Objects, functionCode \in FunctionCodes,
       pos \in Positions, value \in Payloads :
        Build(MmpMessage(id, functionCode, source, pos, value),
              MmpMeaning(id, functionCode, pos, value))

\* The setters, on a message that was constructed.  A node id takes the place of
\* the whole CAN id: the message has function code nmt after it.
changeNodeId ==
    \E id \in NodeIds :
        /\ meant # Nothing
        /\ Build(setNodeId(sent, id),
                 [meant EXCEPT !.id = id, !.functionCode = {}])

changeFunctionCode ==
    \E functionCode \in FunctionCodes :
        /\ meant # Nothing
        /\ Build(setFunctionCode(sent, functionCode),
                 [meant EXCEPT !.functionCode = functionCode])

changeValue ==
    \E value \in Payloads :
        /\ meant # Nothing
        /\ Build(setValue(sent, value), [meant EXCEPT !.value = value])

\* The low word is only changed in a message about an object.
changeObject ==
    \E object \in Objects :
        /\ meant.kind = "object"
        /\ Build(setTdtObject(sent, object), [meant EXCEPT !.object = object])

changeUnit ==
    \E unit \in Units :
        /\ meant.kind = "object"
        /\ Build(setUnit(sent, unit), [meant EXCEPT !.unit = unit])

\* setObject() with all three.
changeAll ==
    \E object \in Objects, unit \in Units, value \in Payloads :
        /\ meant.kind = "object"
        /\ Build(setValue(setUnit(setTdtObject(sent, object), unit), value),
                 [meant EXCEPT !.object = object, !.unit = unit, !.value = value])

\* canMessage().setLen()
changeLength ==
    \E len \in FrameLengths : Build(setLen(sent, len), meant)

Get(m, complete) ==
    /\ got' = m /\ gotMeant' = IF complete THEN meant ELSE Nothing
    /\ UNCHANGED <<sent, meant>>

getCopy     == Get(sent, TRUE)
getAssigned == Get(assign(got, sent), sent.len >= 8)

MsgNext ==
    \/ construct \/ constructMmp \/ changeNodeId \/ changeFunctionCode
    \/ changeValue \/ changeObject \/ changeUnit \/ changeAll
    \/ changeLength \/ getCopy \/ getAssigned

MsgSpec == MsgInit /\ [][MsgNext]_msgVars

-----------------------------------------------------------------------------
(* Properties *)

\* The bytes stay bytes, whatever is set.
MsgTypeOK == sent \in Frame /\ got \in Frame

\* Whatever the order of the setters, a message reads as it was built: a node id
\* and a function code that share a word do not disturb each other, nor do
\* object and unit, and a position keeps its sign (message.hpp:413-451).
ReadsAsMeant == meant # Nothing => Read(sent, meant.kind) = meant

\* A message another program got reads as it did where it was built, unless a
\* frame of less than 8 bytes was assigned (message.hpp:359-364).
GotAsMeant == gotMeant # Nothing => Read(got, gotMeant.kind) = gotMeant
=============================================================================
