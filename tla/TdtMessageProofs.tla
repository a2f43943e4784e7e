-------------------------- MODULE TdtMessageProofs --------------------------
(***************************************************************************)
(* A message reads as it was built, for all node ids of 7 bits, function   *)
(* codes of 4 bits, objects of 16, positions with a sign, and lengths.     *)
(***************************************************************************)
EXTENDS TdtMessage, TLAPS

Value == [4 .. 7 -> UInt8]

ObjectMeaning == [kind : {"object"}, id : SUBSET NODEID_BITMASK,
                  functionCode : SUBSET FUNCTIONCODE_RSHIFTED_BITMASK,
                  object : UInt16, unit : UInt8, value : Value]
ShredMeaning  == [kind : {"mmp"}, id : SUBSET NODEID_BITMASK,
                  functionCode : SUBSET FUNCTIONCODE_RSHIFTED_BITMASK,
                  pos : Int16, value : Value]

-----------------------------------------------------------------------------
(* Words, bytes and bits *)

\* Division by 256, for either sign.
LEMMA Divided ==
    ASSUME NEW n \in Int
    PROVE  /\ n \div 256 \in Int /\ n % 256 \in Int
           /\ 0 <= n % 256 /\ n % 256 <= 255
           /\ n = 256 * (n \div 256) + (n % 256)
  OBVIOUS

\* The high byte of a word, without and with a sign.
LEMMA Quotient ==
    ASSUME NEW n \in Int, NEW q \in Int, NEW r \in Int,
           0 <= r, r <= 255, n = 256 * q + r
    PROVE  /\ 0 <= n /\ n <= 65535 => 0 <= q /\ q <= 255
           /\ -32768 <= n /\ n <= 32767 => -128 <= q /\ q <= 127
  OBVIOUS

LEMMA Wrapped ==
    ASSUME NEW q \in Int
    PROVE  /\ 0 <= q /\ q <= 255 => q % 256 = q
           /\ -128 <= q /\ q < 0 => q % 256 = q + 256
  OBVIOUS

LEMMA WordOfBytes ==
    ASSUME NEW n \in UInt16
    PROVE  low(n) \in UInt8 /\ high(n) \in UInt8 /\ uint16(low(n), high(n)) = n
  <1>1. n \in Int /\ 0 <= n /\ n <= 65535
    BY DEF UInt16
  <1>2. PICK q \in Int, r \in Int :
            /\ n \div 256 = q /\ n % 256 = r
            /\ 0 <= r /\ r <= 255 /\ n = 256 * q + r
    BY <1>1, Divided
  <1>3. 0 <= q /\ q <= 255
    BY <1>1, <1>2, Quotient
  <1>4. q % 256 = q
    BY <1>2, <1>3, Wrapped
  <1>5. low(n) = r /\ high(n) = q
    BY <1>2, <1>4 DEF low, high
  <1>6. r \in UInt8 /\ q \in UInt8
    BY <1>2, <1>3 DEF UInt8
  <1>7. uint16(r, q) = n
    BY <1>2 DEF uint16
  <1> QED BY <1>5, <1>6, <1>7

LEMMA PositionOfBytes ==
    ASSUME NEW n \in Int16
    PROVE  low(n) \in UInt8 /\ high(n) \in UInt8 /\ int16(low(n), high(n)) = n
  <1>1. n \in Int /\ -32768 <= n /\ n <= 32767
    BY DEF Int16
  <1>2. PICK q \in Int, r \in Int :
            /\ n \div 256 = q /\ n % 256 = r
            /\ 0 <= r /\ r <= 255 /\ n = 256 * q + r
    BY <1>1, Divided
  <1>3. -128 <= q /\ q <= 127
    BY <1>1, <1>2, Quotient
  <1>4. q % 256 = IF q < 0 THEN q + 256 ELSE q
    BY <1>2, <1>3, Wrapped
  <1>5. low(n) = r /\ high(n) = IF q < 0 THEN q + 256 ELSE q
    BY <1>2, <1>4 DEF low, high
  <1> QED BY <1>1, <1>2, <1>3, <1>5 DEF UInt8, uint16, int16

\* The node id and the function code can be told apart in the id of a frame.
LEMMA IdParts ==
    ASSUME NEW id \in SUBSET NODEID_BITMASK,
           NEW functionCode \in SUBSET FUNCTIONCODE_RSHIFTED_BITMASK
    PROVE  /\ (id \cup shiftLeft(functionCode)) \in SUBSET Bits
           /\ (id \cup shiftLeft(functionCode)) \cap NODEID_BITMASK = id
           /\ shiftRight(id \cup shiftLeft(functionCode))
                  \cap FUNCTIONCODE_RSHIFTED_BITMASK = functionCode
  <1>1. \A b \in shiftLeft(functionCode) : b \in Bits /\ b \notin NODEID_BITMASK
    BY DEF shiftLeft, NODEID_BITMASK, FUNCTIONCODE_RSHIFTED_BITMASK,
           FUNCTIONCODE_BITSHIFT, Bits
  <1>2. \A b \in FUNCTIONCODE_RSHIFTED_BITMASK :
            /\ b \in Bits /\ b + 7 \in Bits /\ b + 7 \notin id
            /\ b + 7 \in shiftLeft(functionCode) <=> b \in functionCode
    BY DEF shiftLeft, NODEID_BITMASK, FUNCTIONCODE_RSHIFTED_BITMASK,
           FUNCTIONCODE_BITSHIFT, Bits
  <1>3. \A b \in FUNCTIONCODE_RSHIFTED_BITMASK :
            b \in shiftRight(id \cup shiftLeft(functionCode)) <=> b \in functionCode
    BY <1>2 DEF shiftRight, FUNCTIONCODE_BITSHIFT
  <1>4. shiftRight(id \cup shiftLeft(functionCode))
            \cap FUNCTIONCODE_RSHIFTED_BITMASK = functionCode
    BY <1>3
  <1>5. NODEID_BITMASK \subseteq Bits
    BY DEF NODEID_BITMASK, Bits
  <1>6. (id \cup shiftLeft(functionCode)) \cap NODEID_BITMASK = id
    BY <1>1
  <1> QED BY <1>1, <1>4, <1>5, <1>6

LEMMA NoCode ==
    ASSUME NEW id \in SUBSET NODEID_BITMASK
    PROVE  /\ id \in SUBSET Bits
           /\ shiftRight(id) \cap FUNCTIONCODE_RSHIFTED_BITMASK = {}
BY DEF NODEID_BITMASK, FUNCTIONCODE_RSHIFTED_BITMASK, FUNCTIONCODE_BITSHIFT,
       Bits, shiftRight

-----------------------------------------------------------------------------
(* Messages *)

\* Two messages with the same getters are read alike.
ReadsObject(m, id, functionCode, object, unit, value) ==
    /\ getNodeId(m) = id /\ getFunctionCode(m) = functionCode
    /\ getTdtObject(m) = object /\ getTdtUnit(m) = unit /\ getTdtValue(m) = value

ReadsShred(m, id, functionCode, pos, value) ==
    /\ getNodeId(m) = id /\ getFunctionCode(m) = functionCode
    /\ getMmpPos(m) = pos /\ getTdtValue(m) = value

LEMMA FullFacts ==
    ASSUME NEW id \in SUBSET NODEID_BITMASK,
           NEW functionCode \in SUBSET FUNCTIONCODE_RSHIFTED_BITMASK,
           NEW b0 \in UInt8, NEW b1 \in UInt8, NEW b2 \in UInt8, NEW b3 \in UInt8,
           NEW value \in Value
    PROVE  LET m == Full(id, functionCode, b0, b1, b2, b3, value)
           IN  /\ m \in Frame
               /\ getNodeId(m) = id /\ getFunctionCode(m) = functionCode
               /\ m.data[0] = b0 /\ m.data[1] = b1 /\ m.data[2] = b2 /\ m.data[3] = b3
               /\ getTdtValue(m) = value
  <1> DEFINE m == Full(id, functionCode, b0, b1, b2, b3, value)
  <1>1. m.data = [i \in 0 .. 7 |-> CASE i = 0 -> b0 [] i = 1 -> b1 [] i = 2 -> b2
                                     [] i = 3 -> b3 [] OTHER -> value[i]]
    BY DEF Full
  <1>2. m.data \in [0 .. 7 -> UInt8]
    BY <1>1 DEF Value
  <1>3. m.id = id \cup shiftLeft(functionCode) /\ m.len = 8
    BY DEF Full
  <1>4. m \in Frame
    BY <1>2, <1>3, IdParts DEF Full, Frame
  <1>5. getNodeId(m) = id /\ getFunctionCode(m) = functionCode
    BY <1>3, IdParts DEF getNodeId, getFunctionCode
  <1>6. m.data[0] = b0 /\ m.data[1] = b1 /\ m.data[2] = b2 /\ m.data[3] = b3
    BY <1>1
  <1>7. getTdtValue(m) = value
    <2>1. \A i \in 4 .. 7 : m.data[i] = value[i]
      BY <1>1
    <2> QED BY <2>1 DEF getTdtValue, Value
  <1> QED BY <1>4, <1>5, <1>6, <1>7

LEMMA ObjectMessageReads ==
    ASSUME NEW id \in SUBSET NODEID_BITMASK,
           NEW functionCode \in SUBSET FUNCTIONCODE_RSHIFTED_BITMASK,
           NEW object \in UInt16, NEW unit \in UInt8, NEW value \in Value
    PROVE  /\ ObjectMessage(id, functionCode, object, unit, value) \in Frame
           /\ ReadsObject(ObjectMessage(id, functionCode, object, unit, value),
                          id, functionCode, object, unit, value)
  <1>1. low(object) \in UInt8 /\ high(object) \in UInt8 /\ 0 \in UInt8
    BY WordOfBytes DEF UInt8
  <1>2. uint16(low(object), high(object)) = object
    BY WordOfBytes
  <1> QED BY <1>1, <1>2, FullFacts
          DEF ObjectMessage, ReadsObject, getTdtObject, getTdtUnit

\* The fields of an MMP message arrive as they were sent, a position with its
\* sign: what MmpLink and MmpBus say of messages rests on it.
THEOREM MmpMessageReads ==
    ASSUME NEW id \in SUBSET NODEID_BITMASK,
           NEW functionCode \in SUBSET FUNCTIONCODE_RSHIFTED_BITMASK,
           NEW source \in UInt16, NEW pos \in Int16, NEW value \in Value
    PROVE  /\ MmpMessage(id, functionCode, source, pos, value) \in Frame
           /\ ReadsShred(MmpMessage(id, functionCode, source, pos, value),
                         id, functionCode, pos, value)
  <1>1. /\ low(source) \in UInt8 /\ high(source) \in UInt8
        /\ low(pos) \in UInt8 /\ high(pos) \in UInt8
    BY WordOfBytes, PositionOfBytes
  <1>2. int16(low(pos), high(pos)) = pos
    BY PositionOfBytes
  <1> QED BY <1>1, <1>2, FullFacts DEF MmpMessage, ReadsShred, getMmpPos

\* A meaning whose fields a message reads is what Read gives.
LEMMA ReadIsObject ==
    ASSUME NEW m, NEW x \in ObjectMeaning
    PROVE  Read(m, x.kind) = x <=>
               ReadsObject(m, x.id, x.functionCode, x.object, x.unit, x.value)
  BY DEF Read, Meaning, ReadsObject, ObjectMeaning

LEMMA ReadIsShred ==
    ASSUME NEW m, NEW x \in ShredMeaning
    PROVE  Read(m, x.kind) = x <=>
               ReadsShred(m, x.id, x.functionCode, x.pos, x.value)
  BY DEF Read, MmpMeaning, ReadsShred, ShredMeaning

\* The three kinds of meanings can be told apart.
LEMMA Kinds ==
    /\ Nothing.kind = "nothing"
    /\ \A x \in ObjectMeaning : x.kind = "object" /\ x # Nothing
    /\ \A x \in ShredMeaning : x.kind = "mmp" /\ x # Nothing
  BY DEF Nothing, ObjectMeaning, ShredMeaning

-----------------------------------------------------------------------------
(* Setters *)

Known(x) == x \in ObjectMeaning \/ x \in ShredMeaning

\* m is a message that reads as x.
Reads(m, x) == m \in Frame /\ Known(x) /\ Read(m, x.kind) = x

LEMMA ObjectIsRead ==
    ASSUME NEW m, NEW x \in ObjectMeaning, Reads(m, x)
    PROVE  /\ getNodeId(m) = x.id /\ getFunctionCode(m) = x.functionCode
           /\ getTdtObject(m) = x.object /\ getTdtUnit(m) = x.unit
           /\ getTdtValue(m) = x.value
  BY ReadIsObject DEF Reads, ReadsObject

LEMMA ShredIsRead ==
    ASSUME NEW m, NEW x \in ShredMeaning, Reads(m, x)
    PROVE  /\ getNodeId(m) = x.id /\ getFunctionCode(m) = x.functionCode
           /\ getMmpPos(m) = x.pos /\ getTdtValue(m) = x.value
  BY ReadIsShred DEF Reads, ReadsShred

\* What the two words of the payload say depends on nothing else.
LEMMA DataIsRead ==
    ASSUME NEW m, NEW n, n.data = m.data
    PROVE  /\ getTdtObject(n) = getTdtObject(m) /\ getTdtUnit(n) = getTdtUnit(m)
           /\ getMmpPos(n) = getMmpPos(m) /\ getTdtValue(n) = getTdtValue(m)
  BY DEF getTdtObject, getTdtUnit, getMmpPos, getTdtValue

LEMMA IdIsRead ==
    ASSUME NEW n, NEW id \in SUBSET NODEID_BITMASK,
           NEW functionCode \in SUBSET FUNCTIONCODE_RSHIFTED_BITMASK,
           n.id = id \cup shiftLeft(functionCode)
    PROVE  getNodeId(n) = id /\ getFunctionCode(n) = functionCode
  BY IdParts DEF getNodeId, getFunctionCode

LEMMA NodeIdSet ==
    ASSUME NEW m, NEW x, Reads(m, x), NEW id \in SUBSET NODEID_BITMASK
    PROVE  Reads(setNodeId(m, id), [x EXCEPT !.id = id, !.functionCode = {}])
  <1> DEFINE n == setNodeId(m, id)
             y == [x EXCEPT !.id = id, !.functionCode = {}]
  <1>1. n \in Frame /\ n.data = m.data /\ n.id = id
    BY NoCode DEF setNodeId, Frame, Reads
  <1>2. getNodeId(n) = id /\ getFunctionCode(n) = {}
    BY <1>1, NoCode DEF getNodeId, getFunctionCode
  <1>3. CASE x \in ObjectMeaning
    <2>1. y \in ObjectMeaning /\ y.id = id /\ y.functionCode = {}
          /\ y.object = x.object /\ y.unit = x.unit /\ y.value = x.value
      BY <1>3 DEF ObjectMeaning
    <2>2. ReadsObject(n, y.id, y.functionCode, y.object, y.unit, y.value)
      BY <1>1, <1>2, DataIsRead, <1>3, <2>1, ObjectIsRead DEF ReadsObject
    <2> QED BY <1>1, <2>1, <2>2, ReadIsObject DEF Reads, Known
  <1>4. CASE x \in ShredMeaning
    <2>1. y \in ShredMeaning /\ y.id = id /\ y.functionCode = {}
          /\ y.pos = x.pos /\ y.value = x.value
      BY <1>4 DEF ShredMeaning
    <2>2. ReadsShred(n, y.id, y.functionCode, y.pos, y.value)
      BY <1>1, <1>2, DataIsRead, <1>4, <2>1, ShredIsRead DEF ReadsShred
    <2> QED BY <1>1, <2>1, <2>2, ReadIsShred DEF Reads, Known
  <1> QED BY <1>3, <1>4 DEF Reads, Known

LEMMA FunctionCodeSet ==
    ASSUME NEW m, NEW x, Reads(m, x),
           NEW functionCode \in SUBSET FUNCTIONCODE_RSHIFTED_BITMASK
    PROVE  Reads(setFunctionCode(m, functionCode),
                 [x EXCEPT !.functionCode = functionCode])
  <1> DEFINE n == setFunctionCode(m, functionCode)
             y == [x EXCEPT !.functionCode = functionCode]
  <1>1. getNodeId(m) \in SUBSET NODEID_BITMASK
    BY DEF getNodeId
  <1>2. n \in Frame /\ n.data = m.data /\ n.id = getNodeId(m) \cup shiftLeft(functionCode)
    BY <1>1, IdParts DEF setFunctionCode, Frame, Reads, getNodeId
  <1>3. getNodeId(n) = getNodeId(m) /\ getFunctionCode(n) = functionCode
    BY <1>1, <1>2, IdIsRead
  <1>4. CASE x \in ObjectMeaning
    <2>1. y \in ObjectMeaning /\ y.id = x.id /\ y.functionCode = functionCode
          /\ y.object = x.object /\ y.unit = x.unit /\ y.value = x.value
      BY <1>4 DEF ObjectMeaning
    <2>2. ReadsObject(n, y.id, y.functionCode, y.object, y.unit, y.value)
      BY <1>2, <1>3, DataIsRead, <1>4, <2>1, ObjectIsRead DEF ReadsObject
    <2> QED BY <1>2, <2>1, <2>2, ReadIsObject DEF Reads, Known
  <1>5. CASE x \in ShredMeaning
    <2>1. y \in ShredMeaning /\ y.id = x.id /\ y.functionCode = functionCode
          /\ y.pos = x.pos /\ y.value = x.value
      BY <1>5 DEF ShredMeaning
    <2>2. ReadsShred(n, y.id, y.functionCode, y.pos, y.value)
      BY <1>2, <1>3, DataIsRead, <1>5, <2>1, ShredIsRead DEF ReadsShred
    <2> QED BY <1>2, <2>1, <2>2, ReadIsShred DEF Reads, Known
  <1> QED BY <1>4, <1>5 DEF Reads, Known

LEMMA ValueSet ==
    ASSUME NEW m, NEW x, Reads(m, x), NEW value \in Value
    PROVE  Reads(setValue(m, value), [x EXCEPT !.value = value])
  <1> DEFINE n == setValue(m, value)
             y == [x EXCEPT !.value = value]
  <1>1. /\ n.id = m.id /\ n.len = m.len
        /\ n.data = [i \in 0 .. 7 |-> IF i < 4 THEN m.data[i] ELSE value[i]]
    BY DEF setValue, Frame, Reads
  <1>2. n.data \in [0 .. 7 -> UInt8]
    BY <1>1 DEF Reads, Frame, Value
  <1>3. n \in Frame
    BY <1>1, <1>2 DEF setValue, Frame, Reads
  <1>4. /\ n.data[0] = m.data[0] /\ n.data[1] = m.data[1]
        /\ n.data[2] = m.data[2] /\ n.data[3] = m.data[3]
    BY <1>1
  <1>5. getTdtValue(n) = value
    <2>1. \A i \in 4 .. 7 : n.data[i] = value[i]
      BY <1>1
    <2> QED BY <2>1 DEF getTdtValue, Value
  <1>6. /\ getNodeId(n) = getNodeId(m) /\ getFunctionCode(n) = getFunctionCode(m)
        /\ getTdtObject(n) = getTdtObject(m) /\ getTdtUnit(n) = getTdtUnit(m)
        /\ getMmpPos(n) = getMmpPos(m)
    BY <1>1, <1>4
    DEF getNodeId, getFunctionCode, getTdtObject, getTdtUnit, getMmpPos
  <1>7. CASE x \in ObjectMeaning
    <2>1. y \in ObjectMeaning /\ y.value = value
          /\ y.id = x.id /\ y.functionCode = x.functionCode /\ y.object = x.object /\ y.unit = x.unit
      BY <1>7 DEF ObjectMeaning
    <2>2. ReadsObject(n, y.id, y.functionCode, y.object, y.unit, y.value)
      BY <1>5, <1>6, <1>7, <2>1, ObjectIsRead DEF ReadsObject
    <2> QED BY <1>3, <2>1, <2>2, ReadIsObject DEF Reads, Known
  <1>8. CASE x \in ShredMeaning
    <2>1. y \in ShredMeaning /\ y.value = value
          /\ y.id = x.id /\ y.functionCode = x.functionCode /\ y.pos = x.pos
      BY <1>8 DEF ShredMeaning
    <2>2. ReadsShred(n, y.id, y.functionCode, y.pos, y.value)
      BY <1>5, <1>6, <1>8, <2>1, ShredIsRead DEF ReadsShred
    <2> QED BY <1>3, <2>1, <2>2, ReadIsShred DEF Reads, Known
  <1> QED BY <1>7, <1>8 DEF Reads, Known

LEMMA ObjectSet ==
    ASSUME NEW m, NEW x \in ObjectMeaning, Reads(m, x), NEW object \in UInt16
    PROVE  Reads(setTdtObject(m, object), [x EXCEPT !.object = object])
  <1> DEFINE n == setTdtObject(m, object)
             y == [x EXCEPT !.object = object]
  <1>1. low(object) \in UInt8 /\ high(object) \in UInt8
    BY WordOfBytes
  <1>2. /\ n \in Frame /\ n.id = m.id
        /\ n.data = [m.data EXCEPT ![0] = low(object), ![1] = high(object)]
    BY <1>1 DEF setTdtObject, Frame, Reads
  <1>3. /\ n.data[0] = low(object) /\ n.data[1] = high(object)
        /\ n.data[2] = m.data[2] /\ \A i \in 4 .. 7 : n.data[i] = m.data[i]
    BY <1>2 DEF Frame, Reads
  <1>4. getTdtObject(n) = object /\ getTdtValue(n) = getTdtValue(m)
    BY <1>3, WordOfBytes DEF getTdtObject, getTdtValue
  <1>5. y \in ObjectMeaning /\ y.object = object
        /\ y.id = x.id /\ y.functionCode = x.functionCode
        /\ y.unit = x.unit /\ y.value = x.value
    BY DEF ObjectMeaning
  <1>6. /\ getNodeId(n) = getNodeId(m) /\ getFunctionCode(n) = getFunctionCode(m)
        /\ getTdtUnit(n) = getTdtUnit(m)
    BY <1>2, <1>3 DEF getNodeId, getFunctionCode, getTdtUnit
  <1>7. ReadsObject(n, y.id, y.functionCode, y.object, y.unit, y.value)
    BY <1>4, <1>5, <1>6, ObjectIsRead DEF ReadsObject
  <1> QED BY <1>2, <1>5, <1>7, ReadIsObject DEF Reads, Known

LEMMA UnitSet ==
    ASSUME NEW m, NEW x \in ObjectMeaning, Reads(m, x), NEW unit \in UInt8
    PROVE  Reads(setUnit(m, unit), [x EXCEPT !.unit = unit])
  <1> DEFINE n == setUnit(m, unit)
             y == [x EXCEPT !.unit = unit]
  <1>1. /\ n \in Frame /\ n.id = m.id
        /\ n.data = [m.data EXCEPT ![2] = unit]
    BY DEF setUnit, Frame, Reads
  <1>2. /\ n.data[0] = m.data[0] /\ n.data[1] = m.data[1]
        /\ n.data[2] = unit /\ \A i \in 4 .. 7 : n.data[i] = m.data[i]
    BY <1>1 DEF Frame, Reads
  <1>3. getTdtValue(n) = getTdtValue(m)
    BY <1>2 DEF getTdtValue
  <1>4. y \in ObjectMeaning /\ y.unit = unit
        /\ y.id = x.id /\ y.functionCode = x.functionCode
        /\ y.object = x.object /\ y.value = x.value
    BY DEF ObjectMeaning
  <1>5. /\ getNodeId(n) = getNodeId(m) /\ getFunctionCode(n) = getFunctionCode(m)
        /\ getTdtObject(n) = getTdtObject(m) /\ getTdtUnit(n) = unit
    BY <1>1, <1>2 DEF getNodeId, getFunctionCode, getTdtObject, getTdtUnit
  <1>6. ReadsObject(n, y.id, y.functionCode, y.object, y.unit, y.value)
    BY <1>3, <1>4, <1>5, ObjectIsRead DEF ReadsObject
  <1> QED BY <1>1, <1>4, <1>6, ReadIsObject DEF Reads, Known

\* The length is no part of what is read.
LEMMA LengthSet ==
    ASSUME NEW m, NEW x, Reads(m, x), NEW len \in Nat
    PROVE  Reads(setLen(m, len), x)
  <1> DEFINE n == setLen(m, len)
  <1>1. n \in Frame /\ n.id = m.id /\ n.data = m.data
    BY DEF setLen, Frame, Reads
  <1> QED BY <1>1 DEF Reads, Read, Meaning, MmpMeaning, getNodeId, getFunctionCode,
          getTdtObject, getTdtUnit, getMmpPos, getTdtValue

\* A frame of eight bytes is assigned as a whole, a shorter one is still a frame.
LEMMA Assigned ==
    ASSUME NEW m \in Frame, NEW from \in Frame
    PROVE  /\ assign(m, from) \in Frame
           /\ from.len >= 8 =>
                  assign(m, from).id = from.id /\ assign(m, from).data = from.data
  <1> DEFINE len == IF from.len > 8 THEN 8 ELSE from.len
             n == assign(m, from)
  <1>1. /\ n.id = from.id /\ n.len = len
        /\ n.data = [i \in 0 .. 7 |-> IF i < len THEN from.data[i] ELSE m.data[i]]
    BY DEF assign, setData, Frame
  <1>2. n.data \in [0 .. 7 -> UInt8] /\ len \in Nat
    BY <1>1 DEF Frame
  <1>3. n \in Frame
    BY <1>1, <1>2 DEF assign, setData, Frame
  <1>4. ASSUME from.len >= 8 PROVE n.data = from.data
    <2>1. len = 8
      BY <1>4 DEF Frame
    <2>2. \A i \in 0 .. 7 : n.data[i] = from.data[i]
      BY <1>1, <2>1
    <2> QED BY <1>2, <2>2 DEF Frame
  <1> QED BY <1>1, <1>3, <1>4

-----------------------------------------------------------------------------
(* The two programs *)

\* The invariant: each message reads as its history says, if it says anything.
Agrees(m, x) == m \in Frame /\ (x = Nothing \/ Reads(m, x))

MsgInv == Agrees(sent, meant) /\ Agrees(got, gotMeant)

LEMMA KnownKind ==
    ASSUME NEW m, NEW x, Agrees(m, x)
    PROVE  /\ x # Nothing => Reads(m, x)
           /\ x.kind = "object" => x \in ObjectMeaning /\ Reads(m, x)
  BY Kinds DEF Agrees, Reads, Known

LEMMA InvHolds ==
    MsgInv => MsgTypeOK /\ ReadsAsMeant /\ GotAsMeant
  BY DEF MsgInv, Agrees, Reads, MsgTypeOK, ReadsAsMeant, GotAsMeant

LEMMA InitHolds == MsgInit => MsgInv
  <1> SUFFICES ASSUME MsgInit PROVE MsgInv
    OBVIOUS
  <1>1. PICK junk \in Payloads, len \in FrameLengths :
            /\ sent = [id |-> Bits, len |-> len,
                       data |-> [i \in 0 .. 7 |-> IF i < 4 THEN junk[i + 4] ELSE junk[i]]]
            /\ got = sent
    BY DEF MsgInit
  <1>2. junk \in [4 .. 7 -> UInt8] /\ len \in Nat
    BY MessageAssumption DEF MessageAssumption
  <1>3. [i \in 0 .. 7 |-> IF i < 4 THEN junk[i + 4] ELSE junk[i]] \in [0 .. 7 -> UInt8]
    BY <1>2
  <1>4. sent \in Frame
    BY <1>1, <1>2, <1>3 DEF Frame
  <1> QED BY <1>1, <1>4 DEF MsgInit, MsgInv, Agrees

\* A step that builds a message which reads as is meant keeps the invariant.
LEMMA BuildKeeps ==
    ASSUME MsgInv, NEW m, NEW x, Reads(m, x), Build(m, x)
    PROVE  MsgInv'
  BY DEF MsgInv, Build, Agrees, Reads, Known, Read, Meaning, MmpMeaning, Frame,
         getNodeId, getFunctionCode, getTdtObject, getTdtUnit, getMmpPos, getTdtValue

LEMMA NextHolds ==
    ASSUME MsgInv, [MsgNext]_msgVars
    PROVE  MsgInv'
  <1> USE MessageAssumption DEF MessageAssumption
  <1>1. Agrees(sent, meant) /\ Agrees(got, gotMeant)
    BY DEF MsgInv
  <1>2. CASE construct
    <2>1. PICK id \in NodeIds, functionCode \in FunctionCodes, object \in Objects,
               unit \in Units, value \in Payloads :
              Build(ObjectMessage(id, functionCode, object, unit, value),
                    Meaning(id, functionCode, object, unit, value))
      BY <1>2 DEF construct
    <2> DEFINE m == ObjectMessage(id, functionCode, object, unit, value)
               x == Meaning(id, functionCode, object, unit, value)
    <2>2. m \in Frame /\ ReadsObject(m, id, functionCode, object, unit, value)
      BY ObjectMessageReads DEF Value
    <2>3. x \in ObjectMeaning
      BY DEF Meaning, ObjectMeaning, Value
    <2>4. Reads(m, x)
      BY <2>2, <2>3, ReadIsObject DEF Reads, Known, Meaning
    <2> QED BY <2>1, <2>4, BuildKeeps
  <1>3. CASE constructMmp
    <2>1. PICK id \in NodeIds, source \in Objects, functionCode \in FunctionCodes,
               pos \in Positions, value \in Payloads :
              Build(MmpMessage(id, functionCode, source, pos, value),
                    MmpMeaning(id, functionCode, pos, value))
      BY <1>3 DEF constructMmp
    <2> DEFINE m == MmpMessage(id, functionCode, source, pos, value)
               x == MmpMeaning(id, functionCode, pos, value)
    <2>2. m \in Frame /\ ReadsShred(m, id, functionCode, pos, value)
      BY MmpMessageReads DEF Value
    <2>3. x \in ShredMeaning
      BY DEF MmpMeaning, ShredMeaning, Value
    <2>4. Reads(m, x)
      BY <2>2, <2>3, ReadIsShred DEF Reads, Known, MmpMeaning
    <2> QED BY <2>1, <2>4, BuildKeeps
  <1>4. CASE changeNodeId
    <2>1. PICK id \in NodeIds :
              /\ meant # Nothing
              /\ Build(setNodeId(sent, id), [meant EXCEPT !.id = id, !.functionCode = {}])
      BY <1>4 DEF changeNodeId
    <2> QED BY <1>1, <2>1, KnownKind, NodeIdSet, BuildKeeps
  <1>5. CASE changeFunctionCode
    <2>1. PICK functionCode \in FunctionCodes :
              /\ meant # Nothing
              /\ Build(setFunctionCode(sent, functionCode),
                       [meant EXCEPT !.functionCode = functionCode])
      BY <1>5 DEF changeFunctionCode
    <2> QED BY <1>1, <2>1, KnownKind, FunctionCodeSet, BuildKeeps
  <1>6. CASE changeValue
    <2>1. PICK value \in Payloads :
              /\ meant # Nothing
              /\ Build(setValue(sent, value), [meant EXCEPT !.value = value])
      BY <1>6 DEF changeValue
    <2> QED BY <1>1, <2>1, KnownKind, ValueSet, BuildKeeps DEF Value
  <1>7. CASE changeObject
    <2>1. PICK object \in Objects :
              /\ meant.kind = "object"
              /\ Build(setTdtObject(sent, object), [meant EXCEPT !.object = object])
      BY <1>7 DEF changeObject
    <2> QED BY <1>1, <2>1, KnownKind, ObjectSet, BuildKeeps
  <1>8. CASE changeUnit
    <2>1. PICK unit \in Units :
              /\ meant.kind = "object"
              /\ Build(setUnit(sent, unit), [meant EXCEPT !.unit = unit])
      BY <1>8 DEF changeUnit
    <2> QED BY <1>1, <2>1, KnownKind, UnitSet, BuildKeeps
  <1>9. CASE changeAll
    <2>1. PICK object \in Objects, unit \in Units, value \in Payloads :
              /\ meant.kind = "object"
              /\ Build(setValue(setUnit(setTdtObject(sent, object), unit), value),
                       [meant EXCEPT !.object = object, !.unit = unit, !.value = value])
      BY <1>9 DEF changeAll
    <2> DEFINE x1 == [meant EXCEPT !.object = object]
               x2 == [x1 EXCEPT !.unit = unit]
               x3 == [x2 EXCEPT !.value = value]
    <2>2. meant \in ObjectMeaning /\ Reads(sent, meant)
      BY <1>1, <2>1, KnownKind
    <2>3. x1 \in ObjectMeaning /\ x2 \in ObjectMeaning
      BY <2>2 DEF ObjectMeaning
    <2>4. Reads(setTdtObject(sent, object), x1)
      BY <2>2, ObjectSet
    <2>5. Reads(setUnit(setTdtObject(sent, object), unit), x2)
      BY <2>3, <2>4, UnitSet
    <2>6. Reads(setValue(setUnit(setTdtObject(sent, object), unit), value), x3)
      BY <2>5, ValueSet DEF Value
    <2>7. x3 = [meant EXCEPT !.object = object, !.unit = unit, !.value = value]
      BY <2>2 DEF ObjectMeaning
    <2> QED BY <2>1, <2>6, <2>7, BuildKeeps
  <1>10. CASE changeLength
    <2>1. PICK len \in FrameLengths : Build(setLen(sent, len), meant)
      BY <1>10 DEF changeLength
    <2>2. CASE meant = Nothing
      <3>1. setLen(sent, len) \in Frame
        BY <1>1 DEF Agrees, setLen, Frame
      <3> QED BY <1>1, <2>1, <2>2, <3>1 DEF MsgInv, Build, Agrees, Reads
    <2>3. CASE meant # Nothing
      BY <1>1, <2>1, <2>3, KnownKind, LengthSet, BuildKeeps
    <2> QED BY <2>2, <2>3
  <1>11. CASE getCopy
    BY <1>1, <1>11 DEF getCopy, Get, MsgInv, Agrees
  <1>12. CASE getAssigned
    <2> DEFINE m == assign(got, sent)
    <2>1. m \in Frame
      BY <1>1, Assigned DEF Agrees
    <2>2. CASE sent.len >= 8 /\ meant # Nothing
      <3>1. m.id = sent.id /\ m.data = sent.data
        BY <1>1, <2>2, Assigned DEF Agrees
      <3>2. Reads(sent, meant)
        BY <1>1, <2>2, KnownKind
      <3>3. Read(m, meant.kind) = Read(sent, meant.kind)
        BY <3>1 DEF Read, Meaning, MmpMeaning, getNodeId, getFunctionCode,
                    getTdtObject, getTdtUnit, getMmpPos, getTdtValue
      <3>4. Reads(m, meant)
        BY <2>1, <3>2, <3>3 DEF Reads
      <3> QED BY <1>1, <1>12, <2>1, <2>2, <3>4 DEF getAssigned, Get, MsgInv, Agrees
    <2>3. CASE ~(sent.len >= 8 /\ meant # Nothing)
      BY <1>1, <1>12, <2>1, <2>3 DEF getAssigned, Get, MsgInv, Agrees
    <2> QED BY <2>2, <2>3
  <1>13. CASE UNCHANGED msgVars
    BY <1>1, <1>13 DEF msgVars, MsgInv, Agrees
  <1> QED
    BY <1>2, <1>3, <1>4, <1>5, <1>6, <1>7, <1>8, <1>9, <1>10, <1>11, <1>12, <1>13
    DEF MsgNext

LEMMA InvAlways == MsgSpec => []MsgInv
  BY InitHolds, NextHolds, PTL DEF MsgSpec

\* The bytes stay bytes.
THEOREM MsgTypeCorrect == MsgSpec => []MsgTypeOK
  BY InvAlways, InvHolds, PTL

\* Whatever the order of constructors and setters, a message reads as it was
\* built (message.hpp:413-451).
THEOREM ReadsAsMeantAlways == MsgSpec => []ReadsAsMeant
  BY InvAlways, InvHolds, PTL

\* So does every message that was copied or assigned from a whole frame
\* (message.hpp:354-364).
THEOREM GotAsMeantAlways == MsgSpec => []GotAsMeant
  BY InvAlways, InvHolds, PTL

=============================================================================
