------------------------------ MODULE TdtTarget ------------------------------
(***************************************************************************)
(* The printer for the nodes themselves (CCanTdtPrinter), which knows a    *)
(* few units by heart and has no tables, beside the printer of the host,   *)
(* and the numbers of the elements of an array.                            *)
(***************************************************************************)
EXTENDS TdtPrinter

\* Mutant of snprintValue: the fraction is that of tenths.
snprintValueTenths(unit, value) ==
    LET whole == quot(value, 10)
    IN  IF IsUnit(unit, "centiCelsius")
        THEN <<Num(whole), Word("."), Num(value - whole * 10), Word("C")>>
        ELSE printBuiltIn(unit, value)

\* snprintValue(): the fraction of a temperature has the sign of the whole.
snprintValue(unit, value) ==
    LET whole == quot(value, 100)
    IN  CASE IsUnit(unit, "centiCelsius") ->
                <<Num(whole), Word("."), Num(value - whole * 100), Word("C")>>
          [] IsUnit(unit, "version") ->
                <<Word("v"), Num(Byte(value, 3)), Num(Byte(value, 2)), Num(Byte(value, 1)),
                  Num(Byte(value, 0) \div 4), Word(IF value % 2 = 1 THEN "+" ELSE "")>>
          [] IsUnit(unit, "hz") -> <<Num(value), Word("HZ")>>
          [] IsUnit(unit, "durationSeconds") -> <<Num(value), Word("s")>>
          [] IsUnit(unit, "nodeId") -> <<Num(value)>>
          [] OTHER -> <<Word("UK: Unit"), Num(unit)>>

\* The titles that go with the values.
targetUnitString(unit) ==
    CASE IsUnit(unit, "version") -> "FW" [] IsUnit(unit, "centiCelsius") -> "TEMP"
      [] IsUnit(unit, "hz") -> "HZ" [] OTHER -> "-"

\* Mutant of getTdtSubId: one bit less.
getTdtSubIdShort(object) == object % 4

getTdtSubId(object) == object % 8

-----------------------------------------------------------------------------
(* Properties *)

\* A text of the node, whole and hundredths, is a number unless the hundredths
\* have a sign; and the number is the one the host shows to six digits.
IsDecimal(node) == node[3].number \in 0 .. 99
SameNumber(host, hundredths) ==
    LET digits == host[2].number
        up     == host[3].number
        down   == host[4].number
    IN  IF qAbs(hundredths) < 1000000
        THEN up = 1 /\ digits * 100 = hundredths * down
        ELSE /\ digits < 0 <=> hundredths < 0
             /\ qAbs(digits) - (qAbs(hundredths) * down) \div (100 * up) \in {0, 1}

\* The two printers show one value as one value (printer_biwak.hpp:46-85): a
\* version, a duration below 100 s, and a temperature, which the host divides by
\* the divider of the profile, in floats and to six digits, and the node by a 100
\* of its own.  The node's text of a temperature is a number from zero on and for
\* whole degrees; else it is not: for the host's -1.5 the node writes -1.-50.
PrintersAgree ==
    (Generated /\ Compiles) => \A u \in EUnit : \A value \in Values :
        LET host == printValue("sendObject", u.value, value)
            node == snprintValue(u.value, value)
            desc == m_unitMap[u.value]
        IN  /\ u.name = "version" /\ PlainLayout(u.value) =>
                   /\ targetUnitString(u.value) = "FW"
                   /\ Len(host) = Len(node) /\ \A i \in 2 .. Len(node) : host[i] = node[i]
            /\ u.name = "centiCelsius" =>
                   /\ targetUnitString(u.value) = "TEMP"
                   /\ IsDecimal(node) <=> (value >= 0 \/ value % 100 = 0)
                   /\ desc.format \in {"", " "} /\ desc.divider = 100 /\ IsDecimal(node) =>
                          SameNumber(host, node[1].number * 100 + node[3].number)
            /\ u.name = "durationSeconds" /\ PlainLayout(u.value) /\ value \in -99 .. 99 =>
                   host = node

\* The sub ids of the elements of an array are their indices exactly if the array
\* starts at a multiple of 8 and has no more than 8 elements (message.hpp:379-382).
SubIdIsIndex ==
    Generated => \A o \in AllObjects : o.size > 0 =>
        ((\A e \in enumString(o) :
             e.ident[3].index >= 0 => getTdtSubId(e.value.n) = e.ident[3].index)
         <=> (numericalValue(o) % 8 = 0 /\ o.size <= 8))
=============================================================================
