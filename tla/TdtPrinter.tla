----------------------------- MODULE TdtPrinter -----------------------------
(***************************************************************************)
(* The printer of the host library, which shows the value of a message     *)
(* with the tables tdtGen has generated.  A text is a sequence of pieces:  *)
(* words, and the numbers it shows.                                        *)
(***************************************************************************)
EXTENDS TdtGen

CONSTANT Values   \* values to print

\* int32_t, without its smallest number.
Int32 == {i \in Int : -2147483647 <= i /\ i <= 2147483647}
ASSUME ValuesAssumption == \A value \in Values : value \in Int32

\* Pieces of a text.
Word(w) == [word |-> w, number |-> 0]
Num(n)  == [word |-> "", number |-> n]
Name(l) == [label |-> l]   \* of an object or a log
Crash   == Word("division by zero")

\* C++ division: towards zero.
quot(a, b) == IF a >= 0 THEN a \div b ELSE -((-a) \div b)

\* The two halves of an unsigned value of 32 bits, divided.
uquot(a, b) ==
    LET high == (a \div 65536) % 65536
        low  == (high % b) * 65536 + (a % 65536)
    IN  <<Num(high \div b), Num(low \div b)>>

PowersOfTen ==
    {1, 10, 100, 1000, 10000, 100000, 1000000, 10000000, 100000000, 1000000000}
HasSixDigits(n) == 100000 <= n /\ n < 1000000

\* The power of ten that leaves six digits of n / d, for a great n / d and a small one.
ScaleUp(n, d) ==
    IF n \div d < 1000000 THEN 1
    ELSE CHOOSE u \in PowersOfTen : HasSixDigits((n \div d) \div u)
ScaleDown(n, d) ==
    IF n = 0 \/ n \div d >= 100000 THEN 1
    ELSE CHOOSE w \in PowersOfTen : HasSixDigits((n * w) \div d)

\* a / b to a whole number.  Three floats (of n, of d and of the quotient, 24 bits
\* each) come before the digits: of two neighbours the one is shown that is nearer
\* but for their error, which is below a / b / 2^22.
Nearest(a, b) ==
    CHOOSE m \in {a \div b, a \div b + 1} :
        2 * (IF m = a \div b THEN a % b ELSE b - (a % b)) <= b + (a \div 2097152)

\* n / d as the default format of a floating point number shows it: six digits,
\* which stand for digits * up / down.  TLC's integers allow dividers up to 10000.
SixDigits(n, d) ==
    LET up   == ScaleUp(n, d)
        down == ScaleDown(n, d)
    IN  [digits |-> Nearest(n * down, d * up), up |-> up, down |-> down]

qAbs(i) == IF i < 0 THEN -i ELSE i

Decimal(value, divider) ==
    LET s == SixDigits(qAbs(value), qAbs(divider))
    IN  <<Word("decimal"), Num(IF value < 0 <=> divider < 0 THEN s.digits ELSE -s.digits),
          Num(s.up), Num(s.down)>>

\* printValueGeneric(): by the format of the unit.  The comment at the last
\* case reads "If unitDesc.decimalPower is '0' assume '1'".
printValueGeneric(desc, value) ==
    CASE desc.format = "E" ->
            IF value \in DOMAIN desc.values THEN <<Word(desc.values[value])>>
            ELSE <<Word(desc.name), Num(value)>>
      [] desc.format = "x" ->
            IF desc.divider = 0 THEN <<Crash>>
            ELSE <<Word("0x")>> \o uquot(value, desc.divider)
      [] desc.format = "d" ->
            IF desc.divider = 0 THEN <<Crash>>
            ELSE <<Num(quot(value, desc.divider))>>
      [] OTHER ->
            IF desc.divider # 1
            THEN Decimal(value, IF desc.divider = 0 THEN 1 ELSE desc.divider)
            ELSE <<Word("<Unknown format>")>>

\* Mutant of Duration: the hours are not those of the last day.
DurationWhole(secs) ==
    LET s == IF secs < 0 THEN -secs ELSE secs
    IN  (IF secs < 0 THEN <<Word("-")>> ELSE <<>>)
        \o (IF s >= 86400 THEN <<Num(s \div 86400), Word("d")>> ELSE <<>>)
        \o <<Num(s \div 3600), Word(":"), Num((s % 3600) \div 60), Word(":"), Num(s % 60)>>

\* The case durationSeconds, from 100 seconds on.
Duration(secs) ==
    LET s == IF secs < 0 THEN -secs ELSE secs
        days == s \div 86400
        hours == (s % 86400) \div 3600
    IN  (IF secs < 0 THEN <<Word("-")>> ELSE <<>>)
        \o (IF days # 0 THEN <<Num(days), Word("d")>> ELSE <<>>)
        \o <<Num(hours), Word(":"), Num((s % 3600) \div 60), Word(":"), Num(s % 60)>>

\* Byte i of a value.
Byte(value, i) == (value \div 256^i) % 256

\* Mutant of toCategory: the wrong four bits.
toCategoryNext(code) == (code \div 16) % 16

\* toCategory() and toLog(), which keeps the category.
toCategory(code) == code % 16
toLog(code) == code

Category(code) ==
    LET cat == toCategory(code)
    IN  IF cat <= 4 THEN <<"Info:", "Caution:", "Warning:", "Critical:", "Fatal:">>[cat + 1]
        ELSE "Other:"

\* The unit has this name in the enumeration EUnit.
IsUnit(unit, name) == [name |-> name, value |-> unit] \in EUnit

\* The cases of printValue() with a layout of their own.
printBuiltIn(unit, value) ==
    CASE IsUnit(unit, "version") ->
            <<Word(IF Byte(value, 0) \div 2 % 2 = 1 THEN "BL v" ELSE "v"),
              Num(Byte(value, 3)), Num(Byte(value, 2)), Num(Byte(value, 1)),
              Num(Byte(value, 0) \div 4), Word(IF value % 2 = 1 THEN "+" ELSE "")>>
      [] IsUnit(unit, "durationSeconds") ->
            IF value \in -99 .. 99 THEN <<Num(value), Word("s")>> ELSE Duration(value)
      [] IsUnit(unit, "time") ->
            <<Num(Byte(value, 2)), Word(":"), Num(Byte(value, 1)), Word(":"), Num(Byte(value, 0))>>
      [] IsUnit(unit, "percentHumidity") -> Decimal(quot(value, 10), 100) \o <<Word("%")>>
      [] IsUnit(unit, "_switch") -> <<Word(IF Byte(value, 0) # 0 THEN "ON" ELSE "OFF")>>
      [] IsUnit(unit, "logCode") ->
            LET key == [macro |-> 0, n |-> toLog(value)]
            IN  <<Word(Category(value))>> \o
                IF key \in DOMAIN m_logMap THEN <<Name(m_logMap[key])>>
                ELSE <<Word("UK:"), Num(value)>>
      [] IsUnit(unit, "milliVolt") -> <<Num(value), Word("mV")>>
      [] OTHER -> <<Word("<No Format>")>>

\* printValue(): what has no layout at all replaces the mark of an alert.
printValue(functionCode, unit, value) ==
    LET mark == IF functionCode = "alert" THEN <<Word("Alert:")>> ELSE <<>>
        desc == m_unitMap[unit]
        builtIn == printBuiltIn(unit, value)
    IN  CASE unit \in DOMAIN m_unitMap /\ (desc.format \notin {"", " "} \/ desc.divider # 1) ->
                mark \o printValueGeneric(desc, value)
          [] OTHER -> (IF builtIn = <<Word("<No Format>")>> THEN <<>> ELSE mark) \o builtIn

\* getObjectString(): the name of an object number.
getObjectString(object) ==
    LET key == [macro |-> 0, n |-> object]
    IN  IF key \in DOMAIN m_objectMap THEN m_objectMap[key] ELSE <<"?", object>>

-----------------------------------------------------------------------------
(* Properties *)

\* What a row of the table is about: the numbers of an entry, and what each of
\* them is shown as.
RowNumbers(o) ==
    IF o.macro # 0 THEN {}
    ELSE numericalValue(o) .. numericalValue(o) + (IF o.size > 0 THEN o.size - 1 ELSE 0)
Label(o, number) == IF o.size > 0 THEN <<o.name, number - numericalValue(o)>> ELSE <<o.name>>

\* No other entry of the lists shares a number with entry j of profile i.
Alone(lists, i, j) ==
    \A m \in DOMAIN lists : \A n \in 1 .. Len(lists[m]) :
        RowNumbers(lists[i][j]) \cap RowNumbers(lists[m][n]) # {} => m = i /\ n = j

\* The printer can name exactly the numbers the enumeration defines (unless an
\* array has fewer than no elements), and an object nobody shares a number with
\* is shown by its own name and index.
PrinterAgrees ==
    Generated =>
        /\ (\A o \in AllObjects : o.size >= 0) => DOMAIN m_objectMap = {e.value : e \in EObject}
        /\ LET lists == Written("objects")
           IN  \A i \in DOMAIN lists : \A j \in 1 .. Len(lists[i]) : Alone(lists, i, j) =>
                  \A number \in RowNumbers(lists[i][j]) :
                      getObjectString(number) = Label(lists[i][j], number)

\* The values of an enumeration are shown by the names the profile gives them,
\* as in tests/test_printer.cpp:41-49: the number that the generated
\* enumeration gives to a name is the one the printer finds the name by.
UnitNumberOf(i, j) == toInt(input[i].unitsOffset) + toInt(input[i].units[j].address)
OnlyUnit(i, j) ==
    \A m \in 1 .. Len(input) : \A n \in 1 .. Len(input[m].units) :
        UnitNumberOf(m, n) = UnitNumberOf(i, j) => m = i /\ n = j
EnumValuesNamed ==
    Generated => \A i \in 1 .. Len(input) : \A j \in 1 .. Len(input[i].units) :
        LET u == input[i].units[j]
        IN  u.format = "E" /\ OnlyUnit(i, j) => \A k \in 1 .. Len(u.values) :
                LET number == u.values[k].number
                IN  /\ number.kind = "text"
                    /\ \A l \in 1 .. Len(u.values) : toInt(u.values[l].number) = number.n => l <= k
                    => printValue("sendObject", UnitNumberOf(i, j), number.n)
                           = <<Word(u.values[k].name)>>

\* Two labels of a switch that have one number do not compile.
SwitchUnits ==
    {"version", "durationSeconds", "time", "percentHumidity", "_switch", "logCode",
     "milliVolt", "centiCelsius", "hz", "nodeId"}
Compiles ==
    \A u, v \in EUnit :
        u.name \in SwitchUnits /\ v.name \in SwitchUnits /\ u.value = v.value => u = v

\* The profiles leave the layout of a unit to the printer.
PlainLayout(unit) == m_unitMap[unit].format \in {"", " "} /\ m_unitMap[unit].divider = 1

\* A duration is shown without loss, in days, hours below 24, minutes and
\* seconds below 60 (src/printer.cpp:74-102).
DurationExact ==
    (Generated /\ Compiles) =>
        \A u \in EUnit : u.name = "durationSeconds" /\ PlainLayout(u.value) =>
          \A secs \in Values :
            LET text == printValue("sendObject", u.value, secs)
                n    == Len(text)
                days == IF n >= 7 /\ text[n - 5] = Word("d") THEN text[n - 6].number ELSE 0
                sum  == ((days * 24 + text[n - 4].number) * 60 + text[n - 2].number) * 60
                            + text[n].number
            IN  \/ text = <<Num(secs), Word("s")>>
                \/ /\ n >= 5 /\ text[n - 1] = Word(":") /\ text[n - 3] = Word(":")
                   /\ text[n - 4].number \in 0 .. 23 /\ text[n - 2].number \in 0 .. 59
                   /\ text[n].number \in 0 .. 59
                   /\ secs = IF text[1] = Word("-") THEN -sum ELSE sum

\* A log code is a log, a multiple of 16, and its category (message.hpp:146-149).
\* It is shown with its category, and by the name of the log if that is the
\* category 0: toLog() does not remove another one from the number.
LogsShown ==
    (Generated /\ Compiles) =>
        \A u \in EUnit : u.name = "logCode" /\ PlainLayout(u.value) =>
          LET lists == Written("logs")
          IN  \A i \in DOMAIN lists : \A j \in 1 .. Len(lists[i]) : \A category \in 0 .. 4 :
                LET log  == lists[i][j]
                    text == printValue("sendObject", u.value, numericalValue(log) + category)
                IN  log.macro = 0 /\ numericalValue(log) % 16 = 0 =>
                       /\ text[1] = Word(<<"Info:", "Caution:", "Warning:", "Critical:", "Fatal:">>[category + 1])
                       /\ Alone(lists, i, j) /\ category = 0 =>
                              text[2] = Name(Label(log, numericalValue(log)))
=============================================================================
