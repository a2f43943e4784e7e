------------------------------- MODULE TdtGen -------------------------------
(***************************************************************************)
(* The code generator: it reads profiles (numbered objects, units,         *)
(* commands and logs) from JSON files and writes the enumerations of the   *)
(* library and the tables of the printer.  The text of a generated file is *)
(* modelled by what a C++ compiler reads in it: enumerators with their     *)
(* values, and maps.  A name is a whole; the only thing generating does to *)
(* it is to put the profile before it and an index behind it.              *)
(***************************************************************************)
EXTENDS Integers, SequencesExt

CONSTANT Inputs   \* what the files may hold, see InputsAssumption

\* A JSON attribute: missing, a string with a number, with the name of a macro
\* (macro n) or with something else that starts with a digit, or a JSON number,
\* which is no string.
Missing  == [kind |-> "missing", n |-> 0]
Text(n)  == [kind |-> "text", n |-> n]
Bare(n)  == [kind |-> "bare", n |-> n]
Macro(n) == [kind |-> "macro", n |-> n]
Broken   == [kind |-> "broken", n |-> 0]

\* toString().toInt( nullptr, 0 )
toInt(a) == IF a.kind = "text" THEN a.n ELSE 0

Attributes  == [kind : {"missing", "text", "bare", "macro", "broken"}, n : Int]
Entries     == [name : STRING, address : Attributes, size : Attributes]
UnitEntries == [name : STRING, address : Attributes, divider : Attributes,
                format : STRING, values : Seq([name : STRING, number : Attributes])]
InputProfiles ==
    [name : STRING, objectsOffset : Attributes, unitsOffset : Attributes,
     objects : Seq(Entries), units : Seq(UnitEntries),
     commands : Seq(Entries), logs : Seq(Entries)]

\* A file that cannot be opened or parsed.
Unreadable == [name |-> "unreadable"]

\* A sequence of files, each with a profile.
InputFiles == Seq(InputProfiles \cup {Unreadable})
ASSUME InputsAssumption == \A files \in Inputs : files \in InputFiles

VARIABLES
    input,      \* the profiles of all files
    profile,    \* the profile being read, or None
    profiles,   \* m_profiles
    phase       \* "parse", "generated", or "fatal" after a qFatal

genVars == <<input, profile, profiles, phase>>
None == [name |-> "none"]

Init ==
    /\ input \in Inputs
    /\ profile = None /\ profiles = <<>> /\ phase = "parse"

-----------------------------------------------------------------------------
(* Reading *)

This == Len(profiles) + 1

\* parseFile(): an unreadable file is fatal, whatever it may hold.
parseFileFails ==
    /\ phase = "parse" /\ profile = None /\ This <= Len(input)
    /\ input[This] = Unreadable /\ phase' = "fatal"
    /\ UNCHANGED <<input, profile, profiles>>

\* parseProfile(): the offsets, and then the lists.
parseProfile ==
    /\ phase = "parse" /\ profile = None /\ This <= Len(input)
    /\ input[This] # Unreadable
    /\ LET p == input[This]
       IN  profile' = [name |-> p.name,
                       objectsOffset |-> toInt(p.objectsOffset),
                       unitsOffset |-> toInt(p.unitsOffset),
                       objects |-> <<>>, units |-> <<>>,
                       commands |-> <<>>, logs |-> <<>>]
    /\ UNCHANGED <<input, profiles, phase>>

\* The loops of parseObjects(), parseUnits(), parseCommands() and parseLogs(),
\* one after another: which of them are done, and the next entry of one.
ObjectsDone  == Len(profile.objects) = Len(input[This].objects)
UnitsDone    == ObjectsDone /\ Len(profile.units) = Len(input[This].units)
CommandsDone == UnitsDone /\ Len(profile.commands) = Len(input[This].commands)
LogsDone     == CommandsDone /\ Len(profile.logs) = Len(input[This].logs)

NextEntry(read, entries) ==
    IF Len(read) < Len(entries) THEN {entries[Len(read) + 1]} ELSE {}

\* Mutant of endProfile: the profile is stored before its logs are read.
endProfileEarly ==
    /\ phase = "parse" /\ profile # None /\ CommandsDone
    /\ profiles' = Append(profiles, profile) /\ profile' = None
    /\ UNCHANGED <<input, phase>>

\* The profile belongs to m_profiles once all of it was read.
endProfile ==
    /\ phase = "parse" /\ profile # None /\ LogsDone
    /\ profiles' = Append(profiles, profile) /\ profile' = None
    /\ UNCHANGED <<input, phase>>

\* The CObject of an entry of profile number n; the enumerators of objects have
\* the profile before their names, and only logs have macros.
NoPrefix == ""
Object(n, offset, e, prefix, macro) ==
    [profile |-> n, offset |-> offset,
     object |-> toInt(e.address), name |-> e.name, size |-> toInt(e.size),
     prefix |-> prefix, macro |-> macro]

numericalValue(o) == o.offset + o.object

\* Mutant of parseObjectsOverlap: aliases are not allowed either.
parseObjectsOverlapAlways(o) ==
    \E other \in ToSet(profile.objects) :
        numericalValue(o) # 0 /\ numericalValue(o) = numericalValue(other)

\* The check of parseObjects(): another profile has an object of this number.
parseObjectsOverlap(o) ==
    \E other \in ToSet(profile.objects) :
        /\ numericalValue(o) # 0 /\ numericalValue(o) = numericalValue(other)
        /\ other.profile # This

\* The check of parseCommands() and parseLogs() asks for the new entry's own
\* profile.
OverlapInList(o, list) ==
    \E other \in ToSet(list) :
        numericalValue(o) = numericalValue(other) /\ o.profile # This

Reading == phase = "parse" /\ profile # None /\ UNCHANGED <<input, profiles>>

parseObject ==
    /\ Reading
    /\ \E e \in NextEntry(profile.objects, input[This].objects) :
          LET o == Object(This, profile.objectsOffset, e, profile.name, 0)
          IN  /\ phase' = IF parseObjectsOverlap(o) THEN "fatal" ELSE phase
              /\ profile' = [profile EXCEPT !.objects = Append(@, o)]

\* Mutant of valueNumber: the number is looked for in a JSON number.
valueNumberBare(v) == IF v.number.kind = "bare" THEN v.number.n ELSE 0

\* The number of an enumeration value.
valueNumber(v) == toInt(v.number)

\* The CUnit of an entry; m_values is a map from numbers to names, filled in
\* alphabetical order, and only for the format "E".
Unit(offset, e) ==
    LET vs == IF e.format = "E" THEN e.values ELSE <<>>
        Latest(k) == CHOOSE i \in 1 .. Len(vs) :
                       /\ valueNumber(vs[i]) = k
                       /\ \A j \in 1 .. Len(vs) : valueNumber(vs[j]) = k => j <= i
    IN  [offset |-> offset, unit |-> toInt(e.address), name |-> e.name,
         divider |-> IF e.divider = Missing THEN 1 ELSE toInt(e.divider),
         format |-> e.format,
         values |-> [k \in {valueNumber(vs[i]) : i \in 1 .. Len(vs)} |-> vs[Latest(k)].name]]

parseUnit ==
    /\ Reading /\ ObjectsDone
    /\ \E e \in NextEntry(profile.units, input[This].units) :
          profile' = [profile EXCEPT !.units = Append(@, Unit(profile.unitsOffset, e))]
    /\ UNCHANGED phase

parseCommand ==
    /\ Reading /\ UnitsDone
    /\ \E e \in NextEntry(profile.commands, input[This].commands) :
          LET o == Object(This, profile.objectsOffset, e, NoPrefix, 0)
          IN  /\ phase' = IF OverlapInList(o, profile.commands) THEN "fatal" ELSE phase
              /\ profile' = [profile EXCEPT !.commands = Append(@, o)]

\* A log may be numbered by a macro, which is copied.  What is no string reads
\* as an empty one, whose first character is looked at all the same.
Log(n, offset, e) ==
    Object(n, offset, e, NoPrefix, IF e.address.kind = "macro" THEN e.address.n ELSE 0)

parseLog ==
    /\ Reading /\ CommandsDone
    /\ \E e \in NextEntry(profile.logs, input[This].logs), digit \in BOOLEAN :
          LET log == Log(This, profile.objectsOffset, e)
          IN  /\ e.address.kind \in {"text", "macro"} => ~digit
              /\ e.address.kind = "broken" => digit
              /\ phase' = IF digit \/ OverlapInList(log, profile.logs) THEN "fatal" ELSE phase
              /\ profile' = [profile EXCEPT !.logs = Append(@, log)]

\* generate(), once everything is read: "No profiles" is fatal.
generate ==
    /\ phase = "parse" /\ profile = None /\ This > Len(input)
    /\ phase' = IF profiles = <<>> THEN "fatal" ELSE "generated"
    /\ UNCHANGED <<input, profile, profiles>>

Next ==
    \/ parseFileFails \/ parseProfile \/ endProfile \/ generate
    \/ parseObject \/ parseUnit \/ parseCommand \/ parseLog

Spec == Init /\ [][Next]_genVars

-----------------------------------------------------------------------------
(* The generated files *)

\* The lists of all profiles, in the order in which they are written.
Written(list) == [i \in 1 .. Len(profiles) |-> profiles[i][list]]
InSome(lists) == UNION {ToSet(lists[i]) : i \in DOMAIN lists}
AllObjects == InSome(Written("objects"))

\* appendObjectNumber(): what the expression behind an enumerator is worth.
Number(o, i) == IF o.macro # 0 THEN [macro |-> o.macro, n |-> 0]
                ELSE [macro |-> 0, n |-> o.offset + o.object + i]

Suffix(text, index) == [text |-> text, index |-> index]
Plain == Suffix("", -1)
Enumerator(o, suffix, i) ==
    [ident |-> <<o.prefix, o.name, suffix>>, value |-> Number(o, i)]

\* Mutant of enumString: the last element is behind the end.
enumStringLong(o) ==
    {Enumerator(o, Plain, 0)} \cup
    IF o.size = 0 THEN {}
    ELSE {Enumerator(o, Suffix("", i), i) : i \in 0 .. o.size - 1}
         \cup {Enumerator(o, Suffix("Start", -1), 0), Enumerator(o, Suffix("Max", -1), o.size)}

\* enumString(): the enumerators of an entry, several if it has a size.
enumString(o) ==
    {Enumerator(o, Plain, 0)} \cup
    IF o.size = 0 THEN {}
    ELSE {Enumerator(o, Suffix("", i), i) : i \in 0 .. o.size - 1}
         \cup {Enumerator(o, Suffix("Start", -1), 0), Enumerator(o, Suffix("Max", -1), o.size - 1)}

EObject == UNION {enumString(o) : o \in AllObjects}

\* Mutant of printerString: an array has no rows of its own.
printerStringPlain(o) == [k \in {0} |-> [key |-> Number(o, 0), value |-> <<o.name>>]]

\* printerString(): the rows of the printer's table for an entry; after row 0
\* there is one for each element of an array.
printerString(o) ==
    [k \in 0 .. (IF o.size > 0 THEN o.size ELSE 0) |->
        IF k = 0 THEN [key |-> Number(o, 0), value |-> <<o.name>>]
        ELSE [key |-> Number(o, k - 1), value |-> <<o.name, k - 1>>]]

\* A row of a table, with its place: row k of entry j of profile i.
Row(i, j, k, row) == [i |-> i, j |-> j, k |-> k, key |-> row.key, value |-> row.value]
Before(r, s) ==
    r.i < s.i \/ (r.i = s.i /\ (r.j < s.j \/ (r.j = s.j /\ r.k < s.k)))

\* A QMap made from rows: of those with one key the last one stays.
LastRow(rows, key) ==
    CHOOSE r \in rows : r.key = key /\ \A s \in rows : s.key = key => ~Before(r, s)
QMap(rows) == [key \in {r.key : r \in rows} |-> LastRow(rows, key).value]

Rows(lists) ==
    UNION {UNION {{Row(i, j, k, printerString(lists[i][j])[k]) :
                       k \in DOMAIN printerString(lists[i][j])} :
                  j \in 1 .. Len(lists[i])} :
           i \in DOMAIN lists}

m_objectMap == QMap(Rows(Written("objects")))
m_logMap    == QMap(Rows(Written("logs")))

\* The enumerators of EUnit, which carry no profile, and the printer's table.
unitNumber(u) == u.offset + u.unit
EUnit == {[name |-> u.name, value |-> unitNumber(u)] : u \in InSome(Written("units"))}
UnitRows(lists) ==
    UNION {{Row(i, j, 0, [key |-> unitNumber(lists[i][j]), value |-> lists[i][j]]) :
                j \in 1 .. Len(lists[i])} :
           i \in DOMAIN lists}
m_unitMap == QMap(UnitRows(Written("units")))

-----------------------------------------------------------------------------
(* Properties *)

TypeOK ==
    /\ input \in InputFiles
    /\ phase \in {"parse", "generated", "fatal"}
    /\ Len(profiles) <= Len(input)

\* What file number n says, all of it and in its order.
Whole(n, file) ==
    LET offset == toInt(file.objectsOffset)
    IN  [name |-> file.name, objectsOffset |-> offset, unitsOffset |-> toInt(file.unitsOffset),
         objects |-> [j \in 1 .. Len(file.objects) |->
                         Object(n, offset, file.objects[j], file.name, 0)],
         units |-> [j \in 1 .. Len(file.units) |->
                       Unit(toInt(file.unitsOffset), file.units[j])],
         commands |-> [j \in 1 .. Len(file.commands) |->
                          Object(n, offset, file.commands[j], NoPrefix, 0)],
         logs |-> [j \in 1 .. Len(file.logs) |-> Log(n, offset, file.logs[j])]]

\* The profile being read is that of the next file, as far as it was read.
UpTo(list, whole) ==
    /\ list \in Seq(ToSet(whole)) /\ Len(list) <= Len(whole)
    /\ \A j \in 1 .. Len(list) : list[j] = whole[j]
PartOf(p, whole) ==
    /\ p = [name |-> whole.name, objectsOffset |-> whole.objectsOffset,
            unitsOffset |-> whole.unitsOffset, objects |-> p.objects, units |-> p.units,
            commands |-> p.commands, logs |-> p.logs]
    /\ UpTo(p.objects, whole.objects) /\ UpTo(p.units, whole.units)
    /\ UpTo(p.commands, whole.commands) /\ UpTo(p.logs, whole.logs)
ReadingInv ==
    profile # None =>
        /\ This <= Len(input) /\ input[This] # Unreadable
        /\ PartOf(profile, Whole(This, input[This]))

\* What is stored of a file is all that it says.
ReadInv ==
    /\ profiles \in Seq(ToSet(profiles))
    /\ \A i \in 1 .. Len(profiles) :
          input[i] # Unreadable /\ profiles[i] = Whole(i, input[i])

Generated == phase = "generated"

\* TdtMatchesSubIndexedObject() (message.hpp:48-49) accepts the numbers of an
\* array and no others: from Start to Max there are its elements.  A name given
\* twice does not compile.
ValueOf(o, suffix) ==
    (CHOOSE e \in EObject : e.ident = <<o.prefix, o.name, suffix>>).value.n
OnlyOne(o) ==
    \A p \in AllObjects : p.prefix = o.prefix /\ p.name = o.name => p = o
SubIndexed ==
    Generated => \A o \in AllObjects : o.size > 0 /\ OnlyOne(o) =>
        ValueOf(o, Suffix("Start", -1)) .. ValueOf(o, Suffix("Max", -1))
            = {ValueOf(o, Suffix("", i)) : i \in 0 .. o.size - 1}

\* Two profiles of the input give one number to objects of theirs.
ObjectNumbers(p) ==
    {toInt(p.objectsOffset) + toInt(p.objects[i].address) : i \in 1 .. Len(p.objects)} \ {0}
OverlappingInput ==
    \E i, j \in {k \in 1 .. Len(input) : input[k] # Unreadable} :
        i # j /\ ObjectNumbers(input[i]) \cap ObjectNumbers(input[j]) # {}

\* What makes a file one that is refused, in any case or by what is behind an
\* empty string.
Refused(file, kinds) ==
    file = Unreadable
    \/ \E j \in 1 .. Len(file.logs) : file.logs[j].address.kind \in kinds

\* The generator refuses exactly what it cannot read (profile.cpp:28-165): it stops
\* in the file that is the cause, and no log that has to be refused is stored, not
\* even of the profile being read.  Two entries with one number are no cause, in
\* one profile, where the profiles of the repository have them, or in two.
RefusalExact ==
    /\ phase = "fatal" =>
          \/ input = <<>>
          \/ This <= Len(input) /\ Refused(input[This], {"broken", "missing", "bare"})
    /\ \A i \in 1 .. Len(profiles) : ~Refused(input[i], {"broken"})
    /\ phase = "parse" /\ profile # None =>
          \A j \in 1 .. Len(profile.logs) : input[This].logs[j].address.kind # "broken"
    /\ Generated => input # <<>>

\* Everything is generated from all files, each read as a whole.
GenInv ==
    /\ TypeOK /\ ReadingInv /\ ReadInv
    /\ Generated => Len(profiles) = Len(input)

\* Profiles that give one number to two objects are refused: "Object '%s'
\* overlaps." (tools/tdtGen/src/profile.cpp:72).
NoSilentOverlap == Generated => ~OverlappingInput
=============================================================================
