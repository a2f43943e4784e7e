---------------------------- MODULE TdtGenProofs ----------------------------
(***************************************************************************)
(* What holds of the generator for every sequence of files: what it stores *)
(* is what the files hold, what it refuses, and that the enumerators of an *)
(* array are those of its elements.                                        *)
(***************************************************************************)
EXTENDS TdtGen, TLAPS

-----------------------------------------------------------------------------
(* Sequences                                                                 *)

LEMMA OfItsElements ==
    ASSUME NEW S, NEW s \in Seq(S)
    PROVE  s \in Seq(ToSet(s))
  BY DEF ToSet

LEMMA Appended ==
    ASSUME NEW S, NEW s \in Seq(S), NEW e
    PROVE  /\ Len(Append(s, e)) = Len(s) + 1 /\ Len(s) \in Nat
           /\ Append(s, e) \in Seq(S \cup {e})
           /\ \A i \in 1 .. Len(s) : Append(s, e)[i] = s[i]
           /\ Append(s, e)[Len(s) + 1] = e
  OBVIOUS

LEMMA SameElements ==
    ASSUME NEW S, NEW u \in Seq(S), NEW v \in Seq(S), Len(u) = Len(v),
           \A i \in 1 .. Len(v) : v[i] = u[i]
    PROVE  u = v
  OBVIOUS

\* A list that was read up to some entry, and its next entry.
LEMMA EntryRead ==
    ASSUME NEW S, NEW whole \in Seq(S), NEW list, UpTo(list, whole), Len(list) < Len(whole)
    PROVE  UpTo(Append(list, whole[Len(list) + 1]), whole)
  <1>1. /\ list \in Seq(ToSet(whole)) /\ Len(list) \in Nat
        /\ \A j \in 1 .. Len(list) : list[j] = whole[j]
    BY DEF UpTo
  <1>2. Len(whole) \in Nat
    OBVIOUS
  <1>3. PICK e : e = whole[Len(list) + 1] /\ e \in ToSet(whole)
    <2>1. Len(list) + 1 \in 1 .. Len(whole)
      BY <1>1, <1>2
    <2> QED
      BY <2>1 DEF ToSet
  <1>4. PICK longer : longer = Append(list, e)
    OBVIOUS
  <1>5. /\ Len(longer) = Len(list) + 1
        /\ longer \in Seq(ToSet(whole) \cup {e})
        /\ \A i \in 1 .. Len(list) : longer[i] = list[i]
        /\ longer[Len(list) + 1] = e
    BY <1>1, <1>4, Appended
  <1>6. ToSet(whole) \cup {e} = ToSet(whole)
    BY <1>3
  <1>7. \A j \in 1 .. Len(longer) : j \in 1 .. Len(list) \/ j = Len(list) + 1
    BY <1>1, <1>5
  <1>8. \A j \in 1 .. Len(longer) : longer[j] = whole[j]
    BY <1>1, <1>3, <1>5, <1>7
  <1>9. Len(longer) <= Len(whole)
    BY <1>1, <1>2, <1>5
  <1>10. longer \in Seq(ToSet(whole))
    BY <1>5, <1>6
  <1>11. UpTo(longer, whole)
    BY <1>8, <1>9, <1>10 DEF UpTo
  <1> QED
    BY <1>3, <1>4, <1>11

LEMMA AllRead ==
    ASSUME NEW S, NEW whole \in Seq(S), NEW list, UpTo(list, whole), Len(list) = Len(whole)
    PROVE  list = whole
  <1>1. list \in Seq(ToSet(whole)) /\ whole \in Seq(ToSet(whole))
    BY OfItsElements DEF UpTo
  <1>2. \A j \in 1 .. Len(whole) : list[j] = whole[j]
    BY DEF UpTo
  <1> QED
    BY <1>1, <1>2, SameElements

LEMMA NothingRead ==
    ASSUME NEW S, NEW whole \in Seq(S)
    PROVE  UpTo(<<>>, whole)
  BY DEF UpTo

-----------------------------------------------------------------------------
(* What a file says                                                          *)

LEMMA InputFacts ==
    ASSUME TypeOK, NEW i \in 1 .. Len(input), input[i] # Unreadable
    PROVE  input[i] \in InputProfiles
  <1>1. input \in Seq(InputProfiles \cup {Unreadable})
    BY DEF TypeOK, InputFiles
  <1> QED
    BY <1>1

\* A list made from another, entry by entry.
LEMMA MadeFrom ==
    ASSUME NEW n \in Nat, NEW f, f = [j \in 1 .. n |-> f[j]]
    PROVE  f \in Seq({f[j] : j \in 1 .. n}) /\ Len(f) = n
  OBVIOUS

LEMMA WholeLists ==
    ASSUME NEW n, NEW file \in InputProfiles
    PROVE  /\ \E S : Whole(n, file).objects \in Seq(S)
           /\ \E S : Whole(n, file).units \in Seq(S)
           /\ \E S : Whole(n, file).commands \in Seq(S)
           /\ \E S : Whole(n, file).logs \in Seq(S)
           /\ Len(Whole(n, file).objects) = Len(file.objects) /\ Len(file.objects) \in Nat
           /\ Len(Whole(n, file).units) = Len(file.units) /\ Len(file.units) \in Nat
           /\ Len(Whole(n, file).commands) = Len(file.commands) /\ Len(file.commands) \in Nat
           /\ Len(Whole(n, file).logs) = Len(file.logs) /\ Len(file.logs) \in Nat
           /\ \A j \in 1 .. Len(file.objects) : Whole(n, file).objects[j] =
                 Object(n, toInt(file.objectsOffset), file.objects[j], file.name, 0)
           /\ \A j \in 1 .. Len(file.units) : Whole(n, file).units[j] =
                 Unit(toInt(file.unitsOffset), file.units[j])
           /\ \A j \in 1 .. Len(file.commands) : Whole(n, file).commands[j] =
                 Object(n, toInt(file.objectsOffset), file.commands[j], NoPrefix, 0)
           /\ \A j \in 1 .. Len(file.logs) : Whole(n, file).logs[j] =
                 Log(n, toInt(file.objectsOffset), file.logs[j])
  <1>1. /\ Len(file.objects) \in Nat /\ Len(file.units) \in Nat
        /\ Len(file.commands) \in Nat /\ Len(file.logs) \in Nat
    BY DEF InputProfiles
  <1> DEFINE a == [j \in 1 .. Len(file.objects) |->
                      Object(n, toInt(file.objectsOffset), file.objects[j], file.name, 0)]
             b == [j \in 1 .. Len(file.units) |->
                      Unit(toInt(file.unitsOffset), file.units[j])]
             c == [j \in 1 .. Len(file.commands) |->
                      Object(n, toInt(file.objectsOffset), file.commands[j], NoPrefix, 0)]
             d == [j \in 1 .. Len(file.logs) |->
                      Log(n, toInt(file.objectsOffset), file.logs[j])]
  <1>2. /\ Whole(n, file).objects = a /\ Whole(n, file).units = b
        /\ Whole(n, file).commands = c /\ Whole(n, file).logs = d
    <2> HIDE DEF a, b, c, d
    <2>1. Whole(n, file) =
             [name |-> file.name, objectsOffset |-> toInt(file.objectsOffset),
              unitsOffset |-> toInt(file.unitsOffset),
              objects |-> a, units |-> b, commands |-> c, logs |-> d]
      BY Zenon DEF Whole, a, b, c, d
    <2> QED
      BY <2>1
  <1>3. (\E S : a \in Seq(S)) /\ Len(a) = Len(file.objects)
    <2>1. a = [j \in 1 .. Len(file.objects) |-> a[j]]
      OBVIOUS
    <2> HIDE DEF a
    <2> QED
      BY <1>1, <2>1, MadeFrom
  <1>4. (\E S : b \in Seq(S)) /\ Len(b) = Len(file.units)
    <2>1. b = [j \in 1 .. Len(file.units) |-> b[j]]
      OBVIOUS
    <2> HIDE DEF b
    <2> QED
      BY <1>1, <2>1, MadeFrom
  <1>5. (\E S : c \in Seq(S)) /\ Len(c) = Len(file.commands)
    <2>1. c = [j \in 1 .. Len(file.commands) |-> c[j]]
      OBVIOUS
    <2> HIDE DEF c
    <2> QED
      BY <1>1, <2>1, MadeFrom
  <1>6. (\E S : d \in Seq(S)) /\ Len(d) = Len(file.logs)
    <2>1. d = [j \in 1 .. Len(file.logs) |-> d[j]]
      OBVIOUS
    <2> HIDE DEF d
    <2> QED
      BY <1>1, <2>1, MadeFrom
  <1>7. /\ \A j \in 1 .. Len(file.objects) :
              a[j] = Object(n, toInt(file.objectsOffset), file.objects[j], file.name, 0)
        /\ \A j \in 1 .. Len(file.units) : b[j] = Unit(toInt(file.unitsOffset), file.units[j])
        /\ \A j \in 1 .. Len(file.commands) :
              c[j] = Object(n, toInt(file.objectsOffset), file.commands[j], NoPrefix, 0)
        /\ \A j \in 1 .. Len(file.logs) : d[j] = Log(n, toInt(file.objectsOffset), file.logs[j])
    OBVIOUS
  <1> HIDE DEF a, b, c, d
  <1> QED
    BY <1>1, <1>2, <1>3, <1>4, <1>5, <1>6, <1>7

-----------------------------------------------------------------------------
(* The profile being read                                                    *)

\* One list of it is another.
LEMMA PartWith ==
    ASSUME NEW whole, NEW p, PartOf(p, whole), NEW x
    PROVE  /\ UpTo(x, whole.objects) => PartOf([p EXCEPT !.objects = x], whole)
           /\ UpTo(x, whole.units) => PartOf([p EXCEPT !.units = x], whole)
           /\ UpTo(x, whole.commands) => PartOf([p EXCEPT !.commands = x], whole)
           /\ UpTo(x, whole.logs) => PartOf([p EXCEPT !.logs = x], whole)
  <1>1. PICK name, o, u, a, b, c, d :
            /\ name = whole.name /\ o = whole.objectsOffset /\ u = whole.unitsOffset
            /\ a = p.objects /\ b = p.units /\ c = p.commands /\ d = p.logs
    OBVIOUS
  <1>2. p = [name |-> name, objectsOffset |-> o, unitsOffset |-> u,
             objects |-> a, units |-> b, commands |-> c, logs |-> d]
    BY <1>1 DEF PartOf
  <1>3. /\ UpTo(a, whole.objects) /\ UpTo(b, whole.units)
        /\ UpTo(c, whole.commands) /\ UpTo(d, whole.logs)
    BY <1>1 DEF PartOf
  <1>4. ASSUME NEW q, NEW w, NEW y, NEW z, NEW v,
               q = [name |-> name, objectsOffset |-> o, unitsOffset |-> u,
                    objects |-> w, units |-> y, commands |-> z, logs |-> v],
               UpTo(w, whole.objects), UpTo(y, whole.units), UpTo(z, whole.commands),
               UpTo(v, whole.logs)
        PROVE  PartOf(q, whole)
    <2>1. q.objects = w /\ q.units = y /\ q.commands = z /\ q.logs = v
      BY <1>4
    <2> QED
      BY <1>1, <1>4, <2>1 DEF PartOf
  <1>5. /\ [p EXCEPT !.objects = x] =
              [name |-> name, objectsOffset |-> o, unitsOffset |-> u,
               objects |-> x, units |-> b, commands |-> c, logs |-> d]
        /\ [p EXCEPT !.units = x] =
              [name |-> name, objectsOffset |-> o, unitsOffset |-> u,
               objects |-> a, units |-> x, commands |-> c, logs |-> d]
        /\ [p EXCEPT !.commands = x] =
              [name |-> name, objectsOffset |-> o, unitsOffset |-> u,
               objects |-> a, units |-> b, commands |-> x, logs |-> d]
        /\ [p EXCEPT !.logs = x] =
              [name |-> name, objectsOffset |-> o, unitsOffset |-> u,
               objects |-> a, units |-> b, commands |-> c, logs |-> x]
    BY <1>2
  <1> QED
    BY <1>3, <1>4, <1>5

LEMMA ReadingFacts ==
    ASSUME GenInv, profile # None
    PROVE  /\ This \in 1 .. Len(input) /\ input[This] \in InputProfiles
           /\ PartOf(profile, Whole(This, input[This]))
           /\ profile.name = input[This].name
           /\ profile.objectsOffset = toInt(input[This].objectsOffset)
           /\ profile.unitsOffset = toInt(input[This].unitsOffset)
  <1>1. profiles \in Seq(ToSet(profiles)) /\ input \in Seq(InputProfiles \cup {Unreadable})
    BY DEF GenInv, ReadInv, TypeOK, InputFiles
  <1>2. This \in 1 .. Len(input) /\ input[This] # Unreadable
    BY <1>1 DEF GenInv, ReadingInv, This
  <1>3. input[This] \in InputProfiles
    BY <1>2, InputFacts DEF GenInv
  <1>4. PartOf(profile, Whole(This, input[This]))
    BY DEF GenInv, ReadingInv
  <1>5. /\ Whole(This, input[This]).name = input[This].name
        /\ Whole(This, input[This]).objectsOffset = toInt(input[This].objectsOffset)
        /\ Whole(This, input[This]).unitsOffset = toInt(input[This].unitsOffset)
    BY DEF Whole
  <1>6. /\ profile.name = Whole(This, input[This]).name
        /\ profile.objectsOffset = Whole(This, input[This]).objectsOffset
        /\ profile.unitsOffset = Whole(This, input[This]).unitsOffset
    BY <1>4 DEF PartOf
  <1> QED
    BY <1>2, <1>3, <1>4, <1>5, <1>6

\* Reading goes on with another part of the same file.
LEMMA ReadingKeeps ==
    ASSUME GenInv, Reading, NEW q, profile' = q, PartOf(q, Whole(This, input[This])),
           phase' \in {"parse", "fatal"}
    PROVE  GenInv'
  <1>1. profile # None /\ input' = input /\ profiles' = profiles
    BY DEF Reading
  <1>2. PICK n, whole, k : n = This /\ whole = Whole(This, input[This]) /\ k = input[This]
    OBVIOUS
  <1>3. This' = n /\ n <= Len(input') /\ input'[This'] = k /\ k # Unreadable
    BY <1>1, <1>2 DEF This, GenInv, ReadingInv
  <1>4. Whole(This, input[This])' = whole
    BY <1>1, <1>2 DEF Whole, This
  <1>5. PartOf(profile, Whole(This, input[This]))'
    BY <1>2, <1>4 DEF PartOf, UpTo
  <1>6. ReadingInv'
    BY <1>3, <1>5 DEF ReadingInv, Unreadable
  <1>7. ReadInv'
    BY <1>1 DEF GenInv, ReadInv
  <1>8. TypeOK'
    BY <1>1 DEF GenInv, TypeOK
  <1>9. (Generated => Len(profiles) = Len(input))'
    BY DEF Generated
  <1> QED
    BY <1>6, <1>7, <1>8, <1>9 DEF GenInv

LEMMA NextEntryFacts ==
    ASSUME NEW list, NEW entries, NEW e \in NextEntry(list, entries)
    PROVE  Len(list) < Len(entries) /\ e = entries[Len(list) + 1]
  BY DEF NextEntry

LEMMA OfProfile ==
    ASSUME NEW n, NEW offset, NEW e, NEW prefix, NEW macro
    PROVE  /\ Object(n, offset, e, prefix, macro).profile = n
           /\ Log(n, offset, e).profile = n
  BY DEF Log, Object

\* The objects of the profile being read are its own: no overlap is found.
LEMMA ObjectReadKeeps ==
    ASSUME GenInv, parseObject
    PROVE  /\ GenInv' /\ phase = "parse" /\ phase' = "parse" /\ UNCHANGED <<input, profiles>>
           /\ profile # None /\ profile'.logs = profile.logs
  <1>1. PICK e \in NextEntry(profile.objects, input[This].objects) :
            LET o == Object(This, profile.objectsOffset, e, profile.name, 0)
            IN  /\ Reading /\ phase' = IF parseObjectsOverlap(o) THEN "fatal" ELSE phase
                /\ profile' = [profile EXCEPT !.objects = Append(profile.objects, o)]
    BY DEF parseObject
  <1>2. phase = "parse" /\ profile # None
    BY <1>1 DEF Reading
  <1>3. PICK whole, list, file : /\ whole = Whole(This, input[This]) /\ list = profile.objects
                                 /\ file = input[This]
    OBVIOUS
  <1>4. /\ file \in InputProfiles /\ PartOf(profile, whole)
        /\ profile.name = file.name /\ profile.objectsOffset = toInt(file.objectsOffset)
    BY <1>2, <1>3, ReadingFacts
  <1>5. UpTo(list, whole.objects)
    BY <1>3, <1>4 DEF PartOf
  <1>6. /\ Len(whole.objects) = Len(file.objects) /\ Len(file.objects) \in Nat
        /\ \E S : whole.objects \in Seq(S)
        /\ \A j \in 1 .. Len(file.objects) : whole.objects[j] =
              Object(This, toInt(file.objectsOffset), file.objects[j], file.name, 0)
    BY <1>3, <1>4, WholeLists
  <1>7. Len(list) < Len(file.objects) /\ e = file.objects[Len(list) + 1] /\ Len(list) \in Nat
    BY <1>1, <1>3, <1>5, NextEntryFacts DEF UpTo
  <1>8. Len(list) + 1 \in 1 .. Len(file.objects)
    BY <1>6, <1>7
  <1>9. PICK o : /\ o = Object(This, profile.objectsOffset, e, profile.name, 0)
                 /\ o = whole.objects[Len(list) + 1]
    BY <1>4, <1>6, <1>7, <1>8
  <1>10. UpTo(Append(list, o), whole.objects)
    BY <1>5, <1>6, <1>7, <1>9, EntryRead
  <1>11. ~parseObjectsOverlap(o)
    <2>1. \A other \in ToSet(list) : \E j \in 1 .. Len(file.objects) : other = whole.objects[j]
      <3>1. list \in Seq(ToSet(whole.objects))
        BY <1>5 DEF UpTo
      <3> QED
        BY <1>6, <3>1 DEF ToSet
    <2>2. \A other \in ToSet(list) : other.profile = This
      BY <1>6, <2>1, OfProfile
    <2> QED
      BY <1>3, <2>2 DEF parseObjectsOverlap
  <1>12. phase' = "parse" /\ profile' = [profile EXCEPT !.objects = Append(list, o)]
    BY <1>1, <1>2, <1>3, <1>9, <1>11
  <1>13. PICK q : q = profile' /\ PartOf(q, whole)
    BY <1>4, <1>10, <1>12, PartWith
  <1>14. profile'.logs = profile.logs /\ UNCHANGED <<input, profiles>>
    BY <1>1, <1>4, <1>12 DEF PartOf, Reading
  <1> QED
    BY <1>1, <1>2, <1>3, <1>12, <1>13, <1>14, ReadingKeeps

LEMMA UnitReadKeeps ==
    ASSUME GenInv, parseUnit
    PROVE  /\ GenInv' /\ phase = "parse" /\ phase' = "parse" /\ UNCHANGED <<input, profiles>>
           /\ profile # None /\ profile'.logs = profile.logs
  <1>1. PICK e \in NextEntry(profile.units, input[This].units) :
            /\ Reading /\ phase' = phase
            /\ profile' = [profile EXCEPT !.units = Append(profile.units,
                                                           Unit(profile.unitsOffset, e))]
    BY DEF parseUnit
  <1>2. phase' = "parse" /\ profile # None
    BY <1>1 DEF Reading
  <1>3. PICK whole, list, file : /\ whole = Whole(This, input[This]) /\ list = profile.units
                                 /\ file = input[This]
    OBVIOUS
  <1>4. /\ file \in InputProfiles /\ PartOf(profile, whole)
        /\ profile.unitsOffset = toInt(file.unitsOffset)
    BY <1>2, <1>3, ReadingFacts
  <1>5. UpTo(list, whole.units)
    BY <1>3, <1>4 DEF PartOf
  <1>6. /\ Len(whole.units) = Len(file.units) /\ Len(file.units) \in Nat
        /\ \E S : whole.units \in Seq(S)
        /\ \A j \in 1 .. Len(file.units) :
              whole.units[j] = Unit(toInt(file.unitsOffset), file.units[j])
    BY <1>3, <1>4, WholeLists
  <1>7. Len(list) < Len(file.units) /\ e = file.units[Len(list) + 1] /\ Len(list) \in Nat
    BY <1>1, <1>3, <1>5, NextEntryFacts DEF UpTo
  <1>8. Len(list) + 1 \in 1 .. Len(file.units)
    BY <1>6, <1>7
  <1>9. PICK o : o = Unit(profile.unitsOffset, e) /\ o = whole.units[Len(list) + 1]
    BY <1>4, <1>6, <1>7, <1>8
  <1>10. UpTo(Append(list, o), whole.units)
    BY <1>5, <1>6, <1>7, <1>9, EntryRead
  <1>11. profile' = [profile EXCEPT !.units = Append(list, o)]
    BY <1>1, <1>3, <1>9
  <1>12. PICK q : q = profile' /\ PartOf(q, whole)
    BY <1>4, <1>10, <1>11, PartWith
  <1>13. /\ profile'.logs = profile.logs /\ phase = "parse" /\ UNCHANGED <<input, profiles>>
    BY <1>1, <1>4, <1>11 DEF PartOf, Reading
  <1> QED
    BY <1>1, <1>2, <1>3, <1>12, <1>13, ReadingKeeps

\* A new command is of its own profile: the check of the loop refuses nothing.
LEMMA CommandReadKeeps ==
    ASSUME GenInv, parseCommand
    PROVE  /\ GenInv' /\ phase = "parse" /\ phase' = "parse" /\ UNCHANGED <<input, profiles>>
           /\ profile # None /\ profile'.logs = profile.logs
  <1>1. PICK e \in NextEntry(profile.commands, input[This].commands) :
            LET o == Object(This, profile.objectsOffset, e, NoPrefix, 0)
            IN  /\ Reading /\ phase' = IF OverlapInList(o, profile.commands) THEN "fatal" ELSE phase
                /\ profile' = [profile EXCEPT !.commands = Append(profile.commands, o)]
    BY DEF parseCommand
  <1>2. phase = "parse" /\ profile # None
    BY <1>1 DEF Reading
  <1>3. PICK whole, list, file : /\ whole = Whole(This, input[This]) /\ list = profile.commands
                                 /\ file = input[This]
    OBVIOUS
  <1>4. /\ file \in InputProfiles /\ PartOf(profile, whole)
        /\ profile.objectsOffset = toInt(file.objectsOffset)
    BY <1>2, <1>3, ReadingFacts
  <1>5. UpTo(list, whole.commands)
    BY <1>3, <1>4 DEF PartOf
  <1>6. /\ Len(whole.commands) = Len(file.commands) /\ Len(file.commands) \in Nat
        /\ \E S : whole.commands \in Seq(S)
        /\ \A j \in 1 .. Len(file.commands) : whole.commands[j] =
              Object(This, toInt(file.objectsOffset), file.commands[j], NoPrefix, 0)
    BY <1>3, <1>4, WholeLists
  <1>7. Len(list) < Len(file.commands) /\ e = file.commands[Len(list) + 1] /\ Len(list) \in Nat
    BY <1>1, <1>3, <1>5, NextEntryFacts DEF UpTo
  <1>8. Len(list) + 1 \in 1 .. Len(file.commands)
    BY <1>6, <1>7
  <1>9. PICK o : /\ o = Object(This, profile.objectsOffset, e, NoPrefix, 0)
                 /\ o = whole.commands[Len(list) + 1]
    BY <1>4, <1>6, <1>7, <1>8
  <1>10. UpTo(Append(list, o), whole.commands)
    BY <1>5, <1>6, <1>7, <1>9, EntryRead
  <1>11. ~OverlapInList(o, list)
    <2>1. o.profile = This
      BY <1>9, OfProfile
    <2> QED
      BY <2>1 DEF OverlapInList
  <1>12. phase' = "parse" /\ profile' = [profile EXCEPT !.commands = Append(list, o)]
    BY <1>1, <1>2, <1>3, <1>9, <1>11
  <1>13. PICK q : q = profile' /\ PartOf(q, whole)
    BY <1>4, <1>10, <1>12, PartWith
  <1>14. profile'.logs = profile.logs /\ UNCHANGED <<input, profiles>>
    BY <1>1, <1>4, <1>12 DEF PartOf, Reading
  <1> QED
    BY <1>1, <1>2, <1>3, <1>12, <1>13, <1>14, ReadingKeeps

\* A log is refused for the first character of its address only.
LEMMA LogReadKeeps ==
    ASSUME GenInv, parseLog
    PROVE  /\ GenInv' /\ phase = "parse" /\ phase' \in {"parse", "fatal"}
           /\ UNCHANGED <<input, profiles>> /\ profile # None
           /\ \E k \in 1 .. Len(input[This].logs) :
                 LET kind == input[This].logs[k].address.kind
                 IN  /\ k = Len(profile.logs) + 1 /\ Len(profile.logs) \in Nat
                     /\ Len(profile'.logs) = k
                     /\ phase' = "fatal" => kind \in {"broken", "missing", "bare"}
                     /\ phase' = "parse" => kind # "broken"
  <1>1. PICK e \in NextEntry(profile.logs, input[This].logs), digit \in BOOLEAN :
            LET log == Log(This, profile.objectsOffset, e)
            IN  /\ Reading
                /\ e.address.kind \in {"text", "macro"} => ~digit
                /\ e.address.kind = "broken" => digit
                /\ phase' = IF digit \/ OverlapInList(log, profile.logs) THEN "fatal" ELSE phase
                /\ profile' = [profile EXCEPT !.logs = Append(profile.logs, log)]
    BY DEF parseLog
  <1>2. phase = "parse" /\ profile # None
    BY <1>1 DEF Reading
  <1>3. PICK whole, list, file : /\ whole = Whole(This, input[This]) /\ list = profile.logs
                                 /\ file = input[This]
    OBVIOUS
  <1>4. /\ file \in InputProfiles /\ PartOf(profile, whole)
        /\ profile.objectsOffset = toInt(file.objectsOffset)
    BY <1>2, <1>3, ReadingFacts
  <1>5. UpTo(list, whole.logs)
    BY <1>3, <1>4 DEF PartOf
  <1>6. /\ Len(whole.logs) = Len(file.logs) /\ Len(file.logs) \in Nat
        /\ \E S : whole.logs \in Seq(S)
        /\ \A j \in 1 .. Len(file.logs) : whole.logs[j] =
              Log(This, toInt(file.objectsOffset), file.logs[j])
    BY <1>3, <1>4, WholeLists
  <1>7. Len(list) < Len(file.logs) /\ e = file.logs[Len(list) + 1] /\ Len(list) \in Nat
    BY <1>1, <1>3, <1>5, NextEntryFacts DEF UpTo
  <1>8. Len(list) + 1 \in 1 .. Len(file.logs)
    BY <1>6, <1>7
  <1>9. PICK o : o = Log(This, profile.objectsOffset, e) /\ o = whole.logs[Len(list) + 1]
    BY <1>4, <1>6, <1>7, <1>8
  <1>10. UpTo(Append(list, o), whole.logs)
    BY <1>5, <1>6, <1>7, <1>9, EntryRead
  <1>11. ~OverlapInList(o, list)
    <2>1. \A n, offset, x : Log(n, offset, x).profile = n
      BY OfProfile
    <2>2. o = Log(This, profile.objectsOffset, e)
      BY <1>9
    <2>3. Log(This, profile.objectsOffset, e).profile = This
      BY <2>1
    <2>4. o.profile = This
      BY <2>2, <2>3
    <2> QED
      BY <2>4 DEF OverlapInList
  <1>12. /\ phase' = IF digit THEN "fatal" ELSE "parse"
         /\ profile' = [profile EXCEPT !.logs = Append(list, o)]
    BY <1>1, <1>2, <1>3, <1>9, <1>11
  <1>13. PICK q : q = profile' /\ PartOf(q, whole)
    BY <1>4, <1>10, <1>12, PartWith
  <1>14. e.address.kind \in {"missing", "text", "bare", "macro", "broken"}
    <2>1. file.logs \in Seq(Entries)
      BY <1>4 DEF InputProfiles
    <2>2. e \in Entries
      BY <1>7, <1>8, <2>1
    <2>3. e.address \in Attributes
      BY <2>2 DEF Entries
    <2> QED
      BY <2>3 DEF Attributes
  <1>15. /\ phase' \in {"parse", "fatal"} /\ UNCHANGED <<input, profiles>>
         /\ phase' = "fatal" => e.address.kind \in {"broken", "missing", "bare"}
         /\ phase' = "parse" => e.address.kind # "broken"
    BY <1>1, <1>12, <1>14 DEF Reading
  <1>16. Len(profile'.logs) = Len(list) + 1
    <2>1. profile'.logs = Append(list, o)
      BY <1>4, <1>12 DEF PartOf
    <2>2. list \in Seq(ToSet(whole.logs))
      BY <1>5 DEF UpTo
    <2> QED
      BY <2>1, <2>2
  <1>17. GenInv'
    BY <1>1, <1>3, <1>13, <1>15, ReadingKeeps
  <1> QED
    BY <1>2, <1>3, <1>7, <1>8, <1>15, <1>16, <1>17

-----------------------------------------------------------------------------
(* The invariant                                                             *)

\* A profile is opened, and nothing of it has been read.
LEMMA OpeningKeeps ==
    ASSUME GenInv, parseProfile
    PROVE  GenInv' /\ phase' = "parse" /\ profile'.logs = <<>> /\ UNCHANGED <<input, profiles>>
  <1>1. PICK n, file, whole : n = This /\ file = input[This] /\ whole = Whole(This, input[This])
    OBVIOUS
  <1>2. /\ phase' = "parse" /\ This <= Len(input) /\ file # Unreadable
        /\ profile' = [name |-> file.name, objectsOffset |-> toInt(file.objectsOffset),
                       unitsOffset |-> toInt(file.unitsOffset),
                       objects |-> <<>>, units |-> <<>>, commands |-> <<>>, logs |-> <<>>]
        /\ input' = input /\ profiles' = profiles
    BY <1>1 DEF parseProfile
  <1>3. n \in 1 .. Len(input)
    <2>1. profiles \in Seq(ToSet(profiles)) /\ input \in Seq(InputProfiles \cup {Unreadable})
      BY DEF GenInv, ReadInv, TypeOK, InputFiles
    <2> QED
      BY <1>1, <1>2, <2>1 DEF This
  <1>4. file \in InputProfiles
    BY <1>1, <1>2, <1>3, InputFacts DEF GenInv
  <1>5. /\ UpTo(<<>>, whole.objects) /\ UpTo(<<>>, whole.units)
        /\ UpTo(<<>>, whole.commands) /\ UpTo(<<>>, whole.logs)
    BY <1>1, <1>4, WholeLists, NothingRead
  <1>6. /\ whole.name = file.name /\ whole.objectsOffset = toInt(file.objectsOffset)
        /\ whole.unitsOffset = toInt(file.unitsOffset)
    BY <1>1 DEF Whole
  <1>7. PICK q : /\ q = profile'
                 /\ q = [name |-> whole.name, objectsOffset |-> whole.objectsOffset,
                         unitsOffset |-> whole.unitsOffset,
                         objects |-> <<>>, units |-> <<>>, commands |-> <<>>, logs |-> <<>>]
    BY <1>2, <1>6
  <1>8. PartOf(q, whole)
    <2>1. q.objects = <<>> /\ q.units = <<>> /\ q.commands = <<>> /\ q.logs = <<>>
      BY <1>7
    <2> QED
      BY <1>5, <1>7, <2>1 DEF PartOf
  <1>9. ReadingInv'
    <2>1. This' = n /\ n <= Len(input') /\ input'[This'] = file
      BY <1>1, <1>2 DEF This
    <2>2. Whole(This, input[This])' = whole
      BY <1>1, <1>2 DEF Whole, This
    <2>3. PartOf(profile, Whole(This, input[This]))'
      BY <1>7, <1>8, <2>2 DEF PartOf, UpTo
    <2> QED
      BY <1>2, <2>1, <2>3 DEF ReadingInv, Unreadable
  <1>10. ReadInv' /\ TypeOK'
    BY <1>2 DEF GenInv, ReadInv, TypeOK
  <1>11. (Generated => Len(profiles) = Len(input))'
    BY <1>2 DEF Generated
  <1> QED
    BY <1>2, <1>9, <1>10, <1>11 DEF GenInv

\* A profile is stored when all loops are done: it is the whole file.
LEMMA StoringKeeps ==
    ASSUME GenInv, endProfile
    PROVE  /\ GenInv' /\ phase' = "parse" /\ profile' = None /\ input' = input
           /\ This \in Nat /\ Len(profiles') = This /\ input[This] # Unreadable
           /\ Len(profile.logs) = Len(input[This].logs)
  <1>1. /\ phase' = "parse" /\ profile # None /\ LogsDone
        /\ profiles' = Append(profiles, profile) /\ profile' = None /\ input' = input
    BY DEF endProfile
  <1>2. PICK p, n, file, whole : /\ p = profile /\ n = This /\ file = input[This]
                                 /\ whole = Whole(This, input[This])
    OBVIOUS
  <1>3. n \in 1 .. Len(input) /\ file \in InputProfiles /\ PartOf(p, whole)
    BY <1>1, <1>2, ReadingFacts
  <1>4. p = whole
    <2>1. /\ Len(p.objects) = Len(file.objects) /\ Len(p.units) = Len(file.units)
          /\ Len(p.commands) = Len(file.commands) /\ Len(p.logs) = Len(file.logs)
      BY <1>1, <1>2 DEF LogsDone, CommandsDone, UnitsDone, ObjectsDone
    <2>2. /\ p.objects = whole.objects /\ p.units = whole.units
          /\ p.commands = whole.commands /\ p.logs = whole.logs
      <3>1. /\ UpTo(p.objects, whole.objects) /\ UpTo(p.units, whole.units)
            /\ UpTo(p.commands, whole.commands) /\ UpTo(p.logs, whole.logs)
        BY <1>3 DEF PartOf
      <3>2. /\ \E S : whole.objects \in Seq(S)
            /\ \E S : whole.units \in Seq(S)
            /\ \E S : whole.commands \in Seq(S)
            /\ \E S : whole.logs \in Seq(S)
            /\ Len(whole.objects) = Len(file.objects) /\ Len(whole.units) = Len(file.units)
            /\ Len(whole.commands) = Len(file.commands) /\ Len(whole.logs) = Len(file.logs)
        BY <1>2, <1>3, WholeLists
      <3> QED
        BY <2>1, <3>1, <3>2, AllRead
    <2>3. p = [name |-> whole.name, objectsOffset |-> whole.objectsOffset,
               unitsOffset |-> whole.unitsOffset,
               objects |-> whole.objects, units |-> whole.units,
               commands |-> whole.commands, logs |-> whole.logs]
      BY <1>3, <2>2 DEF PartOf
    <2>4. whole = [name |-> whole.name, objectsOffset |-> whole.objectsOffset,
                   unitsOffset |-> whole.unitsOffset,
                   objects |-> whole.objects, units |-> whole.units,
                   commands |-> whole.commands, logs |-> whole.logs]
      BY <1>2 DEF Whole
    <2> QED
      BY <2>3, <2>4
  <1>5. profiles \in Seq(ToSet(profiles))
    BY DEF GenInv, ReadInv
  <1>6. /\ Len(profiles') = n /\ Len(profiles) \in Nat
        /\ profiles' \in Seq(ToSet(profiles) \cup {p})
        /\ \A i \in 1 .. Len(profiles) : profiles'[i] = profiles[i]
        /\ profiles'[n] = p
    BY <1>1, <1>2, <1>5, Appended DEF This
  <1>7. \A i \in 1 .. Len(profiles') : i \in 1 .. Len(profiles) \/ i = n
    BY <1>2, <1>6 DEF This
  <1>8. \A i \in 1 .. Len(profiles') :
           input[i] # Unreadable /\ profiles'[i] = Whole(i, input[i])
    <2>1. \A i \in 1 .. Len(profiles) : input[i] # Unreadable /\ profiles[i] = Whole(i, input[i])
      BY DEF GenInv, ReadInv
    <2>2. input[n] # Unreadable /\ p = Whole(n, input[n])
      BY <1>1, <1>2, <1>4 DEF GenInv, ReadingInv
    <2> QED
      BY <1>6, <1>7, <2>1, <2>2
  <1>9. ReadInv'
    <2>1. profiles' \in Seq(ToSet(profiles'))
      BY <1>6, OfItsElements
    <2>2. (profiles \in Seq(ToSet(profiles)))'
      BY <2>1 DEF ToSet
    <2>3. (\A i \in 1 .. Len(profiles) : input[i] # Unreadable /\ profiles[i] = Whole(i, input[i]))'
      BY <1>1, <1>8, ZenonT(40) DEF Whole, Unreadable
    <2> QED
      BY <2>2, <2>3 DEF ReadInv
  <1>10. TypeOK'
    BY <1>1, <1>3, <1>6 DEF GenInv, TypeOK, InputFiles
  <1>11. ReadingInv' /\ (Generated => Len(profiles) = Len(input))'
    BY <1>1 DEF ReadingInv, None, Generated
  <1>12. /\ This \in Nat /\ Len(profiles') = This /\ input[This] # Unreadable
         /\ Len(profile.logs) = Len(input[This].logs)
    <2>1. input[This] # Unreadable
      BY <1>1 DEF GenInv, ReadingInv
    <2>2. Len(profile.logs) = Len(input[This].logs)
      BY <1>1 DEF LogsDone
    <2> QED
      BY <1>2, <1>6, <2>1, <2>2 DEF This
  <1> QED
    BY <1>1, <1>9, <1>10, <1>11, <1>12 DEF GenInv

\* A file that cannot be read, and an empty list of files, are refused.
LEMMA EndKeeps ==
    ASSUME GenInv, parseFileFails \/ generate
    PROVE  /\ GenInv' /\ profile = None /\ UNCHANGED <<input, profile, profiles>>
           /\ phase' \in {"generated", "fatal"}
           /\ phase' = "fatal" =>
                 input = <<>> \/ (This <= Len(input) /\ input[This] = Unreadable)
           /\ phase' = "generated" => input # <<>>
  <1>1. profile = None /\ UNCHANGED <<input, profile, profiles>>
    BY DEF parseFileFails, generate
  <1>2. /\ profiles \in Seq(ToSet(profiles))
        /\ input \in Seq(InputProfiles \cup {Unreadable})
    BY DEF GenInv, ReadInv, TypeOK, InputFiles
  <1>3. /\ phase' \in {"generated", "fatal"}
        /\ phase' = "fatal" =>
              input = <<>> \/ (This <= Len(input) /\ input[This] = Unreadable)
        /\ phase' = "generated" => Len(profiles) = Len(input) /\ input # <<>>
    <2>1. CASE parseFileFails
      BY <2>1 DEF parseFileFails
    <2>2. CASE generate
      <3>1. /\ This > Len(input)
            /\ phase' = IF profiles = <<>> THEN "fatal" ELSE "generated"
        BY <2>2 DEF generate
      <3>2. Len(profiles) = Len(input)
        <4>1. Len(profiles) <= Len(input) /\ Len(profiles) \in Nat /\ Len(input) \in Nat
          BY <1>2 DEF GenInv, TypeOK
        <4> QED
          BY <3>1, <4>1 DEF This
      <3>3. profiles = <<>> <=> input = <<>>
        BY <1>2, <3>2
      <3> QED
        BY <3>1, <3>2, <3>3
    <2> QED
      BY <2>1, <2>2
  <1>4. TypeOK' /\ ReadInv' /\ (Generated => Len(profiles) = Len(input))'
    BY <1>1, <1>3 DEF GenInv, TypeOK, ReadInv, Generated
  <1>5. ReadingInv'
    BY <1>1 DEF ReadingInv, None
  <1> QED
    BY <1>1, <1>3, <1>4, <1>5 DEF GenInv

LEMMA GenInvInit == Init => GenInv
  <1> SUFFICES ASSUME Init PROVE GenInv
    OBVIOUS
  <1>1. input \in Inputs /\ profile = None /\ profiles = <<>> /\ phase = "parse"
    BY DEF Init
  <1>2. input \in InputFiles
    BY <1>1, InputsAssumption
  <1>3. TypeOK
    BY <1>1, <1>2 DEF TypeOK, InputFiles
  <1>4. ReadInv
    BY <1>1, <1>2 DEF ReadInv
  <1> QED
    BY <1>1, <1>3, <1>4 DEF GenInv, ReadingInv, Generated

LEMMA GenInvStep == GenInv /\ [Next]_genVars => GenInv'
  <1> SUFFICES ASSUME GenInv, [Next]_genVars PROVE GenInv'
    OBVIOUS
  <1>1. CASE UNCHANGED genVars
    <2>1. UNCHANGED <<input, profile, profiles, phase>>
      BY <1>1 DEF genVars
    <2>2. TypeOK' /\ ReadInv' /\ (Generated => Len(profiles) = Len(input))'
      BY <2>1 DEF GenInv, TypeOK, ReadInv, Generated
    <2>3. ReadingInv'
      BY <2>1 DEF GenInv, ReadingInv, This, None, Unreadable
    <2> QED
      BY <2>2, <2>3 DEF GenInv
  <1>2. CASE Next
    BY <1>2, ObjectReadKeeps, UnitReadKeeps, CommandReadKeeps, LogReadKeeps,
       OpeningKeeps, StoringKeeps, EndKeeps DEF Next
  <1> QED
    BY <1>1, <1>2

\* What is stored of a file is all that it says, the profile being read is that of
\* the next file as far as it was read, and everything is generated from all files:
\* parseProfile() and the loops it calls (profile.cpp:28-165), for every sequence
\* of files.
THEOREM GenInvHolds == Spec => []GenInv
  BY GenInvInit, GenInvStep, PTL DEF Spec

\* What is stored of a file is of that file, for every sequence of files.
THEOREM GenTypeCorrect == Spec => []TypeOK
  <1>1. GenInv => TypeOK
    BY DEF GenInv
  <1> QED
    BY <1>1, GenInvHolds, PTL

\* Which files are refused depends on them alone.
LEMMA SameFiles ==
    ASSUME input' = input
    PROVE  \A kinds : \A i : Refused(input[i], kinds)' <=> Refused(input[i], kinds)
  BY DEF Refused, Unreadable

\* An entry of the profile being read is none that has to be refused.
LogsAccepted ==
    phase = "parse" /\ profile # None =>
        \A j \in 1 .. Len(profile.logs) : input[This].logs[j].address.kind # "broken"

\* A step that goes on reading keeps what was accepted, if it reads no log.
LEMMA RefusalStays ==
    ASSUME RefusalExact, phase' = "parse", UNCHANGED <<input, profiles>>, LogsAccepted'
    PROVE  RefusalExact'
  <1>1. \A i \in 1 .. Len(profiles) : ~Refused(input[i], {"broken"})
    BY DEF RefusalExact
  <1>2. \A i \in 1 .. Len(profiles') : ~Refused(input[i], {"broken"})'
    BY <1>1, SameFiles
  <1> QED
    BY <1>2 DEF RefusalExact, LogsAccepted, Generated

LEMMA RefusalStep ==
    ASSUME GenInv, RefusalExact, [Next]_genVars
    PROVE  RefusalExact'
  <1>1. LogsAccepted /\ \A i \in 1 .. Len(profiles) : ~Refused(input[i], {"broken"})
    BY DEF RefusalExact, LogsAccepted
  <1>2. CASE parseObject \/ parseUnit \/ parseCommand
    <2>1. /\ phase = "parse" /\ phase' = "parse" /\ UNCHANGED <<input, profiles>>
          /\ profile # None /\ profile'.logs = profile.logs
      BY <1>2, ObjectReadKeeps, UnitReadKeeps, CommandReadKeeps
    <2>2. LogsAccepted'
      BY <1>1, <2>1 DEF LogsAccepted, This
    <2> QED
      BY <2>1, <2>2, RefusalStays
  <1>3. CASE parseLog
    <2>1. /\ phase = "parse" /\ phase' \in {"parse", "fatal"}
          /\ UNCHANGED <<input, profiles>> /\ profile # None
      BY <1>3, LogReadKeeps
    <2>2. PICK k \in 1 .. Len(input[This].logs) :
             LET kind == input[This].logs[k].address.kind
             IN  /\ k = Len(profile.logs) + 1 /\ Len(profile.logs) \in Nat
                 /\ Len(profile'.logs) = k
                 /\ phase' = "fatal" => kind \in {"broken", "missing", "bare"}
                 /\ phase' = "parse" => kind # "broken"
      BY <1>3, LogReadKeeps
    <2>3. This' = This /\ input' = input
      BY <2>1 DEF This
    <2>4. CASE phase' = "parse"
      <3>1. \A j \in 1 .. k : j \in 1 .. Len(profile.logs) \/ j = k
        BY <2>2
      <3>2. \A j \in 1 .. k : input[This].logs[j].address.kind # "broken"
        BY <1>1, <2>1, <2>2, <2>4, <3>1 DEF LogsAccepted
      <3>3. LogsAccepted'
        BY <2>2, <2>3, <3>2 DEF LogsAccepted
      <3> QED
        BY <2>1, <2>4, <3>3, RefusalStays
    <2>5. CASE phase' = "fatal"
      <3>1. Refused(input[This], {"broken", "missing", "bare"}) /\ This <= Len(input)
        BY <2>1, <2>2, <2>5, ReadingFacts DEF Refused
      <3>2. Refused(input[This], {"broken", "missing", "bare"})'
        BY <2>3, <3>1 DEF Refused, Unreadable
      <3>3. \A i \in 1 .. Len(profiles') : ~Refused(input[i], {"broken"})'
        BY <1>1, <2>1, SameFiles
      <3> QED
        BY <2>3, <2>5, <3>1, <3>2, <3>3 DEF RefusalExact, Generated
    <2> QED
      BY <2>1, <2>4, <2>5
  <1>4. CASE parseProfile
    <2>1. phase' = "parse" /\ profile'.logs = <<>> /\ UNCHANGED <<input, profiles>>
      BY <1>4, OpeningKeeps
    <2>2. LogsAccepted'
      BY <2>1 DEF LogsAccepted
    <2> QED
      BY <2>1, <2>2, RefusalStays
  <1>5. CASE endProfile
    <2>1. /\ phase' = "parse" /\ profile' = None /\ input' = input
          /\ This \in Nat /\ Len(profiles') = This /\ input[This] # Unreadable
          /\ Len(profile.logs) = Len(input[This].logs)
      BY <1>5, StoringKeeps
    <2>2. phase = "parse" /\ profile # None
      BY <1>5 DEF endProfile
    <2>3. ~Refused(input[This], {"broken"})
      BY <1>1, <2>1, <2>2 DEF LogsAccepted, Refused
    <2>4. PICK n \in Nat : n = This /\ \A i \in 1 .. n : i \in 1 .. Len(profiles) \/ i = n
      <3>1. Len(profiles) \in Nat
        BY DEF GenInv, ReadInv
      <3> QED
        BY <2>1, <3>1 DEF This
    <2>5. \A i \in 1 .. Len(profiles') : ~Refused(input[i], {"broken"})'
      BY <1>1, <2>1, <2>3, <2>4, SameFiles
    <2> QED
      BY <2>1, <2>5 DEF RefusalExact, None, Generated
  <1>6. CASE parseFileFails \/ generate
    <2>1. /\ profile = None /\ UNCHANGED <<input, profile, profiles>>
          /\ phase' \in {"generated", "fatal"}
          /\ phase' = "fatal" =>
                input = <<>> \/ (This <= Len(input) /\ input[This] = Unreadable)
          /\ phase' = "generated" => input # <<>>
      BY <1>6, EndKeeps
    <2>2. \A i \in 1 .. Len(profiles') : ~Refused(input[i], {"broken"})'
      BY <1>1, <2>1, SameFiles
    <2>3. input[This] = Unreadable => Refused(input[This], {"broken", "missing", "bare"})'
      BY <2>1 DEF Refused, Unreadable, This
    <2> QED
      BY <2>1, <2>2, <2>3 DEF RefusalExact, Generated, This, None
  <1>7. CASE UNCHANGED genVars
    <2>1. UNCHANGED <<input, profile, profiles, phase>>
      BY <1>7 DEF genVars
    <2>2. \A i \in 1 .. Len(profiles') : ~Refused(input[i], {"broken"})'
      BY <1>1, <2>1, SameFiles
    <2>3. \A i : Refused(input[i], {"broken", "missing", "bare"})
                    => Refused(input[i], {"broken", "missing", "bare"})'
      BY <2>1, SameFiles
    <2> QED
      BY <2>1, <2>2, <2>3 DEF RefusalExact, Generated, This, None
  <1> QED
    BY <1>2, <1>3, <1>4, <1>5, <1>6, <1>7 DEF Next

\* The generator refuses exactly what it cannot read: it stops with a qFatal only if
\* there is no file, or in a file that cannot be read or has a log without an address,
\* never for a number that two entries share; and what has to be refused is not
\* stored (profile.cpp:28-165).
THEOREM RefusalAlwaysExact == Spec => []RefusalExact
  <1>1. Init => RefusalExact
    <2> SUFFICES ASSUME Init PROVE RefusalExact
      OBVIOUS
    <2>1. profile = None /\ profiles = <<>> /\ phase = "parse"
      BY DEF Init
    <2> QED
      BY <2>1 DEF RefusalExact, Generated
  <1>2. GenInv /\ RefusalExact /\ [Next]_genVars => RefusalExact'
    BY RefusalStep
  <1> QED
    BY <1>1, <1>2, GenInvHolds, PTL DEF Spec


-----------------------------------------------------------------------------
(* The enumerators of an array                                               *)

\* The objects that are stored.
ObjectsRead ==
    [profile : Nat, offset : Int, object : Int, name : STRING, size : Int,
     prefix : STRING, macro : {0}]

LEMMA StoredProfiles ==
    ASSUME GenInv, NEW i \in 1 .. Len(profiles)
    PROVE  /\ i \in 1 .. Len(input) /\ input[i] \in InputProfiles
           /\ profiles[i] = Whole(i, input[i])
  <1>1. input[i] # Unreadable /\ profiles[i] = Whole(i, input[i])
    BY DEF GenInv, ReadInv
  <1>2. i \in 1 .. Len(input)
    <2>1. profiles \in Seq(ToSet(profiles)) /\ input \in Seq(InputProfiles \cup {Unreadable})
      BY DEF GenInv, ReadInv, TypeOK, InputFiles
    <2>2. Len(profiles) <= Len(input)
      BY DEF GenInv, TypeOK
    <2> QED
      BY <2>1, <2>2
  <1> QED
    BY <1>1, <1>2, InputFacts DEF GenInv

LEMMA NumbersRead ==
    ASSUME NEW a \in Attributes
    PROVE  toInt(a) \in Int
  BY DEF Attributes, toInt

LEMMA EntriesRead ==
    ASSUME NEW file \in InputProfiles
    PROVE  /\ toInt(file.objectsOffset) \in Int /\ toInt(file.unitsOffset) \in Int
           /\ file.name \in STRING
           /\ \A j \in 1 .. Len(file.objects) : file.objects[j] \in Entries
           /\ \A j \in 1 .. Len(file.units) : file.units[j] \in UnitEntries
           /\ \A j \in 1 .. Len(file.logs) : file.logs[j] \in Entries
  <1>1. /\ file.objectsOffset \in Attributes /\ file.unitsOffset \in Attributes
        /\ file.name \in STRING /\ file.objects \in Seq(Entries)
        /\ file.units \in Seq(UnitEntries) /\ file.logs \in Seq(Entries)
    BY DEF InputProfiles
  <1> QED
    BY <1>1, NumbersRead

LEMMA ObjectsAreRead ==
    ASSUME GenInv, NEW o \in AllObjects
    PROVE  o \in ObjectsRead
  <1>1. PICK i \in 1 .. Len(profiles) : o \in ToSet(profiles[i].objects)
    <2>1. PICK i \in 1 .. Len(profiles) : o \in ToSet(profiles[i]["objects"])
      BY DEF AllObjects, InSome, Written
    <2> QED
      BY <2>1
  <1>2. PICK file \in InputProfiles : file = input[i] /\ profiles[i] = Whole(i, file)
    BY StoredProfiles
  <1>3. PICK j \in 1 .. Len(file.objects) :
           o = Object(i, toInt(file.objectsOffset), file.objects[j], file.name, 0)
    <2>1. PICK list, S : /\ list = Whole(i, file).objects /\ list \in Seq(S)
                         /\ Len(list) = Len(file.objects)
      BY WholeLists
    <2>2. PICK j \in 1 .. Len(list) : o = list[j]
      BY <1>1, <1>2, <2>1 DEF ToSet
    <2> QED
      BY <2>1, <2>2, WholeLists
  <1>4. PICK e \in Entries : e = file.objects[j]
    BY EntriesRead
  <1>5. toInt(e.address) \in Int /\ toInt(e.size) \in Int /\ e.name \in STRING
    BY NumbersRead DEF Entries
  <1>6. i \in Nat /\ toInt(file.objectsOffset) \in Int /\ file.name \in STRING
    BY EntriesRead
  <1>7. o = Object(i, toInt(file.objectsOffset), e, file.name, 0)
    BY <1>3, <1>4
  <1> QED
    BY <1>5, <1>6, <1>7 DEF Object, ObjectsRead

\* The enumerators of an array by their suffixes.
LEMMA ArrayEnumerators ==
    ASSUME NEW o \in ObjectsRead, o.size > 0, NEW e
    PROVE  e \in enumString(o) <=>
              \/ e = Enumerator(o, Plain, 0)
              \/ \E i \in 0 .. o.size - 1 : e = Enumerator(o, Suffix("", i), i)
              \/ e = Enumerator(o, Suffix("Start", -1), 0)
              \/ e = Enumerator(o, Suffix("Max", -1), o.size - 1)
  <1>1. o.size # 0
    BY DEF ObjectsRead
  <1> QED
    BY <1>1 DEF enumString

LEMMA EnumeratorParts ==
    ASSUME NEW o \in ObjectsRead, NEW suffix, NEW i \in Int
    PROVE  /\ Enumerator(o, suffix, i).ident = <<o.prefix, o.name, suffix>>
           /\ Enumerator(o, suffix, i).value.n = o.offset + o.object + i
  <1>1. o.macro = 0
    BY DEF ObjectsRead
  <1> QED
    BY <1>1 DEF Enumerator, Number

\* With one object of its name the suffix tells an enumerator.
LEMMA OneValue ==
    ASSUME GenInv, NEW o \in AllObjects, OnlyOne(o), o.size > 0,
           NEW suffix, NEW i \in Int,
           Enumerator(o, suffix, i) \in enumString(o),
           \A e \in enumString(o) :
              e.ident = <<o.prefix, o.name, suffix>> => e.value.n = o.offset + o.object + i
    PROVE  ValueOf(o, suffix) = o.offset + o.object + i
  <1>1. o \in ObjectsRead
    BY ObjectsAreRead
  <1>2. PICK d : d = Enumerator(o, suffix, i)
    OBVIOUS
  <1>3. d \in EObject /\ d.ident = <<o.prefix, o.name, suffix>>
    BY <1>1, <1>2, EnumeratorParts DEF EObject
  <1>4. ASSUME NEW e \in EObject, e.ident = <<o.prefix, o.name, suffix>>
        PROVE  e.value.n = o.offset + o.object + i
    <2>1. PICK p \in AllObjects : e \in enumString(p)
      BY DEF EObject
    <2>2. p.prefix = o.prefix /\ p.name = o.name
      <3>1. PICK s, k : e = Enumerator(p, s, k)
        BY <2>1 DEF enumString
      <3>2. e.ident = <<p.prefix, p.name, s>>
        BY <3>1 DEF Enumerator
      <3> QED
        BY <1>4, <3>2
    <2>3. p = o
      BY <2>2 DEF OnlyOne
    <2> QED
      BY <1>4, <2>1, <2>3
  <1> DEFINE c == CHOOSE e \in EObject : e.ident = <<o.prefix, o.name, suffix>>
  <1>5. c \in EObject /\ c.ident = <<o.prefix, o.name, suffix>>
    BY <1>3
  <1>6. ValueOf(o, suffix) = c.value.n
    BY DEF ValueOf
  <1> HIDE DEF c
  <1> QED
    BY <1>4, <1>5, <1>6

LEMMA SameSuffix ==
    ASSUME NEW a, NEW b, NEW s, NEW t
    PROVE  <<a, b, s>> = <<a, b, t>> => s = t
  OBVIOUS

LEMMA SuffixParts ==
    ASSUME NEW t, NEW j, NEW u, NEW k, Suffix(t, j) = Suffix(u, k)
    PROVE  t = u /\ j = k
  <1>1. /\ Suffix(t, j).text = t /\ Suffix(t, j).index = j
        /\ Suffix(u, k).text = u /\ Suffix(u, k).index = k
    BY DEF Suffix
  <1> QED
    BY <1>1

LEMMA ArrayValues ==
    ASSUME GenInv, NEW o \in AllObjects, OnlyOne(o), o.size > 0
    PROVE  /\ ValueOf(o, Suffix("Start", -1)) = o.offset + o.object + 0
           /\ ValueOf(o, Suffix("Max", -1)) = o.offset + o.object + (o.size - 1)
           /\ \A i \in 0 .. o.size - 1 :
                 ValueOf(o, Suffix("", i)) = o.offset + o.object + i
  <1>1. o \in ObjectsRead /\ o.size \in Int /\ o.offset \in Int /\ o.object \in Int
    BY ObjectsAreRead DEF ObjectsRead
  <1>2. ASSUME NEW e \in enumString(o)
        PROVE  \/ e = Enumerator(o, Plain, 0)
               \/ \E i \in 0 .. o.size - 1 : e = Enumerator(o, Suffix("", i), i)
               \/ e = Enumerator(o, Suffix("Start", -1), 0)
               \/ e = Enumerator(o, Suffix("Max", -1), o.size - 1)
    BY <1>1, ArrayEnumerators
  <1>3. ASSUME NEW e \in enumString(o), NEW suffix, e.ident = <<o.prefix, o.name, suffix>>
        PROVE  \/ suffix = Plain
               \/ \E i \in 0 .. o.size - 1 :
                     suffix = Suffix("", i) /\ e.value.n = o.offset + o.object + i
               \/ suffix = Suffix("Start", -1) /\ e.value.n = o.offset + o.object + 0
               \/ suffix = Suffix("Max", -1)
                  /\ e.value.n = o.offset + o.object + (o.size - 1)
    <2>1. CASE e = Enumerator(o, Plain, 0)
      <3>1. e.ident = <<o.prefix, o.name, Plain>>
        BY <1>1, <2>1, EnumeratorParts
      <3> QED
        BY <1>3, <3>1, SameSuffix
    <2>2. CASE \E i \in 0 .. o.size - 1 : e = Enumerator(o, Suffix("", i), i)
      <3>1. PICK i \in 0 .. o.size - 1 : e = Enumerator(o, Suffix("", i), i)
        BY <2>2
      <3>2. i \in Int
        BY <1>1
      <3>3. /\ e.ident = <<o.prefix, o.name, Suffix("", i)>>
            /\ e.value.n = o.offset + o.object + i
        BY <1>1, <3>1, <3>2, EnumeratorParts
      <3>4. suffix = Suffix("", i)
        BY <1>3, <3>3, SameSuffix
      <3> QED
        BY <3>3, <3>4
    <2>3. CASE e = Enumerator(o, Suffix("Start", -1), 0)
      <3>1. /\ e.ident = <<o.prefix, o.name, Suffix("Start", -1)>>
            /\ e.value.n = o.offset + o.object + 0
        BY <1>1, <2>3, EnumeratorParts
      <3>2. suffix = Suffix("Start", -1)
        BY <1>3, <3>1, SameSuffix
      <3> QED
        BY <3>1, <3>2
    <2>4. CASE e = Enumerator(o, Suffix("Max", -1), o.size - 1)
      <3>1. /\ e.ident = <<o.prefix, o.name, Suffix("Max", -1)>>
            /\ e.value.n = o.offset + o.object + (o.size - 1)
        BY <1>1, <2>4, EnumeratorParts
      <3>2. suffix = Suffix("Max", -1)
        BY <1>3, <3>1, SameSuffix
      <3> QED
        BY <3>1, <3>2
    <2> QED
      BY <1>2, <2>1, <2>2, <2>3, <2>4
  <1>4. ValueOf(o, Suffix("Start", -1)) = o.offset + o.object + 0
    <2>1. Suffix("Start", -1) # Plain /\ Suffix("Start", -1) # Suffix("Max", -1)
          /\ \A i : Suffix("Start", -1) # Suffix("", i)
      BY DEF Suffix, Plain
    <2>2. Enumerator(o, Suffix("Start", -1), 0) \in enumString(o)
      BY <1>1, ArrayEnumerators
    <2>3. PICK z \in Int : z = 0
      OBVIOUS
    <2>4. \A e \in enumString(o) : e.ident = <<o.prefix, o.name, Suffix("Start", -1)>> =>
             e.value.n = o.offset + o.object + z
      BY <1>3, <2>1, <2>3
    <2>5. Enumerator(o, Suffix("Start", -1), z) \in enumString(o)
      BY <2>2, <2>3
    <2>6. ValueOf(o, Suffix("Start", -1)) = o.offset + o.object + z
      BY <2>4, <2>5, OneValue
    <2> QED
      BY <2>3, <2>6
  <1>5. ValueOf(o, Suffix("Max", -1)) = o.offset + o.object + (o.size - 1)
    <2>1. Suffix("Max", -1) # Plain /\ Suffix("Max", -1) # Suffix("Start", -1)
          /\ \A i : Suffix("Max", -1) # Suffix("", i)
      BY DEF Suffix, Plain
    <2>2. Enumerator(o, Suffix("Max", -1), o.size - 1) \in enumString(o)
      BY <1>1, ArrayEnumerators
    <2>3. \A e \in enumString(o) : e.ident = <<o.prefix, o.name, Suffix("Max", -1)>> =>
             e.value.n = o.offset + o.object + (o.size - 1)
      BY <1>3, <2>1
    <2>4. o.size - 1 \in Int
      BY <1>1
    <2> QED
      BY <2>2, <2>3, <2>4, OneValue
  <1>6. ASSUME NEW i \in 0 .. o.size - 1
        PROVE  ValueOf(o, Suffix("", i)) = o.offset + o.object + i
    <2>1. /\ Suffix("", i) # Plain /\ Suffix("", i) # Suffix("Start", -1)
          /\ Suffix("", i) # Suffix("Max", -1)
          /\ \A j \in 0 .. o.size - 1 : Suffix("", i) = Suffix("", j) => i = j
      <3>1. i # -1
        BY <1>1
      <3>2. \A t, j : Suffix(t, j).text = t /\ Suffix(t, j).index = j
        BY DEF Suffix
      <3>3. Plain.index = -1
        BY DEF Plain, Suffix
      <3>4. Suffix("", i) # Plain
        BY <3>1, <3>2, <3>3
      <3>5. \A t, j : t # "" => Suffix("", i) # Suffix(t, j)
        BY SuffixParts
      <3>6. Suffix("", i) # Suffix("Start", -1) /\ Suffix("", i) # Suffix("Max", -1)
        BY <3>5
      <3>7. \A j : Suffix("", i) = Suffix("", j) => i = j
        BY SuffixParts
      <3> QED
        BY <3>4, <3>6, <3>7
    <2>2. Enumerator(o, Suffix("", i), i) \in enumString(o)
      BY <1>1, ArrayEnumerators
    <2>3. \A e \in enumString(o) : e.ident = <<o.prefix, o.name, Suffix("", i)>> =>
             e.value.n = o.offset + o.object + i
      BY <1>3, <2>1
    <2>4. i \in Int
      BY <1>1
    <2> QED
      BY <2>2, <2>3, <2>4, OneValue
  <1> QED
    BY <1>4, <1>5, <1>6

\* Between the first and the last enumerator of an array are those of its
\* elements and no others, whatever the files hold: the test of the library for
\* an object with sub-indices accepts the elements of the array only.
THEOREM SubIndexedAlways == Spec => []SubIndexed
  <1>1. GenInv => SubIndexed
    <2> SUFFICES ASSUME GenInv, NEW o \in AllObjects, o.size > 0, OnlyOne(o)
                 PROVE  ValueOf(o, Suffix("Start", -1)) .. ValueOf(o, Suffix("Max", -1))
                           = {ValueOf(o, Suffix("", i)) : i \in 0 .. o.size - 1}
      BY DEF SubIndexed
    <2>1. PICK b \in Int, size \in Int : b = o.offset + o.object /\ size = o.size
      BY ObjectsAreRead DEF ObjectsRead
    <2>2. /\ ValueOf(o, Suffix("Start", -1)) = b + 0
          /\ ValueOf(o, Suffix("Max", -1)) = b + (size - 1)
          /\ \A i \in 0 .. size - 1 : ValueOf(o, Suffix("", i)) = b + i
      BY <2>1, ArrayValues
    <2>3. {ValueOf(o, Suffix("", i)) : i \in 0 .. o.size - 1} = {b + i : i \in 0 .. size - 1}
      BY <2>1, <2>2
    <2>4. (b + 0) .. (b + (size - 1)) = {b + i : i \in 0 .. size - 1}
      <3> DEFINE A == (b + 0) .. (b + (size - 1))
                 B == {b + i : i \in 0 .. size - 1}
      <3>1. ASSUME NEW n \in A PROVE n \in B
        <4>1. n - b \in 0 .. size - 1 /\ n = b + (n - b)
          BY <2>1
        <4> QED
          BY <4>1
      <3>2. ASSUME NEW n \in B PROVE n \in A
        <4>1. PICK i \in 0 .. size - 1 : n = b + i
          BY <3>2
        <4> QED
          BY <2>1, <4>1
      <3> HIDE DEF A, B
      <3>3. A = B
        BY <3>1, <3>2
      <3> QED
        BY <3>3 DEF A, B
    <2> QED
      BY <2>2, <2>3, <2>4
  <1> QED
    BY <1>1, GenInvHolds, PTL
=============================================================================
