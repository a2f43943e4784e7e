--------------------------- MODULE TdtTargetProofs ---------------------------
(***************************************************************************)
(* What holds of the printers for every value, and of the sub ids of       *)
(* arrays for every sequence of files.                                     *)
(***************************************************************************)
EXTENDS TdtTarget, TdtGenProofs

-----------------------------------------------------------------------------
(* Sub ids                                                                   *)

\* The sub ids of the elements are their indices if and only if they are at eight
\* numbers from a multiple of 8 on: the ninth has the sub id of the first.
LEMMA SubIdCounts ==
    ASSUME NEW start \in Int, NEW size \in Int, size > 0
    PROVE  (\A i \in 0 .. size - 1 : (start + i) % 8 = i) <=> (start % 8 = 0 /\ size <= 8)
  <1>1. ASSUME \A i \in 0 .. size - 1 : (start + i) % 8 = i
        PROVE  start % 8 = 0 /\ size <= 8
    <2>1. 0 \in 0 .. size - 1 /\ start + 0 = start
      OBVIOUS
    <2>2. start % 8 = 0
      BY <1>1, <2>1
    <2>3. size > 8 => (start + 8) % 8 = 8
      BY <1>1
    <2>4. (start + 8) % 8 # 8
      OBVIOUS
    <2> QED
      BY <2>2, <2>3, <2>4
  <1>2. ASSUME start % 8 = 0, size <= 8, NEW i \in 0 .. size - 1
        PROVE  (start + i) % 8 = i
    BY <1>2
  <1> QED
    BY <1>1, <1>2

\* The elements of an array, which are its enumerators with an index.
LEMMA Elements ==
    ASSUME NEW o \in ObjectsRead, o.size > 0
    PROVE  /\ \A i \in 0 .. o.size - 1 : Enumerator(o, Suffix("", i), i) \in enumString(o)
           /\ \A i \in 0 .. o.size - 1 :
                 /\ Enumerator(o, Suffix("", i), i).ident[3].index = i
                 /\ Enumerator(o, Suffix("", i), i).value.n = numericalValue(o) + i
           /\ \A e \in enumString(o) : e.ident[3].index >= 0 =>
                 \E i \in 0 .. o.size - 1 : e = Enumerator(o, Suffix("", i), i)
  <1>1. PICK start \in Int, size \in Int : /\ start = numericalValue(o) /\ size = o.size
                                           /\ start = o.offset + o.object
    BY DEF ObjectsRead, numericalValue
  <1>2. ASSUME NEW suffix, NEW i \in Int
        PROVE  /\ Enumerator(o, suffix, i).ident[3] = suffix
               /\ Enumerator(o, suffix, i).value.n = start + i
    BY <1>1, EnumeratorParts
  <1>3. \A text, j : Suffix(text, j).index = j
    BY DEF Suffix
  <1>4. ASSUME NEW i \in 0 .. o.size - 1
        PROVE  /\ Enumerator(o, Suffix("", i), i).ident[3].index = i
               /\ Enumerator(o, Suffix("", i), i).value.n = start + i
    <2>1. i \in Int
      BY <1>1
    <2>2. /\ Enumerator(o, Suffix("", i), i).ident[3] = Suffix("", i)
          /\ Enumerator(o, Suffix("", i), i).value.n = start + i
      BY <1>2, <2>1
    <2> QED
      BY <1>3, <2>2
  <1>5. ASSUME NEW e \in enumString(o), e.ident[3].index >= 0
        PROVE  \E i \in 0 .. o.size - 1 : e = Enumerator(o, Suffix("", i), i)
    <2>1. e # Enumerator(o, Plain, 0) /\ e # Enumerator(o, Suffix("Start", -1), 0)
      <3>1. 0 \in Int /\ Plain.index = -1 /\ Suffix("Start", -1).index = -1
        BY DEF Plain, Suffix
      <3>2. e.ident[3] # Plain /\ e.ident[3] # Suffix("Start", -1)
        BY <1>5, <3>1
      <3> QED
        BY <1>2, <3>1, <3>2
    <2>2. e # Enumerator(o, Suffix("Max", -1), o.size - 1)
      <3>1. o.size - 1 \in Int
        BY <1>1
      <3>2. Suffix("Max", -1).index = -1
        BY <1>3
      <3> QED
        BY <1>2, <1>5, <3>1, <3>2
    <2> QED
      BY <2>1, <2>2, ArrayEnumerators
  <1>6. ASSUME NEW i \in 0 .. o.size - 1
        PROVE  Enumerator(o, Suffix("", i), i) \in enumString(o)
    BY ArrayEnumerators
  <1> QED
    BY <1>1, <1>4, <1>5, <1>6

\* The sub ids of the elements of an array are their indices exactly if it starts at
\* a multiple of 8 and has no more than 8 elements, whatever the files hold: & 7 in
\* getTdtSubId() (message.hpp:379-382).
THEOREM SubIdAlwaysIndex == Spec => []SubIdIsIndex
  <1>1. GenInv => SubIdIsIndex
    <2> SUFFICES ASSUME GenInv, NEW o \in AllObjects, o.size > 0
                 PROVE  (\A e \in enumString(o) :
                            e.ident[3].index >= 0 => getTdtSubId(e.value.n) = e.ident[3].index)
                        <=> (numericalValue(o) % 8 = 0 /\ o.size <= 8)
      BY DEF SubIdIsIndex
    <2>1. o \in ObjectsRead
      BY ObjectsAreRead
    <2>2. PICK start \in Int, size \in Int : start = numericalValue(o) /\ size = o.size
      BY <2>1 DEF ObjectsRead, numericalValue
    <2>3. (\A e \in enumString(o) :
              e.ident[3].index >= 0 => getTdtSubId(e.value.n) = e.ident[3].index)
          <=> \A i \in 0 .. size - 1 : (start + i) % 8 = i
      <3>1. ASSUME \A e \in enumString(o) :
                      e.ident[3].index >= 0 => getTdtSubId(e.value.n) = e.ident[3].index,
                   NEW i \in 0 .. size - 1
            PROVE  (start + i) % 8 = i
        <4>1. PICK e \in enumString(o) : e.ident[3].index = i /\ e.value.n = start + i
          BY <2>1, <2>2, Elements
        <4> QED
          BY <2>2, <3>1, <4>1 DEF getTdtSubId
      <3>2. ASSUME \A i \in 0 .. size - 1 : (start + i) % 8 = i,
                   NEW e \in enumString(o), e.ident[3].index >= 0
            PROVE  getTdtSubId(e.value.n) = e.ident[3].index
        <4>1. PICK i \in 0 .. size - 1 : e = Enumerator(o, Suffix("", i), i)
          BY <2>1, <2>2, <3>2, Elements
        <4>2. e.ident[3].index = i /\ e.value.n = start + i
          BY <2>1, <2>2, <4>1, Elements
        <4> QED
          BY <3>2, <4>2 DEF getTdtSubId
      <3> QED
        BY <3>1, <3>2, Zenon
    <2>4. (\A i \in 0 .. size - 1 : (start + i) % 8 = i) <=> (start % 8 = 0 /\ size <= 8)
      BY <2>2, SubIdCounts
    <2> QED
      BY <2>2, <2>3, <2>4
  <1> QED
    BY <1>1, GenInvHolds, PTL

-----------------------------------------------------------------------------
(* Tables                                                                    *)

LEMMA RowParts ==
    ASSUME NEW i, NEW j, NEW k, NEW row
    PROVE  /\ Row(i, j, k, row).i = i /\ Row(i, j, k, row).j = j /\ Row(i, j, k, row).k = k
           /\ Row(i, j, k, row).key = row.key /\ Row(i, j, k, row).value = row.value
  BY DEF Row

\* In a map made from rows a key has the value of its row that comes after all
\* others of the key.
LEMMA LastOfItsKey ==
    ASSUME NEW rows, NEW r \in rows, r.i \in Int, r.j \in Int, r.k \in Int,
           \A s \in rows : s.key = r.key =>
               s = r \/ (s.i \in Int /\ s.j \in Int /\ s.k \in Int /\ Before(s, r))
    PROVE  r.key \in DOMAIN QMap(rows) /\ QMap(rows)[r.key] = r.value
  <1> DEFINE Latest(x) == x \in rows /\ x.key = r.key
                          /\ \A s \in rows : s.key = r.key => ~Before(x, s)
  <1>1. ~Before(r, r)
    BY DEF Before
  <1>2. ASSUME NEW s \in rows, s.i \in Int, s.j \in Int, s.k \in Int, Before(s, r)
        PROVE  ~Before(r, s)
    BY <1>2 DEF Before
  <1>3. Latest(r)
    BY <1>1, <1>2
  <1>4. ASSUME NEW x, Latest(x) PROVE x = r
    BY <1>4
  <1>5. LastRow(rows, r.key) = r
    <2>1. LastRow(rows, r.key) =
             CHOOSE x \in rows : x.key = r.key /\ \A s \in rows : s.key = r.key => ~Before(x, s)
      BY Zenon DEF LastRow
    <2>2. PICK c : c = CHOOSE x \in rows :
                          x.key = r.key /\ \A s \in rows : s.key = r.key => ~Before(x, s)
      OBVIOUS
    <2>3. Latest(c)
      BY <1>3, <2>2
    <2> HIDE DEF Latest
    <2>4. c = r
      BY <1>4, <2>3
    <2> QED
      BY <2>1, <2>2, <2>4
  <1> QED
    <2>1. r.key \in {s.key : s \in rows}
      OBVIOUS
    <2> QED
      BY <1>5, <2>1 DEF QMap

\* The rows of the printer's table for one entry.
LEMMA EntryRows ==
    ASSUME NEW o, o.size \in Int
    PROVE  /\ \A k : k \in DOMAIN printerString(o) <=>
                        k \in Int /\ (k = 0 \/ (k >= 1 /\ k <= o.size))
           /\ printerString(o)[0].key = Number(o, 0) /\ printerString(o)[0].value = <<o.name>>
           /\ \A k \in 1 .. o.size : /\ printerString(o)[k].key = Number(o, k - 1)
                                     /\ printerString(o)[k].value = <<o.name, k - 1>>
  <1> DEFINE last == IF o.size > 0 THEN o.size ELSE 0
  <1>1. last \in Nat /\ \A k : k \in 0 .. last <=> k \in Int /\ (k = 0 \/ (k >= 1 /\ k <= o.size))
    OBVIOUS
  <1>2. DOMAIN printerString(o) = 0 .. last
    BY DEF printerString
  <1>3. \A k \in 0 .. last : printerString(o)[k] =
           IF k = 0 THEN [key |-> Number(o, 0), value |-> <<o.name>>]
           ELSE [key |-> Number(o, k - 1), value |-> <<o.name, k - 1>>]
    BY DEF printerString
  <1> HIDE DEF last
  <1>4. /\ printerString(o)[0].key = Number(o, 0) /\ printerString(o)[0].value = <<o.name>>
    <2>1. 0 \in 0 .. last
      BY <1>1
    <2>2. printerString(o)[0] = [key |-> Number(o, 0), value |-> <<o.name>>]
      BY <1>3, <2>1
    <2> QED
      BY <2>2
  <1>5. ASSUME NEW k \in 1 .. o.size
        PROVE  /\ printerString(o)[k].key = Number(o, k - 1)
               /\ printerString(o)[k].value = <<o.name, k - 1>>
    <2>1. k \in 0 .. last /\ k # 0
      BY <1>1
    <2>2. printerString(o)[k] = [key |-> Number(o, k - 1), value |-> <<o.name, k - 1>>]
      BY <1>3, <2>1
    <2> QED
      BY <2>2
  <1> QED
    BY <1>1, <1>2, <1>4, <1>5

LEMMA RowsOfLists ==
    ASSUME NEW lists, NEW r
    PROVE  r \in Rows(lists) <=>
              \E i \in DOMAIN lists : \E j \in 1 .. Len(lists[i]) :
                 \E k \in DOMAIN printerString(lists[i][j]) :
                     r = Row(i, j, k, printerString(lists[i][j])[k])
  <1> DEFINE A(i, j) == {Row(i, j, k, printerString(lists[i][j])[k]) :
                             k \in DOMAIN printerString(lists[i][j])}
             B(i) == UNION {A(i, j) : j \in 1 .. Len(lists[i])}
  <1>1. Rows(lists) = UNION {B(i) : i \in DOMAIN lists}
    BY Zenon DEF Rows
  <1>2. \A i, j : r \in A(i, j) <=>
           \E k \in DOMAIN printerString(lists[i][j]) :
               r = Row(i, j, k, printerString(lists[i][j])[k])
    BY Zenon
  <1> HIDE DEF A
  <1>3. \A i : r \in B(i) <=> \E j \in 1 .. Len(lists[i]) : r \in A(i, j)
    BY Zenon
  <1> HIDE DEF B
  <1>4. r \in Rows(lists) <=> \E i \in DOMAIN lists : r \in B(i)
    BY <1>1, Zenon
  <1> QED
    BY <1>2, <1>3, <1>4, Zenon

\* The entries of the lists that tables are made of.
PrefixNames == STRING \cup {NoPrefix}
Listed == [profile : Nat, offset : Int, object : Int, name : STRING, size : Int,
           prefix : PrefixNames, macro : Int]

LEMMA ReadIsListed ==
    ASSUME NEW o \in ObjectsRead
    PROVE  o \in Listed
  <1>1. PICK n \in Nat, offset \in Int, object \in Int, name \in STRING, size \in Int,
             prefix \in STRING :
           o = [profile |-> n, offset |-> offset, object |-> object, name |-> name,
                size |-> size, prefix |-> prefix, macro |-> 0]
    BY DEF ObjectsRead
  <1>2. prefix \in PrefixNames
    BY Zenon DEF PrefixNames
  <1> QED
    BY <1>1, <1>2 DEF Listed

LEMMA RowNumbersOf ==
    ASSUME NEW o \in Listed, o.macro = 0, NEW number
    PROVE  number \in RowNumbers(o) <=>
              /\ number \in Int /\ number >= numericalValue(o)
              /\ \/ number = numericalValue(o)
                 \/ number <= numericalValue(o) + (o.size - 1)
  <1>1. numericalValue(o) \in Int /\ o.size \in Int
    BY DEF Listed, numericalValue
  <1>2. RowNumbers(o)
           = numericalValue(o) .. numericalValue(o) + (IF o.size > 0 THEN o.size - 1 ELSE 0)
    BY DEF RowNumbers
  <1> QED
    BY <1>1, <1>2

LEMMA NumberIs ==
    ASSUME NEW o \in Listed, NEW i \in Int, NEW number \in Int
    PROVE  Number(o, i) = [macro |-> 0, n |-> number] <=>
              o.macro = 0 /\ numericalValue(o) + i = number
  <1>1. ASSUME o.macro = 0
        PROVE  Number(o, i) = [macro |-> 0, n |-> numericalValue(o) + i]
    BY <1>1 DEF Number, numericalValue
  <1>2. ASSUME o.macro # 0 PROVE Number(o, i).macro # 0
    BY <1>2 DEF Number
  <1>3. [macro |-> 0, n |-> number].macro = 0 /\ [macro |-> 0, n |-> number].n = number
    OBVIOUS
  <1>4. [macro |-> 0, n |-> numericalValue(o) + i].n = numericalValue(o) + i
    OBVIOUS
  <1> QED
    BY <1>1, <1>2, <1>3, <1>4

\* What an entry has in the table, if no other shares a number with it.
LEMMA OwnRow ==
    ASSUME NEW lists, DOMAIN lists \subseteq Int,
           \A m \in DOMAIN lists : \A n \in 1 .. Len(lists[m]) : lists[m][n] \in Listed,
           NEW i \in DOMAIN lists, NEW j \in 1 .. Len(lists[i]), Alone(lists, i, j),
           NEW number \in RowNumbers(lists[i][j])
    PROVE  LET key == [macro |-> 0, n |-> number]
           IN  /\ key \in DOMAIN QMap(Rows(lists))
               /\ QMap(Rows(lists))[key] = Label(lists[i][j], number)
  <1>1. PICK o, key : o = lists[i][j] /\ key = [macro |-> 0, n |-> number]
    OBVIOUS
  <1>2. o \in Listed /\ o.size \in Int /\ o.macro = 0
    <2>1. o \in Listed
      BY <1>1
    <2> QED
      BY <1>1, <2>1 DEF Listed, RowNumbers
  <1>3. PICK base \in Int, size \in Int : base = numericalValue(o) /\ size = o.size
    BY <1>2 DEF Listed, numericalValue
  <1>4. number \in Int /\ number >= base /\ (number = base \/ number <= base + (size - 1))
    BY <1>1, <1>2, <1>3, RowNumbersOf
  <1>5. PICK k \in Int : k = IF size > 0 THEN number - base + 1 ELSE 0
    BY <1>4
  <1>6. \/ k = 0 /\ size <= 0 /\ number = base
        \/ k >= 1 /\ k <= size /\ k - 1 = number - base
    BY <1>4, <1>5
  <1>7. k \in DOMAIN printerString(o)
    BY <1>2, <1>3, <1>6, EntryRows
  <1>8. printerString(o)[k].key = key /\ printerString(o)[k].value = Label(o, number)
    <2>1. CASE k = 0 /\ size <= 0 /\ number = base
      <3>1. printerString(o)[k].key = Number(o, 0) /\ printerString(o)[k].value = <<o.name>>
        BY <1>2, <2>1, EntryRows
      <3>2. Number(o, 0) = key
        BY <1>1, <1>2, <1>3, <1>4, <2>1, NumberIs, SMTT(30)
      <3>3. Label(o, number) = <<o.name>>
        BY <1>3, <2>1 DEF Label
      <3> QED
        BY <3>1, <3>2, <3>3
    <2>2. CASE k >= 1 /\ k <= size /\ k - 1 = number - base
      <3>1. k \in 1 .. o.size /\ size > 0
        BY <1>3, <2>2
      <3>2. /\ printerString(o)[k].key = Number(o, k - 1)
            /\ printerString(o)[k].value = <<o.name, k - 1>>
        BY <1>2, <3>1, EntryRows
      <3>3. k - 1 \in Int /\ base + (k - 1) = number
        BY <1>4, <2>2
      <3>4. Number(o, k - 1) = key
        BY <1>1, <1>2, <1>3, <1>4, <3>3, NumberIs
      <3>5. Label(o, number) = <<o.name, k - 1>>
        BY <1>3, <2>2, <3>1 DEF Label
      <3> QED
        BY <3>2, <3>4, <3>5
    <2> QED
      BY <1>6, <2>1, <2>2
  <1>9. PICK r : r = Row(i, j, k, printerString(o)[k])
    OBVIOUS
  <1>10. r \in Rows(lists)
    BY <1>1, <1>7, <1>9, RowsOfLists
  <1>11. r.i = i /\ r.j = j /\ r.k = k /\ r.key = key /\ r.value = Label(o, number)
    BY <1>8, <1>9, RowParts
  <1>12. ASSUME NEW s \in Rows(lists), s.key = key
         PROVE  s = r \/ (s.i \in Int /\ s.j \in Int /\ s.k \in Int /\ Before(s, r))
    <2>1. PICK m \in DOMAIN lists : \E n \in 1 .. Len(lists[m]) :
             \E l \in DOMAIN printerString(lists[m][n]) :
                s = Row(m, n, l, printerString(lists[m][n])[l])
      BY RowsOfLists, ZenonT(40)
    <2>2. PICK n \in 1 .. Len(lists[m]) : \E l \in DOMAIN printerString(lists[m][n]) :
                s = Row(m, n, l, printerString(lists[m][n])[l])
      BY <2>1
    <2>3. PICK p : p = lists[m][n] /\ p \in Listed
      BY <2>1, <2>2
    <2>4. PICK l \in DOMAIN printerString(p) : s = Row(m, n, l, printerString(p)[l])
      BY <2>2, <2>3
    <2>5. s.i = m /\ s.j = n /\ s.k = l /\ printerString(p)[l].key = key
      BY <1>12, <2>4, RowParts
    <2>6. p.size \in Int
      BY <2>3 DEF Listed
    <2>7. l \in Int /\ (l = 0 \/ (l >= 1 /\ l <= p.size))
      BY <2>6, EntryRows
    <2>8. PICK at \in Int : /\ Number(p, at) = key
                            /\ (l = 0 /\ at = 0) \/ (l >= 1 /\ l <= p.size /\ at = l - 1)
      <3>1. CASE l = 0
        <4>1. Number(p, 0) = key
          BY <2>5, <2>6, <3>1, EntryRows
        <4> QED
          BY <3>1, <4>1
      <3>2. CASE l >= 1 /\ l <= p.size
        <4>1. l \in 1 .. p.size /\ l - 1 \in Int
          BY <2>6, <2>7, <3>2
        <4>2. Number(p, l - 1) = key
          BY <2>5, <2>6, <4>1, EntryRows
        <4> QED
          BY <3>2, <4>1, <4>2
      <3> QED
        BY <2>7, <3>1, <3>2
    <2>9. p.macro = 0 /\ numericalValue(p) + at = number
      BY <1>1, <1>4, <2>3, <2>8, NumberIs
    <2>10. PICK start \in Int : start = numericalValue(p)
      BY <2>3 DEF Listed, numericalValue
    <2>11. number >= start /\ (number = start \/ number <= start + (p.size - 1))
      <3>1. number = start + at
        BY <2>9, <2>10
      <3>2. at = 0 \/ (at >= 0 /\ at <= p.size - 1)
        <4>1. CASE l = 0 /\ at = 0
          BY <4>1
        <4>2. CASE l >= 1 /\ l <= p.size /\ at = l - 1
          BY <2>6, <2>7, <4>2
        <4> QED
          BY <2>8, <4>1, <4>2
      <3> QED
        BY <2>6, <3>1, <3>2
    <2>12. number \in RowNumbers(p)
      BY <1>4, <2>3, <2>9, <2>10, <2>11, RowNumbersOf
    <2>13. m = i /\ n = j
      BY <1>1, <2>1, <2>2, <2>3, <2>12 DEF Alone
    <2>14. p = o
      BY <1>1, <2>3, <2>13
    <2>15. at = number - base
      BY <1>3, <1>4, <2>8, <2>9, <2>14
    <2>16. l = k \/ (l = 0 /\ k >= 1)
      BY <1>3, <1>6, <2>7, <2>8, <2>14, <2>15
    <2>17. CASE l = k
      BY <1>9, <2>4, <2>13, <2>14, <2>17
    <2>18. CASE l = 0 /\ k >= 1
      <3>1. m \in Int /\ n \in Int
        BY <2>13
      <3>2. Before(s, r)
        BY <1>11, <2>5, <2>13, <2>18 DEF Before
      <3> QED
        BY <2>5, <2>7, <3>1, <3>2
    <2> QED
      BY <2>16, <2>17, <2>18
  <1>13. i \in Int /\ j \in Int
    OBVIOUS
  <1>14. key \in DOMAIN QMap(Rows(lists)) /\ QMap(Rows(lists))[key] = Label(o, number)
    BY <1>5, <1>10, <1>11, <1>12, <1>13, LastOfItsKey
  <1> QED
    BY <1>1, <1>14

LEMMA WrittenObjects ==
    ASSUME GenInv, NEW lists, lists = Written("objects")
    PROVE  /\ DOMAIN lists = 1 .. Len(profiles) /\ DOMAIN lists \subseteq Int
           /\ \A i \in DOMAIN lists : \A j \in 1 .. Len(lists[i]) :
                 lists[i][j] \in AllObjects /\ lists[i][j] \in Listed
           /\ \A o \in AllObjects : \E i \in DOMAIN lists : \E j \in 1 .. Len(lists[i]) :
                 o = lists[i][j]
  <1>1. DOMAIN lists = 1 .. Len(profiles) /\ DOMAIN lists \subseteq Int
    BY DEF Written
  <1>2. \A o : o \in AllObjects <=> \E i \in DOMAIN lists : o \in ToSet(lists[i])
    BY Zenon DEF AllObjects, InSome
  <1>3. ASSUME NEW i \in DOMAIN lists, NEW j \in 1 .. Len(lists[i])
        PROVE  lists[i][j] \in AllObjects /\ lists[i][j] \in Listed
    <2>1. PICK list, S : list = lists[i] /\ list \in Seq(S)
      <3>1. PICK file \in InputProfiles : profiles[i] = Whole(i, file)
        BY <1>1, StoredProfiles
      <3>2. lists[i] = profiles[i]["objects"]
        BY <1>1 DEF Written
      <3>3. lists[i] = Whole(i, file).objects
        BY <3>1, <3>2
      <3> QED
        BY <3>3, WholeLists
    <2>2. list[j] \in ToSet(list)
      BY <2>1 DEF ToSet
    <2>3. lists[i][j] \in AllObjects
      BY <1>2, <2>1, <2>2
    <2>4. lists[i][j] \in ObjectsRead
      BY <2>3, ObjectsAreRead
    <2> QED
      BY <2>3, <2>4, ReadIsListed
  <1>4. ASSUME NEW o \in AllObjects
        PROVE  \E i \in DOMAIN lists : \E j \in 1 .. Len(lists[i]) : o = lists[i][j]
    <2>1. PICK i \in DOMAIN lists : o \in ToSet(lists[i])
      BY <1>2
    <2>2. PICK file \in InputProfiles : profiles[i] = Whole(i, file)
      BY <1>1, StoredProfiles
    <2>3. lists[i] = profiles[i]["objects"]
      BY <1>1 DEF Written
    <2>4. PICK list, S : list = lists[i] /\ list \in Seq(S)
      BY <2>2, <2>3, WholeLists
    <2>5. PICK j \in 1 .. Len(list) : o = list[j]
      BY <2>1, <2>4 DEF ToSet
    <2> QED
      BY <2>4, <2>5
  <1> QED
    BY <1>1, <1>3, <1>4

\* The numbers of an entry in the enumeration and in the table, if no array has
\* fewer than no elements.
LEMMA SameNumbers ==
    ASSUME NEW o \in Listed, o.size >= 0
    PROVE  /\ \A e \in enumString(o) :
                 \E k \in DOMAIN printerString(o) : e.value = printerString(o)[k].key
           /\ \A k \in DOMAIN printerString(o) :
                 \E e \in enumString(o) : e.value = printerString(o)[k].key
  <1>1. PICK size \in Nat : size = o.size
    BY DEF Listed
  <1>2. \A suffix, i : Enumerator(o, suffix, i).value = Number(o, i)
    BY DEF Enumerator
  <1>3. /\ \A k : k \in DOMAIN printerString(o) <=>
                     k \in Int /\ (k = 0 \/ (k >= 1 /\ k <= size))
        /\ printerString(o)[0].key = Number(o, 0)
        /\ \A k \in 1 .. size : printerString(o)[k].key = Number(o, k - 1)
    BY <1>1, EntryRows
  <1>4. ASSUME NEW e \in enumString(o)
        PROVE  \E i \in Int : /\ e.value = Number(o, i)
                              /\ i = 0 \/ (i >= 0 /\ i <= size - 1)
    <2>1. CASE e = Enumerator(o, Plain, 0)
      BY <1>2, <2>1
    <2>2. CASE \E i \in 0 .. o.size - 1 : e = Enumerator(o, Suffix("", i), i)
      <3>1. PICK i \in 0 .. o.size - 1 : e = Enumerator(o, Suffix("", i), i)
        BY <2>2
      <3>2. e.value = Number(o, i)
        BY <1>2, <3>1
      <3> QED
        BY <1>1, <3>2
    <2>3. CASE e = Enumerator(o, Suffix("Start", -1), 0)
      BY <1>2, <2>3
    <2>4. CASE o.size # 0 /\ e = Enumerator(o, Suffix("Max", -1), o.size - 1)
      BY <1>1, <1>2, <2>4
    <2> QED
      BY <2>1, <2>2, <2>3, <2>4 DEF enumString
  <1>5. ASSUME NEW e \in enumString(o)
        PROVE  \E k \in DOMAIN printerString(o) : e.value = printerString(o)[k].key
    <2>1. PICK i \in Int : e.value = Number(o, i) /\ (i = 0 \/ (i >= 0 /\ i <= size - 1))
      BY <1>4
    <2>2. CASE i >= 0 /\ i <= size - 1
      <3>1. PICK k \in 1 .. size : i = k - 1
        <4>1. i + 1 \in 1 .. size /\ i = (i + 1) - 1
          BY <1>1, <2>2
        <4> QED
          BY <4>1
      <3>2. k \in DOMAIN printerString(o)
        BY <1>1, <1>3
      <3> QED
        BY <1>3, <2>1, <3>1, <3>2
    <2>3. CASE i = 0
      <3>1. 0 \in DOMAIN printerString(o)
        BY <1>3
      <3> QED
        BY <1>3, <2>1, <2>3, <3>1
    <2> QED
      BY <2>1, <2>2, <2>3
  <1>6. ASSUME NEW k \in DOMAIN printerString(o)
        PROVE  \E e \in enumString(o) : e.value = printerString(o)[k].key
    <2>1. k \in Int /\ (k = 0 \/ (k >= 1 /\ k <= size))
      BY <1>3
    <2>2. CASE k = 0
      <3>1. Enumerator(o, Plain, 0) \in enumString(o)
        BY DEF enumString
      <3> QED
        BY <1>2, <1>3, <2>2, <3>1
    <2>3. CASE k >= 1 /\ k <= size
      <3>1. k - 1 \in 0 .. o.size - 1 /\ o.size # 0 /\ k \in 1 .. size
        BY <1>1, <2>1, <2>3
      <3>2. Enumerator(o, Suffix("", k - 1), k - 1) \in enumString(o)
        BY <3>1, Zenon DEF enumString
      <3> QED
        BY <1>2, <1>3, <3>1, <3>2
    <2> QED
      BY <2>1, <2>2, <2>3
  <1> QED
    BY <1>5, <1>6

\* The printer of the host can name exactly the numbers that the enumeration
\* defines, and shows a number that belongs to one object by its name and index,
\* whatever the files hold (profile.cpp:205-283 and the maps of the printer).
THEOREM PrinterAlwaysAgrees == Spec => []PrinterAgrees
  <1>1. GenInv => PrinterAgrees
    <2> SUFFICES ASSUME GenInv PROVE PrinterAgrees
      OBVIOUS
    <2>1. PICK lists : lists = Written("objects")
      OBVIOUS
    <2>2. /\ DOMAIN lists \subseteq Int
          /\ \A i \in DOMAIN lists : \A j \in 1 .. Len(lists[i]) :
                lists[i][j] \in AllObjects /\ lists[i][j] \in Listed
          /\ \A o \in AllObjects : \E i \in DOMAIN lists : \E j \in 1 .. Len(lists[i]) :
                o = lists[i][j]
      BY <2>1, WrittenObjects
    <2>3. m_objectMap = QMap(Rows(lists))
      BY <2>1 DEF m_objectMap
    <2>4. ASSUME \A o \in AllObjects : o.size >= 0
          PROVE  DOMAIN m_objectMap = {e.value : e \in EObject}
      <3>1. \A key : key \in DOMAIN m_objectMap <=> \E r \in Rows(lists) : key = r.key
        BY <2>3, Zenon DEF QMap
      <3>2. \A key : key \in {e.value : e \in EObject} <=> \E e \in EObject : key = e.value
        BY Zenon
      <3>3. \A e : e \in EObject <=> \E o \in AllObjects : e \in enumString(o)
        BY Zenon DEF EObject
      <3>4. ASSUME NEW r \in Rows(lists) PROVE \E e \in EObject : r.key = e.value
        <4>1. PICK i \in DOMAIN lists : \E j \in 1 .. Len(lists[i]) :
                 \E k \in DOMAIN printerString(lists[i][j]) :
                    r = Row(i, j, k, printerString(lists[i][j])[k])
          BY RowsOfLists
        <4>2. PICK j \in 1 .. Len(lists[i]) : \E k \in DOMAIN printerString(lists[i][j]) :
                    r = Row(i, j, k, printerString(lists[i][j])[k])
          BY <4>1
        <4>3. PICK o \in AllObjects : o = lists[i][j] /\ o \in Listed
          BY <2>2
        <4>4. PICK k \in DOMAIN printerString(o) : r = Row(i, j, k, printerString(o)[k])
          BY <4>2, <4>3
        <4>5. PICK e \in enumString(o) : e.value = printerString(o)[k].key
          BY <2>4, <4>3, SameNumbers
        <4> QED
          BY <3>3, <4>4, <4>5, RowParts
      <3>5. ASSUME NEW e \in EObject PROVE \E r \in Rows(lists) : r.key = e.value
        <4>1. PICK o \in AllObjects : e \in enumString(o)
          BY <3>3
        <4>2. PICK i \in DOMAIN lists : \E j \in 1 .. Len(lists[i]) : o = lists[i][j]
          BY <2>2
        <4>3. PICK j \in 1 .. Len(lists[i]) : o = lists[i][j]
          BY <4>2
        <4>4. PICK k \in DOMAIN printerString(o) : e.value = printerString(o)[k].key
          BY <2>2, <2>4, <4>1, <4>3, SameNumbers
        <4>5. PICK r : r = Row(i, j, k, printerString(lists[i][j])[k])
          OBVIOUS
        <4>6. r \in Rows(lists)
          BY <4>3, <4>4, <4>5, RowsOfLists
        <4>7. r.key = e.value
          BY <4>3, <4>4, <4>5, RowParts
        <4> QED
          BY <4>6, <4>7
      <3>6. \A key : key \in DOMAIN m_objectMap <=> key \in {e.value : e \in EObject}
        <4> HIDE DEF m_objectMap
        <4> QED
          BY <3>1, <3>2, <3>4, <3>5, Zenon
      <3> QED
        BY <3>6
    <2>5. ASSUME NEW i \in DOMAIN lists, NEW j \in 1 .. Len(lists[i]), Alone(lists, i, j),
                 NEW number \in RowNumbers(lists[i][j])
          PROVE  getObjectString(number) = Label(lists[i][j], number)
      <3>1. PICK key : key = [macro |-> 0, n |-> number]
        OBVIOUS
      <3>2. key \in DOMAIN m_objectMap /\ m_objectMap[key] = Label(lists[i][j], number)
        BY <2>2, <2>3, <2>5, <3>1, OwnRow
      <3> QED
        BY <3>1, <3>2 DEF getObjectString
    <2> QED
      BY <2>1, <2>4, <2>5 DEF PrinterAgrees
  <1> QED
    BY <1>1, GenInvHolds, PTL

-----------------------------------------------------------------------------
(* Texts                                                                     *)

LEMMA EmptyBefore ==
    ASSUME NEW S, NEW s \in Seq(S)
    PROVE  <<>> \o s = s
  OBVIOUS

\* The text of a value by the description of the unit, or by a layout of its own.
LEMMA DescribedText ==
    ASSUME NEW unit \in DOMAIN m_unitMap, NEW value, NEW desc, desc = m_unitMap[unit],
           desc.format \notin {"", " "} \/ desc.divider # 1
    PROVE  printValue("sendObject", unit, value) = <<>> \o printValueGeneric(desc, value)
  BY DEF printValue

LEMMA PlainText ==
    ASSUME NEW unit, PlainLayout(unit), NEW value
    PROVE  printValue("sendObject", unit, value) = <<>> \o printBuiltIn(unit, value)
  <1>1. m_unitMap[unit].format \in {"", " "} /\ m_unitMap[unit].divider = 1
    BY DEF PlainLayout
  <1> QED
    BY <1>1 DEF printValue

-----------------------------------------------------------------------------
(* Values of an enumeration                                                  *)

LEMMA UnitParts ==
    ASSUME NEW offset, NEW e
    PROVE  /\ Unit(offset, e).offset = offset /\ Unit(offset, e).unit = toInt(e.address)
           /\ Unit(offset, e).name = e.name /\ Unit(offset, e).format = e.format
           /\ unitNumber(Unit(offset, e)) = offset + toInt(e.address)
  BY DEF Unit, unitNumber

\* The last value of a number keeps it.
LEMMA UnitValues ==
    ASSUME NEW offset, NEW e, e.format = "E", Len(e.values) \in Nat,
           NEW k \in 1 .. Len(e.values),
           \A l \in 1 .. Len(e.values) :
               valueNumber(e.values[l]) = valueNumber(e.values[k]) => l <= k
    PROVE  /\ valueNumber(e.values[k]) \in DOMAIN Unit(offset, e).values
           /\ Unit(offset, e).values[valueNumber(e.values[k])] = e.values[k].name
  <1>1. PICK vs, number : vs = e.values /\ number = valueNumber(vs[k])
    OBVIOUS
  <1> DEFINE Latest(n) == CHOOSE i \in 1 .. Len(vs) :
                             /\ valueNumber(vs[i]) = n
                             /\ \A j \in 1 .. Len(vs) : valueNumber(vs[j]) = n => j <= i
  <1>2. Unit(offset, e).values =
           [n \in {valueNumber(vs[i]) : i \in 1 .. Len(vs)} |-> vs[Latest(n)].name]
    BY <1>1 DEF Unit
  <1>3. Latest(number) = k
    <2>1. PICK i : i = Latest(number)
      OBVIOUS
    <2>2. /\ i \in 1 .. Len(vs) /\ valueNumber(vs[i]) = number
          /\ \A j \in 1 .. Len(vs) : valueNumber(vs[j]) = number => j <= i
      BY <1>1, <2>1
    <2> HIDE DEF Latest
    <2>3. i <= k /\ k <= i /\ i \in Int /\ k \in Int
      BY <1>1, <2>2
    <2> QED
      BY <2>1, <2>3
  <1> HIDE DEF Latest
  <1>4. number \in {valueNumber(vs[i]) : i \in 1 .. Len(vs)}
    BY <1>1
  <1> QED
    BY <1>1, <1>2, <1>3, <1>4

LEMMA UnitRowsOfLists ==
    ASSUME NEW lists, NEW r
    PROVE  r \in UnitRows(lists) <=>
              \E i \in DOMAIN lists : \E j \in 1 .. Len(lists[i]) :
                  r = Row(i, j, 0, [key |-> unitNumber(lists[i][j]), value |-> lists[i][j]])
  <1> DEFINE A(i) == {Row(i, j, 0, [key |-> unitNumber(lists[i][j]), value |-> lists[i][j]]) :
                          j \in 1 .. Len(lists[i])}
  <1>1. UnitRows(lists) = UNION {A(i) : i \in DOMAIN lists}
    BY Zenon DEF UnitRows
  <1>2. \A i : r \in A(i) <=> \E j \in 1 .. Len(lists[i]) :
           r = Row(i, j, 0, [key |-> unitNumber(lists[i][j]), value |-> lists[i][j]])
    BY Zenon
  <1> HIDE DEF A
  <1>3. r \in UnitRows(lists) <=> \E i \in DOMAIN lists : r \in A(i)
    BY <1>1, Zenon
  <1> QED
    BY <1>2, <1>3, Zenon

LEMMA UnitRowParts ==
    ASSUME NEW i, NEW j, NEW u
    PROVE  LET r == Row(i, j, 0, [key |-> unitNumber(u), value |-> u])
           IN  r.i = i /\ r.j = j /\ r.k = 0 /\ r.key = unitNumber(u) /\ r.value = u
  BY DEF Row

\* The units that are stored, in the order of the files.
LEMMA WrittenUnits ==
    ASSUME GenInv, NEW lists, lists = Written("units")
    PROVE  /\ DOMAIN lists = 1 .. Len(profiles)
           /\ \A i \in DOMAIN lists :
                 /\ i \in 1 .. Len(input) /\ Len(lists[i]) = Len(input[i].units)
                 /\ Len(input[i].units) \in Nat /\ \E S : lists[i] \in Seq(S)
                 /\ \A j \in 1 .. Len(input[i].units) :
                       /\ lists[i][j] = Unit(toInt(input[i].unitsOffset), input[i].units[j])
                       /\ input[i].units[j] \in UnitEntries
                       /\ UnitNumberOf(i, j) \in Int
                       /\ unitNumber(lists[i][j]) = UnitNumberOf(i, j)
  <1>1. DOMAIN lists = 1 .. Len(profiles)
    BY DEF Written
  <1>2. ASSUME NEW i \in DOMAIN lists
        PROVE  /\ i \in 1 .. Len(input) /\ Len(lists[i]) = Len(input[i].units)
               /\ Len(input[i].units) \in Nat /\ \E S : lists[i] \in Seq(S)
               /\ \A j \in 1 .. Len(input[i].units) :
                     /\ lists[i][j] = Unit(toInt(input[i].unitsOffset), input[i].units[j])
                     /\ input[i].units[j] \in UnitEntries
                     /\ UnitNumberOf(i, j) \in Int
                     /\ unitNumber(lists[i][j]) = UnitNumberOf(i, j)
    <2>1. PICK file \in InputProfiles :
             file = input[i] /\ profiles[i] = Whole(i, file) /\ i \in 1 .. Len(input)
      BY <1>1, StoredProfiles
    <2>2. lists[i] = profiles[i]["units"]
      BY <1>1 DEF Written
    <2>3. lists[i] = Whole(i, file).units
      BY <2>1, <2>2
    <2>4. /\ Len(lists[i]) = Len(file.units) /\ Len(file.units) \in Nat
          /\ \E S : lists[i] \in Seq(S)
          /\ \A j \in 1 .. Len(file.units) :
                lists[i][j] = Unit(toInt(file.unitsOffset), file.units[j])
      BY <2>3, WholeLists
    <2>5. ASSUME NEW j \in 1 .. Len(file.units)
          PROVE  /\ file.units[j] \in UnitEntries /\ UnitNumberOf(i, j) \in Int
                 /\ unitNumber(lists[i][j]) = UnitNumberOf(i, j)
      <3>1. PICK e \in UnitEntries : e = file.units[j]
        BY EntriesRead
      <3>2. toInt(e.address) \in Int /\ toInt(file.unitsOffset) \in Int
        BY EntriesRead, NumbersRead DEF UnitEntries
      <3>3. UnitNumberOf(i, j) = toInt(file.unitsOffset) + toInt(e.address)
        BY <2>1, <3>1 DEF UnitNumberOf
      <3>4. lists[i][j] = Unit(toInt(file.unitsOffset), e)
        BY <2>4, <3>1
      <3>5. unitNumber(lists[i][j]) = toInt(file.unitsOffset) + toInt(e.address)
        BY <3>4, UnitParts
      <3> QED
        BY <3>1, <3>2, <3>3, <3>5
    <2> QED
      BY <2>1, <2>4, <2>5
  <1> QED
    BY <1>1, <1>2

\* The printer describes a number by the one unit that has it.
LEMMA OwnDescription ==
    ASSUME GenInv, Generated, NEW i \in 1 .. Len(input), NEW j \in 1 .. Len(input[i].units),
           OnlyUnit(i, j)
    PROVE  /\ UnitNumberOf(i, j) \in DOMAIN m_unitMap
           /\ m_unitMap[UnitNumberOf(i, j)] =
                 Unit(toInt(input[i].unitsOffset), input[i].units[j])
  <1>1. PICK lists : lists = Written("units")
    OBVIOUS
  <1>2. i \in DOMAIN lists
    BY <1>1, WrittenUnits DEF GenInv
  <1>3. PICK u, r : /\ u = lists[i][j]
                    /\ r = Row(i, j, 0, [key |-> unitNumber(u), value |-> u])
    OBVIOUS
  <1>4. /\ j \in 1 .. Len(lists[i]) /\ unitNumber(u) = UnitNumberOf(i, j)
        /\ u = Unit(toInt(input[i].unitsOffset), input[i].units[j])
    BY <1>1, <1>2, <1>3, WrittenUnits
  <1>5. r \in UnitRows(lists)
    BY <1>2, <1>3, <1>4, UnitRowsOfLists
  <1>6. r.i = i /\ r.j = j /\ r.k = 0 /\ r.key = UnitNumberOf(i, j) /\ r.value = u
    BY <1>3, <1>4, UnitRowParts
  <1>7. ASSUME NEW s \in UnitRows(lists), s.key = r.key PROVE s = r
    <2>1. PICK m \in DOMAIN lists : \E n \in 1 .. Len(lists[m]) :
             s = Row(m, n, 0, [key |-> unitNumber(lists[m][n]), value |-> lists[m][n]])
      BY UnitRowsOfLists
    <2>2. PICK n \in 1 .. Len(lists[m]) :
             s = Row(m, n, 0, [key |-> unitNumber(lists[m][n]), value |-> lists[m][n]])
      BY <2>1
    <2>3. s.key = unitNumber(lists[m][n])
      BY <2>2, UnitRowParts
    <2>4. /\ m \in 1 .. Len(input) /\ n \in 1 .. Len(input[m].units)
          /\ unitNumber(lists[m][n]) = UnitNumberOf(m, n)
      BY <1>1, <2>1, <2>2, WrittenUnits
    <2>5. m = i /\ n = j
      BY <1>6, <1>7, <2>3, <2>4 DEF OnlyUnit
    <2> QED
      BY <1>3, <2>2, <2>5
  <1>8. r.key \in DOMAIN QMap(UnitRows(lists)) /\ QMap(UnitRows(lists))[r.key] = r.value
    <2>1. i \in Int /\ j \in Int /\ 0 \in Int
      BY <1>4
    <2> QED
      BY <1>5, <1>6, <1>7, <2>1, LastOfItsKey
  <1> QED
    BY <1>1, <1>4, <1>6, <1>8 DEF m_unitMap

\* The value of an enumeration is shown by the name that the profile gives to it, if
\* no other unit has the number of the unit (profile.cpp:92-123, printer.cpp:38-50).
THEOREM ValuesAlwaysNamed == Spec => []EnumValuesNamed
  <1>1. GenInv => EnumValuesNamed
    <2> SUFFICES ASSUME GenInv, Generated, NEW i \in 1 .. Len(input),
                        NEW j \in 1 .. Len(input[i].units), input[i].units[j].format = "E",
                        OnlyUnit(i, j), NEW k \in 1 .. Len(input[i].units[j].values),
                        input[i].units[j].values[k].number.kind = "text",
                        \A l \in 1 .. Len(input[i].units[j].values) :
                            toInt(input[i].units[j].values[l].number)
                                = input[i].units[j].values[k].number.n => l <= k
                 PROVE  printValue("sendObject", UnitNumberOf(i, j),
                                   input[i].units[j].values[k].number.n)
                           = <<Word(input[i].units[j].values[k].name)>>
      BY DEF EnumValuesNamed
    <2> DEFINE u == input[i].units[j]
               number == u.values[k].number
    <2>1. PICK desc, unit, n : /\ desc = Unit(toInt(input[i].unitsOffset), u)
                               /\ unit = UnitNumberOf(i, j) /\ n = number.n
      OBVIOUS
    <2>2. unit \in DOMAIN m_unitMap /\ m_unitMap[unit] = desc
      BY <2>1, OwnDescription
    <2>3. desc.format = "E"
      BY <2>1, UnitParts
    <2>4. n = valueNumber(u.values[k])
      BY <2>1 DEF valueNumber, toInt
    <2>5. n \in DOMAIN desc.values /\ desc.values[n] = u.values[k].name
      <3>1. PICK offset, e : offset = toInt(input[i].unitsOffset) /\ e = u
        OBVIOUS
      <3>2. Len(e.values) \in Nat
        <4>1. PICK lists : lists = Written("units")
          OBVIOUS
        <4>2. i \in DOMAIN lists
          BY <4>1, WrittenUnits DEF GenInv
        <4>3. e \in UnitEntries
          BY <3>1, <4>1, <4>2, WrittenUnits
        <4> QED
          BY <4>3 DEF UnitEntries
      <3>3. k \in 1 .. Len(e.values) /\ n = valueNumber(e.values[k]) /\ e.format = "E"
        BY <2>4, <3>1
      <3>4. \A l \in 1 .. Len(e.values) :
               valueNumber(e.values[l]) = valueNumber(e.values[k]) => l <= k
        BY <2>1, <2>4, <3>1 DEF valueNumber
      <3> HIDE DEF u, number
      <3>5. /\ valueNumber(e.values[k]) \in DOMAIN Unit(offset, e).values
            /\ Unit(offset, e).values[valueNumber(e.values[k])] = e.values[k].name
        BY <3>2, <3>3, <3>4, UnitValues
      <3> QED
        BY <2>1, <3>1, <3>3, <3>5
    <2>6. printValueGeneric(desc, n) = <<Word(u.values[k].name)>>
      BY <2>3, <2>5 DEF printValueGeneric
    <2>7. printValue("sendObject", unit, n) = <<>> \o printValueGeneric(desc, n)
      <3>1. desc.format \notin {"", " "}
        BY <2>3
      <3> QED
        BY <2>2, <3>1, DescribedText
    <2>8. PICK w : w = Word(u.values[k].name)
      OBVIOUS
    <2>9. <<>> \o <<w>> = <<w>>
      <3>1. <<w>> \in Seq({w})
        OBVIOUS
      <3> QED
        BY <3>1, EmptyBefore
    <2> QED
      BY <2>1, <2>6, <2>7, <2>8, <2>9
  <1> QED
    BY <1>1, GenInvHolds, PTL

-----------------------------------------------------------------------------
(* Values                                                                    *)

\* The text of a duration, however long: its sign, the days if there are any,
\* hours below 24, and minutes and seconds below 60, which add up to it.
THEOREM DurationAddsUp ==
    ASSUME NEW secs \in Int
    PROVE  \E days \in Nat, hours \in 0 .. 23, minutes \in 0 .. 59, seconds \in 0 .. 59 :
             LET sum == ((days * 24 + hours) * 60 + minutes) * 60 + seconds
             IN  /\ secs = IF secs < 0 THEN -sum ELSE sum
                 /\ Duration(secs) =
                       (IF secs < 0 THEN <<Word("-")>> ELSE <<>>)
                       \o (IF days # 0 THEN <<Num(days), Word("d")>> ELSE <<>>)
                       \o <<Num(hours), Word(":"), Num(minutes), Word(":"), Num(seconds)>>
  <1>1. PICK s \in Nat : s = IF secs < 0 THEN -secs ELSE secs
    OBVIOUS
  <1>2. PICK days \in Int, hours \in Int, minutes \in Int, seconds \in Int :
            /\ days = s \div 86400 /\ hours = (s % 86400) \div 3600
            /\ minutes = (s % 3600) \div 60 /\ seconds = s % 60
    OBVIOUS
  <1>3. /\ days >= 0 /\ hours \in 0 .. 23 /\ minutes \in 0 .. 59 /\ seconds \in 0 .. 59
        /\ s = ((days * 24 + hours) * 60 + minutes) * 60 + seconds
    BY <1>2
  <1>4. days \in Nat
    BY <1>3
  <1>5. secs = IF secs < 0 THEN -s ELSE s
    BY <1>1
  <1>6. Duration(secs) =
          (IF secs < 0 THEN <<Word("-")>> ELSE <<>>)
          \o (IF days # 0 THEN <<Num(days), Word("d")>> ELSE <<>>)
          \o <<Num(hours), Word(":"), Num(minutes), Word(":"), Num(seconds)>>
    BY <1>1, <1>2 DEF Duration
  <1> QED
    BY <1>3, <1>4, <1>5, <1>6

\* The node shows a temperature as a whole and a fraction that add up to it and
\* never have different signs.  No other unit has the number: two labels of one
\* switch with one number do not compile.
THEOREM TemperatureAddsUp ==
    ASSUME NEW unit, NEW value \in Int,
           \A name \in SwitchUnits : IsUnit(unit, name) <=> name = "centiCelsius"
    PROVE  \E whole \in Int, fraction \in -99 .. 99 :
             /\ snprintValue(unit, value) =
                   <<Num(whole), Word("."), Num(fraction), Word("C")>>
             /\ whole * 100 + fraction = value
             /\ IF value >= 0 THEN whole >= 0 /\ fraction >= 0
                              ELSE whole <= 0 /\ fraction <= 0
  <1>1. PICK whole \in Int : whole = quot(value, 100)
    BY DEF quot
  <1>2. PICK fraction \in Int : fraction = value - whole * 100
    BY <1>1
  <1>3. snprintValue(unit, value) = <<Num(whole), Word("."), Num(fraction), Word("C")>>
    <2>1. /\ IsUnit(unit, "centiCelsius") /\ ~IsUnit(unit, "version") /\ ~IsUnit(unit, "hz")
          /\ ~IsUnit(unit, "durationSeconds") /\ ~IsUnit(unit, "nodeId")
      BY DEF SwitchUnits
    <2> QED
      BY <1>1, <1>2, <2>1 DEF snprintValue
  <1>4. /\ fraction \in -99 .. 99 /\ whole * 100 + fraction = value
        /\ IF value >= 0 THEN whole >= 0 /\ fraction >= 0
                         ELSE whole <= 0 /\ fraction <= 0
    <2>1. CASE value >= 0
      <3>1. whole = value \div 100
        BY <1>1, <2>1 DEF quot
      <3> QED
        BY <1>2, <2>1, <3>1
    <2>2. CASE value < 0
      <3>1. PICK n \in Nat, w \in Int : n = -value /\ w = n \div 100 /\ whole = -w
        BY <1>1, <2>2 DEF quot
      <3>2. n - w * 100 \in 0 .. 99 /\ w >= 0
        BY <3>1
      <3>3. fraction = -(n - w * 100)
        BY <1>2, <3>1
      <3> QED
        BY <2>2, <3>1, <3>2, <3>3
    <2> QED
      BY <2>1, <2>2
  <1> QED
    BY <1>3, <1>4

\* u is t behind s, with their lengths.
IsJoin(u, s, t, m, n) ==
    /\ u = s \o t /\ m = Len(s) /\ n = Len(t) /\ m \in Nat /\ n \in Nat /\ Len(u) = m + n
    /\ \A i \in 1 .. m : u[i] = s[i]
    /\ \A i \in 1 .. n : u[m + i] = t[i]

LEMMA Joined ==
    ASSUME NEW S, NEW s \in Seq(S), NEW t \in Seq(S)
    PROVE  s \o t \in Seq(S) /\ IsJoin(s \o t, s, t, Len(s), Len(t))
  <1>1. Len(s) \in Nat /\ Len(t) \in Nat /\ Len(s \o t) = Len(s) + Len(t)
    OBVIOUS
  <1>2. \A i \in 1 .. Len(s) : (s \o t)[i] = s[i]
    OBVIOUS
  <1>3. \A i \in 1 .. Len(t) : (s \o t)[Len(s) + i] = t[i]
    OBVIOUS
  <1>4. s \o t \in Seq(S)
    OBVIOUS
  <1> QED
    BY <1>1, <1>2, <1>3, <1>4, Zenon DEF IsJoin

\* The pieces of a text with a sign or none, days or none, and five pieces more.
HasPieces(text, n, pre, mid, post) ==
    /\ n \in Int /\ n >= 5 /\ (n >= 7 <=> Len(mid) = 2)
    /\ \A i \in 1 .. 5 : text[n - 5 + i] = post[i]
    /\ Len(mid) = 2 => text[n - 5] = mid[2] /\ text[n - 6] = mid[1]
    /\ Len(pre) = 1 => text[1] = pre[1]
    /\ Len(pre) = 0 => text[1] = IF Len(mid) = 2 THEN mid[1] ELSE post[1]

LEMMA PiecesOf ==
    ASSUME NEW S, NEW pre \in Seq(S), NEW mid \in Seq(S), NEW post \in Seq(S),
           Len(pre) = 0 \/ Len(pre) = 1, Len(mid) = 0 \/ Len(mid) = 2, Len(post) = 5,
           NEW text, text = pre \o mid \o post, NEW n, n = Len(text)
    PROVE  HasPieces(text, n, pre, mid, post)
  <1>1. PICK front : front = pre \o mid
    OBVIOUS
  <1>2. PICK a \in Nat, b \in Nat : a = Len(pre) /\ b = Len(mid)
    OBVIOUS
  <1>3. /\ front \in Seq(S) /\ Len(front) = a + b
        /\ \A i \in 1 .. a : front[i] = pre[i]
        /\ \A i \in 1 .. b : front[a + i] = mid[i]
    <2>1. front \in Seq(S) /\ IsJoin(front, pre, mid, a, b)
      BY <1>1, <1>2, Joined
    <2> QED
      BY <2>1, Zenon DEF IsJoin
  <1>4. /\ n = (a + b) + 5 /\ \A i \in 1 .. a + b : text[i] = front[i]
        /\ \A i \in 1 .. 5 : text[(a + b) + i] = post[i]
    <2>1. IsJoin(front \o post, front, post, Len(front), Len(post))
      BY <1>3, Joined
    <2>2. text = front \o post
      BY <1>1
    <2>3. IsJoin(text, front, post, a + b, 5)
      BY <1>3, <2>1, <2>2
    <2> QED
      BY <2>3, Zenon DEF IsJoin
  <1>5. /\ n \in Int /\ n >= 5 /\ (n >= 7 <=> b = 2)
    <2>1. (a = 0 \/ a = 1) /\ (b = 0 \/ b = 2) /\ n = (a + b) + 5
      BY <1>2, <1>4
    <2> QED
      BY <2>1
  <1>6. \A i \in 1 .. 5 : text[n - 5 + i] = post[i]
    <2>1. n - 5 = a + b
      BY <1>4
    <2> QED
      BY <1>4, <2>1
  <1>7. ASSUME b = 2 PROVE text[n - 5] = mid[2] /\ text[n - 6] = mid[1]
    <2>1. /\ n - 5 = a + 2 /\ n - 6 = a + 1 /\ a + 2 \in 1 .. a + b /\ a + 1 \in 1 .. a + b
          /\ 1 \in 1 .. b /\ 2 \in 1 .. b
      BY <1>4, <1>7
    <2>2. front[a + 2] = mid[2] /\ front[a + 1] = mid[1]
      BY <1>3, <2>1
    <2>3. text[a + 2] = front[a + 2] /\ text[a + 1] = front[a + 1]
      BY <1>4, <2>1
    <2> QED
      BY <2>1, <2>2, <2>3
  <1>8. ASSUME a = 1 PROVE text[1] = pre[1]
    <2>1. 1 \in 1 .. a /\ 1 \in 1 .. a + b
      BY <1>8
    <2> QED
      BY <1>3, <1>4, <2>1
  <1>9. ASSUME a = 0 PROVE text[1] = IF b = 2 THEN mid[1] ELSE post[1]
    <2>1. CASE b = 2
      <3>1. 1 \in 1 .. b /\ 1 \in 1 .. a + b /\ a + 1 = 1
        BY <1>9, <2>1
      <3>2. front[a + 1] = mid[1] /\ text[1] = front[1]
        BY <1>3, <1>4, <3>1
      <3> QED
        BY <2>1, <3>1, <3>2
    <2>2. CASE b = 0
      <3>1. (a + b) + 1 = 1 /\ 1 \in 1 .. 5
        BY <1>9, <2>2
      <3>2. text[(a + b) + 1] = post[1]
        BY <1>4, <3>1
      <3> QED
        BY <2>2, <3>1, <3>2
    <2> QED
      BY <1>2, <2>1, <2>2
  <1> QED
    BY <1>2, <1>5, <1>6, <1>7, <1>8, <1>9 DEF HasPieces

LEMMA Pieces ==
    /\ \A n : Num(n) # Word("-") /\ Num(n).number = n
    /\ Word("d") # Word("-")
  <1>1. \A n : Num(n) # Word("-") /\ Word("d") # Word("-")
    BY Zenon DEF Num, Word
  <1>2. \A n : Num(n).number = n
    BY DEF Num
  <1> QED
    BY <1>1, <1>2

\* The places of a text of five pieces and more, counted from its end.
LEMMA FromTheEnd ==
    ASSUME NEW text, NEW n \in Int, NEW post, \A i \in 1 .. 5 : text[n - 5 + i] = post[i]
    PROVE  /\ text[n - 4] = post[1] /\ text[n - 3] = post[2] /\ text[n - 2] = post[3]
           /\ text[n - 1] = post[4] /\ text[n] = post[5]
  <1>1. /\ n - 5 + 1 = n - 4 /\ n - 5 + 2 = n - 3 /\ n - 5 + 3 = n - 2
        /\ n - 5 + 4 = n - 1 /\ n - 5 + 5 = n
    OBVIOUS
  <1>2. /\ text[n - 5 + 1] = post[1] /\ text[n - 5 + 2] = post[2]
        /\ text[n - 5 + 3] = post[3] /\ text[n - 5 + 4] = post[4]
        /\ text[n - 5 + 5] = post[5]
    OBVIOUS
  <1> QED
    BY <1>1, <1>2

\* A text whose n pieces add up to a duration.
AddsUp(text, n, secs) ==
    LET days == IF n >= 7 /\ text[n - 5] = Word("d") THEN text[n - 6].number ELSE 0
        sum  == ((days * 24 + text[n - 4].number) * 60 + text[n - 2].number) * 60
                    + text[n].number
    IN  /\ n >= 5 /\ text[n - 1] = Word(":") /\ text[n - 3] = Word(":")
        /\ text[n - 4].number \in 0 .. 23 /\ text[n - 2].number \in 0 .. 59
        /\ text[n].number \in 0 .. 59
        /\ secs = IF text[1] = Word("-") THEN -sum ELSE sum

LEMMA DurationPieces ==
    ASSUME NEW secs \in Int, NEW text, text = Duration(secs), NEW n, n = Len(text)
    PROVE  <<>> \o text = text /\ AddsUp(text, n, secs)
  <1>1. PICK d \in Nat, hours \in 0 .. 23, minutes \in 0 .. 59, seconds \in 0 .. 59 :
           LET sum == ((d * 24 + hours) * 60 + minutes) * 60 + seconds
           IN  /\ secs = IF secs < 0 THEN -sum ELSE sum
               /\ Duration(secs) =
                     (IF secs < 0 THEN <<Word("-")>> ELSE <<>>)
                     \o (IF d # 0 THEN <<Num(d), Word("d")>> ELSE <<>>)
                     \o <<Num(hours), Word(":"), Num(minutes), Word(":"), Num(seconds)>>
    BY DurationAddsUp, Zenon
  <1>2. PICK minus, day, colon, nd, nh, nm, ns :
           /\ minus = Word("-") /\ day = Word("d") /\ colon = Word(":") /\ nd = Num(d)
           /\ nh = Num(hours) /\ nm = Num(minutes) /\ ns = Num(seconds)
    OBVIOUS
  <1>3. /\ nd # minus /\ nh # minus /\ day # minus /\ nd.number = d /\ nh.number = hours
        /\ nm.number = minutes /\ ns.number = seconds
    BY <1>2, Pieces
  <1>4. PICK S : S = {minus, day, colon, nd, nh, nm, ns}
    OBVIOUS
  <1>5. PICK pre, mid, post : /\ pre = IF secs < 0 THEN <<minus>> ELSE <<>>
                              /\ mid = IF d # 0 THEN <<nd, day>> ELSE <<>>
                              /\ post = <<nh, colon, nm, colon, ns>>
    OBVIOUS
  <1>6. text = pre \o mid \o post
    BY <1>1, <1>2, <1>5
  <1>7. /\ pre \in Seq(S) /\ mid \in Seq(S) /\ post \in Seq(S)
        /\ IF secs < 0 THEN Len(pre) = 1 /\ pre[1] = minus ELSE Len(pre) = 0
        /\ IF d # 0 THEN Len(mid) = 2 /\ mid[1] = nd /\ mid[2] = day ELSE Len(mid) = 0
        /\ Len(post) = 5 /\ post[1] = nh /\ post[2] = colon /\ post[3] = nm
        /\ post[4] = colon /\ post[5] = ns
    <2>1. /\ post \in Seq(S) /\ Len(post) = 5 /\ post[1] = nh /\ post[2] = colon
          /\ post[3] = nm /\ post[4] = colon /\ post[5] = ns
      BY <1>4, <1>5
    <2>2. /\ pre \in Seq(S)
          /\ IF secs < 0 THEN Len(pre) = 1 /\ pre[1] = minus ELSE Len(pre) = 0
      <3>1. CASE secs < 0
        BY <1>4, <1>5, <3>1
      <3>2. CASE ~(secs < 0)
        BY <1>4, <1>5, <3>2
      <3> QED
        BY <3>1, <3>2
    <2>3. /\ mid \in Seq(S)
          /\ IF d # 0 THEN Len(mid) = 2 /\ mid[1] = nd /\ mid[2] = day ELSE Len(mid) = 0
      <3>1. CASE d # 0
        BY <1>4, <1>5, <3>1
      <3>2. CASE ~(d # 0)
        BY <1>4, <1>5, <3>2
      <3> QED
        BY <3>1, <3>2
    <2> QED
      BY <2>1, <2>2, <2>3
  <1>8. /\ n \in Int /\ n >= 5 /\ (n >= 7 <=> Len(mid) = 2)
        /\ \A i \in 1 .. 5 : text[n - 5 + i] = post[i]
        /\ Len(mid) = 2 => text[n - 5] = mid[2] /\ text[n - 6] = mid[1]
        /\ Len(pre) = 1 => text[1] = pre[1]
        /\ Len(pre) = 0 => text[1] = IF Len(mid) = 2 THEN mid[1] ELSE post[1]
    <2>1. (Len(pre) = 0 \/ Len(pre) = 1) /\ (Len(mid) = 0 \/ Len(mid) = 2)
      BY <1>7
    <2>2. /\ pre \in Seq(S) /\ mid \in Seq(S) /\ post \in Seq(S) /\ Len(post) = 5
          /\ n = Len(text)
      BY <1>7
    <2>3. HasPieces(text, n, pre, mid, post)
      BY <1>6, <2>1, <2>2, PiecesOf, Zenon
    <2> QED
      BY <2>3 DEF HasPieces
  <1>9. /\ text[n - 4] = nh /\ text[n - 3] = colon /\ text[n - 2] = nm
        /\ text[n - 1] = colon /\ text[n] = ns
    BY <1>7, <1>8, FromTheEnd
  <1>10. (IF n >= 7 /\ text[n - 5] = day THEN text[n - 6].number ELSE 0) = d
    <2>1. CASE d # 0
      BY <1>3, <1>7, <1>8, <2>1
    <2>2. CASE d = 0
      <3>1. ~(n >= 7)
        BY <1>7, <1>8, <2>2
      <3> QED
        BY <2>2, <3>1
    <2> QED
      BY <2>1, <2>2
  <1>11. text[1] = minus <=> secs < 0
    <2>1. CASE secs < 0
      BY <1>7, <1>8, <2>1
    <2>2. CASE ~(secs < 0)
      <3>1. text[1] = nd \/ text[1] = nh
        BY <1>7, <1>8, <2>2
      <3> QED
        BY <1>3, <2>2, <3>1
    <2> QED
      BY <2>1, <2>2
  <1>12. <<>> \o text = text
    <2>1. pre \o mid \in Seq(S)
      BY <1>7, Joined
    <2>2. text \in Seq(S)
      BY <1>6, <1>7, <2>1, Joined
    <2> QED
      BY <2>2, EmptyBefore
  <1> QED
    BY <1>1, <1>2, <1>3, <1>8, <1>9, <1>10, <1>11, <1>12, ZenonT(40) DEF AddsUp

\* A name of the switch whose number is given has no other.
LEMMA OnlyThisUnit ==
    ASSUME Compiles, NEW u \in EUnit, u.name \in SwitchUnits
    PROVE  \A name \in SwitchUnits : IsUnit(u.value, name) <=> name = u.name
  <1>1. PICK n, v : n = u.name /\ v = u.value /\ u = [name |-> n, value |-> v]
    BY DEF EUnit
  <1>2. ASSUME NEW name \in SwitchUnits, IsUnit(v, name) PROVE name = n
    <2>1. PICK w : w = [name |-> name, value |-> v]
      OBVIOUS
    <2>2. w \in EUnit /\ w.name = name /\ w.value = v
      BY <1>2, <2>1 DEF IsUnit
    <2>3. u = w
      BY <1>1, <1>2, <2>2 DEF Compiles
    <2> QED
      BY <1>1, <2>2, <2>3
  <1>3. IsUnit(v, n)
    BY <1>1 DEF IsUnit
  <1> QED
    BY <1>1, <1>2, <1>3

\* The size of a number of 32 bits.  Its limit is looked at only where it matters.
Sizes == {n \in Nat : n <= 2147483647}

LEMMA NumbersOf32Bits ==
    /\ \A value \in Int32 : value \in Int /\ qAbs(value) \in Sizes
    /\ \A n \in Sizes : n \in Nat /\ n \div 100 <= 21474836
  BY SMT DEF Int32, Sizes, qAbs

\* A duration is shown without loss, however long it is (printer.cpp:74-102).
THEOREM DurationAlwaysExact == Spec => []DurationExact
  <1>1. DurationExact
    <2> SUFFICES ASSUME Compiles, NEW u \in EUnit, u.name = "durationSeconds",
                        PlainLayout(u.value), NEW secs \in Values
                 PROVE  LET text == printValue("sendObject", u.value, secs)
                        IN  text = <<Num(secs), Word("s")>> \/ AddsUp(text, Len(text), secs)
      BY DEF DurationExact, AddsUp
    <2>1. secs \in Int
      BY ValuesAssumption, NumbersOf32Bits
    <2>2. PICK text : text = printValue("sendObject", u.value, secs)
      OBVIOUS
    <2>3. /\ IsUnit(u.value, "durationSeconds") /\ ~IsUnit(u.value, "version")
          /\ ~IsUnit(u.value, "time") /\ ~IsUnit(u.value, "percentHumidity")
          /\ ~IsUnit(u.value, "_switch") /\ ~IsUnit(u.value, "logCode")
          /\ ~IsUnit(u.value, "milliVolt")
      <3>1. \A name \in SwitchUnits : IsUnit(u.value, name) <=> name = "durationSeconds"
        BY OnlyThisUnit DEF SwitchUnits
      <3> QED
        BY <3>1 DEF SwitchUnits
    <2>4. printBuiltIn(u.value, secs)
             = IF secs \in -99 .. 99 THEN <<Num(secs), Word("s")>> ELSE Duration(secs)
      BY <2>3 DEF printBuiltIn
    <2>5. text = <<>> \o printBuiltIn(u.value, secs)
      BY <2>2, PlainText
    <2>6. CASE secs \in -99 .. 99
      <3>1. PICK a, b : a = Num(secs) /\ b = Word("s")
        OBVIOUS
      <3>2. <<a, b>> \in Seq({a, b})
        OBVIOUS
      <3>3. <<>> \o <<a, b>> = <<a, b>>
        BY <3>2, EmptyBefore
      <3>4. text = <<Num(secs), Word("s")>>
        BY <2>4, <2>5, <2>6, <3>1, <3>3
      <3> QED
        BY <2>2, <3>4
    <2>7. CASE secs \notin -99 .. 99
      <3>1. PICK shown : shown = Duration(secs)
        OBVIOUS
      <3>2. text = <<>> \o shown
        BY <2>4, <2>5, <2>7, <3>1
      <3>3. <<>> \o shown = shown
        BY <2>1, <3>1, DurationPieces
      <3>4. text = Duration(secs)
        BY <3>1, <3>2, <3>3
      <3>5. AddsUp(text, Len(text), secs)
        BY <2>1, <3>4, DurationPieces
      <3> QED
        BY <2>2, <3>5
    <2> QED
      BY <2>6, <2>7
  <1> QED
    BY <1>1, PTL

-----------------------------------------------------------------------------
(* Logs                                                                      *)

\* The logs that are stored, in the order of the files.
LEMMA LogIsListed ==
    ASSUME NEW n \in Nat, NEW offset \in Int, NEW e \in Entries
    PROVE  Log(n, offset, e) \in Listed
  <1>1. e.name \in STRING /\ e.address \in Attributes /\ e.size \in Attributes
    BY DEF Entries
  <1>2. toInt(e.address) \in Int /\ toInt(e.size) \in Int
    BY <1>1, NumbersRead
  <1>3. PICK macro \in Int : macro = IF e.address.kind = "macro" THEN e.address.n ELSE 0
    <2>1. e.address.n \in Int
      BY <1>1 DEF Attributes
    <2> QED
      BY <2>1
  <1>4. NoPrefix \in PrefixNames
    BY Zenon DEF PrefixNames
  <1>5. Log(n, offset, e) = Object(n, offset, e, NoPrefix, macro)
    BY <1>3 DEF Log
  <1> QED
    BY <1>1, <1>2, <1>4, <1>5 DEF Object, Listed

LEMMA WrittenLogs ==
    ASSUME GenInv, NEW lists, lists = Written("logs")
    PROVE  /\ DOMAIN lists \subseteq Int
           /\ \A i \in DOMAIN lists : \A j \in 1 .. Len(lists[i]) : lists[i][j] \in Listed
  <1>1. DOMAIN lists = 1 .. Len(profiles) /\ DOMAIN lists \subseteq Int
    BY DEF Written
  <1>2. ASSUME NEW i \in DOMAIN lists, NEW j \in 1 .. Len(lists[i])
        PROVE  lists[i][j] \in Listed
    <2>1. PICK file \in InputProfiles : profiles[i] = Whole(i, file)
      BY <1>1, StoredProfiles
    <2>2. lists[i] = profiles[i]["logs"]
      BY <1>1 DEF Written
    <2>3. lists[i] = Whole(i, file).logs
      BY <2>1, <2>2
    <2>4. /\ j \in 1 .. Len(file.logs)
          /\ lists[i][j] = Log(i, toInt(file.objectsOffset), file.logs[j])
      BY <2>3, WholeLists
    <2>5. i \in Nat
      BY <1>1
    <2>6. toInt(file.objectsOffset) \in Int /\ file.logs[j] \in Entries
      BY <2>4, EntriesRead
    <2> QED
      BY <2>4, <2>5, <2>6, LogIsListed
  <1> QED
    BY <1>1, <1>2

\* The category of a code whose log is a multiple of 16.
LEMMA CategoryOf ==
    ASSUME NEW base \in Int, base % 16 = 0, NEW category \in 0 .. 4
    PROVE  Category(base + category)
              = <<"Info:", "Caution:", "Warning:", "Critical:", "Fatal:">>[category + 1]
  <1>1. (base + category) % 16 = category
    OBVIOUS
  <1>2. toCategory(base + category) = category
    BY <1>1 DEF toCategory
  <1>3. category <= 4
    OBVIOUS
  <1> QED
    BY <1>2, <1>3, Zenon DEF Category

\* The first piece of a text with another behind it, and the second.
LEMMA FirstPieces ==
    ASSUME NEW S, NEW a \in S, NEW rest \in Seq(S), Len(rest) >= 1
    PROVE  LET text == <<>> \o (<<a>> \o rest)
           IN  text[1] = a /\ text[2] = rest[1]
  <1>1. PICK one : one = <<a>>
    OBVIOUS
  <1>2. one \in Seq(S) /\ Len(one) = 1 /\ one[1] = a
    BY <1>1
  <1>3. PICK text : text = one \o rest
    OBVIOUS
  <1>4. text \in Seq(S) /\ IsJoin(text, one, rest, 1, Len(rest))
    BY <1>2, <1>3, Joined
  <1>5. text[1] = one[1] /\ text[1 + 1] = rest[1]
    BY <1>4 DEF IsJoin
  <1>6. <<>> \o text = text
    BY <1>4, EmptyBefore
  <1> QED
    BY <1>1, <1>2, <1>3, <1>5, <1>6

\* A log code is shown with its category, and by the name of the log if that is
\* the category 0 and no other log has the number (printer.cpp, message.hpp:146-149).
THEOREM LogsAlwaysShown == Spec => []LogsShown
  <1>1. GenInv => LogsShown
    <2> SUFFICES ASSUME GenInv, Compiles, NEW u \in EUnit, u.name = "logCode",
                        PlainLayout(u.value), NEW lists, lists = Written("logs"),
                        NEW i \in DOMAIN lists, NEW j \in 1 .. Len(lists[i]),
                        NEW category \in 0 .. 4, lists[i][j].macro = 0,
                        numericalValue(lists[i][j]) % 16 = 0
                 PROVE  LET text == printValue("sendObject", u.value,
                                               numericalValue(lists[i][j]) + category)
                        IN  /\ text[1] = Word(<<"Info:", "Caution:", "Warning:", "Critical:",
                                                "Fatal:">>[category + 1])
                            /\ Alone(lists, i, j) /\ category = 0 => text[2]
                                  = Name(Label(lists[i][j], numericalValue(lists[i][j])))
      BY DEF LogsShown
    <2>1. PICK log, base : log = lists[i][j] /\ base = numericalValue(log)
      OBVIOUS
    <2>2. log \in Listed /\ log.macro = 0 /\ base % 16 = 0
      BY <2>1, WrittenLogs
    <2>3. base \in Int
      BY <2>1, <2>2 DEF Listed, numericalValue
    <2>4. PICK value \in Int : value = base + category
      BY <2>3
    <2>5. PICK key : key = [macro |-> 0, n |-> value]
      OBVIOUS
    <2>6. PICK text : text = printValue("sendObject", u.value, value)
      OBVIOUS
    <2>7. PICK first : first = Word(Category(value))
      OBVIOUS
    <2>8. PICK rest : rest = IF key \in DOMAIN m_logMap THEN <<Name(m_logMap[key])>>
                             ELSE <<Word("UK:"), Num(value)>>
      OBVIOUS
    <2>9. /\ IsUnit(u.value, "logCode") /\ ~IsUnit(u.value, "version")
          /\ ~IsUnit(u.value, "time") /\ ~IsUnit(u.value, "percentHumidity")
          /\ ~IsUnit(u.value, "_switch") /\ ~IsUnit(u.value, "durationSeconds")
          /\ ~IsUnit(u.value, "milliVolt")
      <3>1. \A name \in SwitchUnits : IsUnit(u.value, name) <=> name = "logCode"
        BY OnlyThisUnit DEF SwitchUnits
      <3> QED
        BY <3>1 DEF SwitchUnits
    <2>10. printBuiltIn(u.value, value) = <<first>> \o rest
      BY <2>5, <2>7, <2>8, <2>9 DEF printBuiltIn, toLog
    <2>11. text = <<>> \o (<<first>> \o rest)
      BY <2>6, <2>10, PlainText
    <2>12. text[1] = first /\ text[2] = rest[1]
      <3>1. PICK x, y, z : x = Name(m_logMap[key]) /\ y = Word("UK:") /\ z = Num(value)
        OBVIOUS
      <3>2. PICK S : S = {first, x, y, z}
        OBVIOUS
      <3>3. first \in S /\ rest \in Seq(S) /\ Len(rest) >= 1
        <4>1. CASE key \in DOMAIN m_logMap
          BY <2>8, <3>1, <3>2, <4>1
        <4>2. CASE key \notin DOMAIN m_logMap
          BY <2>8, <3>1, <3>2, <4>2
        <4> QED
          BY <4>1, <4>2
      <3> QED
        BY <2>11, <3>3, FirstPieces
    <2>13. first = Word(<<"Info:", "Caution:", "Warning:", "Critical:", "Fatal:">>[category + 1])
      BY <2>2, <2>3, <2>4, <2>7, CategoryOf
    <2>14. ASSUME Alone(lists, i, j), category = 0
           PROVE  rest[1] = Name(Label(log, base))
      <3>1. value = base
        BY <2>3, <2>4, <2>14
      <3>2. base \in RowNumbers(log)
        BY <2>1, <2>2, <2>3, RowNumbersOf
      <3>3. key \in DOMAIN m_logMap /\ m_logMap[key] = Label(log, base)
        BY <2>1, <2>5, <2>14, <3>1, <3>2, WrittenLogs, OwnRow DEF m_logMap
      <3> QED
        BY <2>8, <3>3
    <2> QED
      BY <2>1, <2>4, <2>6, <2>12, <2>13, <2>14
  <1> QED
    BY <1>1, GenInvHolds, PTL

-----------------------------------------------------------------------------
(* The two printers                                                          *)

\* The printer has a description of every number the enumeration has.
LEMMA Described ==
    ASSUME GenInv, NEW u \in EUnit
    PROVE  u.value \in DOMAIN m_unitMap
  <1>1. PICK lists : lists = Written("units")
    OBVIOUS
  <1>2. PICK w \in InSome(lists) : u = [name |-> w.name, value |-> unitNumber(w)]
    BY <1>1 DEF EUnit
  <1>3. PICK i \in DOMAIN lists : w \in ToSet(lists[i])
    BY <1>2, Zenon DEF InSome
  <1>4. PICK list, S : list = lists[i] /\ list \in Seq(S)
    BY <1>1, <1>3, WrittenUnits
  <1>5. PICK j \in 1 .. Len(list) : w = list[j]
    BY <1>3, <1>4 DEF ToSet
  <1>6. PICK r : r = Row(i, j, 0, [key |-> unitNumber(lists[i][j]), value |-> lists[i][j]])
    OBVIOUS
  <1>7. r \in UnitRows(lists)
    BY <1>3, <1>4, <1>5, <1>6, UnitRowsOfLists
  <1>8. r.key = u.value
    BY <1>2, <1>4, <1>5, <1>6, UnitRowParts
  <1>9. r.key \in DOMAIN QMap(UnitRows(lists))
    BY <1>7 DEF QMap
  <1> QED
    BY <1>1, <1>8, <1>9 DEF m_unitMap

LEMMA SameVersion ==
    ASSUME NEW u \in EUnit, Compiles, u.name = "version", PlainLayout(u.value), NEW value
    PROVE  LET host == printValue("sendObject", u.value, value)
               node == snprintValue(u.value, value)
           IN  /\ targetUnitString(u.value) = "FW" /\ Len(host) = Len(node)
               /\ \A i \in 2 .. Len(node) : host[i] = node[i]
  <1>1. \A name \in SwitchUnits : IsUnit(u.value, name) <=> name = "version"
    BY OnlyThisUnit DEF SwitchUnits
  <1>2. /\ IsUnit(u.value, "version") /\ ~IsUnit(u.value, "durationSeconds")
        /\ ~IsUnit(u.value, "time") /\ ~IsUnit(u.value, "percentHumidity")
        /\ ~IsUnit(u.value, "_switch") /\ ~IsUnit(u.value, "logCode")
        /\ ~IsUnit(u.value, "milliVolt") /\ ~IsUnit(u.value, "centiCelsius")
        /\ ~IsUnit(u.value, "hz") /\ ~IsUnit(u.value, "nodeId")
    BY <1>1 DEF SwitchUnits
  <1>3. PICK a, b, c, d, e, f, g :
           /\ a = Word(IF Byte(value, 0) \div 2 % 2 = 1 THEN "BL v" ELSE "v")
           /\ b = Word("v") /\ c = Num(Byte(value, 3)) /\ d = Num(Byte(value, 2))
           /\ e = Num(Byte(value, 1)) /\ f = Num(Byte(value, 0) \div 4)
           /\ g = Word(IF value % 2 = 1 THEN "+" ELSE "")
    OBVIOUS
  <1>4. printBuiltIn(u.value, value) = <<a, c, d, e, f, g>>
    BY <1>2, <1>3, Zenon DEF printBuiltIn
  <1>5. snprintValue(u.value, value) = <<b, c, d, e, f, g>>
    BY <1>2, <1>3, Zenon DEF snprintValue
  <1>6. printValue("sendObject", u.value, value) = <<a, c, d, e, f, g>>
    <2>1. PICK s, S : s = <<a, c, d, e, f, g>> /\ S = {a, c, d, e, f, g}
      OBVIOUS
    <2>2. s \in Seq(S)
      BY <2>1
    <2>3. <<>> \o s = s
      BY <2>2, EmptyBefore
    <2> QED
      BY <1>4, <2>1, <2>3, PlainText
  <1>7. PICK host, node : host = <<a, c, d, e, f, g>> /\ node = <<b, c, d, e, f, g>>
    OBVIOUS
  <1>8. Len(host) = 6 /\ Len(node) = 6 /\ \A i \in 2 .. 6 : host[i] = node[i]
    BY <1>7
  <1>9. targetUnitString(u.value) = "FW"
    BY <1>2 DEF targetUnitString
  <1> QED
    BY <1>5, <1>6, <1>7, <1>8, <1>9

LEMMA SameTemperature ==
    ASSUME NEW u \in EUnit, Compiles, u.name = "centiCelsius", NEW value \in Int
    PROVE  LET node == snprintValue(u.value, value)
           IN  /\ targetUnitString(u.value) = "TEMP"
               /\ node[1].number * 100 + node[3].number = value
               /\ IsDecimal(node) <=> (value >= 0 \/ value % 100 = 0)
  <1>1. \A name \in SwitchUnits : IsUnit(u.value, name) <=> name = "centiCelsius"
    BY OnlyThisUnit DEF SwitchUnits
  <1>2. PICK whole \in Int, fraction \in -99 .. 99 :
           /\ snprintValue(u.value, value)
                 = <<Num(whole), Word("."), Num(fraction), Word("C")>>
           /\ whole * 100 + fraction = value
           /\ IF value >= 0 THEN whole >= 0 /\ fraction >= 0
                            ELSE whole <= 0 /\ fraction <= 0
    BY <1>1, TemperatureAddsUp
  <1>3. PICK a, b, c, d : a = Num(whole) /\ b = Word(".") /\ c = Num(fraction) /\ d = Word("C")
    OBVIOUS
  <1>4. PICK node : node = <<a, b, c, d>> /\ node = snprintValue(u.value, value)
    BY <1>2, <1>3
  <1>5. node[1] = a /\ node[3] = c
    BY <1>4
  <1>6. a.number = whole /\ c.number = fraction
    BY <1>3, Pieces
  <1>7. targetUnitString(u.value) = "TEMP"
    <2>1. IsUnit(u.value, "centiCelsius") /\ ~IsUnit(u.value, "version") /\ ~IsUnit(u.value, "hz")
      BY <1>1 DEF SwitchUnits
    <2> QED
      BY <2>1 DEF targetUnitString
  <1>8. fraction \in 0 .. 99 <=> (value >= 0 \/ value % 100 = 0)
    BY <1>2
  <1>9. IsDecimal(node) <=> fraction \in 0 .. 99
    BY <1>5, <1>6 DEF IsDecimal
  <1>10. IsDecimal(node) <=> (value >= 0 \/ value % 100 = 0)
    BY <1>8, <1>9
  <1>11. node[1].number * 100 + node[3].number = value
    BY <1>2, <1>5, <1>6
  <1> QED
    BY <1>4, <1>7, <1>10, <1>11

LEMMA PowersPositive == \A w \in PowersOfTen : w \in Nat /\ w >= 1
  BY SMT DEF PowersOfTen

\* For every number of 32 bits there are powers of ten that leave six digits of
\* its hundredth part before the point.
LEMMA UpFor ==
    ASSUME NEW n \in Sizes, NEW up, up = ScaleUp(n, 100)
    PROVE  /\ up \in PowersOfTen
           /\ n < 100000000 => up = 1
           /\ n >= 100000000 => HasSixDigits((n \div 100) \div up)
  <1>1. PICK whole \in Nat : whole = n \div 100 /\ whole <= 21474836 /\ n \in Nat
    BY NumbersOf32Bits, SMT
  <1>2. CASE whole < 1000000
    <2>1. up = 1
      BY <1>1, <1>2, SMT DEF ScaleUp
    <2>2. n < 100000000
      BY <1>1, <1>2, SMT
    <2>3. 1 \in PowersOfTen
      BY SMT DEF PowersOfTen
    <2> QED
      BY <1>1, <2>1, <2>2, <2>3, SMT
  <1>3. CASE whole >= 1000000
    <2>1. up = CHOOSE u \in PowersOfTen : HasSixDigits(whole \div u)
      BY <1>1, <1>3, SMT DEF ScaleUp
    <2>2. \E u \in PowersOfTen : HasSixDigits(whole \div u)
      <3>1. CASE whole < 10000000
        <4>1. HasSixDigits(whole \div 10) /\ 10 \in PowersOfTen
          BY <1>3, <3>1, SMT DEF PowersOfTen, HasSixDigits
        <4> QED
          BY <4>1, SMT
      <3>2. CASE whole >= 10000000
        <4>1. HasSixDigits(whole \div 100) /\ 100 \in PowersOfTen
          BY <1>1, <3>2, SMT DEF PowersOfTen, HasSixDigits
        <4> QED
          BY <4>1, SMT
      <3> QED
        BY <3>1, <3>2, SMT
    <2>3. up \in PowersOfTen /\ HasSixDigits(whole \div up)
      BY <2>1, <2>2, SMT
    <2>4. n >= 100000000
      BY <1>1, <1>3, SMT
    <2> QED
      BY <1>1, <2>3, <2>4, SMT
  <1> QED
    BY <1>2, <1>3, SMT

LEMMA DownFor ==
    ASSUME NEW n \in Nat, NEW down, down = ScaleDown(n, 100)
    PROVE  /\ down \in PowersOfTen
           /\ n >= 10000000 => down = 1
           /\ 0 < n /\ n < 10000000 => HasSixDigits((n * down) \div 100)
  <1>1. CASE n = 0 \/ n >= 10000000
    <2>1. n = 0 \/ n \div 100 >= 100000
      BY <1>1, SMT
    <2>2. down = 1
      BY <2>1, SMT DEF ScaleDown
    <2> QED
      BY <1>1, <2>2, SMT DEF PowersOfTen
  <1>2. CASE 0 < n /\ n < 10000000
    <2>1. n # 0 /\ ~(n \div 100 >= 100000)
      BY <1>2, SMT
    <2>2. down = CHOOSE w \in PowersOfTen : HasSixDigits((n * w) \div 100)
      BY <2>1, SMT DEF ScaleDown
    <2> DEFINE Fits(w) == w \in PowersOfTen /\ HasSixDigits((n * w) \div 100)
    <2>3. \E w : Fits(w)
      <3>1. n < 10 => Fits(10000000)
        BY <1>2, SMT DEF PowersOfTen, HasSixDigits
      <3>2. n >= 10 /\ n < 100 => Fits(1000000)
        BY SMT DEF PowersOfTen, HasSixDigits
      <3>3. n >= 100 /\ n < 1000 => Fits(100000)
        BY SMT DEF PowersOfTen, HasSixDigits
      <3>4. n >= 1000 /\ n < 10000 => Fits(10000)
        BY SMT DEF PowersOfTen, HasSixDigits
      <3>5. n >= 10000 /\ n < 100000 => Fits(1000)
        BY SMT DEF PowersOfTen, HasSixDigits
      <3>6. n >= 100000 /\ n < 1000000 => Fits(100)
        BY SMT DEF PowersOfTen, HasSixDigits
      <3>7. n >= 1000000 => Fits(10)
        BY <1>2, SMT DEF PowersOfTen, HasSixDigits
      <3>8. \/ n < 10
            \/ n >= 10 /\ n < 100
            \/ n >= 100 /\ n < 1000
            \/ n >= 1000 /\ n < 10000
            \/ n >= 10000 /\ n < 100000
            \/ n >= 100000 /\ n < 1000000
            \/ n >= 1000000
        BY SMT
      <3> QED
        BY <3>1, <3>2, <3>3, <3>4, <3>5, <3>6, <3>7, <3>8, SMT
    <2>4. \E w \in PowersOfTen : HasSixDigits((n * w) \div 100)
      BY <2>3, SMT
    <2>5. down \in PowersOfTen /\ HasSixDigits((n * down) \div 100)
      BY <2>2, <2>4, SMT
    <2> QED
      BY <1>2, <2>5, SMT
  <1> QED
    BY <1>1, <1>2, SMT

\* One of two neighbours is near enough.
LEMMA NearestIs ==
    ASSUME NEW a \in Nat, NEW b \in Nat, b >= 1
    PROVE  \E low \in Nat, rest \in Nat, err \in Nat :
              /\ low = a \div b /\ a = b * low + rest /\ rest < b
              /\ err = a \div 2097152
              /\ \/ Nearest(a, b) = low
                 \/ Nearest(a, b) = low + 1 /\ 2 * (b - rest) <= b + err
  <1>1. PICK low \in Nat, rest \in Nat, err \in Nat :
           /\ low = a \div b /\ rest = a % b /\ err = a \div 2097152
           /\ rest < b /\ a = b * low + rest
    BY SMT
  <1> DEFINE Near(m) == 2 * (IF m = low THEN rest ELSE b - rest) <= b + err
  <1>2. Nearest(a, b) = CHOOSE m \in {low, low + 1} : Near(m)
    BY <1>1, SMT DEF Nearest
  <1>3. Near(low) \/ Near(low + 1)
    BY <1>1, SMT
  <1>4. \E m \in {low, low + 1} : Near(m)
    BY <1>3
  <1>5. PICK m \in {low, low + 1} : m = Nearest(a, b) /\ Near(m)
    <2> HIDE DEF Near
    <2> QED
      BY <1>2, <1>4
  <1>6. m = low + 1 => 2 * (b - rest) <= b + err
    BY <1>1, <1>5, SMT
  <1> QED
    BY <1>1, <1>5, <1>6, SMT

\* A power of ten beyond ten is a number of hundreds.
LEMMA Hundreds ==
    ASSUME NEW w \in PowersOfTen, w # 1, w # 10
    PROVE  \E k \in Nat : w = 100 * k
  BY SMT DEF PowersOfTen

\* Of a number below 10000 degrees nothing is lost.
LEMMA NothingLost ==
    ASSUME NEW n \in Nat, n < 1000000, NEW down \in PowersOfTen,
           n = 0 \/ HasSixDigits((n * down) \div 100)
    PROVE  Nearest(n * down, 100) * 100 = n * down
  <1>1. PICK a \in Nat : a = n * down
    BY PowersPositive, SMT
  <1>2. a % 100 = 0 /\ a < 100000000
    <2>1. CASE n = 0
      <3>1. a = 0
        BY <1>1, <2>1, PowersPositive, SMT
      <3> QED
        BY <3>1, SMT
    <2>2. CASE n # 0
      <3>1. 100000 <= a \div 100 /\ a \div 100 < 1000000
        BY <1>1, <2>2, SMT DEF HasSixDigits
      <3>2. a >= 10000000 /\ a < 100000000
        BY <3>1, SMT
      <3>3. down # 1
        BY <1>1, <3>2, SMT
      <3>4. down # 10
        BY <1>1, <3>2, SMT
      <3>5. PICK k \in Nat : down = 100 * k
        BY <3>3, <3>4, Hundreds, SMT
      <3>6. PICK m \in Nat : m = n * k
        BY SMT
      <3>7. a = 100 * m
        BY <1>1, <3>5, <3>6, SMT
      <3>8. a % 100 = 0
        BY <3>7, SMT
      <3> QED
        BY <3>2, <3>8
    <2> QED
      BY <2>1, <2>2
  <1>3. PICK low \in Nat, rest \in Nat, err \in Nat :
           /\ a = 100 * low + rest /\ rest < 100 /\ err = a \div 2097152
           /\ \/ Nearest(a, 100) = low
              \/ Nearest(a, 100) = low + 1 /\ 2 * (100 - rest) <= 100 + err
    BY NearestIs, SMT
  <1>4. rest = 0 /\ err < 100
    BY <1>2, <1>3, SMT
  <1>5. Nearest(a, 100) = low /\ a = 100 * low
    BY <1>3, <1>4, SMT
  <1> QED
    BY <1>1, <1>5, SMT

\* Of a greater one there is something before the point.
LEMMA SomethingLeft ==
    ASSUME NEW n \in Nat, n >= 1000000, NEW up \in PowersOfTen, NEW down \in PowersOfTen,
           n < 100000000 => up = 1,
           n >= 100000000 => HasSixDigits((n \div 100) \div up),
           n >= 10000000 => down = 1,
           n < 10000000 => HasSixDigits((n * down) \div 100)
    PROVE  (n * down) \div (100 * up) >= 1
  <1>1. CASE n < 10000000
    <2>1. up = 1
      BY <1>1, SMT
    <2>2. (n * down) \div 100 >= 1
      <3>1. PICK m : m = (n * down) \div 100
        OBVIOUS
      <3>2. m \in Int
        BY <3>1, PowersPositive, SMT
      <3>3. HasSixDigits(m)
        BY <1>1, <3>1
      <3> QED
        BY <3>1, <3>2, <3>3, SMT DEF HasSixDigits
    <2>3. 100 * up = 100
      BY <2>1, SMT
    <2> QED
      BY <2>2, <2>3
  <1>2. CASE n >= 10000000 /\ n < 100000000
    <2>1. n * down = n /\ 100 * up = 100
      BY <1>2, SMT
    <2> QED
      BY <1>2, <2>1, SMT
  <1>3. CASE n >= 100000000
    <2>1. n * down = n
      BY <1>3, SMT
    <2>2. PICK whole \in Nat, b \in Nat : whole = n \div 100 /\ b = 100 * up /\ up \in Nat /\ up >= 1
      BY PowersPositive, SMT
    <2>3. whole \div up >= 1
      BY <1>3, <2>2, SMT DEF HasSixDigits
    <2>4. whole >= up
      BY <2>2, <2>3, SMT
    <2>5. n >= b /\ b >= 1
      BY <2>2, <2>4, SMT
    <2>6. n \div b >= 1
      BY <2>2, <2>5, SMT
    <2> QED
      BY <2>1, <2>2, <2>6
  <1> QED
    BY <1>1, <1>2, <1>3, SMT

\* Of a number below 10000 degrees nothing is lost; of a greater one the digits are
\* what is before the point, or one more.
LEMMA SixDigitsSame ==
    ASSUME NEW n \in Sizes
    PROVE  \E digits \in Nat, up \in PowersOfTen, down \in PowersOfTen :
             /\ SixDigits(n, 100) = [digits |-> digits, up |-> up, down |-> down]
             /\ n < 1000000 => up = 1 /\ digits * 100 = n * down
             /\ n >= 1000000 => /\ digits > 0
                                /\ digits - (n * down) \div (100 * up) \in {0, 1}
  <1>1. n \in Nat
    BY NumbersOf32Bits
  <1>2. PICK up : up = ScaleUp(n, 100)
    OBVIOUS
  <1>3. PICK down : down = ScaleDown(n, 100)
    OBVIOUS
  <1>4. PICK digits : digits = Nearest(n * down, 100 * up)
    OBVIOUS
  <1>5. SixDigits(n, 100) = [digits |-> digits, up |-> up, down |-> down]
    BY <1>2, <1>3, <1>4, Zenon DEF SixDigits
  <1>6. /\ up \in PowersOfTen
        /\ n < 100000000 => up = 1
        /\ n >= 100000000 => HasSixDigits((n \div 100) \div up)
    BY <1>2, UpFor, SMT
  <1>7. /\ down \in PowersOfTen
        /\ n >= 10000000 => down = 1
        /\ 0 < n /\ n < 10000000 => HasSixDigits((n * down) \div 100)
    BY <1>1, <1>3, DownFor, SMT
  <1>8. PICK a \in Nat, b \in Nat : a = n * down /\ b = 100 * up /\ b >= 1
    BY <1>1, <1>6, <1>7, PowersPositive, SMT
  <1>9. PICK low \in Nat : low = a \div b /\ digits \in {low, low + 1}
    BY <1>4, <1>8, NearestIs, SMT
  <1>10. ASSUME n < 1000000 PROVE up = 1 /\ digits * 100 = n * down
    <2>1. up = 1 /\ (n = 0 \/ HasSixDigits((n * down) \div 100))
      BY <1>1, <1>6, <1>7, <1>10, SMT
    <2>2. 100 * up = 100
      BY <2>1, SMT
    <2> QED
      BY <1>1, <1>4, <1>7, <1>10, <2>1, <2>2, NothingLost, SMT
  <1>11. ASSUME n >= 1000000 PROVE low >= 1
    <2>1. n < 10000000 => HasSixDigits((n * down) \div 100)
      BY <1>1, <1>7, <1>11, SMT
    <2>2. (n * down) \div (100 * up) >= 1
      BY <1>1, <1>6, <1>7, <1>11, <2>1, SomethingLeft, SMT
    <2> QED
      BY <1>8, <1>9, <2>2
  <1>12. n >= 1000000 => digits > 0 /\ digits - (n * down) \div (100 * up) \in {0, 1}
    <2>1. digits - low \in {0, 1} /\ (low >= 1 => digits > 0)
      BY <1>9, SMT
    <2> QED
      BY <1>8, <1>9, <1>11, <2>1, SMT
  <1>13. digits \in Nat
    BY <1>9, SMT
  <1> QED
    BY <1>5, <1>6, <1>7, <1>10, <1>12, <1>13, SMT

LEMMA DecimalIs ==
    ASSUME NEW value \in Int32
    PROVE  SameNumber(Decimal(value, 100), value)
  <1>1. value \in Int
    BY NumbersOf32Bits
  <1>2. PICK n \in Sizes : n = qAbs(value)
    BY NumbersOf32Bits
  <1>3. /\ n \in Nat /\ (value >= 0 => value = n) /\ (value < 0 => value = -n)
        /\ qAbs(100) = 100
    BY <1>1, <1>2, NumbersOf32Bits, SMT DEF qAbs
  <1>4. PICK digits \in Nat, up \in PowersOfTen, down \in PowersOfTen :
             /\ SixDigits(n, 100) = [digits |-> digits, up |-> up, down |-> down]
             /\ n < 1000000 => up = 1 /\ digits * 100 = n * down
             /\ n >= 1000000 => /\ digits > 0
                                /\ digits - (n * down) \div (100 * up) \in {0, 1}
    BY SixDigitsSame, SMT
  <1>5. PICK signed \in Int : /\ signed = IF value < 0 THEN -digits ELSE digits
                              /\ qAbs(signed) = digits
    BY SMT DEF qAbs
  <1>6. PICK a, b, c, d : a = Word("decimal") /\ b = Num(signed) /\ c = Num(up) /\ d = Num(down)
    BY SMT
  <1>7. Decimal(value, 100) = <<a, b, c, d>>
    <2>1. PICK s : /\ s = SixDigits(qAbs(value), qAbs(100))
                   /\ s.digits = digits /\ s.up = up /\ s.down = down
      BY <1>2, <1>3, <1>4, SMT
    <2>2. (IF value < 0 <=> 100 < 0 THEN s.digits ELSE -s.digits) = signed
      BY <1>1, <1>5, <2>1, SMT
    <2> QED
      BY <1>6, <2>1, <2>2, SMT DEF Decimal
  <1>8. PICK host : host = <<a, b, c, d>> /\ host = Decimal(value, 100)
    BY <1>7, SMT
  <1>9. host[2] = b /\ host[3] = c /\ host[4] = d
    BY <1>8, SMT
  <1>10. b.number = signed /\ c.number = up /\ d.number = down
    BY <1>6, Pieces, SMT
  <1>11. host[2].number = signed /\ host[3].number = up /\ host[4].number = down
    BY <1>9, <1>10, SMT
  <1>12. down \in Nat
    BY PowersPositive
  <1>13. n < 1000000 => up = 1 /\ signed * 100 = value * down
    <2>1. CASE value >= 0
      BY <1>1, <1>3, <1>4, <1>5, <2>1, SMT
    <2>2. CASE value < 0
      <3>1. PICK p \in Nat : p = n * down
        BY <1>3, <1>12, SMT
      <3>2. value * down = -p
        BY <1>3, <1>12, <2>2, <3>1, SMT
      <3> QED
        BY <1>4, <1>5, <2>2, <3>1, <3>2, SMT
    <2> QED
      BY <1>1, <2>1, <2>2, SMT
  <1>14. n >= 1000000 => /\ signed < 0 <=> value < 0
                         /\ qAbs(signed) - (n * down) \div (100 * up) \in {0, 1}
    BY <1>4, <1>5, SMT
  <1>15. SameNumber(host, value)
    BY <1>2, <1>3, <1>11, <1>13, <1>14, SMT DEF SameNumber
  <1> QED
    BY <1>8, <1>15

LEMMA DecimalText ==
    ASSUME NEW desc, desc.format # "E", desc.format # "x", desc.format # "d",
           desc.divider = 100, NEW value
    PROVE  <<>> \o printValueGeneric(desc, value) = Decimal(value, 100)
  <1>1. PICK a, b, c, d, text : text = <<a, b, c, d>> /\ text = Decimal(value, 100)
    <2>1. PICK s, n : /\ s = SixDigits(qAbs(value), qAbs(100))
                      /\ n = IF value < 0 <=> 100 < 0 THEN s.digits ELSE -s.digits
      OBVIOUS
    <2>2. Decimal(value, 100) = <<Word("decimal"), Num(n), Num(s.up), Num(s.down)>>
      BY <2>1, Zenon DEF Decimal
    <2> QED
      BY <2>2
  <1>2. printValueGeneric(desc, value) = text
    BY <1>1 DEF printValueGeneric
  <1>3. PICK S : S = {a, b, c, d}
    OBVIOUS
  <1>4. text \in Seq(S)
    BY <1>1, <1>3
  <1>5. <<>> \o text = text
    BY <1>4, EmptyBefore
  <1> QED
    BY <1>1, <1>2, <1>5

LEMMA DividedText ==
    ASSUME NEW unit \in DOMAIN m_unitMap, NEW value, m_unitMap[unit].divider # 1
    PROVE  printValue("sendObject", unit, value)
              = <<>> \o printValueGeneric(m_unitMap[unit], value)
  BY DEF printValue

LEMMA HostTemperature ==
    ASSUME NEW unit \in DOMAIN m_unitMap, m_unitMap[unit].format # "E",
           m_unitMap[unit].format # "x", m_unitMap[unit].format # "d",
           m_unitMap[unit].divider = 100, NEW value
    PROVE  printValue("sendObject", unit, value) = Decimal(value, 100)
  <1>1. m_unitMap[unit].divider # 1
    OBVIOUS
  <1>2. printValue("sendObject", unit, value)
           = <<>> \o printValueGeneric(m_unitMap[unit], value)
    BY <1>1, DividedText
  <1> QED
    BY <1>2, DecimalText

LEMMA SameDuration ==
    ASSUME NEW u \in EUnit, Compiles, u.name = "durationSeconds", PlainLayout(u.value),
           NEW value \in -99 .. 99
    PROVE  printValue("sendObject", u.value, value) = snprintValue(u.value, value)
  <1>1. \A name \in SwitchUnits : IsUnit(u.value, name) <=> name = "durationSeconds"
    BY OnlyThisUnit DEF SwitchUnits
  <1>2. /\ IsUnit(u.value, "durationSeconds") /\ ~IsUnit(u.value, "version")
        /\ ~IsUnit(u.value, "time") /\ ~IsUnit(u.value, "percentHumidity")
        /\ ~IsUnit(u.value, "_switch") /\ ~IsUnit(u.value, "logCode")
        /\ ~IsUnit(u.value, "milliVolt") /\ ~IsUnit(u.value, "centiCelsius")
        /\ ~IsUnit(u.value, "hz") /\ ~IsUnit(u.value, "nodeId")
    BY <1>1 DEF SwitchUnits
  <1>3. PICK a, b : a = Num(value) /\ b = Word("s")
    OBVIOUS
  <1>4. printBuiltIn(u.value, value) = <<a, b>>
    BY <1>2, <1>3 DEF printBuiltIn
  <1>5. snprintValue(u.value, value) = <<a, b>>
    BY <1>2, <1>3 DEF snprintValue
  <1>6. <<a, b>> \in Seq({a, b})
    OBVIOUS
  <1>7. <<>> \o <<a, b>> = <<a, b>>
    BY <1>6, EmptyBefore
  <1> QED
    BY <1>4, <1>5, <1>7, PlainText

\* The host and the node show one version and one short duration alike, and one
\* temperature where the node's text is a number, which it is from zero on and for
\* whole degrees: to six digits, and below 10000 degrees without loss; whatever the
\* files and the values (printer_biwak.hpp:46-85, printer.cpp:204-216).
THEOREM PrintersAlwaysAgree == Spec => []PrintersAgree
  <1>1. GenInv => PrintersAgree
    <2> SUFFICES ASSUME GenInv, Compiles, NEW u \in EUnit, NEW value \in Values
                 PROVE  LET host == printValue("sendObject", u.value, value)
                            node == snprintValue(u.value, value)
                            desc == m_unitMap[u.value]
                        IN  /\ u.name = "version" /\ PlainLayout(u.value) =>
                                   /\ targetUnitString(u.value) = "FW"
                                   /\ Len(host) = Len(node)
                                   /\ \A i \in 2 .. Len(node) : host[i] = node[i]
                            /\ u.name = "centiCelsius" =>
                                   /\ targetUnitString(u.value) = "TEMP"
                                   /\ IsDecimal(node) <=> (value >= 0 \/ value % 100 = 0)
                                   /\ desc.format \in {"", " "} /\ desc.divider = 100
                                         /\ IsDecimal(node) =>
                                      SameNumber(host, node[1].number * 100 + node[3].number)
                            /\ u.name = "durationSeconds" /\ PlainLayout(u.value)
                                  /\ value \in -99 .. 99 => host = node
      BY Zenon DEF PrintersAgree
    <2>1. value \in Int32 /\ value \in Int
      BY ValuesAssumption, NumbersOf32Bits
    <2>2. PICK host, node, desc : /\ host = printValue("sendObject", u.value, value)
                                  /\ node = snprintValue(u.value, value)
                                  /\ desc = m_unitMap[u.value]
      OBVIOUS
    <2>3. ASSUME u.name = "version", PlainLayout(u.value)
          PROVE  /\ targetUnitString(u.value) = "FW" /\ Len(host) = Len(node)
                 /\ \A i \in 2 .. Len(node) : host[i] = node[i]
      BY <2>2, <2>3, SameVersion, Zenon
    <2>4. ASSUME u.name = "centiCelsius"
          PROVE  /\ targetUnitString(u.value) = "TEMP"
                 /\ node[1].number * 100 + node[3].number = value
                 /\ IsDecimal(node) <=> (value >= 0 \/ value % 100 = 0)
      BY <2>1, <2>2, <2>4, SameTemperature, Zenon
    <2>5. ASSUME u.name = "centiCelsius", desc.format \in {"", " "}, desc.divider = 100
          PROVE  SameNumber(host, node[1].number * 100 + node[3].number)
      <3>1. desc.format # "E" /\ desc.format # "x" /\ desc.format # "d"
        BY <2>5, Zenon
      <3>2. u.value \in DOMAIN m_unitMap
        BY Described, Zenon
      <3>3. host = Decimal(value, 100)
        BY <2>2, <2>5, <3>1, <3>2, HostTemperature, Zenon
      <3>4. SameNumber(host, value)
        BY <2>1, <3>3, DecimalIs, Zenon
      <3> QED
        BY <2>4, <2>5, <3>4, Zenon
    <2>6. ASSUME u.name = "durationSeconds", PlainLayout(u.value), value \in -99 .. 99
          PROVE  host = node
      BY <2>2, <2>6, SameDuration, Zenon
    <2> QED
      BY <2>2, <2>3, <2>4, <2>5, <2>6, Zenon
  <1> QED
    BY <1>1, GenInvHolds, PTL
=============================================================================
