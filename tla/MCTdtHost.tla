------------------------------ MODULE MCTdtHost -----------------------------
EXTENDS TdtTarget, TdtMessage, TdtDb, TLC

Entry(name, address, size) == [name |-> name, address |-> address, size |-> size]
UnitEntry(name, address, divider, format, values) ==
    [name |-> name, address |-> address, divider |-> divider, format |-> format,
     values |-> values]
Value(name, number) == [name |-> name, number |-> number]

Profile(name, offset, objects, units, commands, logs) ==
    [name |-> name, objectsOffset |-> offset, unitsOffset |-> offset,
     objects |-> objects, units |-> units, commands |-> commands, logs |-> logs]

\* Single objects, arrays, two names for one number, a number beside an array.
ObjectLists ==
    {<<>>,
     <<Entry("switch", Text(0), Text(6)), Entry("switch main", Text(2), Missing)>>,
     <<Entry("sensor", Text(4), Text(2)), Entry("sensor old", Text(4), Missing)>>,
     <<Entry("uid", Bare(5), Bare(4)), Entry("date", Text(4), Missing),
       Entry("relay", Text(8), Text(9))>>}

RoomValues == <<Value("Floor", Text(4)), Value("Kitchen", Text(3)), Value("Living", Text(2))>>
UnitLists ==
    {<<UnitEntry("none", Text(0), Missing, "", <<>>),
       UnitEntry("durationSeconds", Text(1), Missing, "", <<>>),
       UnitEntry("logCode", Text(5), Missing, "", <<>>),
       UnitEntry("version", Text(6), Missing, "", <<>>),
       UnitEntry("room", Text(2), Missing, "E", RoomValues)>>,
     <<UnitEntry("capacity", Text(3), Text(1024), "d", <<>>),
       UnitEntry("centiCelsius", Text(0), Text(100), "", <<>>)>>}

LogLists ==
    {<<>>, <<Entry("no EEPROM", Text(576), Missing), Entry("other", Macro(1), Missing)>>,
     <<Entry("odd", Broken, Missing)>>, <<Entry("bare", Bare(3), Missing)>>}

Commands == <<Entry("reset", Text(1), Missing), Entry("restart", Text(1), Missing)>>

Profiles(offsets) ==
    {Profile(name, Text(offset), objects, units, Commands, logs) :
        name \in {"Power", "Node"}, offset \in offsets, objects \in ObjectLists,
        units \in UnitLists, logs \in LogLists}

MCInputs ==
    {<<>>, <<Unreadable>>} \cup {<<p>> : p \in Profiles({0, 16})}
    \cup {<<p, q>> : p \in {r \in Profiles({16}) : r.name = "Power" /\ r.logs = <<>>},
                    q \in {r \in Profiles({16, 18, 32}) : r.name = "Node"}}

MCValues == {-86461, -150, -100, -99, 16909063, 0, 3, 4, 7, 99, 100, 3600, 86399, 86400, 2147483647}

-----------------------------------------------------------------------------
\* The smallest and the greatest id, and codes with the outer and inner bits.
MCNodeIds == {{0, 5}, 0 .. 6}
MCPositions == {-200, 256}
MCFunctionCodes == {{0, 3}, {1, 2}}
MCPayloads == {4 :> 0 @@ 5 :> 0 @@ 6 :> 0 @@ 7 :> 0, 4 :> 1 @@ 5 :> 2 @@ 6 :> 3 @@ 7 :> 255}

Sub(object, name) == Element("sub", object, name, <<>>)
Node(id, name, subs) == Element("node", id, name, subs)
Tdt(nodes) == Element("tdt", {}, "", nodes)

\* Nodes with objects in common, an object and a node named twice, numbers of
\* 16 bits, foreign elements, and comments before, in and behind them.
MCFiles ==
    {NoFile, Element("html", {}, "", <<>>), Tdt(<<>>),
     Tdt(<<Node({0}, "a", <<Sub({8}, "b"), Sub({}, "c"), Sub(0 .. 15, "d")>>),
           Node({1}, "e", <<Sub({8}, "f"), Sub({0}, "g"), Sub({0}, "h")>>)>>),
     Tdt(<<Node({0}, "a", <<Sub({0, 2}, "b"), Comment, Sub({1, 2}, "c")>>), Element("unit", {0}, "d", <<>>),
           Comment, Node({1}, "e", <<Sub({1, 2}, "f")>>)>>),
     Tdt(<<Node({}, "a", <<Sub({9}, "b")>>), Node({1}, "c", <<Element("x", {0}, "d", <<>>), Sub({0, 1, 2}, "e")>>),
           Node({}, "f", <<Sub({0, 1, 2}, "g")>>)>>)}

-----------------------------------------------------------------------------
(* The generator, the messages and the names share nothing: each is explored *)
(* while the others rest.                                                    *)

Resting == [id |-> Bits, len |-> 5, data |-> [i \in 0 .. 7 |-> 0]]

Rest(kind) ==
    /\ kind = "generator" => file = NoFile /\ sent = Resting
    /\ kind = "messages"  => file = NoFile /\ input = <<>>
    /\ kind = "names"     => input = <<>> /\ sent = Resting

HostInit ==
    /\ Init /\ MsgInit /\ DbInit
    /\ \E kind \in {"generator", "messages", "names"} : Rest(kind)

HostNext ==
    \/ Rest("generator") /\ dbPhase = "start" /\ meant = Nothing /\ Next
       /\ UNCHANGED <<dbVars, msgVars>>
    \/ Rest("messages") /\ phase = "parse" /\ dbPhase = "start" /\ MsgNext
       /\ UNCHANGED <<genVars, dbVars>>
    \/ Rest("names") /\ phase = "parse" /\ meant = Nothing /\ DbNext
       /\ UNCHANGED <<genVars, msgVars>>

HostSpec == HostInit /\ [][HostNext]_<<genVars, msgVars, dbVars>>
=============================================================================
