-------------------------------- MODULE TdtDb --------------------------------
(***************************************************************************)
(* The names a user gives to nodes and their objects, which the host reads *)
(* from $HOME/.config/tdt.xml (CDb).  The XML parser of Qt is external: a  *)
(* file is a tree of elements and other nodes, such as comments.           *)
(***************************************************************************)
EXTENDS Integers, Sequences

CONSTANT Files   \* what the file may be

\* A number is the set of its 32 bits; 0 is the empty one.
Word32 == SUBSET (0 .. 31)

\* Nodes of the tree.  An attribute that is missing or no number reads as 0, a
\* missing name as the empty one; what is below a sub is not looked at.
Comment == [tag |-> "", id |-> {}, name |-> "", subs |-> <<>>]
Element(tag, id, name, subs) == [tag |-> tag, id |-> id, name |-> name, subs |-> subs]
NoFile == [tag |-> "no file"]

Subs  == [tag : STRING, id : Word32, name : STRING, subs : {<<>>}]
Nodes == [tag : STRING, id : Word32, name : STRING, subs : Seq(Subs)]
Trees == [tag : STRING, id : Word32, name : STRING, subs : Seq(Nodes)]
ASSUME FilesAssumption == \A f \in Files : f = NoFile \/ f \in Trees

VARIABLES
    file, m_nodeNames, m_nodeObjectNames,
    node, subNode,   \* the places of the two loops; 0 is outside of the inner one
    dbPhase
dbVars == <<file, m_nodeNames, m_nodeObjectNames, node, subNode, dbPhase>>

DbInit ==
    /\ file \in Files
    /\ m_nodeNames = <<>> /\ m_nodeObjectNames = <<>>
    /\ node = 0 /\ subNode = 0 /\ dbPhase = "start"

\* Mutant of combinedId: the low byte of an object stays free.
combinedIdByte(id, subId) == {b \in 8 .. 31 : b - 8 \in id} \cup subId

\* ( id << 16 ) | subId
combinedId(id, subId) == {b \in 16 .. 31 : b - 16 \in id} \cup subId

\* map[key] = value
Assigned(map, key, value) ==
    [k \in DOMAIN map \cup {key} |-> IF k = key THEN value ELSE map[k]]

\* What a loop over firstChild().toElement() and nextSibling().toElement() sees:
\* it ends behind the last node, or at the first one that is no element.
Reached(nodes) == {i \in 1 .. Len(nodes) : \A j \in 1 .. i : nodes[j].tag # ""}

\* Without a file there are no names; a file of another kind is fatal.
openFile ==
    /\ dbPhase = "start"
    /\ dbPhase' = CASE file = NoFile -> "ready" [] file.tag = "tdt" -> "nodes" [] OTHER -> "fatal"
    /\ node' = 1
    /\ UNCHANGED <<file, m_nodeNames, m_nodeObjectNames, subNode>>

\* The outer loop.
readNode ==
    /\ dbPhase = "nodes" /\ subNode = 0 /\ node \in Reached(file.subs)
    /\ LET n == file.subs[node]
       IN  IF n.tag = "node"
           THEN m_nodeNames' = Assigned(m_nodeNames, n.id, n.name) /\ subNode' = 1 /\ node' = node
           ELSE node' = node + 1 /\ UNCHANGED <<m_nodeNames, subNode>>
    /\ UNCHANGED <<file, m_nodeObjectNames, dbPhase>>

\* The inner loop: a sub gives an object its name; object 0 has none.
readSub ==
    /\ dbPhase = "nodes" /\ subNode # 0 /\ subNode \in Reached(file.subs[node].subs)
    /\ LET sub == file.subs[node].subs[subNode]
       IN  m_nodeObjectNames' =
               IF sub.tag = "sub" /\ sub.id # {}
               THEN Assigned(m_nodeObjectNames, combinedId(file.subs[node].id, sub.id), sub.name)
               ELSE m_nodeObjectNames
    /\ subNode' = subNode + 1 /\ UNCHANGED <<file, m_nodeNames, node, dbPhase>>

\* Mutant of endNode: the next node finds the inner loop where it ended.
endNodeKeeps ==
    /\ dbPhase = "nodes" /\ subNode # 0 /\ subNode \notin Reached(file.subs[node].subs)
    /\ node' = node + 1
    /\ UNCHANGED <<file, m_nodeNames, m_nodeObjectNames, dbPhase, subNode>>

endNode ==
    /\ dbPhase = "nodes" /\ subNode # 0 /\ subNode \notin Reached(file.subs[node].subs)
    /\ node' = node + 1 /\ subNode' = 0
    /\ UNCHANGED <<file, m_nodeNames, m_nodeObjectNames, dbPhase>>

endFile ==
    /\ dbPhase = "nodes" /\ subNode = 0 /\ node \notin Reached(file.subs)
    /\ dbPhase' = "ready"
    /\ UNCHANGED <<file, m_nodeNames, m_nodeObjectNames, node, subNode>>

DbNext == openFile \/ readNode \/ readSub \/ endNode \/ endFile
DbSpec == DbInit /\ [][DbNext]_dbVars

hasNodeId(id) == id \in DOMAIN m_nodeNames
getNodeName(id) == IF hasNodeId(id) THEN m_nodeNames[id] ELSE <<"#", id>>
getObjectName(id, object) ==
    LET key == combinedId(id, object)
    IN  IF key \in DOMAIN m_nodeObjectNames THEN m_nodeObjectNames[key] ELSE ""

-----------------------------------------------------------------------------
(* Properties *)

\* Where the file is about a node, and where it gives a name to its object.
NodePlaces(id) == {n \in DOMAIN file.subs : file.subs[n].tag = "node" /\ file.subs[n].id = id}
SubPlaces(n, object) ==
    {s \in DOMAIN file.subs[n].subs :
        file.subs[n].subs[s].tag = "sub" /\ file.subs[n].subs[s].id = object}

HasComment ==
    \E n \in DOMAIN file.subs :
        file.subs[n].tag = "" \/ \E s \in DOMAIN file.subs[n].subs : file.subs[n].subs[s].tag = ""

\* No number of the file has more than the 16 bits of a node or an object.
NodeNumbers == {file.subs[n].id : n \in DOMAIN file.subs}
ObjectNumbersOf ==
    UNION {{file.subs[n].subs[s].id : s \in DOMAIN file.subs[n].subs} : n \in DOMAIN file.subs}
SixteenBits == \A number \in NodeNumbers \cup ObjectNumbersOf : number \subseteq 0 .. 15

\* An object is shown by a name that the file gives to this object of this node,
\* and never by one of another node's, whatever object numbers the
\* nodes have in common.  In a file without comments every name is found, the
\* last one if there are several (db.hpp:40-68).
NamesOfTheNode ==
    (dbPhase = "ready" /\ file # NoFile /\ SixteenBits) =>
        \A id \in NodeNumbers, object \in ObjectNumbersOf \ {{}} :
            LET name == getObjectName(id, object)
            IN  /\ name # "" => \E n \in NodePlaces(id) : \E s \in SubPlaces(n, object) :
                                   file.subs[n].subs[s].name = name
                /\ ~HasComment => \A n \in NodePlaces(id) :
                       /\ (\A m \in NodePlaces(id) : m <= n) =>
                              hasNodeId(id) /\ getNodeName(id) = file.subs[n].name
                       /\ \A s \in SubPlaces(n, object) :
                              (\A m \in NodePlaces(id) : \A t \in SubPlaces(m, object) :
                                  m < n \/ (m = n /\ t <= s))
                              => name = file.subs[n].subs[s].name

\* The loops have passed sub s of node n, or node n itself if s is 0.
Passed(n, s) == n < node \/ (n = node /\ s < subNode)

\* The maps have every name that was passed, the last one of its number, and no
\* others.
NodeNamesInv ==
    /\ \A n \in DOMAIN file.subs :
          Passed(n, 0) /\ file.subs[n].tag = "node" => file.subs[n].id \in DOMAIN m_nodeNames
    /\ \A id \in DOMAIN m_nodeNames :
          \E n \in NodePlaces(id) :
              /\ Passed(n, 0) /\ m_nodeNames[id] = file.subs[n].name
              /\ \A m \in NodePlaces(id) : Passed(m, 0) => m <= n

\* The subs the inner loop sees, if it comes to node n.
NamedSubs(n) ==
    {s \in Reached(file.subs[n].subs) :
        /\ file.subs[n].tag = "node"
        /\ file.subs[n].subs[s].tag = "sub" /\ file.subs[n].subs[s].id # {}}
KeyAt(n, s) == combinedId(file.subs[n].id, file.subs[n].subs[s].id)
ObjectNamesInv ==
    /\ \A n \in DOMAIN file.subs : \A s \in NamedSubs(n) :
          Passed(n, s) => KeyAt(n, s) \in DOMAIN m_nodeObjectNames
    /\ \A key \in DOMAIN m_nodeObjectNames :
          \E n \in DOMAIN file.subs : \E s \in NamedSubs(n) :
              /\ Passed(n, s) /\ KeyAt(n, s) = key
              /\ m_nodeObjectNames[key] = file.subs[n].subs[s].name
              /\ \A m \in DOMAIN file.subs : \A t \in NamedSubs(m) :
                     Passed(m, t) /\ KeyAt(m, t) = key => m < n \/ (m = n /\ t <= s)

\* Both loops pass what they see in its order.
LoopsInv ==
    /\ node \in Nat \ {0} /\ subNode \in Nat
    /\ \A n \in DOMAIN file.subs : n < node => n \in Reached(file.subs)
    /\ subNode # 0 => node \in Reached(file.subs) /\ file.subs[node].tag = "node"
    /\ dbPhase = "ready" => subNode = 0 /\ node \notin Reached(file.subs)

DbInv ==
    /\ file = NoFile \/ file \in Trees
    /\ dbPhase \in {"start", "nodes", "ready", "fatal"}
    /\ dbPhase = "start" => m_nodeNames = <<>> /\ m_nodeObjectNames = <<>> /\ subNode = 0
    /\ dbPhase \in {"nodes", "ready"} /\ file # NoFile => LoopsInv /\ NodeNamesInv /\ ObjectNamesInv
=============================================================================
