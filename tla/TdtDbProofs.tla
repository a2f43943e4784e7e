------------------------------ MODULE TdtDbProofs ------------------------------
(***************************************************************************)
(* Proofs about TdtDb: for every file, a name is found for the node and    *)
(* the object it was written for.                                          *)
(***************************************************************************)
EXTENDS TdtDb, TLAPS

\* The shifted bits of a node do not meet those of an object.
LEMMA TwoNumbers ==
    ASSUME NEW id \in SUBSET (0 .. 15), NEW object \in SUBSET (0 .. 15),
           NEW id2 \in SUBSET (0 .. 15), NEW object2 \in SUBSET (0 .. 15),
           combinedId(id, object) = combinedId(id2, object2)
    PROVE  id = id2 /\ object = object2
  <1>1. \A i, o \in SUBSET (0 .. 15) :
            /\ \A b \in 0 .. 15 : b \in i <=> b + 16 \in combinedId(i, o)
            /\ \A b \in 0 .. 15 : b \in o <=> b \in combinedId(i, o)
    BY DEF combinedId
  <1>2. \A b \in 0 .. 15 : (b \in id <=> b \in id2) /\ (b \in object <=> b \in object2)
    BY <1>1
  <1> QED
    BY <1>2

\* What a loop sees, and that nothing before it ends the loop.
LEMMA ReachedParts ==
    ASSUME NEW nodes, NEW i
    PROVE  i \in Reached(nodes) <=>
               i \in 1 .. Len(nodes) /\ \A j \in 1 .. i : nodes[j].tag # ""
  BY Zenon DEF Reached

LEMMA ReachedBefore ==
    ASSUME NEW S, NEW nodes \in Seq(S)
    PROVE  /\ Reached(nodes) \subseteq DOMAIN nodes
           /\ \A i \in Reached(nodes) : i \in Nat /\ \A j \in DOMAIN nodes : j <= i => j \in Reached(nodes)
  <1>1. DOMAIN nodes = 1 .. Len(nodes) /\ Len(nodes) \in Nat
    OBVIOUS
  <1>2. \A i \in Reached(nodes) : \A j \in 1 .. i : nodes[j].tag # ""
    BY ReachedParts, Zenon
  <1>6. \A i \in Reached(nodes) : i \in 1 .. Len(nodes)
    BY ReachedParts, Zenon
  <1>3. ASSUME NEW i \in Reached(nodes), NEW j \in DOMAIN nodes, j <= i PROVE j \in Reached(nodes)
    <2>1. i \in Int /\ j \in Int /\ 1 <= j /\ j \in 1 .. Len(nodes)
      BY <1>1, <1>6
    <2>2. \A k \in 1 .. j : k \in 1 .. i
      BY <2>1, <1>3
    <2>3. \A k \in 1 .. j : nodes[k].tag # ""
      BY <1>2, <2>2, Zenon
    <2> QED
      BY <2>1, <2>3, ReachedParts, Zenon
  <1>4. Reached(nodes) \subseteq DOMAIN nodes
    BY <1>1, <1>6
  <1>5. \A i \in Reached(nodes) : i \in Nat
    BY <1>1, <1>6
  <1> QED
    BY <1>3, <1>4, <1>5

\* A step that passes no other name keeps what is known of the maps.
LEMMA ObjectsKept ==
    ASSUME ObjectNamesInv, UNCHANGED <<file, m_nodeObjectNames>>,
           \A n \in DOMAIN file.subs : \A s \in NamedSubs(n) : Passed(n, s)' <=> Passed(n, s)
    PROVE  ObjectNamesInv'
  <1>1. \A n : NamedSubs(n)' = NamedSubs(n)
    BY DEF NamedSubs
  <1>2. \A n, s : KeyAt(n, s)' = KeyAt(n, s)
    BY DEF KeyAt
  <1>3. /\ \A n \in DOMAIN file.subs : \A s \in NamedSubs(n) :
               Passed(n, s) => KeyAt(n, s) \in DOMAIN m_nodeObjectNames
        /\ \A key \in DOMAIN m_nodeObjectNames :
               \E n \in DOMAIN file.subs : \E s \in NamedSubs(n) :
                   /\ Passed(n, s) /\ KeyAt(n, s) = key
                   /\ m_nodeObjectNames[key] = file.subs[n].subs[s].name
                   /\ \A m \in DOMAIN file.subs : \A t \in NamedSubs(m) :
                          Passed(m, t) /\ KeyAt(m, t) = key => m < n \/ (m = n /\ t <= s)
    BY Zenon DEF ObjectNamesInv
  <1> QED
    BY <1>1, <1>2, <1>3, Zenon DEF ObjectNamesInv

LEMMA NodesKept ==
    ASSUME NodeNamesInv, UNCHANGED <<file, m_nodeNames>>,
           \A n \in DOMAIN file.subs : file.subs[n].tag = "node" => (Passed(n, 0)' <=> Passed(n, 0))
    PROVE  NodeNamesInv'
  <1>1. \A id : NodePlaces(id)' = NodePlaces(id)
    BY DEF NodePlaces
  <1>2. \A id : \A n \in NodePlaces(id) : n \in DOMAIN file.subs /\ file.subs[n].tag = "node"
    BY Zenon DEF NodePlaces
  <1> QED
    BY <1>1, <1>2, Zenon DEF NodeNamesInv
\* A step that passes one name assigns it, as it is the last one so far.
LEMMA ObjectAdded ==
    ASSUME ObjectNamesInv, UNCHANGED file,
           NEW n0 \in DOMAIN file.subs, NEW s0 \in NamedSubs(n0),
           NEW key0, key0 = KeyAt(n0, s0), NEW name0, name0 = file.subs[n0].subs[s0].name,
           m_nodeObjectNames' = Assigned(m_nodeObjectNames, key0, name0),
           \A n \in DOMAIN file.subs : \A s \in NamedSubs(n) :
               Passed(n, s)' <=> Passed(n, s) \/ (n = n0 /\ s = s0),
           \A n \in DOMAIN file.subs : \A s \in NamedSubs(n) :
               Passed(n, s) => n < n0 \/ (n = n0 /\ s <= s0),
           n0 \in Int, s0 \in Int
    PROVE  ObjectNamesInv'
  <1>1. \A n : NamedSubs(n)' = NamedSubs(n)
    BY DEF NamedSubs
  <1>2. \A n, s : KeyAt(n, s)' = KeyAt(n, s)
    BY DEF KeyAt
  <1>3. /\ \A n \in DOMAIN file.subs : \A s \in NamedSubs(n) :
               Passed(n, s) => KeyAt(n, s) \in DOMAIN m_nodeObjectNames
        /\ \A key \in DOMAIN m_nodeObjectNames :
               \E n \in DOMAIN file.subs : \E s \in NamedSubs(n) :
                   /\ Passed(n, s) /\ KeyAt(n, s) = key
                   /\ m_nodeObjectNames[key] = file.subs[n].subs[s].name
                   /\ \A m \in DOMAIN file.subs : \A t \in NamedSubs(m) :
                          Passed(m, t) /\ KeyAt(m, t) = key => m < n \/ (m = n /\ t <= s)
    BY Zenon DEF ObjectNamesInv
  <1>4. /\ DOMAIN m_nodeObjectNames' = DOMAIN m_nodeObjectNames \cup {key0}
        /\ m_nodeObjectNames'[key0] = name0
        /\ \A k \in DOMAIN m_nodeObjectNames :
               k # key0 => m_nodeObjectNames'[k] = m_nodeObjectNames[k]
    <2> DEFINE new == Assigned(m_nodeObjectNames, key0, name0)
    <2>1. /\ DOMAIN new = DOMAIN m_nodeObjectNames \cup {key0} /\ new[key0] = name0
          /\ \A k \in DOMAIN m_nodeObjectNames : k # key0 => new[k] = m_nodeObjectNames[k]
      BY DEF Assigned
    <2>2. m_nodeObjectNames' = new
      OBVIOUS
    <2> HIDE DEF new
    <2> QED
      BY <2>1, <2>2
  <1>5. ASSUME NEW n \in DOMAIN file.subs, NEW s \in NamedSubs(n), Passed(n, s)'
        PROVE  KeyAt(n, s) \in DOMAIN m_nodeObjectNames'
    BY <1>3, <1>4, <1>5, Zenon
  <1>6. ASSUME NEW key \in DOMAIN m_nodeObjectNames', key # key0
        PROVE  \E n \in DOMAIN file.subs : \E s \in NamedSubs(n) :
                   /\ Passed(n, s)' /\ KeyAt(n, s) = key
                   /\ m_nodeObjectNames'[key] = file.subs[n].subs[s].name
                   /\ \A m \in DOMAIN file.subs : \A t \in NamedSubs(m) :
                          Passed(m, t)' /\ KeyAt(m, t) = key => m < n \/ (m = n /\ t <= s)
    <2>1. key \in DOMAIN m_nodeObjectNames /\ m_nodeObjectNames'[key] = m_nodeObjectNames[key]
      BY <1>4, <1>6, Zenon
    <2>2. PICK n \in DOMAIN file.subs : \E s \in NamedSubs(n) :
              /\ Passed(n, s) /\ KeyAt(n, s) = key
              /\ m_nodeObjectNames[key] = file.subs[n].subs[s].name
              /\ \A m \in DOMAIN file.subs : \A t \in NamedSubs(m) :
                     Passed(m, t) /\ KeyAt(m, t) = key => m < n \/ (m = n /\ t <= s)
      BY <1>3, <2>1, Zenon
    <2>4. PICK s \in NamedSubs(n) :
              /\ Passed(n, s) /\ KeyAt(n, s) = key
              /\ m_nodeObjectNames[key] = file.subs[n].subs[s].name
              /\ \A m \in DOMAIN file.subs : \A t \in NamedSubs(m) :
                     Passed(m, t) /\ KeyAt(m, t) = key => m < n \/ (m = n /\ t <= s)
      BY <2>2, Zenon
    <2>3. ASSUME NEW m \in DOMAIN file.subs, NEW t \in NamedSubs(m), Passed(m, t)', KeyAt(m, t) = key
          PROVE  m < n \/ (m = n /\ t <= s)
      <3>1. ~(m = n0 /\ t = s0)
        BY <1>6, <2>3, Zenon
      <3> QED
        BY <2>4, <2>3, <3>1, Zenon
    <2> QED
      BY <2>1, <2>4, <2>3, Zenon
  <1>7. /\ Passed(n0, s0)' /\ m_nodeObjectNames'[key0] = name0
        /\ \A m \in DOMAIN file.subs : \A t \in NamedSubs(m) :
               Passed(m, t)' /\ KeyAt(m, t) = key0 => m < n0 \/ (m = n0 /\ t <= s0)
    <2>1. s0 <= s0
      OBVIOUS
    <2> QED
      BY <1>4, <2>1, Zenon
  <1>8. \A key \in DOMAIN m_nodeObjectNames' :
            \E n \in DOMAIN file.subs : \E s \in NamedSubs(n) :
                /\ Passed(n, s)' /\ KeyAt(n, s) = key
                /\ m_nodeObjectNames'[key] = file.subs[n].subs[s].name
                /\ \A m \in DOMAIN file.subs : \A t \in NamedSubs(m) :
                       Passed(m, t)' /\ KeyAt(m, t) = key => m < n \/ (m = n /\ t <= s)
    BY <1>6, <1>7, Zenon
  <1>9. file' = file
    OBVIOUS
  <1>10. \A n \in DOMAIN file'.subs : \A s \in NamedSubs(n)' :
             Passed(n, s)' => KeyAt(n, s)' \in DOMAIN m_nodeObjectNames'
    BY <1>1, <1>2, <1>5, <1>9, Zenon
  <1>11. \A key \in DOMAIN m_nodeObjectNames' :
             \E n \in DOMAIN file'.subs : \E s \in NamedSubs(n)' :
                 /\ Passed(n, s)' /\ KeyAt(n, s)' = key
                 /\ m_nodeObjectNames'[key] = file'.subs[n].subs[s].name
                 /\ \A m \in DOMAIN file'.subs : \A t \in NamedSubs(m)' :
                        Passed(m, t)' /\ KeyAt(m, t)' = key => m < n \/ (m = n /\ t <= s)
    <2> SUFFICES ASSUME NEW key \in DOMAIN m_nodeObjectNames'
                 PROVE  \E n \in DOMAIN file'.subs : \E s \in NamedSubs(n)' :
                            /\ Passed(n, s)' /\ KeyAt(n, s)' = key
                            /\ m_nodeObjectNames'[key] = file'.subs[n].subs[s].name
                            /\ \A m \in DOMAIN file'.subs : \A t \in NamedSubs(m)' :
                                   Passed(m, t)' /\ KeyAt(m, t)' = key => m < n \/ (m = n /\ t <= s)
      OBVIOUS
    <2>1. PICK n \in DOMAIN file.subs : \E s \in NamedSubs(n) :
              /\ Passed(n, s)' /\ KeyAt(n, s) = key
              /\ m_nodeObjectNames'[key] = file.subs[n].subs[s].name
              /\ \A m \in DOMAIN file.subs : \A t \in NamedSubs(m) :
                     Passed(m, t)' /\ KeyAt(m, t) = key => m < n \/ (m = n /\ t <= s)
      BY <1>8, Zenon
    <2>2. PICK s \in NamedSubs(n) :
              /\ Passed(n, s)' /\ KeyAt(n, s) = key
              /\ m_nodeObjectNames'[key] = file.subs[n].subs[s].name
              /\ \A m \in DOMAIN file.subs : \A t \in NamedSubs(m) :
                     Passed(m, t)' /\ KeyAt(m, t) = key => m < n \/ (m = n /\ t <= s)
      BY <2>1, Zenon
    <2>3. \A m \in DOMAIN file'.subs : \A t \in NamedSubs(m)' :
              Passed(m, t)' /\ KeyAt(m, t)' = key => m < n \/ (m = n /\ t <= s)
      BY <1>1, <1>2, <1>9, <2>2, Zenon
    <2>4. /\ n \in DOMAIN file'.subs /\ s \in NamedSubs(n)'
          /\ Passed(n, s)' /\ KeyAt(n, s)' = key
          /\ m_nodeObjectNames'[key] = file'.subs[n].subs[s].name
      BY <1>1, <1>2, <1>9, <2>2, Zenon
    <2> QED
      BY <2>3, <2>4, Zenon
  <1> QED
    BY <1>10, <1>11, Zenon DEF ObjectNamesInv

LEMMA NodeAdded ==
    ASSUME NodeNamesInv, UNCHANGED file,
           NEW n0 \in DOMAIN file.subs, file.subs[n0].tag = "node", n0 \in Int,
           NEW id0, id0 = file.subs[n0].id, NEW name0, name0 = file.subs[n0].name,
           m_nodeNames' = Assigned(m_nodeNames, id0, name0),
           \A n \in DOMAIN file.subs : Passed(n, 0)' <=> Passed(n, 0) \/ n = n0,
           \A n \in DOMAIN file.subs : Passed(n, 0) => n <= n0
    PROVE  NodeNamesInv'
  <1>1. \A id : NodePlaces(id)' = NodePlaces(id)
    BY DEF NodePlaces
  <1>2. \A id : \A n \in NodePlaces(id) :
            n \in DOMAIN file.subs /\ file.subs[n].tag = "node" /\ file.subs[n].id = id
    BY Zenon DEF NodePlaces
  <1>3. n0 \in NodePlaces(id0) /\ n0 <= n0
    <2>1. n0 \in NodePlaces(id0)
      BY Zenon DEF NodePlaces
    <2>2. n0 <= n0
      OBVIOUS
    <2> QED
      BY <2>1, <2>2
  <1>4. /\ DOMAIN m_nodeNames' = DOMAIN m_nodeNames \cup {id0}
        /\ m_nodeNames'[id0] = name0
        /\ \A k \in DOMAIN m_nodeNames : k # id0 => m_nodeNames'[k] = m_nodeNames[k]
    <2> DEFINE new == Assigned(m_nodeNames, id0, name0)
    <2>1. /\ DOMAIN new = DOMAIN m_nodeNames \cup {id0} /\ new[id0] = name0
          /\ \A k \in DOMAIN m_nodeNames : k # id0 => new[k] = m_nodeNames[k]
      BY DEF Assigned
    <2>2. m_nodeNames' = new
      OBVIOUS
    <2> HIDE DEF new
    <2> QED
      BY <2>1, <2>2
  <1>5. ASSUME NEW n \in DOMAIN file.subs, Passed(n, 0)', file.subs[n].tag = "node"
        PROVE  file.subs[n].id \in DOMAIN m_nodeNames'
    BY <1>4, <1>5, Zenon DEF NodeNamesInv
  <1>6. ASSUME NEW id \in DOMAIN m_nodeNames', id # id0
        PROVE  \E n \in NodePlaces(id) :
                   /\ Passed(n, 0)' /\ m_nodeNames'[id] = file.subs[n].name
                   /\ \A m \in NodePlaces(id) : Passed(m, 0)' => m <= n
    <2>1. id \in DOMAIN m_nodeNames /\ m_nodeNames'[id] = m_nodeNames[id]
      BY <1>4, <1>6, Zenon
    <2>2. PICK n \in NodePlaces(id) :
              /\ Passed(n, 0) /\ m_nodeNames[id] = file.subs[n].name
              /\ \A m \in NodePlaces(id) : Passed(m, 0) => m <= n
      BY <2>1, Zenon DEF NodeNamesInv
    <2> QED
      BY <1>2, <1>6, <2>1, <2>2, Zenon
  <1>7. /\ Passed(n0, 0)' /\ m_nodeNames'[id0] = name0
        /\ \A m \in NodePlaces(id0) : Passed(m, 0)' => m <= n0
    BY <1>2, <1>3, <1>4, Zenon
  <1> QED
    BY <1>1, <1>3, <1>5, <1>6, <1>7, Zenon DEF NodeNamesInv
-----------------------------------------------------------------------------
(* The loops *)

LEMMA TreeFacts ==
    ASSUME file \in Trees
    PROVE  /\ file.subs \in Seq(Nodes)
           /\ \A n \in DOMAIN file.subs : n \in Nat /\ 1 <= n /\ file.subs[n].subs \in Seq(Subs)
           /\ \A n \in DOMAIN file.subs : \A s \in DOMAIN file.subs[n].subs : s \in Nat /\ 1 <= s
  <1>1. file.subs \in Seq(Nodes)
    BY DEF Trees
  <1>2. ASSUME NEW n \in DOMAIN file.subs PROVE n \in Nat /\ 1 <= n /\ file.subs[n] \in Nodes
    BY <1>1
  <1>3. ASSUME NEW n \in DOMAIN file.subs PROVE file.subs[n].subs \in Seq(Subs)
    BY <1>2 DEF Nodes
  <1>4. ASSUME NEW n \in DOMAIN file.subs, NEW s \in DOMAIN file.subs[n].subs PROVE s \in Nat /\ 1 <= s
    <2>1. PICK subs \in Seq(Subs) : subs = file.subs[n].subs
      BY <1>3
    <2> QED
      BY <2>1
  <1> QED
    BY <1>1, <1>2, <1>3, <1>4

\* What the inner loop sees of a node.
LEMMA NamedParts ==
    ASSUME NEW n
    PROVE  \A s : s \in NamedSubs(n) <=>
               /\ s \in Reached(file.subs[n].subs) /\ file.subs[n].tag = "node"
               /\ file.subs[n].subs[s].tag = "sub" /\ file.subs[n].subs[s].id # {}
  BY Zenon DEF NamedSubs

LEMMA ReachedPlaces ==
    ASSUME file \in Trees
    PROVE  /\ \A n \in Reached(file.subs) : n \in DOMAIN file.subs
           /\ \A n \in Reached(file.subs), m \in DOMAIN file.subs : m <= n => m \in Reached(file.subs)
           /\ \A n \in DOMAIN file.subs : \A s \in Reached(file.subs[n].subs) :
                  /\ s \in DOMAIN file.subs[n].subs
                  /\ \A t \in DOMAIN file.subs[n].subs : t <= s => t \in Reached(file.subs[n].subs)
           /\ \A n \in DOMAIN file.subs : \A s \in NamedSubs(n) : s \in Nat /\ 1 <= s
  <1>1. /\ \A n \in Reached(file.subs) : n \in DOMAIN file.subs
        /\ \A n \in Reached(file.subs), m \in DOMAIN file.subs : m <= n => m \in Reached(file.subs)
    BY TreeFacts, ReachedBefore
  <1>2. ASSUME NEW n \in DOMAIN file.subs, NEW s \in Reached(file.subs[n].subs)
        PROVE  /\ s \in DOMAIN file.subs[n].subs
               /\ \A t \in DOMAIN file.subs[n].subs : t <= s => t \in Reached(file.subs[n].subs)
    <2>1. PICK subs \in Seq(Subs) : subs = file.subs[n].subs
      BY TreeFacts
    <2> QED
      BY <2>1, ReachedBefore
  <1>3. ASSUME NEW n \in DOMAIN file.subs, NEW s \in NamedSubs(n) PROVE s \in Nat /\ 1 <= s
    <2>1. s \in Reached(file.subs[n].subs)
      BY NamedParts, Zenon
    <2> QED
      BY <1>2, <2>1, TreeFacts
  <1> QED
    BY <1>1, <1>2, <1>3
\* The four ways the loops go on.
LEMMA InvOpens ==
    ASSUME DbInv, openFile
    PROVE  DbInv'
  <1>1. /\ dbPhase = "start" /\ node' = 1 /\ UNCHANGED <<file, m_nodeNames, m_nodeObjectNames, subNode>>
        /\ dbPhase' \in {"nodes", "ready", "fatal"}
        /\ dbPhase' = "ready" => file = NoFile
    BY DEF openFile
  <1>2. /\ m_nodeNames' = <<>> /\ m_nodeObjectNames' = <<>> /\ subNode' = 0
        /\ file' = NoFile \/ file' \in Trees
    BY <1>1 DEF DbInv
  <1>3. ASSUME dbPhase' = "nodes", file' # NoFile PROVE LoopsInv' /\ NodeNamesInv' /\ ObjectNamesInv'
    <2>1. file \in Trees
      BY <1>1, <1>2, <1>3
    <2>2. \A n \in DOMAIN file.subs : n \in Nat /\ 1 <= n
      BY <2>1, TreeFacts
    <2>3. \A n \in DOMAIN file.subs : ~(n < node')
      BY <1>1, <2>2
    <2>4. LoopsInv'
      BY <1>1, <1>2, <1>3, <2>2 DEF LoopsInv
    <2>5. \A n \in DOMAIN file.subs : ~Passed(n, 0)'
      BY <1>2, <2>3 DEF Passed
    <2>6. \A n \in DOMAIN file.subs : \A s \in NamedSubs(n) : ~Passed(n, s)'
      <3>1. \A n \in DOMAIN file.subs : \A s \in NamedSubs(n) : s \in Nat /\ ~(s < subNode')
        BY <1>2, <2>1, ReachedPlaces
      <3> QED
        BY <2>3, <3>1 DEF Passed
    <2>7. DOMAIN m_nodeNames' = {} /\ DOMAIN m_nodeObjectNames' = {}
      BY <1>2
    <2>8. \A n : NamedSubs(n)' = NamedSubs(n)
      BY <1>1 DEF NamedSubs
    <2>9. NodeNamesInv'
      BY <1>1, <2>5, <2>7, Zenon DEF NodeNamesInv
    <2>10. ObjectNamesInv'
      BY <1>1, <2>6, <2>7, <2>8, Zenon DEF ObjectNamesInv
    <2> QED
      BY <2>4, <2>9, <2>10
  <1> QED
    BY <1>1, <1>2, <1>3 DEF DbInv

LEMMA InvReadsNode ==
    ASSUME DbInv, readNode
    PROVE  DbInv'
  <1>1. /\ dbPhase = "nodes" /\ subNode = 0 /\ node \in Reached(file.subs)
        /\ UNCHANGED <<file, m_nodeObjectNames, dbPhase>>
    BY DEF readNode
  <1>2. CASE file = NoFile
    BY <1>1, <1>2 DEF DbInv
  <1>3. CASE file # NoFile
    <2>1. file \in Trees /\ LoopsInv /\ NodeNamesInv /\ ObjectNamesInv
      BY <1>1, <1>3 DEF DbInv
    <2>2. \A n \in DOMAIN file.subs : n \in Nat /\ 1 <= n
      BY <2>1, TreeFacts
    <2>3. node \in DOMAIN file.subs /\ node \in Nat
      BY <1>1, <2>1, <2>2, ReachedPlaces
    <2>4. \A n \in DOMAIN file.subs : \A s \in NamedSubs(n) : s \in Nat /\ 1 <= s
      BY <2>1, ReachedPlaces
    <2>5. \A n \in DOMAIN file.subs : n < node => n \in Reached(file.subs)
      BY <2>1 DEF LoopsInv
    <2>6. CASE file.subs[node].tag = "node"
      <3>1. /\ m_nodeNames' = Assigned(m_nodeNames, file.subs[node].id, file.subs[node].name)
            /\ subNode' = 1 /\ node' = node
        BY <2>6 DEF readNode
      <3>2. \A n \in DOMAIN file.subs : Passed(n, 0)' <=> Passed(n, 0) \/ n = node
        BY <1>1, <2>2, <2>3, <3>1 DEF Passed
      <3>3. \A n \in DOMAIN file.subs : Passed(n, 0) => n <= node
        BY <2>2, <2>3 DEF Passed
      <3>4. NodeNamesInv'
        BY <1>1, <2>1, <2>3, <2>6, <3>1, <3>2, <3>3, NodeAdded
      <3>5. \A n \in DOMAIN file.subs : \A s \in NamedSubs(n) : Passed(n, s)' <=> Passed(n, s)
        BY <1>1, <2>2, <2>3, <2>4, <3>1 DEF Passed
      <3>6. ObjectNamesInv'
        BY <1>1, <2>1, <3>5, ObjectsKept
      <3>7. LoopsInv'
        BY <1>1, <2>1, <2>3, <2>6, <3>1 DEF LoopsInv
      <3> QED
        BY <1>1, <2>1, <3>4, <3>6, <3>7 DEF DbInv
    <2>7. CASE file.subs[node].tag # "node"
      <3>1. node' = node + 1 /\ subNode' = subNode /\ m_nodeNames' = m_nodeNames
        BY <2>7 DEF readNode
      <3>2. \A n \in DOMAIN file.subs : n # node => (n < node' <=> n < node)
        BY <2>2, <2>3, <3>1
      <3>3. \A n \in DOMAIN file.subs : file.subs[n].tag = "node" => (Passed(n, 0)' <=> Passed(n, 0))
        <4>1. \A n \in DOMAIN file.subs : n # node => (Passed(n, 0)' <=> Passed(n, 0))
          BY <1>1, <2>2, <2>3, <3>1 DEF Passed
        <4> QED
          BY <2>7, <4>1, Zenon
      <3>4. \A n \in DOMAIN file.subs : \A s \in NamedSubs(n) : Passed(n, s)' <=> Passed(n, s)
        <4>1. \A n \in DOMAIN file.subs : \A s \in NamedSubs(n) :
                  n # node => (Passed(n, s)' <=> Passed(n, s))
          BY <1>1, <2>2, <2>3, <2>4, <3>1 DEF Passed
        <4>2. \A s : s \notin NamedSubs(node)
          BY <2>7, NamedParts, Zenon
        <4> QED
          BY <4>1, <4>2, Zenon
      <3>5. NodeNamesInv' /\ ObjectNamesInv'
        BY <1>1, <2>1, <3>1, <3>3, <3>4, NodesKept, ObjectsKept
      <3>6. \A n \in DOMAIN file.subs : n < node' => n \in Reached(file.subs)
        BY <1>1, <2>5, <3>2
      <3>7. LoopsInv'
        BY <1>1, <2>3, <3>1, <3>6 DEF LoopsInv
      <3> QED
        BY <1>1, <2>1, <3>5, <3>7 DEF DbInv
    <2> QED
      BY <2>6, <2>7
  <1> QED
    BY <1>2, <1>3

LEMMA InvReadsSub ==
    ASSUME DbInv, readSub
    PROVE  DbInv'
  <1>1. /\ dbPhase = "nodes" /\ subNode # 0 /\ subNode \in Reached(file.subs[node].subs)
        /\ UNCHANGED <<file, m_nodeNames, node, dbPhase>> /\ subNode' = subNode + 1
    BY DEF readSub
  <1>2. CASE file = NoFile
    BY <1>1, <1>2 DEF DbInv
  <1>3. CASE file # NoFile
    <2>1. file \in Trees /\ LoopsInv /\ NodeNamesInv /\ ObjectNamesInv
      BY <1>1, <1>3 DEF DbInv
    <2>2. \A n \in DOMAIN file.subs : n \in Nat /\ 1 <= n
      BY <2>1, TreeFacts
    <2>3. node \in DOMAIN file.subs /\ node \in Nat /\ subNode \in Nat /\ file.subs[node].tag = "node"
      BY <1>1, <2>1, <2>2, ReachedPlaces DEF LoopsInv
    <2>4. \A n \in DOMAIN file.subs : \A s \in NamedSubs(n) : s \in Nat /\ 1 <= s
      BY <2>1, ReachedPlaces
    <2>5. LoopsInv'
      BY <1>1, <2>1, <2>3 DEF LoopsInv
    <2>6. NodeNamesInv'
      <3>1. \A n \in DOMAIN file.subs : Passed(n, 0)' <=> Passed(n, 0)
        BY <1>1, <2>2, <2>3 DEF Passed
      <3> QED
        BY <1>1, <2>1, <3>1, NodesKept
    <2>7. \A n \in DOMAIN file.subs : \A s \in NamedSubs(n) :
              Passed(n, s)' <=> Passed(n, s) \/ (n = node /\ s = subNode)
      BY <1>1, <2>2, <2>3, <2>4 DEF Passed
    <2>8. \A n \in DOMAIN file.subs : \A s \in NamedSubs(n) :
              Passed(n, s) => n < node \/ (n = node /\ s <= subNode)
      BY <1>1, <2>2, <2>3, <2>4 DEF Passed
    <2>9. PICK sub : sub = file.subs[node].subs[subNode]
      OBVIOUS
    <2>10. ObjectNamesInv'
      <3>1. CASE sub.tag = "sub" /\ sub.id # {}
        <4>1. subNode \in NamedSubs(node)
          BY <1>1, <2>3, <2>9, <3>1, NamedParts, Zenon
        <4>2. PICK key0, name0 : key0 = KeyAt(node, subNode) /\ name0 = sub.name
          OBVIOUS
        <4>3. m_nodeObjectNames' = Assigned(m_nodeObjectNames, key0, name0)
          BY <2>9, <3>1, <4>2 DEF readSub, KeyAt
        <4> QED
          BY <1>1, <2>1, <2>3, <2>7, <2>8, <2>9, <4>1, <4>2, <4>3, ObjectAdded
      <3>2. CASE ~(sub.tag = "sub" /\ sub.id # {})
        <4>1. subNode \notin NamedSubs(node)
          BY <2>9, <3>2, NamedParts, Zenon
        <4>2. m_nodeObjectNames' = m_nodeObjectNames
          BY <2>9, <3>2 DEF readSub
        <4> QED
          BY <1>1, <2>1, <2>7, <4>1, <4>2, ObjectsKept
      <3> QED
        BY <3>1, <3>2
    <2> QED
      BY <1>1, <2>1, <2>5, <2>6, <2>10 DEF DbInv
  <1> QED
    BY <1>2, <1>3

LEMMA InvEndsNode ==
    ASSUME DbInv, endNode
    PROVE  DbInv'
  <1>1. /\ dbPhase = "nodes" /\ subNode # 0 /\ subNode \notin Reached(file.subs[node].subs)
        /\ UNCHANGED <<file, m_nodeNames, m_nodeObjectNames, dbPhase>>
        /\ node' = node + 1 /\ subNode' = 0
    BY DEF endNode
  <1>2. CASE file = NoFile
    BY <1>1, <1>2 DEF DbInv
  <1>3. CASE file # NoFile
    <2>1. file \in Trees /\ LoopsInv /\ NodeNamesInv /\ ObjectNamesInv
      BY <1>1, <1>3 DEF DbInv
    <2>2. \A n \in DOMAIN file.subs : n \in Nat /\ 1 <= n
      BY <2>1, TreeFacts
    <2>3. /\ node \in DOMAIN file.subs /\ node \in Nat /\ subNode \in Nat /\ node \in Reached(file.subs)
          /\ \A n \in DOMAIN file.subs : n < node => n \in Reached(file.subs)
      BY <1>1, <2>1, <2>2, ReachedPlaces DEF LoopsInv
    <2>4. \A n \in DOMAIN file.subs : \A s \in NamedSubs(n) : s \in Nat /\ 1 <= s
      BY <2>1, ReachedPlaces
    <2>5. \A s \in NamedSubs(node) : s < subNode
      <3>1. SUFFICES ASSUME NEW s \in NamedSubs(node), subNode <= s PROVE FALSE
        BY <2>3, <2>4
      <3>2. /\ file.subs[node].subs \in Seq(Subs)
            /\ s \in Reached(file.subs[node].subs)
        BY <2>1, <2>3, NamedParts, TreeFacts
      <3>3. PICK subs \in Seq(Subs) : subs = file.subs[node].subs
        BY <3>2
      <3>4. s \in DOMAIN subs /\ s \in Nat
        BY <2>3, <2>4, <3>2, <3>3, ReachedBefore
      <3>5. subNode \in DOMAIN subs
        BY <1>1, <2>3, <3>1, <3>4
      <3> QED
        BY <1>1, <3>1, <3>2, <3>3, <3>5, ReachedBefore
    <2>6. LoopsInv'
      <3>1. \A n \in DOMAIN file.subs : n < node' => n \in Reached(file.subs)
        BY <1>1, <2>2, <2>3
      <3> QED
        BY <1>1, <2>3, <3>1 DEF LoopsInv
    <2>7. \A n \in DOMAIN file.subs : Passed(n, 0)' <=> Passed(n, 0)
      BY <1>1, <2>2, <2>3 DEF Passed
    <2>8. \A n \in DOMAIN file.subs : \A s \in NamedSubs(n) : Passed(n, s)' <=> Passed(n, s)
      BY <1>1, <2>2, <2>3, <2>4, <2>5 DEF Passed
    <2>9. NodeNamesInv' /\ ObjectNamesInv'
      BY <1>1, <2>1, <2>7, <2>8, NodesKept, ObjectsKept
    <2> QED
      BY <1>1, <2>1, <2>6, <2>9 DEF DbInv
  <1> QED
    BY <1>2, <1>3
LEMMA InvEndsFile ==
    ASSUME DbInv, endFile
    PROVE  DbInv'
  <1>1. /\ dbPhase = "nodes" /\ dbPhase' = "ready" /\ subNode = 0 /\ node \notin Reached(file.subs)
        /\ UNCHANGED <<file, m_nodeNames, m_nodeObjectNames, node, subNode>>
    BY DEF endFile
  <1>2. CASE file = NoFile
    BY <1>1, <1>2 DEF DbInv
  <1>3. CASE file # NoFile
    <2>1. file \in Trees /\ LoopsInv /\ NodeNamesInv /\ ObjectNamesInv
      BY <1>1, <1>3 DEF DbInv
    <2>2. \A n, s : Passed(n, s)' <=> Passed(n, s)
      BY <1>1 DEF Passed
    <2>3. LoopsInv'
      BY <1>1, <2>1 DEF LoopsInv
    <2>4. NodeNamesInv' /\ ObjectNamesInv'
      BY <1>1, <2>1, <2>2, NodesKept, ObjectsKept
    <2> QED
      BY <1>1, <2>1, <2>3, <2>4 DEF DbInv
  <1> QED
    BY <1>2, <1>3

LEMMA InvRests ==
    ASSUME DbInv, UNCHANGED dbVars
    PROVE  DbInv'
  <1>1. UNCHANGED <<file, m_nodeNames, m_nodeObjectNames, node, subNode, dbPhase>>
    BY DEF dbVars
  <1>2. \A n, s : Passed(n, s)' <=> Passed(n, s)
    BY <1>1 DEF Passed
  <1>3. CASE dbPhase \in {"nodes", "ready"} /\ file # NoFile
    <2>1. file \in Trees /\ LoopsInv /\ NodeNamesInv /\ ObjectNamesInv
      BY <1>3 DEF DbInv
    <2>2. LoopsInv'
      BY <1>1, <2>1 DEF LoopsInv
    <2>3. NodeNamesInv' /\ ObjectNamesInv'
      BY <1>1, <1>2, <2>1, NodesKept, ObjectsKept
    <2> QED
      BY <1>1, <1>3, <2>1, <2>2, <2>3 DEF DbInv
  <1>4. CASE ~(dbPhase \in {"nodes", "ready"} /\ file # NoFile)
    BY <1>1, <1>4 DEF DbInv
  <1> QED
    BY <1>3, <1>4

\* At all times the maps have exactly the names that the two loops have come to
\* (db.cpp:59-87), each for the last place of its number.
THEOREM NamesReadSoFar == DbSpec => []DbInv
  <1>1. DbInit => DbInv
    BY FilesAssumption DEF DbInit, DbInv
  <1>2. DbInv /\ [DbNext]_dbVars => DbInv'
    BY InvOpens, InvReadsNode, InvReadsSub, InvEndsNode, InvEndsFile, InvRests DEF DbNext
  <1> QED
    BY <1>1, <1>2, PTL DEF DbSpec

-----------------------------------------------------------------------------
(* The names of a node *)

LEMMA NodePlaceParts ==
    \A id, n : n \in NodePlaces(id) <=>
        n \in DOMAIN file.subs /\ file.subs[n].tag = "node" /\ file.subs[n].id = id
  BY Zenon DEF NodePlaces

LEMMA SubPlaceParts ==
    \A n, object, s : s \in SubPlaces(n, object) <=>
        /\ s \in DOMAIN file.subs[n].subs
        /\ file.subs[n].subs[s].tag = "sub" /\ file.subs[n].subs[s].id = object
  BY Zenon DEF SubPlaces

\* The key of a place of the file is that of its own node and object only.
LEMMA OwnKey ==
    ASSUME file \in Trees, SixteenBits,
           NEW id \in NodeNumbers, NEW object \in ObjectNumbersOf, object # {},
           NEW n \in DOMAIN file.subs, NEW s \in NamedSubs(n),
           KeyAt(n, s) = combinedId(id, object)
    PROVE  n \in NodePlaces(id) /\ s \in SubPlaces(n, object)
  <1>1. /\ s \in Reached(file.subs[n].subs) /\ file.subs[n].tag = "node"
        /\ file.subs[n].subs[s].tag = "sub"
    BY NamedParts, Zenon
  <1>2. s \in DOMAIN file.subs[n].subs
    BY <1>1, ReachedPlaces
  <1>3. PICK id2, object2 : id2 = file.subs[n].id /\ object2 = file.subs[n].subs[s].id
    OBVIOUS
  <1>4. id2 \in NodeNumbers /\ object2 \in ObjectNumbersOf
    <2> DEFINE Ids(m) == {file.subs[m].subs[t].id : t \in DOMAIN file.subs[m].subs}
    <2>1. object2 \in Ids(n)
      BY <1>2, <1>3, Zenon
    <2>2. ObjectNumbersOf = UNION {Ids(m) : m \in DOMAIN file.subs}
      BY Zenon DEF ObjectNumbersOf
    <2>3. id2 \in NodeNumbers
      BY <1>3, Zenon DEF NodeNumbers
    <2> HIDE DEF Ids
    <2> QED
      BY <2>1, <2>2, <2>3
  <1>5. /\ id \in SUBSET (0 .. 15) /\ object \in SUBSET (0 .. 15)
        /\ id2 \in SUBSET (0 .. 15) /\ object2 \in SUBSET (0 .. 15)
    BY <1>4 DEF SixteenBits
  <1>6. combinedId(id2, object2) = combinedId(id, object)
    BY <1>3 DEF KeyAt
  <1>7. id2 = id /\ object2 = object
    BY <1>5, <1>6, TwoNumbers
  <1>8. n \in NodePlaces(id)
    BY <1>1, <1>3, <1>7, NodePlaceParts, Zenon
  <1>9. s \in SubPlaces(n, object)
    BY <1>1, <1>2, <1>3, <1>7, SubPlaceParts, Zenon
  <1> QED
    BY <1>8, <1>9

\* In a file without comments the loops see everything, so they pass it.
LEMMA AllPassed ==
    ASSUME file \in Trees, LoopsInv, dbPhase = "ready", ~HasComment
    PROVE  /\ \A n \in DOMAIN file.subs : \A s : Passed(n, s)
           /\ \A n \in DOMAIN file.subs : \A s \in DOMAIN file.subs[n].subs : s \in Reached(file.subs[n].subs)
  <1>1. /\ \A n \in DOMAIN file.subs : file.subs[n].tag # ""
        /\ \A n \in DOMAIN file.subs : \A s \in DOMAIN file.subs[n].subs : file.subs[n].subs[s].tag # ""
    BY Zenon DEF HasComment
  <1>2. file.subs \in Seq(Nodes) /\ \A n \in DOMAIN file.subs : n \in Nat /\ 1 <= n
    BY TreeFacts
  <1>3. ASSUME NEW n \in DOMAIN file.subs PROVE n < node
    <2>1. PICK subs \in Seq(Nodes) : subs = file.subs
      BY <1>2
    <2>2. SUFFICES ASSUME node <= n PROVE FALSE
      BY <1>2 DEF LoopsInv
    <2>3. node \in 1 .. Len(subs) /\ \A j \in 1 .. node : j \in DOMAIN subs
      BY <1>2, <2>1, <2>2 DEF LoopsInv
    <2>4. \A j \in 1 .. node : subs[j].tag # ""
      BY <1>1, <2>1, <2>3, Zenon
    <2>5. node \in Reached(subs)
      BY <2>3, <2>4, ReachedParts, Zenon
    <2> QED
      BY <2>1, <2>5 DEF LoopsInv
  <1>4. ASSUME NEW n \in DOMAIN file.subs, NEW s \in DOMAIN file.subs[n].subs
        PROVE  s \in Reached(file.subs[n].subs)
    <2>1. PICK subs \in Seq(Subs) : subs = file.subs[n].subs
      BY TreeFacts
    <2>2. s \in 1 .. Len(subs) /\ \A j \in 1 .. s : j \in DOMAIN subs
      BY <2>1
    <2>3. \A j \in 1 .. s : subs[j].tag # ""
      BY <1>1, <2>1, <2>2, Zenon
    <2> QED
      BY <2>1, <2>2, <2>3, ReachedParts, Zenon
  <1> QED
    BY <1>3, <1>4 DEF Passed
LEMMA NamesFromInv ==
    ASSUME DbInv
    PROVE  NamesOfTheNode
  <1> SUFFICES ASSUME dbPhase = "ready", file # NoFile, SixteenBits,
                      NEW id \in NodeNumbers, NEW object \in ObjectNumbersOf, object # {}
               PROVE  /\ getObjectName(id, object) # "" =>
                            \E n \in NodePlaces(id) : \E s \in SubPlaces(n, object) :
                                file.subs[n].subs[s].name = getObjectName(id, object)
                      /\ ~HasComment => \A n \in NodePlaces(id) :
                            /\ (\A m \in NodePlaces(id) : m <= n) =>
                                   hasNodeId(id) /\ getNodeName(id) = file.subs[n].name
                            /\ \A s \in SubPlaces(n, object) :
                                   (\A m \in NodePlaces(id) : \A t \in SubPlaces(m, object) :
                                       m < n \/ (m = n /\ t <= s))
                                   => getObjectName(id, object) = file.subs[n].subs[s].name
    BY Zenon DEF NamesOfTheNode
  <1>1. file \in Trees /\ LoopsInv /\ NodeNamesInv /\ ObjectNamesInv
    BY DEF DbInv
  <1>2. PICK key : key = combinedId(id, object)
    OBVIOUS
  <1>3. ASSUME key \in DOMAIN m_nodeObjectNames
        PROVE  \E n \in NodePlaces(id) : \E s \in SubPlaces(n, object) :
                   /\ m_nodeObjectNames[key] = file.subs[n].subs[s].name
                   /\ \A m \in DOMAIN file.subs : \A t \in NamedSubs(m) :
                          Passed(m, t) /\ KeyAt(m, t) = key => m < n \/ (m = n /\ t <= s)
    <2>1. PICK n \in DOMAIN file.subs : \E s \in NamedSubs(n) :
              /\ Passed(n, s) /\ KeyAt(n, s) = key
              /\ m_nodeObjectNames[key] = file.subs[n].subs[s].name
              /\ \A m \in DOMAIN file.subs : \A t \in NamedSubs(m) :
                     Passed(m, t) /\ KeyAt(m, t) = key => m < n \/ (m = n /\ t <= s)
      BY <1>1, <1>3, Zenon DEF ObjectNamesInv
    <2>2. PICK s \in NamedSubs(n) :
              /\ Passed(n, s) /\ KeyAt(n, s) = key
              /\ m_nodeObjectNames[key] = file.subs[n].subs[s].name
              /\ \A m \in DOMAIN file.subs : \A t \in NamedSubs(m) :
                     Passed(m, t) /\ KeyAt(m, t) = key => m < n \/ (m = n /\ t <= s)
      BY <2>1, Zenon
    <2>3. n \in NodePlaces(id) /\ s \in SubPlaces(n, object)
      BY <1>1, <1>2, <2>2, OwnKey
    <2> QED
      BY <2>2, <2>3, Zenon
  <1>4. getObjectName(id, object) =
            IF key \in DOMAIN m_nodeObjectNames THEN m_nodeObjectNames[key] ELSE ""
    BY <1>2, Zenon DEF getObjectName
  <1>5. ASSUME getObjectName(id, object) # ""
        PROVE  \E n \in NodePlaces(id) : \E s \in SubPlaces(n, object) :
                   file.subs[n].subs[s].name = getObjectName(id, object)
    BY <1>3, <1>4, <1>5, Zenon
  <1>6. ASSUME ~HasComment, NEW n \in NodePlaces(id), \A m \in NodePlaces(id) : m <= n
        PROVE  hasNodeId(id) /\ getNodeName(id) = file.subs[n].name
    <2>1. \A m \in DOMAIN file.subs : Passed(m, 0) /\ m \in Nat
      BY <1>1, <1>6, AllPassed, TreeFacts
    <2>2. n \in DOMAIN file.subs /\ file.subs[n].tag = "node" /\ file.subs[n].id = id
      BY NodePlaceParts, SubPlaceParts, Zenon
    <2>3. id \in DOMAIN m_nodeNames
      BY <1>1, <2>1, <2>2, Zenon DEF NodeNamesInv
    <2>4. PICK m \in NodePlaces(id) :
              /\ Passed(m, 0) /\ m_nodeNames[id] = file.subs[m].name
              /\ \A k \in NodePlaces(id) : Passed(k, 0) => k <= m
      BY <1>1, <2>3, Zenon DEF NodeNamesInv
    <2>5. m \in DOMAIN file.subs
      BY NodePlaceParts, SubPlaceParts, Zenon
    <2>6. n \in Nat /\ m \in Nat /\ n <= m /\ m <= n
      BY <1>6, <2>1, <2>2, <2>4, <2>5
    <2>7. n = m
      BY <2>6
    <2> QED
      BY <2>3, <2>4, <2>7, Zenon DEF hasNodeId, getNodeName
  <1>7. ASSUME ~HasComment, NEW n \in NodePlaces(id), NEW s \in SubPlaces(n, object),
               \A m \in NodePlaces(id) : \A t \in SubPlaces(m, object) : m < n \/ (m = n /\ t <= s)
        PROVE  getObjectName(id, object) = file.subs[n].subs[s].name
    <2>1. /\ n \in DOMAIN file.subs /\ file.subs[n].tag = "node" /\ file.subs[n].id = id
          /\ s \in DOMAIN file.subs[n].subs
          /\ file.subs[n].subs[s].tag = "sub" /\ file.subs[n].subs[s].id = object
      <3>1. /\ n \in DOMAIN file.subs /\ file.subs[n].tag = "node" /\ file.subs[n].id = id
        BY NodePlaceParts, SubPlaceParts, Zenon
      <3>2. /\ s \in DOMAIN file.subs[n].subs
            /\ file.subs[n].subs[s].tag = "sub" /\ file.subs[n].subs[s].id = object
        BY SubPlaceParts, Zenon
      <3> QED
        BY <3>1, <3>2
    <2>2. Passed(n, s) /\ s \in Reached(file.subs[n].subs)
      BY <1>1, <1>7, <2>1, AllPassed
    <2>3. s \in NamedSubs(n) /\ KeyAt(n, s) = key
      BY <1>2, <2>1, <2>2, NamedParts, Zenon DEF KeyAt
    <2>4. key \in DOMAIN m_nodeObjectNames
      BY <1>1, <2>1, <2>2, <2>3, Zenon DEF ObjectNamesInv
    <2>5. PICK m \in NodePlaces(id) : \E t \in SubPlaces(m, object) :
              /\ m_nodeObjectNames[key] = file.subs[m].subs[t].name
              /\ n < m \/ (n = m /\ s <= t)
      BY <1>3, <2>1, <2>2, <2>3, <2>4, Zenon
    <2>6. PICK t \in SubPlaces(m, object) :
              /\ m_nodeObjectNames[key] = file.subs[m].subs[t].name
              /\ n < m \/ (n = m /\ s <= t)
      BY <2>5, Zenon
    <2>7. m \in DOMAIN file.subs /\ t \in DOMAIN file.subs[m].subs
      BY NodePlaceParts, SubPlaceParts, Zenon
    <2>8. m \in Nat /\ n \in Nat /\ s \in Nat /\ t \in Nat
      BY <1>1, <2>1, <2>7, TreeFacts
    <2>9. m < n \/ (m = n /\ t <= s)
      BY <1>7
    <2>10. m = n /\ t = s
      BY <2>6, <2>8, <2>9
    <2> QED
      BY <1>4, <2>4, <2>6, <2>10, Zenon
  <1> QED
    BY <1>5, <1>6, <1>7, Zenon

\* Whatever the file holds, an object is shown by a name that the file gives to
\* this object of this node; and without comments by the last one it gives, as
\* is the node itself (db.hpp:40-68).
THEOREM NamesAlwaysOfTheNode == DbSpec => []NamesOfTheNode
  BY NamesReadSoFar, NamesFromInv, PTL
=============================================================================
