---------------------------- MODULE HnswIndexProofs ----------------------------
(***************************************************************************)
(* Theorems about HnswIndex for any set of ids, any vectors, any           *)
(* configurations and any bounds: the bookkeeping and the number of links  *)
(* first, whatever a search returns, then what it returns.                 *)
(***************************************************************************)
EXTENDS MCHnswIndex, Recursions, FiniteSetTheorems, WellFoundedInduction, TLAPS

------------------------------------------------------------------------------
(* The n closest.                                                          *)

\* The order of a search is a strict total order of the ids.
LEMMA Order ==
  ASSUME NEW g, NEW q \in Int
  PROVE  /\ \A a \in Ids : Distance(g, q, a) \in Int
         /\ \A a \in Ids : ~Closer(g, q, a, a)
         /\ \A a, b, c \in Ids : Closer(g, q, a, b) /\ Closer(g, q, b, c) => Closer(g, q, a, c)
         /\ \A a, b \in Ids : a = b \/ Closer(g, q, a, b) \/ Closer(g, q, b, a)
<1> DEFINE d(a) == Distance(g, q, a)
<1>1. ASSUME NEW a \in Ids PROVE d(a) \in Int /\ a \in Int
  BY ConstantsAssumption DEF Distance, Infinity
<1>2. ASSUME NEW a \in Ids, NEW b \in Ids
      PROVE  Closer(g, q, a, b) <=> d(a) < d(b) \/ (d(a) = d(b) /\ a < b)
  BY DEF Closer
<1> HIDE DEF d
<1> QED
  <2>1. \A a \in Ids : d(a) \in Int
    BY <1>1
  <2>2. \A a \in Ids : ~Closer(g, q, a, a)
    BY <1>1, <1>2
  <2>3. ASSUME NEW a \in Ids, NEW b \in Ids, NEW c \in Ids, Closer(g, q, a, b), Closer(g, q, b, c)
        PROVE  Closer(g, q, a, c)
    BY <1>1, <1>2, <2>3
  <2>4. ASSUME NEW a \in Ids, NEW b \in Ids PROVE a = b \/ Closer(g, q, a, b) \/ Closer(g, q, b, a)
    BY <1>1, <1>2
  <2> QED
    BY <2>1, <2>2, <2>3, <2>4 DEF d

\* select_neighbors and connect_nodes keep no more than they are told to.
LEMMA ClosestFew ==
  ASSUME NEW g, NEW q \in Int, NEW n \in Nat, NEW S \in SUBSET Ids
  PROVE  /\ Closest(g, q, n, S) \subseteq S
         /\ Cardinality(Closest(g, q, n, S)) <= n
<1> DEFINE Before(a) == {b \in S : Closer(g, q, b, a)}
<1> DEFINE A == Closest(g, q, n, S)
<1> DEFINE rank == [a \in A |-> Cardinality(Before(a))]
<1>1. IsFiniteSet(S) /\ \A a \in S : IsFiniteSet(Before(a)) /\ Cardinality(Before(a)) \in Nat
  <2>1. IsFiniteSet(S)
    BY ConstantsAssumption, FS_Subset
  <2>2. ASSUME NEW a \in S PROVE IsFiniteSet(Before(a)) /\ Cardinality(Before(a)) \in Nat
    <3>1. Before(a) \in SUBSET S
      OBVIOUS
    <3> QED
      BY <2>1, <3>1, FS_Subset, FS_CardinalityType
  <2> QED
    BY <2>1, <2>2
<1>2. A = {a \in S : Cardinality(Before(a)) < n} /\ A \subseteq S
  BY DEF Closest
<1>3. ASSUME NEW a \in S, NEW b \in S, Closer(g, q, a, b)
      PROVE  Cardinality(Before(a)) < Cardinality(Before(b))
  <2>1. Before(a) \subseteq Before(b) /\ a \in Before(b) /\ a \notin Before(a)
    BY <1>3, Order
  <2>2. Before(a) \in SUBSET Before(b)
    BY <2>1
  <2> QED
    BY <1>1, <2>1, <2>2, FS_Subset
<1>4. rank \in Injection(A, 0 .. n - 1)
  <2>1. rank \in [A -> 0 .. n - 1]
    BY <1>1, <1>2
  <2>2. ASSUME NEW a \in A, NEW b \in A, rank[a] = rank[b] PROVE a = b
    <3>1. rank[a] = Cardinality(Before(a)) /\ rank[b] = Cardinality(Before(b))
      OBVIOUS
    <3>2. a \in S /\ b \in S
      BY <1>2
    <3>3. Cardinality(Before(a)) \in Nat /\ Cardinality(Before(a)) = Cardinality(Before(b))
      BY <1>1, <2>2, <3>1, <3>2
    <3> HIDE DEF rank, A, Before
    <3>4. ~Closer(g, q, a, b) /\ ~Closer(g, q, b, a)
      BY <1>3, <3>2, <3>3
    <3> QED
      BY <3>2, <3>4, Order
  <2> HIDE DEF rank, A
  <2> QED
    BY <2>1, <2>2 DEF Injection, IsInjective
<1>5. IsFiniteSet(0 .. n - 1) /\ Cardinality(0 .. n - 1) = n
  BY FS_Interval
<1> HIDE DEF rank, A
<1>6. Cardinality(A) <= n
  BY <1>4, <1>5, FS_Injection
<1> QED
  BY <1>2, <1>6 DEF A

------------------------------------------------------------------------------
(* A node is linked in.                                                    *)

\* What add finds on a layer.
Found(g, id, start, top, layer) ==
    SearchLayer(g, Position(id),
                Arrive(g, Position(id), start, config.efConstruction, top, layer),
                config.efConstruction, layer)

\* A node is linked on a layer to the closest of what the search of it finds.
LEMMA InsertIs ==
  ASSUME NEW g, NEW id, NEW start, NEW top
  PROVE  \E near : /\ \A layer \in 0 .. top :
                         near[layer] = Closest(g, Position(id), config.M, Found(g, id, start, top, layer))
                   /\ Insert(g, id, start, top) = Relinked(g, id, near, top)
<1> DEFINE near == [layer \in 0 .. top |->
                      Closest(g, Position(id), config.M, Found(g, id, start, top, layer))]
<1>1. Insert(g, id, start, top) = Relinked(g, id, near, top)
  BY DEF Insert, Found
<1>2. \A layer \in 0 .. top :
         near[layer] = Closest(g, Position(id), config.M, Found(g, id, start, top, layer))
  OBVIOUS
<1> HIDE DEF near
<1> WITNESS near
<1> QED
  BY <1>1, <1>2

LinksOf == UNION {[0 .. l -> SUBSET Ids] : l \in 0 .. MaxLevel}

LEMMA NodeIs == Node = [id : Ids, links : LinksOf, deleted : BOOLEAN]
  BY DEF Node, LinksOf

\* connect_nodes and the removal of links over the limit.
LEMMA Connected ==
  ASSUME config \in Config, NEW g, g.nodes \in Seq(Node), NEW i \in DOMAIN g.nodes, NEW id \in Ids,
         NEW layer \in DOMAIN g.nodes[i].links,
         NEW S \in SUBSET Ids, NEW near, near = Closest(g, Position(id), config.M, S)
  PROVE  /\ Connect(g, i, id, near, layer) \in SUBSET Ids
         /\ \/ Cardinality(Connect(g, i, id, near, layer)) <= MaxLinks(layer)
            \/ Connect(g, i, id, near, layer) = g.nodes[i].links[layer]
<1> DEFINE old == g.nodes[i].links[layer]
<1>1. g.nodes[i] \in Node
  OBVIOUS
<1>2. g.nodes[i].id \in Ids /\ old \in SUBSET Ids
  <2>1. PICK l \in 0 .. MaxLevel : g.nodes[i].links \in [0 .. l -> SUBSET Ids]
    BY <1>1, NodeIs DEF LinksOf
  <2> QED
    BY <1>1, <2>1, NodeIs
<1>3. Position(id) \in Int /\ Position(g.nodes[i].id) \in Int
  BY <1>2, ConstantsAssumption
<1>4. config.M \in Nat /\ MaxLinks(layer) \in Nat /\ config.M <= MaxLinks(layer)
  BY DEF MaxLinks, Config
<1>5. near \subseteq S /\ Cardinality(near) <= config.M
  BY <1>3, <1>4, ClosestFew
<1>6. Cardinality(near) <= MaxLinks(layer)
  <2>1. IsFiniteSet(near)
    BY <1>5, ConstantsAssumption, FS_Subset
  <2> QED
    BY <1>4, <1>5, <2>1, FS_CardinalityType
<1>7. /\ Linked(g, i, id, layer) \subseteq old \cup {id}
      /\ Cardinality(Linked(g, i, id, layer)) <= MaxLinks(layer)
  <2>1. old \cup {id} \in SUBSET Ids
    BY <1>2
  <2>2. Linked(g, i, id, layer) = Closest(g, Position(g.nodes[i].id), MaxLinks(layer), old \cup {id})
    BY DEF Linked
  <2> DEFINE q == Position(g.nodes[i].id)
  <2>3. q \in Int
    BY <1>3
  <2> HIDE DEF q, old
  <2>4. /\ Closest(g, q, MaxLinks(layer), old \cup {id}) \subseteq old \cup {id}
        /\ Cardinality(Closest(g, q, MaxLinks(layer), old \cup {id})) <= MaxLinks(layer)
    BY <1>4, <2>1, <2>3, ClosestFew
  <2> QED
    BY <2>2, <2>4 DEF q
<1> QED
  BY <1>2, <1>5, <1>6, <1>7 DEF Connect

\* MaxLinks of an index with m links per node.
Limit(m, layer) == IF layer = 0 THEN 2 * m ELSE m

Few(m, ns) == \A i \in DOMAIN ns : \A layer \in DOMAIN ns[i].links :
                 Cardinality(ns[i].links[layer]) <= Limit(m, layer)

LEMMA LimitIs == \A layer : MaxLinks(layer) = Limit(config.M, layer)
  BY DEF MaxLinks, Limit

\* What add does to the nodes that were there: it links them, and no more.
LEMMA Inserted ==
  ASSUME config \in Config, NEW g, g.nodes \in Seq(Node), NEW id \in Ids, NEW start, NEW top \in Nat
  PROVE  /\ Insert(g, id, start, top) \in Seq(Node)
         /\ Len(Insert(g, id, start, top)) = Len(g.nodes)
         /\ \A i \in 1 .. Len(g.nodes) :
               /\ Insert(g, id, start, top)[i].id = g.nodes[i].id
               /\ Insert(g, id, start, top)[i].deleted = g.nodes[i].deleted
         /\ Few(config.M, g.nodes) => Few(config.M, Insert(g, id, start, top))
<1> DEFINE ns == Insert(g, id, start, top)
<1>1. PICK near :
        /\ \A layer \in 0 .. top :
              near[layer] = Closest(g, Position(id), config.M, Found(g, id, start, top, layer))
        /\ ns = Relinked(g, id, near, top)
  BY InsertIs
<1> DEFINE n == Len(g.nodes)
<1> DEFINE new(i) == [layer \in DOMAIN g.nodes[i].links |->
                        IF layer > top THEN g.nodes[i].links[layer]
                        ELSE Connect(g, i, id, near[layer], layer)]
<1>2. n \in Nat /\ DOMAIN g.nodes = 1 .. n
  OBVIOUS
<1>3. ns = [i \in 1 .. n |-> [g.nodes[i] EXCEPT !.links = new(i)]]
  BY <1>1, <1>2 DEF Relinked
<1> HIDE DEF ns
<1>4. ASSUME NEW i \in 1 .. n
      PROVE  /\ new(i) \in LinksOf
             /\ \A layer \in DOMAIN g.nodes[i].links :
                   \/ Cardinality(new(i)[layer]) <= Limit(config.M, layer)
                   \/ new(i)[layer] = g.nodes[i].links[layer]
  <2>1. g.nodes[i] \in Node
    OBVIOUS
  <2>2. PICK l \in 0 .. MaxLevel : g.nodes[i].links \in [0 .. l -> SUBSET Ids]
    BY <2>1, NodeIs DEF LinksOf
  <2>3. ASSUME NEW layer \in 0 .. l
        PROVE  /\ new(i)[layer] \in SUBSET Ids
               /\ \/ Cardinality(new(i)[layer]) <= Limit(config.M, layer)
                  \/ new(i)[layer] = g.nodes[i].links[layer]
    <3>1. layer \in DOMAIN g.nodes[i].links /\ g.nodes[i].links[layer] \in SUBSET Ids
      BY <2>2
    <3>2. CASE layer > top
      BY <3>1, <3>2
    <3>3. CASE ~(layer > top)
      <4>1. layer \in 0 .. top
        BY <3>3
      <4>2. PICK S \in SUBSET Ids : near[layer] = Closest(g, Position(id), config.M, S)
        BY <1>1, <4>1 DEF Found, SearchLayer, Indexed
      <4>3. new(i)[layer] = Connect(g, i, id, near[layer], layer)
        BY <3>1, <3>3
      <4> HIDE DEF new
      <4> QED
        BY <1>2, <3>1, <4>2, <4>3, Connected, LimitIs
    <3> QED
      BY <3>2, <3>3
  <2>4. new(i) \in [0 .. l -> SUBSET Ids] /\ DOMAIN g.nodes[i].links = 0 .. l
    <3>1. DOMAIN g.nodes[i].links = 0 .. l
      BY <2>2
    <3>2. new(i) = [layer \in 0 .. l |-> new(i)[layer]]
      BY <3>1
    <3> HIDE DEF new
    <3> QED
      BY <2>3, <3>1, <3>2
  <2> HIDE DEF new
  <2> QED
    BY <2>3, <2>4 DEF LinksOf
<1> HIDE DEF new
<1>5. ASSUME NEW i \in 1 .. n
      PROVE  /\ ns[i] \in Node /\ ns[i].id = g.nodes[i].id /\ ns[i].deleted = g.nodes[i].deleted
             /\ ns[i].links = new(i)
  <2>1. g.nodes[i] \in [id : Ids, links : LinksOf, deleted : BOOLEAN]
    <3>1. g.nodes[i] \in Node
      OBVIOUS
    <3> QED
      BY <3>1, NodeIs
  <2>2. ns[i] = [g.nodes[i] EXCEPT !.links = new(i)]
    BY <1>3
  <2> QED
    BY <1>4, <2>1, <2>2, NodeIs
<1>6. ns \in Seq(Node) /\ Len(ns) = n /\ DOMAIN ns = 1 .. n
  <2>1. ns \in [1 .. n -> Node]
    BY <1>3, <1>5
  <2> QED
    BY <1>2, <2>1
<1>7. ASSUME Few(config.M, g.nodes) PROVE Few(config.M, ns)
  <2>1. ASSUME NEW i \in 1 .. n, NEW layer \in DOMAIN ns[i].links
        PROVE  Cardinality(ns[i].links[layer]) <= Limit(config.M, layer)
    <3>1. DOMAIN new(i) = DOMAIN g.nodes[i].links
      BY DEF new
    <3>2. Cardinality(g.nodes[i].links[layer]) <= Limit(config.M, layer)
      BY <1>2, <1>5, <1>7, <3>1 DEF Few
    <3> QED
      BY <1>4, <1>5, <3>1, <3>2
  <2> QED
    BY <1>6, <2>1 DEF Few
<1> QED
  BY <1>5, <1>6, <1>7 DEF ns

------------------------------------------------------------------------------
(* The inductive invariant.                                                *)

\* p is the place of the last node with an id.
IsLast(ns, id, p) == /\ p \in DOMAIN ns /\ ns[p].id = id
                     /\ \A j \in DOMAIN ns : ns[j].id = id => j <= p

\* Nodes and an index of them: links are few, and an id that is indexed is
\* indexed by its last node, so that load, which sees no deleted flags, finds
\* the same one again.
Sound(m, ns, ix) == /\ ns \in Seq(Node) /\ Len(ns) <= MaxNodes
                    /\ ix \in [Ids -> 0 .. Len(ns)]
                    /\ Few(m, ns)
                    /\ \A id \in Ids : ix[id] # 0 => IsLast(ns, id, ix[id])

Scalars(e, top, n, max, cut) == /\ e \in Ids \cup {0} /\ top \in 0 .. MaxLevel
                                /\ n \in 0 .. SizeMod - 1 /\ max \in Capacities
                                /\ cut \in BOOLEAN

Inv == /\ Sound(config.M, nodes, index) /\ config \in Config
       /\ Scalars(entry, topLevel, count, maxElements, intact)
       /\ file.saved => /\ Sound(file.config.M, file.nodes, file.index) /\ file.config \in Config
                        /\ Scalars(file.entry, file.topLevel, file.count, file.maxElements,
                                   file.intact)

LEMMA Bounds == /\ Cardinality(Ids) \in Nat /\ SizeMod \in Nat /\ SizeMod > Cardinality(Ids)
                /\ MaxLevel \in Nat /\ MaxNodes \in Nat
  BY ConstantsAssumption, FS_CardinalityType

LEMMA InvImplies == Inv => TypeOK /\ LinksBounded
  BY LimitIs DEF Inv, Sound, Scalars, TypeOK, LinksBounded, Few

LEMMA Starts == Init => Inv
<1> SUFFICES ASSUME Init PROVE Inv
  OBVIOUS
<1>1. nodes \in Seq(Node) /\ Len(nodes) = 0 /\ DOMAIN nodes = {}
  BY DEF Init
<1>2. Sound(config.M, nodes, index)
  BY <1>1, Bounds DEF Sound, Init, Few
<1>3. Scalars(entry, topLevel, count, maxElements, intact)
  BY Bounds DEF Init, Scalars
<1>4. file.saved = FALSE
  BY DEF Init, NoFile
<1> QED
  BY <1>2, <1>3, <1>4, ConstantsAssumption DEF Inv, Init

\* The node of an id is pushed last.
LEMMA Pushes ==
  ASSUME config \in Config, Sound(config.M, nodes, index), Len(nodes) < MaxNodes, NEW id \in Ids, NEW level \in 0 .. MaxLevel
  PROVE  /\ Sound(config.M, Pushed(id, level).nodes, Pushed(id, level).index)
         /\ Len(Pushed(id, level).nodes) = Len(nodes) + 1
         /\ Pushed(id, level).index = [index EXCEPT ![id] = Len(nodes) + 1]
         /\ \A i \in 1 .. Len(nodes) : Pushed(id, level).nodes[i] = nodes[i]
         /\ Pushed(id, level).nodes[Len(nodes) + 1].id = id
         /\ Pushed(id, level).nodes[Len(nodes) + 1].deleted = FALSE
<1> DEFINE none == [l \in 0 .. level |-> {}]
<1> DEFINE node == [id |-> id, links |-> none, deleted |-> FALSE]
<1> DEFINE ns == Pushed(id, level).nodes
<1> DEFINE ix == Pushed(id, level).index
<1> DEFINE n == Len(nodes)
<1>1. ns = Append(nodes, node) /\ ix = [index EXCEPT ![id] = n + 1]
  BY DEF Pushed
<1>2. node \in Node
  <2>1. none \in [0 .. level -> SUBSET Ids]
    OBVIOUS
  <2>2. none \in LinksOf
    BY <2>1 DEF LinksOf
  <2> HIDE DEF none
  <2> QED
    BY <2>2, NodeIs
<1>3. \A l \in DOMAIN node.links : Cardinality(node.links[l]) <= Limit(config.M, l)
  BY FS_EmptySet DEF Limit, Config
<1>4. node.id = id /\ node.deleted = FALSE
  OBVIOUS
<1> HIDE DEF node, ns, ix
<1>5. nodes \in Seq(Node) /\ n \in Nat /\ n < MaxNodes /\ index \in [Ids -> 0 .. n] /\ MaxNodes \in Nat
  BY Bounds DEF Sound
<1>6. /\ ns \in Seq(Node) /\ Len(ns) = n + 1 /\ DOMAIN ns = 1 .. n + 1 /\ DOMAIN nodes = 1 .. n
      /\ \A i \in 1 .. n : ns[i] = nodes[i]
      /\ ns[n + 1] = node
  BY <1>1, <1>2, <1>5
<1>7. ix \in [Ids -> 0 .. n + 1]
  BY <1>1, <1>5
<1>8. Few(config.M, ns)
  <2>1. ASSUME NEW i \in 1 .. n + 1, NEW l \in DOMAIN ns[i].links
        PROVE  Cardinality(ns[i].links[l]) <= Limit(config.M, l)
    <3>1. CASE i = n + 1
      BY <1>3, <1>6, <3>1
    <3>2. CASE i \in 1 .. n
      BY <1>6, <3>2 DEF Sound, Few
    <3> QED
      BY <1>5, <3>1, <3>2
  <2> QED
    BY <1>6, <2>1 DEF Few
<1>9. ASSUME NEW other \in Ids, ix[other] # 0 PROVE IsLast(ns, other, ix[other])
  <2>1. CASE other = id
    BY <1>1, <1>4, <1>5, <1>6, <2>1 DEF IsLast
  <2>2. CASE other # id
    <3>1. ix[other] = index[other] /\ index[other] \in 1 .. n
      BY <1>1, <1>5, <1>9, <2>2
    <3>2. IsLast(nodes, other, index[other])
      BY <3>1 DEF Sound
    <3>3. \A j \in 1 .. n + 1 : j = n + 1 \/ j \in 1 .. n
      BY <1>5
    <3> QED
      BY <1>4, <1>6, <2>2, <3>1, <3>2, <3>3 DEF IsLast
  <2> QED
    BY <2>1, <2>2
<1>10. Sound(config.M, ns, ix)
  BY <1>5, <1>6, <1>7, <1>8, <1>9 DEF Sound
<1> QED
  BY <1>1, <1>4, <1>6, <1>10 DEF ns, ix

\* The nodes after add: the old ones with more links, and a new one that is
\* indexed.
Grown(id) == /\ Sound(config.M, nodes', index')
             /\ Len(nodes') = Len(nodes) + 1
             /\ index' = [index EXCEPT ![id] = Len(nodes) + 1]
             /\ \A i \in 1 .. Len(nodes) : nodes'[i].id = nodes[i].id
                                           /\ nodes'[i].deleted = nodes[i].deleted
             /\ nodes'[Len(nodes) + 1].id = id
             /\ nodes'[Len(nodes) + 1].deleted = FALSE

LEMMA Grows ==
  ASSUME config \in Config, Sound(config.M, nodes, index), Len(nodes) < MaxNodes, NEW id \in Ids, NEW level \in 0 .. MaxLevel,
         topLevel \in Nat, AddFirst(id, level) \/ AddLinked(id, level)
  PROVE  Grown(id)
<1>1. CASE AddFirst(id, level)
  <2>1. nodes' = Pushed(id, level).nodes /\ index' = Pushed(id, level).index
    BY <1>1 DEF AddFirst
  <2> DEFINE g == Pushed(id, level)
  <2>2. /\ Sound(config.M, g.nodes, g.index) /\ Len(g.nodes) = Len(nodes) + 1
        /\ g.index = [index EXCEPT ![id] = Len(nodes) + 1]
        /\ \A i \in 1 .. Len(nodes) : g.nodes[i] = nodes[i]
        /\ g.nodes[Len(nodes) + 1].id = id /\ g.nodes[Len(nodes) + 1].deleted = FALSE
    BY Pushes, ZenonT(60)
  <2>3. nodes' = g.nodes /\ index' = g.index
    BY <2>1
  <2> HIDE DEF g
  <2> QED
    BY <2>2, <2>3 DEF Grown
<1>2. CASE AddLinked(id, level)
  <2> DEFINE g == Pushed(id, level)
  <2> DEFINE n == Len(nodes)
  <2>1. PICK start : nodes' = Insert(g, id, start, Lower(level, topLevel)) /\ index' = g.index
    BY <1>2 DEF AddLinked
  <2>2. /\ Sound(config.M, g.nodes, g.index) /\ Len(g.nodes) = n + 1
        /\ g.index = [index EXCEPT ![id] = n + 1]
        /\ \A i \in 1 .. n : g.nodes[i] = nodes[i]
        /\ g.nodes[n + 1].id = id /\ g.nodes[n + 1].deleted = FALSE
    BY Pushes, ZenonT(60)
  <2>3. n \in Nat
    BY DEF Sound
  <2>4. Lower(level, topLevel) \in Nat
    BY DEF Lower
  <2> HIDE DEF g
  <2>5. g.nodes \in Seq(Node)
    BY <2>2 DEF Sound
  <2>6. /\ nodes' \in Seq(Node) /\ Len(nodes') = n + 1
        /\ \A i \in 1 .. n + 1 : nodes'[i].id = g.nodes[i].id /\ nodes'[i].deleted = g.nodes[i].deleted
        /\ Few(config.M, nodes')
    BY <2>1, <2>2, <2>4, <2>5, Inserted DEF Sound
  <2>7. DOMAIN nodes' = 1 .. n + 1 /\ DOMAIN g.nodes = 1 .. n + 1
    BY <2>2, <2>5, <2>6
  <2>8. \A other \in Ids, p \in Nat : IsLast(g.nodes, other, p) => IsLast(nodes', other, p)
    BY <2>6, <2>7 DEF IsLast
  <2>9. Sound(config.M, nodes', index')
    <3>1. \A other \in Ids : g.index[other] \in Nat
      BY <2>2, <2>3 DEF Sound
    <3> QED
      BY <2>1, <2>2, <2>6, <2>8, <3>1 DEF Sound
  <2> QED
    BY <2>1, <2>2, <2>3, <2>6, <2>9 DEF Grown
<1> QED
  BY <1>1, <1>2

LEMMA Adds ==
  ASSUME Inv, NEW id \in Ids, Add(id)
  PROVE  Inv' /\ id \notin Live /\ Grown(id) /\ count' = (count + 1) % SizeMod
<1>1. PICK level \in 0 .. MaxLevel : AddFirst(id, level) \/ AddLinked(id, level)
  <2>1. PICK drawn \in 0 .. MaxLevel :
          AddFirst(id, Lower(drawn, topLevel + 1)) \/ AddLinked(id, Lower(drawn, topLevel + 1))
    BY DEF Add
  <2>2. Lower(drawn, topLevel + 1) \in 0 .. MaxLevel
    BY Bounds DEF Lower, Inv, Scalars
  <2> QED
    BY <2>1, <2>2
<1>2. id \notin Live /\ Len(nodes) < MaxNodes
  BY DEF Add
<1>3. topLevel \in Nat /\ count \in Nat /\ count < SizeMod /\ SizeMod \in Nat
  BY Bounds DEF Inv, Scalars
<1>4. Grown(id)
  BY <1>1, <1>2, <1>3, Grows DEF Inv
<1>5. count' = (count + 1) % SizeMod
  <2>1. CASE AddFirst(id, level)
    <3>1. 0 < Cardinality(Ids)
      BY Bounds, FS_EmptySet, ConstantsAssumption
    <3> QED
      BY <1>3, <2>1, <3>1, Bounds DEF AddFirst
  <2>2. CASE AddLinked(id, level)
    BY <2>2 DEF AddLinked
  <2> QED
    BY <1>1, <2>1, <2>2
<1>6. Scalars(entry', topLevel', count', maxElements', intact')
  <2>1. count' \in 0 .. SizeMod - 1
    BY <1>3, <1>5, Bounds
  <2>2. /\ entry' \in {id, entry} /\ topLevel' \in {level, topLevel}
        /\ maxElements' = maxElements /\ intact' \in BOOLEAN
    BY <1>1 DEF AddFirst, AddLinked
  <2> QED
    BY <2>1, <2>2 DEF Inv, Scalars
<1>7. file' = file /\ config' = config
  BY <1>1 DEF AddFirst, AddLinked
<1> QED
  BY <1>2, <1>4, <1>5, <1>6, <1>7 DEF Inv, Grown

LEMMA Removes ==
  ASSUME Inv, NEW id \in Ids, Remove(id)
  PROVE  /\ Inv'
         /\ index[id] \in DOMAIN nodes /\ Len(nodes') = Len(nodes)
         /\ \A i \in DOMAIN nodes : nodes'[i].id = nodes[i].id
               /\ nodes'[i].deleted = (i = index[id] \/ nodes[i].deleted)
<1> DEFINE n == Len(nodes)
<1> DEFINE p == index[id]
<1>1. /\ nodes \in Seq(Node) /\ n \in Nat /\ DOMAIN nodes = 1 .. n
      /\ index \in [Ids -> 0 .. n] /\ p \in 1 .. n
  BY DEF Inv, Sound, Remove, Live, Indexed, Graph
<1>2. nodes' = [nodes EXCEPT ![p].deleted = TRUE] /\ index' = [index EXCEPT ![id] = 0]
  BY DEF Remove
<1> HIDE DEF p
<1>3. ASSUME NEW i \in 1 .. n
      PROVE  /\ nodes'[i] \in Node /\ nodes'[i].id = nodes[i].id /\ nodes'[i].links = nodes[i].links
             /\ nodes'[i].deleted = (i = p \/ nodes[i].deleted)
  <2>1. nodes[i] \in Node
    BY <1>1
  <2>2. nodes[i] \in [id : Ids, links : LinksOf, deleted : BOOLEAN]
    BY <2>1, NodeIs
  <2>3. nodes'[i] = IF i = p THEN [nodes[i] EXCEPT !.deleted = TRUE] ELSE nodes[i]
    BY <1>1, <1>2
  <2> QED
    BY <2>2, <2>3, NodeIs
<1>4. nodes' \in Seq(Node) /\ Len(nodes') = n /\ DOMAIN nodes' = 1 .. n
  <2>1. DOMAIN nodes' = 1 .. n /\ nodes' = [i \in 1 .. n |-> nodes'[i]]
    BY <1>1, <1>2
  <2>2. nodes' \in [1 .. n -> Node]
    BY <1>3, <2>1
  <2> QED
    BY <1>1, <2>1, <2>2
<1>5. Few(config.M, nodes')
  BY <1>1, <1>3, <1>4 DEF Few, Inv, Sound
<1>6. ASSUME NEW other \in Ids, index'[other] # 0 PROVE IsLast(nodes', other, index'[other])
  <2>1. index'[other] = index[other] /\ index[other] # 0
    BY <1>1, <1>2, <1>6
  <2>2. IsLast(nodes, other, index[other])
    BY <2>1 DEF Inv, Sound
  <2> QED
    BY <1>1, <1>3, <1>4, <2>1, <2>2 DEF IsLast
<1>7. Sound(config.M, nodes', index')
  <2>1. index' \in [Ids -> 0 .. n]
    BY <1>1, <1>2
  <2> QED
    BY <1>1, <1>4, <1>5, <1>6, <2>1 DEF Inv, Sound
<1>8. Scalars(entry', topLevel', count', maxElements', intact')
  BY Bounds DEF Remove, Inv, Scalars
<1>9. file' = file /\ config' = config
  BY DEF Remove
<1> QED
  BY <1>1, <1>3, <1>4, <1>7, <1>8, <1>9 DEF Inv, p

LEMMA Resizes ==
  ASSUME Inv, NEW n \in Capacities, Resize(n)
  PROVE  Inv' /\ UNCHANGED <<nodes, index, count>>
BY DEF Resize, Inv, Scalars

LEMMA Widths ==
  ASSUME Inv, NEW ef \in EfSearches, SetEfSearch(ef)
  PROVE  Inv' /\ UNCHANGED <<nodes, index, count>>
<1>1. config' \in Config /\ config'.M = config.M
  BY ConstantsAssumption DEF SetEfSearch, Inv, Config
<1> QED
  BY <1>1 DEF SetEfSearch, Inv

LEMMA Saves ==
  ASSUME Inv, Save
  PROVE  Inv'
<1> DEFINE n == Len(nodes)
<1>1. nodes \in Seq(Node) /\ n \in Nat /\ DOMAIN nodes = 1 .. n
  BY DEF Inv, Sound
<1>2. /\ file'.config = config
      /\ file'.nodes = [i \in 1 .. n |-> SavedNode(nodes[i])] /\ file'.index = index
      /\ Scalars(file'.entry, file'.topLevel, file'.count, file'.maxElements, file'.intact)
  BY <1>1 DEF Save, Inv
<1>3. ASSUME NEW i \in 1 .. n
      PROVE  /\ SavedNode(nodes[i]) \in Node /\ SavedNode(nodes[i]).id = nodes[i].id
             /\ SavedNode(nodes[i]).links = nodes[i].links
  <2>1. nodes[i] \in Node
    BY <1>1
  <2> QED
    BY <2>1, NodeIs DEF SavedNode
<1>4. file'.nodes \in Seq(Node) /\ Len(file'.nodes) = n /\ DOMAIN file'.nodes = 1 .. n
  <2>1. file'.nodes \in [1 .. n -> Node]
    BY <1>2, <1>3
  <2> QED
    BY <1>1, <2>1
<1>5. Few(config.M, file'.nodes)
  BY <1>1, <1>2, <1>3, <1>4 DEF Few, Inv, Sound
<1>6. ASSUME NEW id \in Ids, index[id] # 0 PROVE IsLast(file'.nodes, id, index[id])
  <2>1. IsLast(nodes, id, index[id])
    BY <1>6 DEF Inv, Sound
  <2> QED
    BY <1>1, <1>2, <1>3, <1>4, <2>1 DEF IsLast
<1>7. Sound(config.M, file'.nodes, file'.index)
  BY <1>1, <1>2, <1>4, <1>5, <1>6 DEF Inv, Sound
<1>8. UNCHANGED <<nodes, index, entry, topLevel, count, config, maxElements, intact>>
  BY DEF Save
<1> QED
  BY <1>2, <1>7, <1>8 DEF Inv

------------------------------------------------------------------------------
(* Loading.                                                                *)

LEMMA LastPlaceIs ==
  ASSUME NEW ns, NEW n \in Nat, DOMAIN ns = 1 .. n, NEW id
  PROVE  /\ LastPlace(ns, id) \in 0 .. n
         /\ LastPlace(ns, id) # 0 => IsLast(ns, id, LastPlace(ns, id))
         /\ \A p : IsLast(ns, id, p) => p = LastPlace(ns, id)
<1> DEFINE places == {i \in DOMAIN ns : ns[i].id = id}
<1> DEFINE last == CHOOSE i \in places : \A j \in places : j <= i
<1>1. LastPlace(ns, id) = IF places = {} THEN 0 ELSE last
  BY DEF LastPlace
<1>2. places \in SUBSET (1 .. n)
  OBVIOUS
<1>3. ASSUME places # {} PROVE last \in places /\ \A j \in places : j <= last
  BY <1>2, <1>3, Greatest
<1>4. \A p : IsLast(ns, id, p) => p \in places /\ \A j \in places : j <= p
  BY DEF IsLast
<1> HIDE DEF last
<1>5. \A p : IsLast(ns, id, p) => p = last
  BY <1>2, <1>3, <1>4
<1>6. ASSUME places # {} PROVE IsLast(ns, id, last)
  BY <1>3, <1>6 DEF IsLast
<1> QED
  BY <1>1, <1>2, <1>3, <1>4, <1>5, <1>6

LEMMA Loads ==
  ASSUME Inv, Load
  PROVE  Inv' /\ \A id \in DOMAIN index : file.index[id] # 0 => index'[id] = file.index[id]
<1> DEFINE n == Len(file.nodes)
<1>1. /\ config' = file.config /\ file.config \in Config
      /\ file.saved /\ Sound(file.config.M, file.nodes, file.index) /\ nodes' = file.nodes /\ file' = file
      /\ Scalars(entry', topLevel', count', maxElements', file.intact)
  BY DEF Load, Inv
<1>2. n \in Nat /\ DOMAIN file.nodes = 1 .. n
  BY <1>1 DEF Sound
<1>3. index' = [id \in Ids |-> LastPlace(file.nodes, id)] /\ DOMAIN index = Ids
  BY DEF Load, Inv, Sound
<1>4. intact' \in BOOLEAN
  BY DEF Load
<1>5. index' \in [Ids -> 0 .. n] /\ \A id \in Ids : index'[id] # 0 => IsLast(nodes', id, index'[id])
  BY <1>1, <1>2, <1>3, LastPlaceIs
<1>6. \A id \in Ids : file.index[id] # 0 => index'[id] = file.index[id]
  <2>1. \A id \in Ids : file.index[id] # 0 => IsLast(file.nodes, id, file.index[id])
    BY <1>1 DEF Sound
  <2> QED
    BY <1>2, <1>3, <2>1, LastPlaceIs
<1>7. Sound(config'.M, nodes', index')
  BY <1>1, <1>5 DEF Sound
<1>8. Scalars(entry', topLevel', count', maxElements', intact')
  BY <1>1, <1>4 DEF Scalars
<1> QED
  BY <1>1, <1>3, <1>6, <1>7, <1>8 DEF Inv

LEMMA Steps == Inv /\ [Next]_vars => Inv'
<1> SUFFICES ASSUME Inv, [Next]_vars PROVE Inv'
  OBVIOUS
<1>1. ASSUME NEW id \in Ids, Add(id) PROVE Inv'
  BY <1>1, Adds
<1>2. ASSUME NEW id \in Ids, Remove(id) PROVE Inv'
  BY <1>2, Removes
<1>3. ASSUME NEW n \in Capacities, Resize(n) PROVE Inv'
  BY <1>3, Resizes
<1>7. ASSUME NEW ef \in EfSearches, SetEfSearch(ef) PROVE Inv'
  BY <1>7, Widths
<1>4. CASE Save
  BY <1>4, Saves
<1>5. CASE Load
  BY <1>5, Loads
<1>6. CASE UNCHANGED vars
  BY <1>6 DEF vars, Inv
<1> QED
  BY <1>1, <1>2, <1>3, <1>4, <1>5, <1>6, <1>7 DEF Next, Update

\* Through every update, save and load, of an index of any size, the state is
\* of its type and no node has more links on a layer than connect_nodes allows.
THEOREM LinksStayFew == Spec => [](TypeOK /\ LinksBounded)
<1>1. Inv => TypeOK /\ LinksBounded
  BY InvImplies
<1> QED
  BY <1>1, Starts, Steps, PTL DEF Spec

\* A vector that was indexed when the index was saved is served by the same
\* node after every load, though the file has no deleted flags: the node of an
\* id that is indexed is always the last with that id.
THEOREM LoadsKeepVectors == Spec => LoadKeepsVectors
<1>1. Inv /\ [Next]_vars =>
        [Load => \A id \in DOMAIN index : file.index[id] # 0 => index'[id] = file.index[id]]_vars
  BY Loads
<1> QED
  BY <1>1, Starts, Steps, PTL DEF Spec, LoadKeepsVectors

------------------------------------------------------------------------------
(* One process: the index and the deleted flags.                           *)

LEMMA LiveIs == Live = {id \in Ids : index[id] # 0}
  BY DEF Live, Indexed, Graph

LEMMA LiveFinite == IsFiniteSet(Live) /\ Cardinality(Live) \in Nat /\ Cardinality(Live) <= Cardinality(Ids)
<1>1. Live \in SUBSET Ids
  BY LiveIs
<1> QED
  BY <1>1, ConstantsAssumption, FS_Subset, FS_CardinalityType

LEMMA AddsExactly ==
  ASSUME Inv, IndexExact, CountExact, NEW id \in Ids, Add(id)
  PROVE  IndexExact' /\ CountExact'
<1> DEFINE n == Len(nodes)
<1>1. /\ id \notin Live /\ Grown(id) /\ count' = (count + 1) % SizeMod
  BY Adds
<1>2. /\ n \in Nat /\ DOMAIN nodes = 1 .. n /\ DOMAIN nodes' = 1 .. n + 1
      /\ index \in [Ids -> 0 .. n] /\ index' = [index EXCEPT ![id] = n + 1]
  BY <1>1 DEF Inv, Sound, Grown
<1>3. Live' = Live \cup {id} /\ \A other \in Live : index'[other] = index[other]
  <2>1. Live' = {other \in Ids : index'[other] # 0}
    BY DEF Live, Indexed, Graph
  <2> QED
    BY <1>1, <1>2, <2>1, LiveIs
<1>4. CountExact'
  <2>1. Cardinality(Live') = Cardinality(Live) + 1
    BY <1>1, <1>3, LiveFinite, FS_AddElement
  <2>2. Cardinality(Live') <= Cardinality(Ids)
    <3>1. Live' \in SUBSET Ids
      BY <1>3, LiveIs
    <3> QED
      BY <3>1, ConstantsAssumption, FS_Subset
  <2>3. \A k \in Nat : k < SizeMod => k % SizeMod = k
    BY Bounds
  <2> QED
    BY <1>1, <2>1, <2>2, <2>3, Bounds, LiveFinite DEF CountExact
<1>5. \A other \in Live' : nodes'[index'[other]].id = other
  <2>1. ASSUME NEW other \in Live PROVE nodes'[index'[other]].id = other
    <3>1. index[other] \in 1 .. n /\ nodes[index[other]].id = other
      BY <1>2, LiveIs DEF IndexExact
    <3> QED
      BY <1>1, <1>3, <3>1 DEF Grown
  <2>2. nodes'[index'[id]].id = id
    BY <1>1, <1>2 DEF Grown
  <2> QED
    BY <1>3, <2>1, <2>2
<1>6. {index'[other] : other \in Live'} = {i \in DOMAIN nodes' : ~nodes'[i].deleted}
  <2>1. {index'[other] : other \in Live'} = {index[other] : other \in Live} \cup {n + 1}
    BY <1>2, <1>3
  <2>2. {i \in DOMAIN nodes' : ~nodes'[i].deleted} = {i \in DOMAIN nodes : ~nodes[i].deleted} \cup {n + 1}
    <3>1. \A i \in 1 .. n : nodes'[i].deleted = nodes[i].deleted
      BY <1>1 DEF Grown
    <3>2. nodes'[n + 1].deleted = FALSE
      BY <1>1 DEF Grown
    <3>3. 1 .. n + 1 = (1 .. n) \cup {n + 1} /\ n + 1 \notin 1 .. n
      BY <1>2
    <3> QED
      BY <1>2, <3>1, <3>2, <3>3
  <2> QED
    BY <2>1, <2>2 DEF IndexExact
<1> QED
  BY <1>4, <1>5, <1>6 DEF IndexExact

LEMMA RemovesExactly ==
  ASSUME Inv, IndexExact, CountExact, NEW id \in Ids, Remove(id)
  PROVE  IndexExact' /\ CountExact'
<1> DEFINE n == Len(nodes)
<1>1. /\ n \in Nat /\ DOMAIN nodes = 1 .. n /\ DOMAIN nodes' = 1 .. n
      /\ index \in [Ids -> 0 .. n] /\ index' = [index EXCEPT ![id] = 0] /\ index[id] \in 1 .. n
      /\ \A i \in 1 .. n : /\ nodes'[i].id = nodes[i].id
                           /\ nodes'[i].deleted = (i = index[id] \/ nodes[i].deleted)
  <2>1. /\ Inv' /\ index[id] \in DOMAIN nodes /\ Len(nodes') = n
        /\ \A i \in DOMAIN nodes : nodes'[i].id = nodes[i].id
              /\ nodes'[i].deleted = (i = index[id] \/ nodes[i].deleted)
    BY Removes
  <2>2. nodes \in Seq(Node) /\ nodes' \in Seq(Node) /\ index \in [Ids -> 0 .. n]
    BY <2>1 DEF Inv, Sound
  <2>3. n \in Nat /\ DOMAIN nodes = 1 .. n /\ DOMAIN nodes' = 1 .. n
    BY <2>1, <2>2
  <2>4. index' = [index EXCEPT ![id] = 0]
    BY DEF Remove
  <2> QED
    BY <2>1, <2>2, <2>3, <2>4
<1>2. Live' = Live \ {id} /\ id \in Live /\ \A other \in Live' : index'[other] = index[other]
  <2>1. Live' = {other \in Ids : index'[other] # 0}
    BY DEF Live, Indexed, Graph
  <2> QED
    BY <1>1, <2>1, LiveIs
<1>3. CountExact'
  <2>1. Cardinality(Live') = Cardinality(Live) - 1 /\ Cardinality(Live') \in Nat
    BY <1>2, LiveFinite, FS_RemoveElement, FS_CardinalityType
  <2>2. \A k \in Nat : k + 1 < SizeMod => (k + 1 + SizeMod - 1) % SizeMod = k
    <3>1. ASSUME NEW k \in Nat, k + 1 < SizeMod PROVE (k + 1 + SizeMod - 1) % SizeMod = k
      BY <3>1, Bounds
    <3> QED
      BY <3>1
  <2>3. count = Cardinality(Live') + 1 /\ count < SizeMod
    BY <2>1, Bounds, LiveFinite DEF CountExact
  <2>4. count' = (count + SizeMod - 1) % SizeMod
    BY DEF Remove
  <2> QED
    BY <2>1, <2>2, <2>3, <2>4 DEF CountExact
<1>4. \A other \in Live' : nodes'[index'[other]].id = other
  <2>1. ASSUME NEW other \in Live' PROVE nodes'[index'[other]].id = other
    <3>1. other \in Live /\ index[other] \in 1 .. n /\ nodes[index[other]].id = other
      BY <1>1, <1>2, LiveIs DEF IndexExact
    <3> QED
      BY <1>1, <1>2, <3>1
  <2> QED
    BY <2>1
<1>5. {index'[other] : other \in Live'} = {i \in DOMAIN nodes' : ~nodes'[i].deleted}
  <2>1. \A other \in Live : other # id => index[other] # index[id]
    BY <1>2 DEF IndexExact
  <2>2. {index'[other] : other \in Live'} = {index[other] : other \in Live} \ {index[id]}
    BY <1>2, <2>1
  <2>3. {i \in DOMAIN nodes' : ~nodes'[i].deleted} = {i \in DOMAIN nodes : ~nodes[i].deleted} \ {index[id]}
    BY <1>1
  <2> QED
    BY <2>2, <2>3 DEF IndexExact
<1> QED
  BY <1>3, <1>4, <1>5 DEF IndexExact

LEMMA StartsExactly == Init => IndexExact /\ CountExact
<1> SUFFICES ASSUME Init PROVE IndexExact /\ CountExact
  OBVIOUS
<1>1. Live = {} /\ DOMAIN nodes = {}
  BY LiveIs DEF Init
<1> QED
  BY <1>1, FS_EmptySet DEF Init, IndexExact, CountExact

LEMMA UpdatesExactly ==
  ASSUME Inv, IndexExact, CountExact, [Update]_vars
  PROVE  IndexExact' /\ CountExact'
<1>1. ASSUME NEW id \in Ids, Add(id) PROVE IndexExact' /\ CountExact'
  BY <1>1, AddsExactly
<1>2. ASSUME NEW id \in Ids, Remove(id) PROVE IndexExact' /\ CountExact'
  BY <1>2, RemovesExactly
<1>3. ASSUME UNCHANGED <<nodes, index, count>> PROVE IndexExact' /\ CountExact'
  BY <1>3 DEF IndexExact, CountExact, Live, Indexed, Graph
<1>4. ASSUME NEW n \in Capacities, Resize(n) PROVE IndexExact' /\ CountExact'
  BY <1>3, <1>4, Resizes
<1>5. ASSUME NEW ef \in EfSearches, SetEfSearch(ef) PROVE IndexExact' /\ CountExact'
  BY <1>3, <1>5, Widths
<1>6. CASE UNCHANGED vars
  BY <1>3, <1>6 DEF vars
<1> QED
  BY <1>1, <1>2, <1>4, <1>5, <1>6 DEF Update

\* In one process id_to_index_, the deleted flags and element_count_ agree
\* whatever is added, removed and added again: every indexed id has exactly one
\* node that is not deleted, its own, and size() counts them without wrapping.
THEOREM IndexStaysExact == ProcessSpec => [](IndexExact /\ CountExact)
<1>1. Inv /\ IndexExact /\ CountExact /\ [Update]_vars => (Inv /\ IndexExact /\ CountExact)'
  <2>1. [Update]_vars => [Next]_vars
    BY DEF Next
  <2> QED
    BY <2>1, Steps, UpdatesExactly
<1> QED
  BY <1>1, Starts, StartsExactly, PTL DEF ProcessSpec

SmallInv == instance = "small" => Inv /\ IndexExact /\ CountExact

LEMMA SmallStays == MCSpec => []SmallInv
<1>1. MCInit => SmallInv
  BY Starts, StartsExactly DEF MCInit, SmallInv
<1>2. SmallInv /\ [MCNext]_<<vars, instance>> => SmallInv'
  <2> SUFFICES ASSUME SmallInv, [MCNext]_<<vars, instance>>, instance' = "small"
               PROVE  (Inv /\ IndexExact /\ CountExact)'
    BY DEF SmallInv
  <2>1. instance = "small" /\ [Update]_vars
    BY DEF MCNext, vars
  <2>2. Inv /\ IndexExact /\ CountExact /\ [Next]_vars
    BY <2>1 DEF SmallInv, Next
  <2> QED
    BY <2>1, <2>2, Steps, UpdatesExactly
<1> QED
  BY <1>1, <1>2, PTL DEF MCSpec

\* The same of the instance TLC checks.
THEOREM SmallExact == MCSpec => []SmallIndexExact
<1>1. SmallInv => SmallIndexExact
  BY InvImplies DEF SmallInv, SmallIndexExact
<1> QED
  BY <1>1, SmallStays, PTL

------------------------------------------------------------------------------
(* What a search finds.                                                     *)

Before(g, q, S, a) == {b \in S : Closer(g, q, b, a)}

LEMMA Ranks ==
  ASSUME NEW g, NEW q \in Int, NEW S \in SUBSET Ids
  PROVE  /\ IsFiniteSet(S)
         /\ \A a \in S : /\ IsFiniteSet(Before(g, q, S, a))
                         /\ Cardinality(Before(g, q, S, a)) \in Nat
                         /\ Cardinality(Before(g, q, S, a)) < Cardinality(S)
         /\ \A a, b \in S : Closer(g, q, a, b) =>
               Cardinality(Before(g, q, S, a)) < Cardinality(Before(g, q, S, b))
<1>1. IsFiniteSet(S)
  BY ConstantsAssumption, FS_Subset
<1>2. ASSUME NEW a \in S
      PROVE  /\ IsFiniteSet(Before(g, q, S, a)) /\ Cardinality(Before(g, q, S, a)) \in Nat
             /\ Cardinality(Before(g, q, S, a)) < Cardinality(S)
  <2>1. Before(g, q, S, a) \in SUBSET S /\ a \notin Before(g, q, S, a)
    BY Order DEF Before
  <2> QED
    BY <1>1, <2>1, FS_Subset, FS_CardinalityType
<1>3. ASSUME NEW a \in S, NEW b \in S, Closer(g, q, a, b)
      PROVE  Cardinality(Before(g, q, S, a)) < Cardinality(Before(g, q, S, b))
  <2>1. /\ Before(g, q, S, a) \in SUBSET Before(g, q, S, b)
        /\ a \in Before(g, q, S, b) /\ a \notin Before(g, q, S, a)
    BY <1>3, Order DEF Before
  <2> QED
    BY <1>2, <2>1, FS_Subset
<1> QED
  BY <1>1, <1>2, <1>3

\* Of the members of a set of ids one is the nearest.
LEMMA NearestIs ==
  ASSUME NEW g, NEW q \in Int, NEW S \in SUBSET Ids, S # {}
  PROVE  /\ Nearest(g, q, S) \in S
         /\ \A n \in Nat \ {0} : Closest(g, q, n, S) # {}
<1> DEFINE rank(a) == Cardinality(Before(g, q, S, a))
<1>1. \A a \in S : rank(a) \in Nat
  BY Ranks
<1>2. PICK a \in S : \A b \in S : ~(rank(b) < rank(a))
  <2> DEFINE R == {rank(b) : b \in S}
  <2> HIDE DEF rank
  <2>1. R # {} /\ R \subseteq Nat
    BY <1>1
  <2>2. PICK r \in R : \A t \in R : <<t, r>> \notin OpToRel(<, Nat)
    BY <2>1, WFMin, NatLessThanWellFounded
  <2>3. \A t \in R : ~(t < r)
    BY <2>1, <2>2 DEF OpToRel
  <2> QED
    BY <2>3
<1>3. \A b \in S \ {a} : Closer(g, q, a, b)
  BY <1>2, Ranks, Order
<1>4. Nearest(g, q, S) \in S
  BY <1>3 DEF Nearest
<1>5. Before(g, q, S, a) = {}
  <2>1. ASSUME NEW b \in Before(g, q, S, a) PROVE FALSE
    <3>1. b \in S /\ Closer(g, q, b, a)
      BY DEF Before
    <3> QED
      BY <1>2, <3>1, Ranks
  <2> QED
    BY <2>1
<1>6. \A n \in Nat \ {0} : a \in Closest(g, q, n, S)
  BY <1>5, FS_EmptySet DEF Closest, Before
<1> QED
  BY <1>4, <1>6

\* There are no more than n of few.
LEMMA ClosestAll ==
  ASSUME NEW g, NEW q \in Int, NEW S \in SUBSET Ids, NEW n \in Nat, Cardinality(S) <= n
  PROVE  Closest(g, q, n, S) = S
<1>1. Cardinality(S) \in Nat
  BY Ranks, FS_CardinalityType
<1>2. \A a \in S : Cardinality(Before(g, q, S, a)) < n
  BY <1>1, Ranks
<1> QED
  BY <1>2 DEF Closest, Before

\* A set of indexed ids which the links of a layer do not lead out of.
Closed(g, W, layer) ==
    /\ W \subseteq Indexed(g) /\ W # {}
    /\ \A a \in W : Links(g, a, layer) \subseteq Ids /\ Links(g, a, layer) \cap Indexed(g) \subseteq W

\* The states of a search which has found members of W only.
Searches(W) == [candidates : SUBSET W, results : (SUBSET W) \ {{}}, visited : SUBSET Ids]

LEMMA Expands ==
  ASSUME NEW g, NEW q \in Int, NEW ef \in Nat \ {0}, NEW layer, NEW W, Closed(g, W, layer),
         NEW search \in Searches(W), ~Ended(g, q, ef, search)
  PROVE  Expanded(g, q, ef, layer, search) \in Searches(W)
<1> DEFINE current == Nearest(g, q, search.candidates)
<1> DEFINE links == Links(g, current, layer)
<1> DEFINE found == (links \ search.visited) \cap Indexed(g)
<1> DEFINE wider == search.results \cup found
<1>1. /\ search.candidates \subseteq W /\ search.results \subseteq W /\ search.results # {}
      /\ search.visited \subseteq Ids /\ search.candidates # {} /\ W \subseteq Ids
  BY DEF Searches, Ended, Closed, Indexed
<1>2. current \in W
  BY <1>1, NearestIs
<1> HIDE DEF current
<1>3. links \subseteq Ids /\ found \subseteq W
  BY <1>2 DEF Closed
<1> HIDE DEF links, found
<1>4. wider \subseteq W /\ wider # {} /\ wider \in SUBSET Ids
  BY <1>1, <1>3
<1> HIDE DEF wider
<1>5. Closest(g, q, ef, wider) \subseteq W /\ Closest(g, q, ef, wider) # {}
  BY <1>4, ClosestFew, NearestIs
<1>6. Expanded(g, q, ef, layer, search) =
        [candidates |-> (search.candidates \ {current}) \cup found,
         results |-> Closest(g, q, ef, wider), visited |-> search.visited \cup links]
  BY DEF Expanded, current, links, found, wider
<1> QED
  BY <1>1, <1>3, <1>5, <1>6 DEF Searches

\* f is the loop of search_layer, round by round.
Loop(g, q, start, ef, layer, W, f) ==
    /\ f \in [0 .. Cardinality(Ids) + 1 -> Searches(W)]
    /\ f[0] = [candidates |-> {start}, results |-> {start}, visited |-> {start}]
    /\ \A round \in 1 .. Cardinality(Ids) + 1 :
          f[round] = IF Ended(g, q, ef, f[round - 1]) THEN f[round - 1]
                     ELSE Expanded(g, q, ef, layer, f[round - 1])
    /\ Explore(g, q, start, ef, layer) = f[Cardinality(Ids) + 1].results

LEMMA ExploreIs ==
  ASSUME NEW g, NEW q \in Int, NEW ef \in Nat \ {0}, NEW layer, NEW W, Closed(g, W, layer),
         NEW start \in W
  PROVE  \E f : Loop(g, q, start, ef, layer, W, f)
<1> DEFINE n == Cardinality(Ids) + 1
<1> DEFINE S == Searches(W)
<1> DEFINE first == [candidates |-> {start}, results |-> {start}, visited |-> {start}]
<1> DEFINE next(s) == IF Ended(g, q, ef, s) THEN s ELSE Expanded(g, q, ef, layer, s)
<1> DEFINE Body(f) == [round \in 0 .. n |-> IF round = 0 THEN first ELSE next(f[round - 1])]
<1> DEFINE search == CHOOSE f : f = Body(f)
<1> DEFINE step == [i \in 1 .. n |-> [s \in S |-> next(s)]]
<1>1. n \in Nat
  BY Bounds
<1>2. Explore(g, q, start, ef, layer) = search[n].results
  BY Zenon DEF Explore
<1>3. first \in S
  <2>1. start \in Ids
    BY DEF Closed, Indexed
  <2> QED
    BY <2>1 DEF Searches
<1>4. \A s \in S : next(s) \in S
  BY Expands
<1> HIDE DEF first, next, S
<1>5. step \in [1 .. n -> [S -> S]]
  BY <1>4
<1>6. \A i \in 1 .. n, s \in S : step[i][s] = next(s)
  OBVIOUS
<1> HIDE DEF step, n
<1> HIDE DEF Body, search
<1>7. PICK f : Run(n, S, first, step, f)
  BY <1>1, <1>3, <1>5, Recursion
<1>8. \A i \in 1 .. n : f[i] = next(f[i - 1])
  <2>1. \A i \in 1 .. n : i \in 0 .. n /\ i - 1 \in 0 .. n
    BY <1>1
  <2> QED
    BY <1>6, <1>7, <2>1 DEF Run
<1>9. f = Body(f)
  <2> USE DEF Body
  <2>1. \A i \in 0 .. n : f[i] = IF i = 0 THEN first ELSE next(f[i - 1])
    BY <1>1, <1>7, <1>8 DEF Run
  <2> QED
    BY <1>7, <2>1 DEF Run
<1>10. search = Body(search)
  BY <1>9 DEF search
<1>11. \A i \in 0 .. n : search[i] = IF i = 0 THEN first ELSE next(search[i - 1])
  BY <1>10 DEF Body
<1>12. search \in [0 .. n -> S]
  <2> DEFINE G == {i \in 0 .. n : search[i] \in S}
  <2>1. 0 \in G
    BY <1>1, <1>3, <1>11
  <2>2. ASSUME NEW i \in 1 .. n, i - 1 \in G PROVE i \in G
    <3>1. i \in 0 .. n /\ search[i] = next(search[i - 1])
      BY <1>1, <1>11
    <3> QED
      BY <1>4, <2>2, <3>1
  <2> HIDE DEF G
  <2>3. \A i \in 0 .. n : i \in G
    BY <1>1, <2>1, <2>2, Interval
  <2>4. search = [i \in 0 .. n |-> search[i]]
    BY <1>10 DEF Body
  <2> QED
    BY <2>3, <2>4 DEF G
<1>13. search[0] = first /\ \A i \in 1 .. n : search[i] = next(search[i - 1])
  BY <1>1, <1>11
<1>14. Loop(g, q, start, ef, layer, W, search)
  BY <1>2, <1>12, <1>13 DEF Loop, n, first, next, S
<1> QED
  BY <1>14

\* What search_layer returns are the results, which are indexed.
LEMMA SearchIn ==
  ASSUME NEW g, NEW q \in Int, NEW ef \in Nat \ {0}, NEW layer, NEW W, Closed(g, W, layer),
         NEW start \in W
  PROVE  /\ SearchLayer(g, q, start, ef, layer) = Explore(g, q, start, ef, layer)
         /\ SearchLayer(g, q, start, ef, layer) \in (SUBSET W) \ {{}}
<1>1. Cardinality(Ids) + 1 \in 0 .. Cardinality(Ids) + 1
  BY Bounds
<1>2. PICK f : Loop(g, q, start, ef, layer, W, f)
  BY ExploreIs
<1>3. Explore(g, q, start, ef, layer) \in (SUBSET W) \ {{}}
  BY <1>1, <1>2 DEF Loop, Searches
<1> QED
  BY <1>3 DEF SearchLayer, Closed

\* The links of the layer join every two of W.
Joined(g, W, layer) == \A a, b \in W : a # b => b \in Links(g, a, layer)

\* A search wide enough finds all of a set that is joined: nothing is pruned,
\* and its first round sees everything.
LEMMA SearchAll ==
  ASSUME NEW g, NEW q \in Int, NEW ef \in Nat \ {0}, NEW layer, NEW W, Closed(g, W, layer),
         NEW start \in W, Joined(g, W, layer), ef >= Cardinality(Ids)
  PROVE  SearchLayer(g, q, start, ef, layer) = W
<1> DEFINE n == Cardinality(Ids) + 1
<1>1. PICK f : Loop(g, q, start, ef, layer, W, f)
  BY ExploreIs
<1>0. /\ f \in [0 .. n -> Searches(W)]
      /\ f[0] = [candidates |-> {start}, results |-> {start}, visited |-> {start}]
      /\ \A round \in 1 .. n :
            f[round] = IF Ended(g, q, ef, f[round - 1]) THEN f[round - 1]
                       ELSE Expanded(g, q, ef, layer, f[round - 1])
      /\ Explore(g, q, start, ef, layer) = f[n].results
  BY <1>1 DEF Loop
<1>2. W \subseteq Ids /\ W \subseteq Indexed(g) /\ n \in Nat /\ n >= 1
  BY Bounds DEF Closed, Indexed
<1>3. Closest(g, q, ef, W) = W
  <2>1. Cardinality(W) <= Cardinality(Ids) /\ Cardinality(W) \in Nat
    BY <1>2, ConstantsAssumption, FS_Subset, FS_CardinalityType
  <2> QED
    BY <1>2, <2>1, Bounds, ClosestAll
<1>4. ASSUME NEW search \in Searches(W), search.results = W, ~Ended(g, q, ef, search)
      PROVE  Expanded(g, q, ef, layer, search).results = W
  <2> DEFINE current == Nearest(g, q, search.candidates)
  <2> DEFINE found == (Links(g, current, layer) \ search.visited) \cap Indexed(g)
  <2>1. search.candidates \in SUBSET Ids /\ search.candidates # {} /\ search.candidates \subseteq W
    BY <1>2, <1>4 DEF Searches, Ended
  <2>2. current \in W
    BY <2>1, NearestIs
  <2> HIDE DEF current
  <2>3. found \subseteq W
    BY <2>2 DEF Closed
  <2> HIDE DEF found
  <2>4. Expanded(g, q, ef, layer, search).results = Closest(g, q, ef, search.results \cup found)
    BY DEF Expanded, current, found
  <2>5. search.results \cup found = W
    BY <1>4, <2>3
  <2> QED
    BY <1>3, <2>4, <2>5
<1>5. f[1].results = W
  <2> DEFINE first == [candidates |-> {start}, results |-> {start}, visited |-> {start}]
  <2>1. Nearest(g, q, {start}) = start /\ Farthest(g, q, {start}) = start
    BY DEF Nearest, Farthest
  <2>2. ~Ended(g, q, ef, first)
    <3>1. Distance(g, q, start) \in Int
      BY <1>2, Order
    <3>2. ~(Distance(g, q, start) > Distance(g, q, start))
      BY <3>1
    <3> QED
      BY <2>1, <3>2 DEF Ended
  <2>3. 1 \in 1 .. n /\ 1 - 1 = 0
    BY <1>2
  <2>4. f[1] = Expanded(g, q, ef, layer, first)
    BY <1>0, <2>2, <2>3
  <2> DEFINE found == (Links(g, start, layer) \ {start}) \cap Indexed(g)
  <2>5. {start} \cup found = W
    BY <1>2 DEF Closed, Joined
  <2> HIDE DEF found
  <2>6. Expanded(g, q, ef, layer, first).results = Closest(g, q, ef, {start} \cup found)
    BY <2>1 DEF Expanded, found
  <2> QED
    BY <1>3, <2>4, <2>5, <2>6
<1> DEFINE G == {i \in 0 .. n : i = 0 \/ f[i].results = W}
<1>6. 0 \in G
  BY <1>2
<1>7. ASSUME NEW i \in 1 .. n, i - 1 \in G PROVE i \in G
  <2>1. CASE i = 1
    BY <1>5, <2>1
  <2>2. CASE i # 1
    <3>0. i - 1 \in 0 .. n /\ i - 1 # 0
      BY <1>2, <2>2
    <3>1. f[i - 1].results = W /\ f[i - 1] \in Searches(W)
      BY <1>0, <1>7, <3>0
    <3>2. f[i] = IF Ended(g, q, ef, f[i - 1]) THEN f[i - 1]
                 ELSE Expanded(g, q, ef, layer, f[i - 1])
      BY <1>0
    <3>3. f[i].results = W
      BY <1>4, <3>1, <3>2
    <3> QED
      BY <3>3
  <2> QED
    BY <2>1, <2>2
<1> HIDE DEF G
<1>8. \A i \in 0 .. n : i \in G
  BY <1>2, <1>6, <1>7, Interval
<1>9. f[n].results = W
  BY <1>2, <1>8 DEF G
<1>10. SearchLayer(g, q, start, ef, layer) = Explore(g, q, start, ef, layer)
  BY SearchIn
<1> QED
  BY <1>0, <1>9, <1>10

\* From a member of W the layers lead to a member of W.
LEMMA ArriveIn ==
  ASSUME NEW g, NEW q \in Int, NEW ef \in Nat \ {0}, NEW W, NEW start \in W,
         NEW bottom \in Nat, NEW top \in Nat, bottom <= top,
         \A layer \in bottom .. top : Closed(g, W, layer)
  PROVE  Arrive(g, q, start, ef, top, bottom) \in W
<1> DEFINE n == top - bottom
<1> DEFINE next(layer, c) == Onward(g, q, c, SearchLayer(g, q, c, ef, layer + 1))
<1> DEFINE Body(f) == [layer \in bottom .. top |->
                         IF layer = top THEN start ELSE next(layer, f[layer + 1])]
<1> DEFINE current == CHOOSE f : f = Body(f)
<1> DEFINE step == [i \in 1 .. n |-> [c \in W |-> next(top - i, c)]]
<1>1. Arrive(g, q, start, ef, top, bottom) = current[bottom]
  BY Zenon DEF Arrive
<1>2. n \in Nat
  OBVIOUS
<1>3. ASSUME NEW layer \in bottom .. top - 1, NEW c \in W PROVE next(layer, c) \in W
  <2>1. layer + 1 \in bottom .. top
    BY <1>2
  <2>2. Closed(g, W, layer + 1)
    BY <2>1
  <2>3. SearchLayer(g, q, c, ef, layer + 1) \in (SUBSET W) \ {{}}
    BY <2>2, SearchIn
  <2>4. SearchLayer(g, q, c, ef, layer + 1) \in SUBSET Ids
    BY DEF SearchLayer, Indexed
  <2>5. Nearest(g, q, SearchLayer(g, q, c, ef, layer + 1)) \in SearchLayer(g, q, c, ef, layer + 1)
    BY <2>3, <2>4, NearestIs
  <2> QED
    BY <2>3, <2>5 DEF Onward
<1> HIDE DEF next
<1>4. step \in [1 .. n -> [W -> W]]
  <2>1. ASSUME NEW i \in 1 .. n PROVE top - i \in bottom .. top - 1
    BY <1>2
  <2> QED
    BY <1>3, <2>1
<1>5. \A i \in 1 .. n, c \in W : step[i][c] = next(top - i, c)
  OBVIOUS
<1> HIDE DEF step, n, Body, current
<1>6. PICK h : Run(n, W, start, step, h)
  BY <1>2, <1>4, Recursion
<1> DEFINE f == [layer \in bottom .. top |-> h[top - layer]]
<1>7. f = Body(f)
  <2>1. ASSUME NEW layer \in bottom .. top
        PROVE  f[layer] = IF layer = top THEN start ELSE next(layer, f[layer + 1])
    <3>1. CASE layer = top
      BY <1>6, <3>1 DEF Run
    <3>2. CASE layer # top
      <4>1. top - layer \in 1 .. n /\ top - (top - layer) = layer /\ layer + 1 \in bottom .. top
        BY <3>2 DEF n
      <4>2. (top - layer) - 1 \in 0 .. n /\ (top - layer) - 1 = top - (layer + 1)
        BY <3>2 DEF n
      <4>3. h[(top - layer) - 1] \in W /\ h[top - layer] = step[top - layer][h[(top - layer) - 1]]
        BY <1>6, <4>1, <4>2 DEF Run
      <4>4. h[top - layer] = next(layer, h[(top - layer) - 1])
        BY <1>5, <4>1, <4>3
      <4>5. f[layer] = h[top - layer] /\ f[layer + 1] = h[(top - layer) - 1]
        BY <4>1, <4>2
      <4> QED
        BY <3>2, <4>4, <4>5
    <3> QED
      BY <3>1, <3>2
  <2> HIDE DEF f
  <2>2. f = [layer \in bottom .. top |-> f[layer]]
    BY DEF f
  <2> QED
    BY <2>1, <2>2 DEF Body
<1> HIDE DEF f
<1>8. current = Body(current)
  BY <1>7 DEF current
<1>9. \A layer \in bottom .. top :
         current[layer] = IF layer = top THEN start ELSE next(layer, current[layer + 1])
  BY <1>8 DEF Body
<1> DEFINE G == {i \in 0 .. n : current[top - i] \in W}
<1>10. 0 \in G
  <2>1. top \in bottom .. top /\ top - 0 = top
    OBVIOUS
  <2> QED
    BY <1>2, <1>9, <2>1
<1>11. ASSUME NEW i \in 1 .. n, i - 1 \in G PROVE i \in G
  <2>1. top - i \in bottom .. top - 1 /\ (top - i) + 1 = top - (i - 1) /\ top - i # top
    BY DEF n
  <2>2. current[top - i] = next(top - i, current[(top - i) + 1])
    BY <1>9, <2>1
  <2>3. current[(top - i) + 1] \in W
    BY <1>11, <2>1
  <2> QED
    BY <1>3, <2>1, <2>2, <2>3
<1> HIDE DEF G
<1>12. \A i \in 0 .. n : i \in G
  BY <1>2, <1>10, <1>11, Interval
<1>13. n \in G /\ top - n = bottom
  BY <1>2, <1>12 DEF n
<1> QED
  BY <1>1, <1>13 DEF G

\* A graph of nodes and of an index that points to them.
Formed(g) == g.nodes \in Seq(Node) /\ g.index \in [Ids -> 0 .. Len(g.nodes)]

LEMMA LinksIs ==
  ASSUME NEW g, Formed(g), NEW a \in Indexed(g), NEW layer
  PROVE  /\ a \in Ids /\ g.index[a] \in 1 .. Len(g.nodes) /\ g.index[a] \in DOMAIN g.nodes
         /\ g.nodes[g.index[a]] \in Node
         /\ 0 \in DOMAIN g.nodes[g.index[a]].links
         /\ Links(g, a, layer) \subseteq Ids
         /\ Links(g, a, 0) = g.nodes[g.index[a]].links[0]
<1> DEFINE node == g.nodes[g.index[a]]
<1>1. a \in Ids /\ g.index[a] \in 1 .. Len(g.nodes) /\ g.index[a] \in DOMAIN g.nodes
  BY DEF Formed, Indexed
<1>2. node \in Node
  BY <1>1 DEF Formed
<1>3. PICK l \in 0 .. MaxLevel : node.links \in [0 .. l -> SUBSET Ids]
  BY <1>2, NodeIs DEF LinksOf
<1>4. 0 \in DOMAIN node.links
  BY <1>3
<1> QED
  BY <1>1, <1>2, <1>3, <1>4 DEF Links

LEMMA GraphFormed == Inv => Formed(Graph) /\ Indexed(Graph) = Live /\ Live \subseteq Ids
  BY DEF Inv, Sound, Formed, Graph, Live, Indexed

LEMMA DescendIn ==
  ASSUME NEW g, NEW q \in Int, NEW W, entry \in W, topLevel \in Nat, NEW bottom \in Nat,
         \A layer \in Nat : Closed(g, W, layer)
  PROVE  Descend(g, q, bottom) \in W
<1>1. CASE bottom >= topLevel
  BY <1>1 DEF Descend
<1>2. CASE ~(bottom >= topLevel)
  <2>1. bottom <= topLevel /\ \A layer \in bottom .. topLevel : Closed(g, W, layer)
    BY <1>2
  <2>2. Arrive(g, q, entry, 1, topLevel, bottom) \in W
    BY <2>1, ArriveIn
  <2> QED
    BY <1>2, <2>2 DEF Descend
<1> QED
  BY <1>1, <1>2

LEMMA LiveClosed ==
  ASSUME Inv, Live # {}, NEW layer
  PROVE  Closed(Graph, Live, layer)
BY GraphFormed, LinksIs DEF Closed

LEMMA Answers == Inv => SearchAnswers
<1> SUFFICES ASSUME Inv, count # 0, entry \in Live, NEW q \in Queries PROVE Search(q, 1) # {}
  BY DEF SearchAnswers
<1>1. q \in Int
  BY ConstantsAssumption DEF Queries
<1>2. topLevel \in Nat /\ config.efSearch \in Nat \ {0}
  BY Bounds DEF Inv, Scalars, Config
<1>3. \A layer : Closed(Graph, Live, layer)
  BY LiveClosed
<1>4. Descend(Graph, q, 0) \in Live
  BY <1>1, <1>2, <1>3, DescendIn
<1> DEFINE found == SearchLayer(Graph, q, Descend(Graph, q, 0), config.efSearch, 0)
<1>5. found \in (SUBSET Live) \ {{}}
  BY <1>1, <1>2, <1>3, <1>4, SearchIn
<1>6. Search(q, 1) = Closest(Graph, q, 1, found)
  BY DEF Search
<1> HIDE DEF found
<1>7. found \in SUBSET Ids /\ found # {}
  BY <1>5, GraphFormed
<1>8. \A n \in Nat \ {0} : Closest(Graph, q, n, found) # {}
  BY <1>1, <1>7, NearestIs
<1> QED
  BY <1>6, <1>8

\* However many links are pruned and however narrow the search is made, over
\* any history of updates, saves and loads: a search of a nonempty index whose
\* entry point is indexed returns something.
THEOREM SearchesAnswer == Spec => []SearchAnswers
  BY Starts, Steps, Answers, PTL DEF Spec

------------------------------------------------------------------------------
(* A configuration that covers the ids prunes nothing: every node of the    *)
(* index is linked to every other one on layer 0.                           *)

CoversAdds(c) == c.M >= Cardinality(Ids) /\ c.efConstruction >= Cardinality(Ids)

Whole(g, e, n) == /\ Joined(g, Indexed(g), 0)
                  /\ n = Cardinality(Indexed(g))
                  /\ Indexed(g) = {} \/ e \in Indexed(g)

FileGraph == [nodes |-> file.nodes, index |-> file.index]

WholeInv == /\ intact /\ CoversAdds(config) => Whole(Graph, entry, count)
            /\ file.saved /\ file.intact /\ CoversAdds(file.config) =>
                  Whole(FileGraph, file.entry, file.count)

LEMMA StartsWhole == Init => WholeInv
<1> SUFFICES ASSUME Init PROVE WholeInv
  OBVIOUS
<1>1. Indexed(Graph) = {} /\ count = 0 /\ file.saved = FALSE
  BY DEF Init, NoFile, Indexed, Graph
<1> QED
  BY <1>1, FS_EmptySet DEF WholeInv, Whole, Joined

LEMMA FirstWhole ==
  ASSUME Inv, NEW id \in Ids, NEW level \in 0 .. MaxLevel, Len(nodes) < MaxNodes,
         id \notin Live, AddFirst(id, level), intact'
  PROVE  Whole(Graph', entry', count')
<1>1. Grown(id)
  <2>1. topLevel \in Nat
    BY Bounds DEF Inv, Scalars
  <2> QED
    BY <2>1, Grows DEF Inv
<1>2. Live = {} /\ entry' = id /\ count' = 1
  BY DEF AddFirst
<1>3. Indexed(Graph') = {id}
  BY <1>1, <1>2, LiveIs DEF Grown, Indexed, Graph, Inv, Sound
<1> QED
  BY <1>2, <1>3, FS_Singleton DEF Whole, Joined

PushedOne(id, g) == /\ Sound(config.M, g.nodes, g.index) /\ Len(g.nodes) = Len(nodes) + 1
                    /\ g.index = [index EXCEPT ![id] = Len(nodes) + 1]
                    /\ \A i \in 1 .. Len(nodes) : g.nodes[i] = nodes[i]
                    /\ g.nodes[Len(nodes) + 1].id = id

LEMMA PushesOne ==
  ASSUME config \in Config, Sound(config.M, nodes, index), Len(nodes) < MaxNodes, NEW id \in Ids,
         NEW level \in 0 .. MaxLevel
  PROVE  PushedOne(id, Pushed(id, level))
BY Pushes, ZenonT(60) DEF PushedOne

LEMMA LinkedWhole ==
  ASSUME Inv, WholeInv, NEW id \in Ids, NEW level \in 0 .. MaxLevel, Len(nodes) < MaxNodes,
         id \notin Live, AddLinked(id, level), intact', CoversAdds(config)
  PROVE  Whole(Graph', entry', count')
<1> DEFINE g == Pushed(id, level)
<1> DEFINE n == Len(nodes)
<1> DEFINE q == Position(id)
<1> DEFINE start == Descend(g, q, level)
<1> DEFINE top == Lower(level, topLevel)
<1> DEFINE ef == config.efConstruction
<1>1. /\ count # 0 /\ intact /\ id \notin StaleLinks
      /\ nodes' = Insert(g, id, start, top) /\ index' = g.index
      /\ entry' \in {id, entry} /\ count' = (count + 1) % SizeMod
  BY DEF AddLinked
<1>2. Whole(Graph, entry, count) /\ Joined(Graph, Live, 0) /\ count = Cardinality(Live) /\ entry \in Live
  BY <1>1, GraphFormed, FS_EmptySet DEF WholeInv, Whole
<1>3. q \in Int /\ ef \in Nat \ {0} /\ ef >= Cardinality(Ids) /\ config.M \in Nat
      /\ config.M >= Cardinality(Ids) /\ topLevel \in Nat /\ level \in Nat /\ top \in Nat /\ n \in Nat
  BY ConstantsAssumption, Bounds DEF Inv, Sound, Scalars, Config, CoversAdds, Lower
<1>4. /\ Sound(config.M, g.nodes, g.index) /\ Len(g.nodes) = n + 1
      /\ g.index = [index EXCEPT ![id] = n + 1]
      /\ \A i \in 1 .. n : g.nodes[i] = nodes[i]
      /\ g.nodes[n + 1].id = id
  <2>1. config \in Config /\ Sound(config.M, nodes, index)
    BY DEF Inv
  <2> QED
    BY <2>1, PushesOne DEF PushedOne
<1> HIDE DEF g, top, start, ef, q
<1>5. Formed(g) /\ Formed(Graph) /\ Indexed(Graph) = Live /\ Live \subseteq Ids
  BY <1>4, GraphFormed DEF Sound, Formed
<1>6. Indexed(g) = Live \cup {id}
  BY <1>3, <1>4, LiveIs DEF Indexed, Inv, Sound
<1>7. ASSUME NEW a \in Live, NEW layer
      PROVE  /\ g.index[a] = index[a] /\ index[a] \in 1 .. n /\ nodes[index[a]].id = a
             /\ Links(g, a, layer) = Links(Graph, a, layer)
  <2>1. g.index[a] = index[a] /\ index[a] \in 1 .. n
    BY <1>4, LiveIs DEF Inv, Sound
  <2>2. g.nodes[index[a]] = nodes[index[a]]
    BY <1>4, <2>1
  <2>3. nodes[index[a]].id = a
    BY <2>1, LiveIs DEF Inv, Sound, IsLast
  <2> QED
    BY <2>1, <2>2, <2>3 DEF Links, Graph
<1>8. ASSUME NEW a \in Live, NEW layer PROVE id \notin Links(Graph, a, layer)
  <2> DEFINE links == nodes[index[a]].links
  <2>1. Links(Graph, a, layer) = IF layer \in DOMAIN links THEN links[layer] ELSE {}
    BY <1>3, <1>7 DEF Links, Graph
  <2>2. ASSUME layer \in DOMAIN links, id \in links[layer] PROVE FALSE
    <3> DEFINE all(b) == UNION {nodes[index[b]].links[l] : l \in DOMAIN nodes[index[b]].links}
    <3>1. id \in all(a)
      BY <2>2
    <3>2. StaleLinks = (UNION {all(b) : b \in Live}) \ Live
      BY DEF StaleLinks
    <3>3. all(a) \in {all(b) : b \in Live}
      OBVIOUS
    <3> HIDE DEF all
    <3> DEFINE Alls == {all(b) : b \in Live}
    <3>4. all(a) \in Alls /\ StaleLinks = (UNION Alls) \ Live
      BY <3>2, <3>3
    <3> HIDE DEF Alls
    <3>5. id \in UNION Alls
      BY <3>1, <3>4
    <3>6. id \notin StaleLinks /\ id \notin Live
      BY <1>1
    <3> QED
      BY <3>4, <3>5, <3>6
  <2> QED
    BY <2>1, <2>2
<1>9. \A layer : Closed(g, Live, layer)
  <2>1. ASSUME NEW layer, NEW a \in Live
        PROVE  Links(g, a, layer) \subseteq Ids /\ Links(g, a, layer) \cap Indexed(g) \subseteq Live
    <3>1. Links(Graph, a, layer) \subseteq Ids
      BY <1>5, LinksIs
    <3> QED
      BY <1>6, <1>7, <1>8, <3>1
  <2> QED
    BY <1>2, <1>6, <2>1 DEF Closed
<1>10. start \in Live
  BY <1>2, <1>3, <1>9, DescendIn DEF start
<1>11. Joined(g, Live, 0)
  BY <1>2, <1>7 DEF Joined
<1>12. Found(g, id, start, top, 0) = Live
  <2>1. Arrive(g, q, start, ef, top, 0) \in Live
    BY <1>3, <1>9, <1>10, ArriveIn
  <2>2. SearchLayer(g, q, Arrive(g, q, start, ef, top, 0), ef, 0) = Live
    BY <1>3, <1>9, <1>11, <2>1, SearchAll
  <2> QED
    BY <2>2 DEF Found, q, ef
<1>13. PICK near : /\ near[0] = Closest(g, q, config.M, Found(g, id, start, top, 0))
                   /\ nodes' = Relinked(g, id, near, top)
  <2>1. 0 \in 0 .. top
    BY <1>3
  <2> QED
    BY <1>1, <2>1, InsertIs DEF q
<1>14. near[0] = Live
  <2>1. Cardinality(Live) <= config.M
    BY <1>3, LiveFinite, Bounds
  <2> QED
    BY <1>3, <1>5, <1>12, <1>13, <2>1, ClosestAll
<1>15. \A i \in 1 .. n + 1 : 0 \in DOMAIN g.nodes[i].links =>
          nodes'[i].links[0] = Connect(g, i, id, Live, 0)
  <2>1. DOMAIN g.nodes = 1 .. n + 1
    BY <1>3, <1>4, <1>5 DEF Formed
  <2>2. ASSUME NEW i \in 1 .. n + 1, 0 \in DOMAIN g.nodes[i].links
        PROVE  nodes'[i].links[0] = Connect(g, i, id, Live, 0)
    <3>1. nodes'[i] = [g.nodes[i] EXCEPT !.links =
                         [layer \in DOMAIN @ |-> IF layer > top THEN @[layer]
                                                 ELSE Connect(g, i, id, near[layer], layer)]]
      BY <1>13, <2>1 DEF Relinked
    <3>2. g.nodes[i] \in [id : Ids, links : LinksOf, deleted : BOOLEAN]
      <4>1. g.nodes[i] \in Node
        BY <1>5, <2>1 DEF Formed
      <4> QED
        BY <4>1, NodeIs
    <3>3. ~(0 > top)
      BY <1>3
    <3> QED
      BY <1>14, <2>2, <3>1, <3>2, <3>3
  <2> QED
    BY <2>2
<1>16. g.index[id] = n + 1 /\ n + 1 \in 1 .. n + 1 /\ \A a \in Live : index[a] # n + 1
  <2>1. index \in [Ids -> 0 .. n]
    BY DEF Inv, Sound
  <2>2. g.index[id] = n + 1
    BY <1>4, <2>1
  <2>3. \A a \in Live : index[a] \in 1 .. n
    BY <1>7
  <2> QED
    BY <1>3, <2>2, <2>3
<1>17. Live \subseteq nodes'[n + 1].links[0]
  <2>1. 0 \in DOMAIN g.nodes[n + 1].links
    BY <1>5, <1>6, <1>16, LinksIs
  <2> QED
    BY <1>15, <1>16, <2>1 DEF Connect
<1>18. ASSUME NEW a \in Live PROVE Links(Graph, a, 0) \cup {id} \subseteq nodes'[index[a]].links[0]
  <2> DEFINE i == index[a]
  <2>1. /\ i \in 1 .. n /\ i \in 1 .. n + 1 /\ g.index[a] = i /\ i # n + 1
        /\ g.nodes[i].id = a /\ a \in Indexed(g) /\ a \in Ids
    <3>1. i \in 1 .. n /\ g.index[a] = i /\ nodes[i].id = a
      BY <1>7
    <3>2. i \in 1 .. n + 1 /\ i # n + 1
      BY <1>3, <3>1
    <3>3. g.nodes[i] = nodes[i]
      BY <1>4, <3>1
    <3> HIDE DEF i
    <3> QED
      BY <1>5, <1>6, <3>1, <3>2, <3>3
  <2>2. 0 \in DOMAIN g.nodes[i].links /\ Links(g, a, 0) = g.nodes[i].links[0]
        /\ Links(g, a, 0) \subseteq Ids
    BY <1>5, <2>1, LinksIs
  <2> HIDE DEF i
  <2> DEFINE wider == Links(g, a, 0) \cup {id}
  <2>3. Connect(g, i, id, Live, 0) = Closest(g, Position(a), MaxLinks(0), wider)
    BY <1>16, <2>1, <2>2 DEF Connect, Linked
  <2>4. wider \in SUBSET Ids /\ Position(a) \in Int
    BY <2>1, <2>2, ConstantsAssumption
  <2> HIDE DEF wider
  <2>5. MaxLinks(0) \in Nat /\ Cardinality(wider) <= MaxLinks(0)
    <3>1. Cardinality(wider) <= Cardinality(Ids) /\ Cardinality(wider) \in Nat
      BY <2>4, ConstantsAssumption, FS_Subset, FS_CardinalityType
    <3>2. MaxLinks(0) = 2 * config.M
      BY DEF MaxLinks
    <3> QED
      BY <1>3, <3>1, <3>2, Bounds
  <2>6. Connect(g, i, id, Live, 0) = wider
    BY <2>3, <2>4, <2>5, ClosestAll
  <2>7. wider = Links(Graph, a, 0) \cup {id}
    BY <1>7 DEF wider
  <2> QED
    BY <1>15, <2>1, <2>2, <2>6, <2>7 DEF i
<1>19. Indexed(Graph') = Live \cup {id} /\ Graph'.index = g.index /\ Graph'.nodes = nodes'
  BY <1>1, <1>6 DEF Indexed, Graph
<1>20. Formed(Graph')
  <2>1. Grown(id)
    BY <1>3, Grows DEF Inv
  <2> QED
    BY <2>1 DEF Grown, Sound, Formed, Graph
<1>21. Joined(Graph', Indexed(Graph'), 0)
  <2>1. ASSUME NEW a \in Live \cup {id}, NEW b \in Live \cup {id}, a # b
        PROVE  b \in Links(Graph', a, 0)
    <3>1. Links(Graph', a, 0) = nodes'[g.index[a]].links[0]
      BY <1>19, <1>20, LinksIs
    <3>2. CASE a = id
      BY <1>16, <1>17, <2>1, <3>1, <3>2
    <3>3. CASE a \in Live
      <4>1. Links(Graph, a, 0) \cup {id} \subseteq Links(Graph', a, 0)
        BY <1>7, <1>18, <3>1, <3>3
      <4>2. b \in Live => b \in Links(Graph, a, 0)
        BY <1>2, <2>1, <3>3 DEF Joined
      <4> QED
        BY <4>1, <4>2
    <3> QED
      BY <3>2, <3>3
  <2> QED
    BY <1>19, <2>1 DEF Joined
<1>22. count' = Cardinality(Live \cup {id})
  <2>1. Cardinality(Live \cup {id}) = Cardinality(Live) + 1
    BY LiveFinite, FS_AddElement
  <2>2. Cardinality(Live \cup {id}) <= Cardinality(Ids)
    BY <1>5, ConstantsAssumption, FS_Subset
  <2>3. \A k \in Nat : k < SizeMod => k % SizeMod = k
    BY Bounds
  <2> QED
    BY <1>1, <1>2, <2>1, <2>2, <2>3, Bounds, LiveFinite
<1> QED
  BY <1>1, <1>2, <1>19, <1>21, <1>22 DEF Whole

LEMMA AddsWhole ==
  ASSUME Inv, WholeInv, NEW id \in Ids, Add(id)
  PROVE  WholeInv'
<1>1. PICK level \in 0 .. MaxLevel : AddFirst(id, level) \/ AddLinked(id, level)
  <2>1. PICK drawn \in 0 .. MaxLevel :
          AddFirst(id, Lower(drawn, topLevel + 1)) \/ AddLinked(id, Lower(drawn, topLevel + 1))
    BY DEF Add
  <2>2. Lower(drawn, topLevel + 1) \in 0 .. MaxLevel
    BY Bounds DEF Lower, Inv, Scalars
  <2> QED
    BY <2>1, <2>2
<1>2. id \notin Live /\ Len(nodes) < MaxNodes
  BY DEF Add
<1>3. config' = config /\ file' = file
  BY <1>1 DEF AddFirst, AddLinked
<1>4. ASSUME intact', CoversAdds(config) PROVE Whole(Graph', entry', count')
  <2>1. CASE AddFirst(id, level)
    BY <1>2, <1>4, <2>1, FirstWhole
  <2>2. CASE AddLinked(id, level)
    BY <1>2, <1>4, <2>2, LinkedWhole
  <2> QED
    BY <1>1, <2>1, <2>2
<1>5. FileGraph' = FileGraph
  BY <1>3 DEF FileGraph
<1> QED
  BY <1>3, <1>4, <1>5 DEF WholeInv

LEMMA RemovesWhole ==
  ASSUME Inv, WholeInv, NEW id \in Ids, Remove(id)
  PROVE  WholeInv'
<1>1. /\ id \in Live /\ index' = [index EXCEPT ![id] = 0] /\ count' = (count + SizeMod - 1) % SizeMod
      /\ nodes' = [nodes EXCEPT ![index[id]].deleted = TRUE]
      /\ config' = config /\ file' = file /\ entry' = entry /\ (intact' => intact /\ id # entry)
  BY DEF Remove
<1>2. ASSUME intact', CoversAdds(config) PROVE Whole(Graph', entry', count')
  <2>1. /\ Joined(Graph, Live, 0) /\ count = Cardinality(Live) /\ entry \in Live
        /\ Indexed(Graph) = Live /\ Formed(Graph)
    BY <1>1, <1>2, GraphFormed DEF WholeInv, Whole
  <2>2. Inv' /\ Formed(Graph')
    <3>1. Inv'
      BY Removes
    <3>2. Sound(config'.M, nodes', index')
      BY <3>1 DEF Inv
    <3> QED
      BY <3>1, <3>2 DEF Sound, Formed, Graph
  <2>3. Indexed(Graph') = Live \ {id} /\ \A a \in Live \ {id} : index'[a] = index[a]
    BY <1>1, LiveIs DEF Indexed, Graph, Inv, Sound
  <2>4. ASSUME NEW a \in Live \ {id} PROVE Links(Graph', a, 0) = Links(Graph, a, 0)
    <3>1. a \in Indexed(Graph) /\ a \in Indexed(Graph') /\ index'[a] = index[a]
      BY <2>1, <2>3
    <3>2. /\ Links(Graph, a, 0) = nodes[index[a]].links[0] /\ nodes[index[a]] \in Node
          /\ Links(Graph', a, 0) = nodes'[index[a]].links[0] /\ index[a] \in DOMAIN nodes
      BY <2>1, <2>2, <3>1, LinksIs DEF Graph
    <3>3. nodes'[index[a]].links = nodes[index[a]].links
      BY <1>1, <3>2, NodeIs
    <3> QED
      BY <3>2, <3>3
  <2>5. Joined(Graph', Live \ {id}, 0)
    BY <2>1, <2>4 DEF Joined
  <2>6. count' = Cardinality(Live \ {id})
    <3>1. Cardinality(Live \ {id}) = Cardinality(Live) - 1 /\ Cardinality(Live \ {id}) \in Nat
      BY <1>1, LiveFinite, FS_RemoveElement, FS_CardinalityType
    <3>2. ASSUME NEW k \in Nat, k + 1 < SizeMod PROVE (k + 1 + SizeMod - 1) % SizeMod = k
      BY <3>2, Bounds
    <3>3. count = Cardinality(Live \ {id}) + 1 /\ count < SizeMod
      BY <2>1, <3>1, Bounds, LiveFinite
    <3> QED
      BY <1>1, <3>1, <3>2, <3>3
  <2> QED
    BY <1>1, <1>2, <2>1, <2>3, <2>5, <2>6 DEF Whole
<1>3. FileGraph' = FileGraph
  BY <1>1 DEF FileGraph
<1> QED
  BY <1>1, <1>2, <1>3 DEF WholeInv

LEMMA SavesWhole ==
  ASSUME Inv, WholeInv, Save
  PROVE  WholeInv'
<1>1. /\ file'.index = index /\ file'.entry = entry /\ file'.count = count /\ file'.intact = intact
      /\ file'.config = config /\ file'.nodes = [i \in DOMAIN nodes |-> SavedNode(nodes[i])]
      /\ UNCHANGED <<nodes, index, entry, count, config, intact>>
  BY DEF Save
<1>2. Graph' = Graph
  BY <1>1 DEF Graph
<1>3. Indexed(FileGraph') = Indexed(Graph)
  BY <1>1 DEF FileGraph, Graph, Indexed
<1>4. ASSUME NEW a \in Indexed(Graph) PROVE Links(FileGraph', a, 0) = Links(Graph, a, 0)
  <2>1. Formed(Graph)
    BY GraphFormed
  <2>2. index[a] \in DOMAIN nodes /\ nodes[index[a]] \in Node /\ index[a] # 0
    BY <2>1, LinksIs DEF Graph, Indexed
  <2>3. file'.nodes[index[a]].links = nodes[index[a]].links
    BY <1>1, <2>2, NodeIs DEF SavedNode
  <2> QED
    BY <1>1, <2>2, <2>3 DEF Links, Graph, FileGraph
<1>5. Whole(Graph, entry, count) => Whole(FileGraph', entry, count)
  BY <1>3, <1>4 DEF Whole, Joined
<1> QED
  BY <1>1, <1>2, <1>5 DEF WholeInv

LEMMA LoadsWhole ==
  ASSUME Inv, WholeInv, Load
  PROVE  WholeInv'
<1>1. /\ file.saved /\ nodes' = file.nodes /\ entry' = file.entry /\ count' = file.count
      /\ config' = file.config /\ (intact' => file.intact /\ index' = file.index) /\ file' = file
  BY DEF Load
<1>2. intact' => Graph' = FileGraph
  BY <1>1 DEF Graph, FileGraph
<1>3. FileGraph' = FileGraph
  BY <1>1 DEF FileGraph
<1> QED
  BY <1>1, <1>2, <1>3 DEF WholeInv

LEMMA StepsWhole == Inv /\ WholeInv /\ [Next]_vars => WholeInv'
<1> SUFFICES ASSUME Inv, WholeInv, [Next]_vars PROVE WholeInv'
  OBVIOUS
<1>1. ASSUME UNCHANGED <<nodes, index, entry, count, file, intact>>, CoversAdds(config') => CoversAdds(config)
      PROVE  WholeInv'
  <2>1. Graph' = Graph /\ FileGraph' = FileGraph
    BY <1>1 DEF Graph, FileGraph
  <2> QED
    BY <1>1, <2>1 DEF WholeInv
<1>2. ASSUME NEW id \in Ids, Add(id) PROVE WholeInv'
  BY <1>2, AddsWhole
<1>3. ASSUME NEW id \in Ids, Remove(id) PROVE WholeInv'
  BY <1>3, RemovesWhole
<1>4. ASSUME NEW n \in Capacities, Resize(n) PROVE WholeInv'
  BY <1>1, <1>4 DEF Resize
<1>5. ASSUME NEW ef \in EfSearches, SetEfSearch(ef) PROVE WholeInv'
  <2>1. config'.M = config.M /\ config'.efConstruction = config.efConstruction
    BY <1>5 DEF SetEfSearch, Inv, Config
  <2> QED
    BY <1>1, <1>5, <2>1 DEF SetEfSearch, CoversAdds
<1>6. CASE Save
  BY <1>6, SavesWhole
<1>7. CASE Load
  BY <1>7, LoadsWhole
<1>8. CASE UNCHANGED vars
  BY <1>1, <1>8 DEF vars
<1> QED
  BY <1>2, <1>3, <1>4, <1>5, <1>6, <1>7, <1>8 DEF Next, Update

\* Of three times as many as are asked for, the filter keeps out no more than
\* twice as many: the nearest of those it lets pass are the nearest that pass.
LEMMA Filtered ==
  ASSUME NEW g, NEW q \in Int, NEW k \in Nat, NEW S \in SUBSET Ids, NEW P \in SUBSET S,
         Cardinality(S \ P) <= 2 * k
  PROVE  Closest(g, q, k, Closest(g, q, 3 * k, S) \cap P) = Closest(g, q, k, P)
<1> DEFINE C == Closest(g, q, 3 * k, S) \cap P
<1>1. C \subseteq P /\ P \in SUBSET Ids /\ C \in SUBSET Ids /\ S \ P \in SUBSET Ids
  OBVIOUS
<1>2. \A a \in P : a \in C <=> Cardinality(Before(g, q, S, a)) < 3 * k
  BY DEF Closest, Before
<1>3. \A a \in C, b \in P : Closer(g, q, b, a) => b \in C
  <2>1. ASSUME NEW a \in C, NEW b \in P, Closer(g, q, b, a) PROVE b \in C
    <3>1. /\ Cardinality(Before(g, q, S, b)) < Cardinality(Before(g, q, S, a))
          /\ Cardinality(Before(g, q, S, b)) \in Nat /\ Cardinality(Before(g, q, S, a)) \in Nat
      BY <1>1, <2>1, Ranks
    <3> QED
      BY <1>1, <1>2, <3>1
  <2> QED
    BY <2>1
<1> HIDE DEF C
<1>4. ASSUME NEW a \in C PROVE Before(g, q, C, a) = Before(g, q, P, a)
  BY <1>1, <1>3 DEF Before
<1>5. ASSUME NEW a \in P, Cardinality(Before(g, q, P, a)) < k PROVE a \in C
  <2> DEFINE out == Before(g, q, S, a) \cap (S \ P)
  <2>1. Before(g, q, S, a) = Before(g, q, P, a) \cup out
    BY DEF Before
  <2>2. IsFiniteSet(Before(g, q, P, a)) /\ Cardinality(Before(g, q, P, a)) \in Nat
    BY <1>1, Ranks
  <2>3. IsFiniteSet(S \ P) /\ Cardinality(S \ P) \in Nat
    BY <1>1, ConstantsAssumption, FS_Subset, FS_CardinalityType
  <2>4. out \in SUBSET (S \ P)
    OBVIOUS
  <2>5. Before(g, q, P, a) \cap out = {}
    BY DEF Before
  <2> HIDE DEF out
  <2>6. IsFiniteSet(out) /\ Cardinality(out) \in Nat /\ Cardinality(out) <= 2 * k
    <3>1. IsFiniteSet(out) /\ Cardinality(out) <= Cardinality(S \ P)
      BY <2>3, <2>4, FS_Subset
    <3>2. Cardinality(out) \in Nat
      BY <3>1, FS_CardinalityType
    <3> QED
      BY <2>3, <3>1, <3>2
  <2>7. Cardinality(Before(g, q, S, a)) = Cardinality(Before(g, q, P, a)) + Cardinality(out)
    <3>1. Cardinality(Before(g, q, P, a) \cup out) =
            Cardinality(Before(g, q, P, a)) + Cardinality(out) - Cardinality(Before(g, q, P, a) \cap out)
      BY <2>2, <2>6, FS_Union
    <3>2. Cardinality(Before(g, q, P, a) \cap out) = 0
      BY <2>5, FS_EmptySet
    <3> QED
      BY <2>1, <2>2, <2>6, <3>1, <3>2
  <2>8. Cardinality(Before(g, q, S, a)) < 3 * k
    BY <1>5, <2>2, <2>6, <2>7
  <2> QED
    BY <1>2, <2>8
<1>6. Closest(g, q, k, C) = {a \in C : Cardinality(Before(g, q, C, a)) < k}
      /\ Closest(g, q, k, P) = {a \in P : Cardinality(Before(g, q, P, a)) < k}
  BY DEF Closest, Before
<1> QED
  BY <1>1, <1>4, <1>5, <1>6 DEF C

LEMMA Exact == Inv /\ WholeInv => SearchExact
<1> SUFFICES ASSUME Inv, WholeInv, intact, Covers, NEW q \in Queries,
                    NEW k \in 1 .. Cardinality(Ids)
             PROVE  /\ Search(q, k) = Closest(Graph, q, k, Live)
                    /\ \A passing \in SUBSET Live :
                          Cardinality(Live \ passing) <= 2 * k =>
                             SearchFiltered(q, k, passing) = Closest(Graph, q, k, passing)
  BY DEF SearchExact
<1>1. q \in Int /\ k \in Nat /\ 3 * k \in Nat
  BY ConstantsAssumption DEF Queries
<1>2. Whole(Graph, entry, count) /\ Indexed(Graph) = Live /\ Live \in SUBSET Ids
  BY GraphFormed DEF WholeInv, CoversAdds, Covers
<1>3. topLevel \in Nat /\ config.efSearch \in Nat \ {0} /\ config.efSearch >= Cardinality(Ids)
  BY Bounds DEF Inv, Scalars, Config, Covers
<1>4. ASSUME NEW n \in Nat PROVE Search(q, n) = Closest(Graph, q, n, Live)
  <2>1. CASE count = 0
    <3>1. Live = {}
      BY <1>2, <2>1, LiveFinite, FS_EmptySet DEF Whole
    <3> QED
      BY <2>1, <3>1 DEF Search, Closest
  <2>2. CASE count # 0
    <3>1. Live # {} /\ entry \in Live /\ Joined(Graph, Live, 0)
      BY <1>2, <2>2, FS_EmptySet DEF Whole
    <3>2. \A layer : Closed(Graph, Live, layer)
      BY <3>1, LiveClosed
    <3>3. Descend(Graph, q, 0) \in Live
      BY <1>1, <1>3, <3>1, <3>2, DescendIn
    <3>4. SearchLayer(Graph, q, Descend(Graph, q, 0), config.efSearch, 0) = Live
      BY <1>1, <1>3, <3>1, <3>2, <3>3, SearchAll
    <3> QED
      BY <2>2, <3>4 DEF Search
  <2> QED
    BY <2>1, <2>2
<1>5. ASSUME NEW passing \in SUBSET Live, Cardinality(Live \ passing) <= 2 * k
      PROVE  SearchFiltered(q, k, passing) = Closest(Graph, q, k, passing)
  <2>1. Search(q, 3 * k) = Closest(Graph, q, 3 * k, Live)
    BY <1>1, <1>4
  <2> QED
    BY <1>1, <1>2, <1>5, <2>1, Filtered DEF SearchFiltered
<1> QED
  BY <1>1, <1>4, <1>5

\* For a configuration that covers the ids, of any number: a search returns the
\* nearest live vectors, and a filtered one the nearest that pass, through any
\* history of adds, removals, saves and loads in which the graph was not cut.
THEOREM SearchesStayExact == Spec => []SearchExact
  BY Starts, StartsWhole, Steps, StepsWhole, Exact, PTL DEF Spec
==============================================================================
