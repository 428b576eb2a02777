------------------------------ MODULE HnswIndex ------------------------------
(***************************************************************************)
(* HnswIndex (src/index/hnsw.cpp, include/vdb/index.hpp): a layered graph  *)
(* of nodes linked by vector id, searched from an entry point.  Removal is *)
(* lazy: a removed node stays in nodes_ and in its neighbours' links, and  *)
(* only leaves id_to_index_.  save() and load() carry the graph from one   *)
(* process to the next.                                                    *)
(*                                                                         *)
(* Every operation holds the index's lock, so it is one action.  A vector  *)
(* is a point on a line; only the order of distances matters.              *)
(***************************************************************************)
EXTENDS Integers, Sequences, FiniteSets

CONSTANTS Ids,            \* vector ids
          Position(_),    \* the vector of an id: a point
          Configs,        \* the configurations an index may be created with
          EfSearches,     \* the values set_ef_search is given
          Capacities,     \* the values max_elements may be given
          SizeMod,        \* size_t counts modulo this
          MaxLevel,       \* bound: levels random_level() may draw
          MaxNodes        \* bound: nodes ever pushed onto nodes_

\* HnswConfig: M links per node and layer, and the widths of the searches of
\* add and of search.  random_level() divides by log(M), so M is above 1.
Config == [M : Nat \ {0, 1}, efConstruction : Nat \ {0}, efSearch : Nat \ {0}]

ASSUME ConstantsAssumption ==
    /\ Ids \subseteq Nat /\ IsFiniteSet(Ids)
    /\ \A id \in Ids : Position(id) \in Int
    /\ Configs \subseteq Config /\ EfSearches \subseteq Nat \ {0}
    /\ Capacities \subseteq Nat /\ Capacities # {}
    /\ SizeMod \in Nat /\ SizeMod > Cardinality(Ids)
    /\ MaxLevel \in Nat /\ MaxNodes \in Nat

VARIABLES
    nodes,       \* nodes_: [id, links: layer -> ids, deleted]
    index,       \* id_to_index_: id -> place in nodes, 0 if absent
    entry,       \* entry_point_
    topLevel,    \* max_level_
    count,       \* element_count_
    config,      \* config_, but for max_elements
    maxElements, \* config_.max_elements
    file,        \* the saved index, or NoFile
    intact       \* history: no step has cut the graph (see Cuts)

vars == <<nodes, index, entry, topLevel, count, config, maxElements, file, intact>>

NoFile == [nodes |-> <<>>, saved |-> FALSE]
Infinity == 1000000
Graph == [nodes |-> nodes, index |-> index]
Indexed(g) == {id \in Ids : g.index[id] # 0}
Live == Indexed(Graph)

Init == /\ nodes = <<>>
        /\ index = [id \in Ids |-> 0]
        /\ entry = 0
        /\ topLevel = 0
        /\ count = 0
        /\ config \in Configs
        /\ maxElements \in Capacities
        /\ file = NoFile
        /\ intact = TRUE

------------------------------------------------------------------------------
\* distance_to_node: an id that is not indexed is infinitely far.
Distance(g, q, id) ==
    IF g.index[id] = 0 THEN Infinity
    ELSE IF q < Position(id) THEN Position(id) - q ELSE q - Position(id)

Closer(g, q, a, b) == \/ Distance(g, q, a) < Distance(g, q, b)
                      \/ Distance(g, q, a) = Distance(g, q, b) /\ a < b

\* The n members of S closest to q.
Closest(g, q, n, S) == {a \in S : Cardinality({b \in S : Closer(g, q, b, a)}) < n}
Nearest(g, q, S) == CHOOSE a \in S : \A b \in S \ {a} : Closer(g, q, a, b)
Farthest(g, q, S) == CHOOSE a \in S : \A b \in S \ {a} : Closer(g, q, b, a)

Links(g, id, layer) ==
    IF g.index[id] = 0 THEN {}
    ELSE LET links == g.nodes[g.index[id]].links
         IN  IF layer \in DOMAIN links THEN links[layer] ELSE {}

\* The loop of search_layer ends when the nearest candidate is farther than
\* the worst of ef results.
Ended(g, q, ef, search) ==
    \/ search.candidates = {}
    \/ /\ Cardinality(search.results) >= ef
       /\ Distance(g, q, Nearest(g, q, search.candidates)) >
             Distance(g, q, Farthest(g, q, search.results))

\* One round of it: the nearest candidate is expanded.
Expanded(g, q, ef, layer, search) ==
    LET current == Nearest(g, q, search.candidates)
        links   == Links(g, current, layer)
        found   == (links \ search.visited) \cap Indexed(g)
    IN  [candidates |-> (search.candidates \ {current}) \cup found,
         results    |-> Closest(g, q, ef, search.results \cup found),
         visited    |-> search.visited \cup links]

\* Every id becomes a candidate once at most, so that the loop has ended after
\* as many rounds as there are ids, and one for a start that is none.
Explore(g, q, start, ef, layer) ==
    LET Rounds == Cardinality(Ids) + 1
        search[round \in 0 .. Rounds] ==
            IF round = 0
            THEN [candidates |-> {start}, results |-> {start}, visited |-> {start}]
            ELSE LET before == search[round - 1]
                 IN  IF Ended(g, q, ef, before) THEN before ELSE Expanded(g, q, ef, layer, before)
    IN  search[Rounds].results

\* Mutant of SearchLayer: the results are not seeded with the start.
SearchLayerUnseeded(g, q, start, ef, layer) ==
    (Explore(g, q, start, ef, layer) \cap Indexed(g)) \ {start}

\* search_layer; ids no longer indexed (the start itself, perhaps) are left out.
SearchLayer(g, q, start, ef, layer) == Explore(g, q, start, ef, layer) \cap Indexed(g)

\* Where the search goes on below a layer.
Onward(g, q, current, near) == IF near = {} THEN current ELSE Nearest(g, q, near)

\* Where searches of width ef, layer by layer from `top` and `start`, arrive at
\* on layer `bottom`.
Arrive(g, q, start, ef, top, bottom) ==
    LET current[layer \in bottom .. top] ==
            IF layer = top THEN start
            ELSE Onward(g, q, current[layer + 1],
                        SearchLayer(g, q, current[layer + 1], ef, layer + 1))
    IN  current[bottom]

\* The greedy descent from the entry point through the layers above `bottom`.
Descend(g, q, bottom) ==
    IF bottom >= topLevel THEN entry ELSE Arrive(g, q, entry, 1, topLevel, bottom)

\* search: the k nearest of what layer 0 yields.
Search(q, k) ==
    IF count = 0 THEN {}
    ELSE Closest(Graph, q, k, SearchLayer(Graph, q, Descend(Graph, q, 0), config.efSearch, 0))

\* search_filtered: of three times as many, the k nearest the filter lets pass.
SearchFiltered(q, k, passing) == Closest(Graph, q, k, Search(q, 3 * k) \cap passing)

------------------------------------------------------------------------------
MaxLinks(layer) == IF layer = 0 THEN 2 * config.M ELSE config.M

LinkedUnpruned(g, i, to, layer) ==   \* mutant of Linked: no limit
    g.nodes[i].links[layer] \cup {to}

\* connect_nodes: link a node to `to`, and drop the farthest link over the limit.
Linked(g, i, to, layer) ==
    Closest(g, Position(g.nodes[i].id), MaxLinks(layer), g.nodes[i].links[layer] \cup {to})

\* Mutant of Connect: the neighbours are not linked back.
ConnectOneWay(g, i, id, neighbors, layer) ==
    IF i = g.index[id] THEN neighbors ELSE g.nodes[i].links[layer]

\* The links of a node on a layer after the node of id was linked with the
\* neighbors chosen there, both ways.
Connect(g, i, id, neighbors, layer) ==
    IF i = g.index[id] THEN neighbors
    ELSE IF g.nodes[i].id \in neighbors /\ g.index[g.nodes[i].id] = i
         THEN Linked(g, i, id, layer)
         ELSE g.nodes[i].links[layer]

\* The nodes after that of id was linked on the layers up to `top`.
Relinked(g, id, neighbors, top) ==
    [i \in DOMAIN g.nodes |->
       [g.nodes[i] EXCEPT !.links =
          [layer \in DOMAIN @ |-> IF layer > top THEN @[layer]
                                  ELSE Connect(g, i, id, neighbors[layer], layer)]]]

\* add's insertion, from layer `top` down to 0.  What it does on a layer is of
\* no effect on the next ones but for where their search starts.
Insert(g, id, start, top) ==
    LET q == Position(id)
        ef == config.efConstruction
        Candidates(layer) == SearchLayer(g, q, Arrive(g, q, start, ef, top, layer), ef, layer)
    IN  Relinked(g, id, [layer \in 0 .. top |-> Closest(g, q, config.M, Candidates(layer))], top)

Lower(a, b) == IF a < b THEN a ELSE b

\* Mutant of Pushed: the place is taken after the node has been pushed.
PushedLate(id, level) ==
    [nodes |-> Append(nodes, [id |-> id, links |-> [l \in 0 .. level |-> {}], deleted |-> FALSE]),
     index |-> [index EXCEPT ![id] = Len(nodes) + 2]]

\* The graph after the node for id has been pushed, not yet linked.
Pushed(id, level) ==
    [nodes |-> Append(nodes, [id |-> id, links |-> [l \in 0 .. level |-> {}], deleted |-> FALSE]),
     index |-> [index EXCEPT ![id] = Len(nodes) + 1]]

AddFirst(id, level) ==
    /\ count = 0
    /\ nodes' = Pushed(id, level).nodes
    /\ index' = Pushed(id, level).index
    /\ entry' = id
    /\ topLevel' = level
    /\ count' = 1
    /\ intact' = (Live = {})
    /\ UNCHANGED <<config, maxElements, file>>

\* The removed ids that nodes still in the index are linked to.  A node added
\* under one of them is found through these links before it has any itself.
StaleLinks ==
    (UNION {UNION {nodes[index[id]].links[layer] : layer \in DOMAIN nodes[index[id]].links}
               : id \in Live}) \ Live

AddLinked(id, level) ==
    /\ count # 0
    /\ LET g == Pushed(id, level)
           start == Descend(g, Position(id), level)
       IN  nodes' = Insert(g, id, start, Lower(level, topLevel)) /\ index' = g.index
    /\ IF level > topLevel THEN topLevel' = level /\ entry' = id
                           ELSE UNCHANGED <<topLevel, entry>>
    /\ count' = (count + 1) % SizeMod
    /\ intact' = (intact /\ id \notin StaleLinks)
    /\ UNCHANGED <<config, maxElements, file>>

\* Mutant of Add: a present id is added again.
AddReplacing(id) == /\ count < maxElements
                    /\ Len(nodes) < MaxNodes
                    /\ \E drawn \in 0 .. MaxLevel :
                          LET level == Lower(drawn, topLevel + 1)
                          IN  AddFirst(id, level) \/ AddLinked(id, level)

\* add, refused when the index is full or the id is there (allow_replace is
\* off, as everywhere in the repository).
Add(id) == /\ count < maxElements
           /\ id \notin Live
           /\ Len(nodes) < MaxNodes
           /\ \E drawn \in 0 .. MaxLevel :
                 LET level == Lower(drawn, topLevel + 1)
                 IN  AddFirst(id, level) \/ AddLinked(id, level)

\* Mutant of Remove: element_count_ is not decremented.
RemoveUncounted(id) ==
    /\ id \in Live
    /\ nodes' = [nodes EXCEPT ![index[id]].deleted = TRUE]
    /\ index' = [index EXCEPT ![id] = 0]
    /\ intact' = (intact /\ id # entry)
    /\ UNCHANGED <<count, entry, topLevel, config, maxElements, file>>

Remove(id) ==
    /\ id \in Live
    /\ nodes' = [nodes EXCEPT ![index[id]].deleted = TRUE]
    /\ index' = [index EXCEPT ![id] = 0]
    /\ count' = (count + SizeMod - 1) % SizeMod
    /\ intact' = (intact /\ id # entry)
    /\ UNCHANGED <<entry, topLevel, config, maxElements, file>>

\* resize never goes below the count.
Resize(n) == /\ n >= count /\ n # maxElements
             /\ maxElements' = n
             /\ UNCHANGED <<nodes, index, entry, topLevel, count, config, file, intact>>

\* set_ef_search, for this query and every later one.
SetEfSearch(ef) ==
    /\ config' = [config EXCEPT !.efSearch = ef]
    /\ UNCHANGED <<nodes, index, entry, topLevel, count, maxElements, file, intact>>

SavedNode(node) == [node EXCEPT !.deleted = FALSE]

\* save writes every node, removed ones too, without the deleted flag.
Save == /\ file' = [saved |-> TRUE, count |-> count, topLevel |-> topLevel, entry |-> entry,
                    config |-> config, maxElements |-> maxElements, index |-> index, intact |-> intact,
                    nodes |-> [i \in DOMAIN nodes |-> SavedNode(nodes[i])]]
        /\ UNCHANGED <<nodes, index, entry, topLevel, count, config, maxElements, intact>>

FirstPlace(ns, id) ==   \* mutant: the oldest node of an id wins
    LET places == {i \in DOMAIN ns : ns[i].id = id}
    IN  IF places = {} THEN 0 ELSE CHOOSE i \in places : \A j \in places : j >= i

\* The place of the last node with an id, 0 if there is none.
LastPlace(ns, id) ==
    LET places == {i \in DOMAIN ns : ns[i].id = id}
    IN  IF places = {} THEN 0 ELSE CHOOSE i \in places : \A j \in places : j <= i

\* A new process loads the file and indexes every node in it.
Load == /\ file.saved
        /\ nodes' = file.nodes
        /\ index' = [id \in DOMAIN index |-> LastPlace(file.nodes, id)]
        /\ entry' = file.entry
        /\ topLevel' = file.topLevel
        /\ count' = file.count
        /\ config' = file.config
        /\ maxElements' = file.maxElements
        /\ intact' = (file.intact /\ index' = file.index)
        /\ UNCHANGED file

Update == \/ \E id \in Ids : Add(id) \/ Remove(id)
          \/ \E n \in Capacities : Resize(n)
          \/ \E ef \in EfSearches : SetEfSearch(ef)

Next == Update \/ Save \/ Load

\* One process, from an empty index.
ProcessSpec == Init /\ [][Update]_vars
Spec == Init /\ [][Next]_vars

------------------------------------------------------------------------------
Node == [id : Ids, links : UNION {[0 .. l -> SUBSET Ids] : l \in 0 .. MaxLevel},
         deleted : BOOLEAN]

TypeOK == /\ nodes \in Seq(Node) /\ Len(nodes) <= MaxNodes
          /\ index \in [Ids -> 0 .. Len(nodes)]
          /\ entry \in Ids \cup {0}
          /\ topLevel \in 0 .. MaxLevel
          /\ count \in 0 .. SizeMod - 1
          /\ config \in Config
          /\ maxElements \in Capacities
          /\ intact \in BOOLEAN

\* id_to_index_ and the deleted flags agree: an id is indexed by the one node
\* of its own that is not deleted, whatever was removed and added again.
IndexExact ==
    /\ \A id \in Live : nodes[index[id]].id = id
    /\ {index[id] : id \in Live} = {i \in DOMAIN nodes : ~nodes[i].deleted}

\* size() counts the indexed ids, and never wraps.
CountExact == count = Cardinality(Live)

\* Degrees stay bounded on every layer through all the relinking.
LinksBounded ==
    \A i \in DOMAIN nodes : \A layer \in DOMAIN nodes[i].links :
        Cardinality(nodes[i].links[layer]) <= MaxLinks(layer)

Queries == {Position(id) : id \in Ids}

\* The links and the widths of the searches cover every id.
Covers == /\ config.M >= Cardinality(Ids)
          /\ config.efConstruction >= Cardinality(Ids)
          /\ config.efSearch >= Cardinality(Ids)

\* The search is exact when the configuration covers the ids: the k nearest
\* live vectors, whatever was added, removed, saved and loaded, in a graph no
\* step has cut: its entry point was not removed, and no node was added under
\* a removed id that others still link to.  A filtered search is exact there
\* when its filter keeps out at most 2 * k.
SearchExact ==
    intact /\ Covers => \A q \in Queries : \A k \in 1 .. Cardinality(Ids) :
        /\ Search(q, k) = Closest(Graph, q, k, Live)
        /\ \A passing \in SUBSET Live :
              Cardinality(Live \ passing) <= 2 * k =>
                 SearchFiltered(q, k, passing) = Closest(Graph, q, k, passing)

\* However the links are pruned and however narrow the search, it answers
\* something while the index is not empty and its entry point is in it.
SearchAnswers == count # 0 /\ entry \in Live => \A q \in Queries : Search(q, 1) # {}

\* A saved vector is never lost or replaced by an older one of the same id:
\* after load every id indexed at the save is served by the node it had.
LoadKeepsVectors ==
    [][Load => \A id \in DOMAIN index : file.index[id] # 0 => index'[id] = file.index[id]]_vars

\* "The node remains in the graph but is skipped during search": removing one
\* vector does not hide the others.
RemovalHidesOne == \A q \in Queries : Live # {} => Search(q, 1) # {}
==============================================================================
