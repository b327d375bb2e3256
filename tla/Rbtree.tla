------------------------------- MODULE Rbtree -------------------------------
(***************************************************************************)
(* The tree of std::map, set, multimap and multiset in the memory of a     *)
(* debugged program, and the Python that reads it: RbtreeIterator,         *)
(* StdMapPrinter and StdSetPrinter of libstdcxx/v6/printers.py, and        *)
(* node_count() of libstdcxx/v6/xmethods.py.                               *)
(*                                                                         *)
(* The nodes hang under a header that lies in the container: its parent is *)
(* the root, its left and right are the first and the last node.  Which    *)
(* trees are balanced does not matter to a reader, so the program makes    *)
(* them all.  It relinks the tree first and counts afterwards, and can be  *)
(* stopped in between; the stores of one relinking are one step.           *)
(***************************************************************************)
EXTENDS Integers, Sequences, FiniteSets, Functions

CONSTANTS Map,      \* whether a node holds a pair
          Nodes,    \* where a node can be allocated
          Header,   \* the address of the header in the container
          Null

VARIABLES left, right, parent,   \* the links of the nodes and the header
          node_count,            \* _M_node_count
          order,                 \* the nodes, in the order of their keys
          half,                  \* what is relinked and not counted yet
          mode, iter, listed

container == <<left, right, parent, node_count, order, half>>
vars == <<left, right, parent, node_count, order, half, mode, iter, listed>>

Links == Nodes \union {Header}
first(n) == <<"first", n>>
second(n) == <<"second", n>>

\* What the count lets a reader see: without the last node while one that was
\* inserted is not counted, and with the header in the place of one that was
\* removed and is still counted.
counted == [i \in 1..node_count |->
               IF i <= Len(order) THEN order[i] ELSE Header]
contents == IF Map THEN [i \in 1..2 * node_count |->
                            IF i % 2 = 1 THEN first(counted[(i + 1) \div 2])
                                         ELSE second(counted[i \div 2])]
                   ELSE [i \in 1..node_count |-> first(counted[i])]

NoIter == [node |-> Null, count |-> 0, pair |-> Null, number |-> 0]

Init == /\ left = [n \in Links |-> IF n = Header THEN Header ELSE Null]
        /\ right = [n \in Links |-> IF n = Header THEN Header ELSE Null]
        /\ parent = [n \in Links |-> Null]
        /\ node_count = 0
        /\ order = <<>>
        /\ half = "none"
        /\ mode = "running"
        /\ iter = NoIter
        /\ listed = <<>>
-----------------------------------------------------------------------------
\* The program's side (bits/stl_tree.h and tree.cc).

Ends(o) == IF o = <<>> THEN <<Header, Header>> ELSE <<o[1], o[Len(o)]>>

\* The links l, r, p of the nodes, with the header's of a tree in order o.
Relink(l, r, p, o) ==
    /\ left' = [l EXCEPT ![Header] = Ends(o)[1]]
    /\ right' = [r EXCEPT ![Header] = Ends(o)[2]]
    /\ parent' = p
    /\ order' = o

InsertRoot(n) ==
    /\ mode = "running" /\ half = "none" /\ order = <<>>
    /\ Relink([left EXCEPT ![n] = Null], [right EXCEPT ![n] = Null],
              [parent EXCEPT ![n] = Header, ![Header] = n], <<n>>)
    /\ half' = "inserted"
    /\ UNCHANGED <<node_count, mode, iter, listed>>

\* A leaf under the k-th node, on the side that is free.
InsertLeaf(n, k, onLeft) ==
    LET q == order[k]
    IN  /\ mode = "running" /\ half = "none"
        /\ n \notin Range(order)
        /\ (IF onLeft THEN left[q] ELSE right[q]) = Null
        /\ Relink([left EXCEPT ![n] = Null, ![q] = IF onLeft THEN n ELSE @],
                  [right EXCEPT ![n] = Null, ![q] = IF onLeft THEN @ ELSE n],
                  [parent EXCEPT ![n] = q],
                  LET at == IF onLeft THEN k - 1 ELSE k
                  IN  SubSeq(order, 1, at) \o <<n>>
                          \o SubSeq(order, at + 1, Len(order)))
        /\ half' = "inserted"
        /\ UNCHANGED <<node_count, mode, iter, listed>>

\* The link to n in the node above it leads to m.
Replace(link, n, m) ==
    [link EXCEPT ![parent[n]] = IF parent[n] # Header /\ @ = n THEN m ELSE @]
Below(p, n, m) == IF parent[n] = Header THEN [p EXCEPT ![Header] = m] ELSE p

\* The k-th node, which has at most one child, leaves the tree and is freed.
Erase(k) ==
    LET n == order[k]
        m == IF left[n] # Null THEN left[n] ELSE right[n]
    IN  /\ mode = "running" /\ half = "none"
        /\ left[n] = Null \/ right[n] = Null
        /\ Relink([Replace(left, n, m) EXCEPT ![n] = Null],
                  [Replace(right, n, m) EXCEPT ![n] = Null],
                  Below([x \in Links |-> IF x = n THEN Null
                                         ELSE IF x = m THEN parent[n]
                                         ELSE parent[x]], n, m),
                  SubSeq(order, 1, k - 1) \o SubSeq(order, k + 1, Len(order)))
        /\ half' = "erased"
        /\ UNCHANGED <<node_count, mode, iter, listed>>

\* The right child of n becomes its parent; a rotation to the right undoes it.
RotateLeft(n) ==
    LET m == right[n]
        c == left[m]
        p == [parent EXCEPT ![n] = m, ![m] = parent[n]]
    IN  /\ mode = "running" /\ half = "none"
        /\ n \in Range(order) /\ m # Null
        /\ Relink([Replace(left, n, m) EXCEPT ![m] = n],
                  [Replace(right, n, m) EXCEPT ![n] = c],
                  Below(IF c = Null THEN p ELSE [p EXCEPT ![c] = n], n, m),
                  order)
        /\ UNCHANGED <<node_count, half, mode, iter, listed>>

Count == /\ mode = "running" /\ half # "none"
         /\ node_count' = Len(order)
         /\ half' = "none"
         /\ UNCHANGED <<left, right, parent, order, mode, iter, listed>>
-----------------------------------------------------------------------------
\* children(): RbtreeIterator.__init__
Children == /\ mode = "running"
            /\ mode' = "listing"
            /\ iter' = [NoIter EXCEPT !.node = left[Header]]
            /\ UNCHANGED <<container, listed>>

\* The loop to the left.
Leftmost[n \in Nodes] == IF left[n] = Null THEN n ELSE Leftmost[left[n]]

\* The loop up: the first node that is not the right child of its parent.
Climb[n \in {x \in Links : parent[x] # Null}] ==
    IF n = right[parent[n]] THEN Climb[parent[n]] ELSE n

\* Mutant: the right child is the next node.
successor_right(n) == right[n]

\* Compute the next node.
successor(n) ==
    IF right[n] # Null
    THEN Leftmost[right[n]]
    ELSE LET m == Climb[n]
         IN  IF right[m] # parent[m] THEN parent[m] ELSE m

\* The test of RbtreeIterator.__next__ for the end.
AtEnd == iter.count = node_count

\* RbtreeIterator.__next__: the node returned, and the iterator after it.
Advance(i) == [i EXCEPT !.count = @ + 1,
                        !.node = IF i.count + 1 < node_count
                                 THEN successor(@) ELSE @]

\* StdMapPrinter._iter.__next__ shows the second half of the pair.
Second == /\ mode = "listing"
          /\ Map /\ iter.number % 2 = 1
          /\ listed' = Append(listed, <<iter.number, second(iter.pair)>>)
          /\ iter' = [iter EXCEPT !.number = @ + 1]
          /\ UNCHANGED <<container, mode>>

\* It, or StdSetPrinter._iter.__next__, takes the next node.
Element == /\ mode = "listing"
           /\ ~Map \/ iter.number % 2 = 0
           /\ ~AtEnd
           /\ iter.node # Null
           /\ listed' = Append(listed, <<iter.number, first(iter.node)>>)
           /\ iter' = [Advance(iter) EXCEPT !.pair = iter.node,
                                            !.number = @ + 1]
           /\ UNCHANGED <<container, mode>>

\* StopIteration of the RbtreeIterator passes through.
StopIteration == /\ mode = "listing"
                 /\ ~Map \/ iter.number % 2 = 0
                 /\ AtEnd
                 /\ mode' = "listed"
                 /\ iter' = NoIter
                 /\ UNCHANGED <<container, listed>>

\* The user lets the program go on, perhaps having interrupted the listing.
Continue == /\ mode \in {"listing", "listed"}
            /\ mode' = "running"
            /\ iter' = NoIter
            /\ listed' = <<>>
            /\ UNCHANGED container

Next == \/ \E n \in Nodes : InsertRoot(n) \/ RotateLeft(n)
        \/ \E n \in Nodes, k \in DOMAIN order, onLeft \in BOOLEAN :
              InsertLeaf(n, k, onLeft)
        \/ \E k \in DOMAIN order : Erase(k)
        \/ Count
        \/ Children
        \/ Second
        \/ Element
        \/ StopIteration
        \/ Continue

Spec == Init /\ [][Next]_vars

\* RbtreeIterator.__len__, the number that to_string announces, and
\* AssociativeContainerWorkerBase.node_count.
to_string == node_count
-----------------------------------------------------------------------------
TypeOK == /\ left \in [Links -> Links \union {Null}]
          /\ right \in [Links -> Links \union {Null}]
          /\ parent \in [Links -> Links \union {Null}]
          /\ node_count \in 0..Cardinality(Nodes)
          /\ order \in Seq(Nodes)
          /\ half \in {"none", "inserted", "erased"}
          /\ mode \in {"running", "listing", "listed"}
          /\ iter \in [node : Links \union {Null}, count : Nat,
                       pair : Links \union {Null}, number : Nat]
          /\ listed \in Seq(Nat \X ({"first", "second"} \X Links))

\* What lies behind the header is shown as an element only if the program was
\* stopped between unlinking a node and counting it (printers.py:416, 432).
HeaderOnlyWhenErased ==
    (\E i \in DOMAIN listed : listed[i][2][2] = Header) => half = "erased"

\* The number of elements announced is that of the elements shown, and no
\* element is shown twice (printers.py:511, 551).
AnnouncedIsListed ==
    /\ mode = "listed" => Len(listed) = to_string * (IF Map THEN 2 ELSE 1)
    /\ \A i, j \in DOMAIN listed :
          listed[i][2] = listed[j][2] => i = j
=============================================================================
