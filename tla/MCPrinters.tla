----------------------------- MODULE MCPrinters -----------------------------
(***************************************************************************)
(* The printers and xmethods of libstdcxx/v6 side by side, for TLC: a      *)
(* behaviour is about one object, which is of the kind that the first      *)
(* state chooses, and the variables of the other kinds are Unused.         *)
(***************************************************************************)
EXTENDS Deque, FiniteSets

CONSTANTS Addresses, Keys, TreeNodes, Handles,
          Sentinel, Header, Null, Nowhere, Unused

\* The sentinel of a list and the header of a tree are no nodes, the null pointer
\* and the mark of a table are neither, and memory is finite.
ASSUME PrintersAssumption ==
    /\ Sentinel \notin Addresses
    /\ Null \notin Addresses \union {Sentinel}
    /\ Nowhere \notin Keys /\ Null \notin Keys \union {Nowhere}
    /\ Header \notin TreeNodes /\ Null \notin TreeNodes \union {Header}
    /\ IsFiniteSet(Keys) /\ IsFiniteSet(TreeNodes)

VARIABLES which,                                            \* the kind
          storage,                                          \* Vector
          next, prev, data, order, half,                    \* Nodes
          hash, bucket_count, buckets, element_count, chains,   \* Hashtable
          left, right, parent, node_count,                  \* Rbtree
          gcc, derived, head, count,                        \* Tuple
          kind, block, use, weak,                           \* SharedPtr
          value, disabled, disabledMethods                  \* Dispatch

\* A vector, below of up to four elements, and a vector<bool> of words of three
\* bits, up to two words.
Vec(bits, word, values, items) ==
    INSTANCE Vector WITH bitvec <- bits, isize <- word, Values <- values,
                         MaxItems <- items

\* A list is a ring, a forward_list a chain.
Linked(ring) == INSTANCE Nodes WITH Ring <- ring

\* The tables of the unordered containers, of std::tr1 or not, and the trees.
Table(tr1, map) ==
    INSTANCE Hashtable WITH Tr1 <- tr1, Map <- map, MaxBuckets <- 3

Tree(map) == INSTANCE Rbtree WITH Map <- map, Nodes <- TreeNodes

Tower == INSTANCE Tuple WITH MaxSize <- 4
Pointer == INSTANCE SharedPtr

\* The forms of the names of classes: of the normal and the debug mode, with
\* versioned namespaces, of TR1 and of the new ABI.
Form(namespaces, template) ==
    [type |-> <<namespaces, template>>, state |-> "full"]
Modes == {<<"std">>, <<"std", "__7">>, <<"std", "__cxx1998">>,
          <<"std", "__cxx1998", "__7">>, <<"std", "__debug">>}
Names == (Modes \X {"vector", "list", "map", "multiset", "unordered_map",
                   "unordered_set", "forward_list", "deque", "bitset"})
         \union ({<<"std">>, <<"std", "__7">>} \X {"tuple", "unique_ptr"})
         \union ({<<"std", "tr1">>, <<"std", "tr1", "__7">>}
                    \X {"shared_ptr", "unordered_map", "unordered_set"})
         \union ({<<"std", "__cxx11">>, <<"std", "__7", "__cxx11">>}
                    \X {"list", "basic_string"})
         \union {<<<<"std">>, "array">>}
FundamentalsTS == <<"std", "experimental", "fundamentals_v1">>

\* What a stack, an any and an optional are put around, and what is put around
\* these: a value without a printer (<<>>), with one, and with children.
Bare == {<<>>} \union {<<Form(n[1], n[2])>> :
             n \in {<<<<"std">>, "vector">>, <<<<"std">>, "map">>,
                   <<<<"std", "__cxx11">>, "list">>,
                   <<<<"std", "__cxx11">>, "basic_string">>}}
Around(values) ==
    LET wrap(n, state, v) == <<[type |-> n, state |-> state]>> \o v
        any == <<FundamentalsTS, "any">>
        optional == <<FundamentalsTS, "optional">>
        sequences == {v \in values : v # <<>> /\ Head(v).type[2] \in
                                    {"vector", "list", "basic_string"}}
    IN  {wrap(<<<<"std">>, "stack">>, "full", v) : v \in sequences}
        \union {wrap(any, "full", v) : v \in values}
        \union {wrap(any, state, <<>>) : state \in {"empty", "opaque"}}
        \union {wrap(optional, state, v) :
                    state \in {"full", "empty"}, v \in values}
        \union {wrap(optional, "empty", wrap(any, "junk", <<>>))}

Lookup == INSTANCE Dispatch WITH
    Subjects <- {<<Form(n[1], n[2])>> : n \in Names} \union Around(Bare)
                    \union Around(Around(Bare)),
    Switched <- {<<<<"std">>, "vector">>, <<<<"std">>, "stack">>,
                 <<FundamentalsTS, "any">>},
    SwitchedMethods <- {<<"vector", "size">>}

\* The variables, by the kinds that have them in common.
stops     == <<mode, iter, listed>>
blocks    == <<finish, cells, contents>>
dequeOnly == start
vecOnly   == storage
chained   == <<order, half>>
nodesOnly == <<prev, data>>
hashOnly  == <<hash, bucket_count, buckets, element_count, chains>>
treeOnly  == <<left, right, parent, node_count>>
tupleOnly == <<gcc, derived, head, count>>
ptrOnly   == <<kind, block, use, weak>>
valueOnly == <<value, disabled, disabledMethods>>
everything == <<which, stops, blocks, dequeOnly, vecOnly, next, chained,
                nodesOnly, hashOnly, treeOnly, tupleOnly, ptrOnly,
                valueOnly>>

NoDeque == start = Unused
NoBlocks == finish = Unused /\ cells = Unused /\ contents = Unused
NoVector == storage = Unused
NoNext == next = Unused
NoNodes == prev = Unused /\ data = Unused
NoOrder == order = Unused /\ half = Unused
NoHash == /\ hash = Unused /\ bucket_count = Unused /\ buckets = Unused
          /\ element_count = Unused /\ chains = Unused
NoTree == /\ left = Unused /\ right = Unused /\ parent = Unused
          /\ node_count = Unused
NoTuple == /\ gcc = Unused /\ derived = Unused /\ head = Unused
           /\ count = Unused
NoPointer == /\ kind = Unused /\ block = Unused /\ use = Unused
             /\ weak = Unused
NoValue == /\ value = Unused /\ disabled = Unused
           /\ disabledMethods = Unused

AnyInit ==
    \/ /\ which = "deque" /\ Init
       /\ NoVector /\ NoNext /\ NoNodes /\ NoOrder /\ NoHash /\ NoTree
       /\ NoTuple /\ NoPointer /\ NoValue
    \/ /\ \/ which = "vector" /\ Vec(FALSE, 64, Values, 4)!Init
          \/ which = "vector<bool>" /\ Vec(TRUE, 3, {0, 1}, 2)!Init
       /\ NoDeque /\ NoNext /\ NoNodes /\ NoOrder /\ NoHash /\ NoTree
       /\ NoTuple /\ NoPointer /\ NoValue
    \/ /\ \/ which = "list" /\ Linked(TRUE)!Init
          \/ which = "forward_list" /\ Linked(FALSE)!Init
       /\ NoDeque /\ NoBlocks /\ NoVector /\ NoHash /\ NoTree
       /\ NoTuple /\ NoPointer /\ NoValue
    \/ /\ \/ which = "tr1::unordered_map" /\ Table(TRUE, TRUE)!Init
          \/ which = "unordered_set" /\ Table(FALSE, FALSE)!Init
       /\ NoDeque /\ NoBlocks /\ NoVector /\ NoNodes /\ NoOrder /\ NoTree
       /\ NoTuple /\ NoPointer /\ NoValue
    \/ /\ \/ which = "map" /\ Tree(TRUE)!Init
          \/ which = "set" /\ Tree(FALSE)!Init
       /\ NoDeque /\ NoBlocks /\ NoVector /\ NoNext /\ NoNodes /\ NoHash
       /\ NoTuple /\ NoPointer /\ NoValue
    \/ /\ which = "tuple" /\ Tower!Init
       /\ finish = Unused /\ cells = Unused /\ iter = Unused
       /\ NoDeque /\ NoVector /\ NoNext /\ NoNodes /\ NoOrder /\ NoHash
       /\ NoTree /\ NoPointer /\ NoValue
    \/ /\ which = "shared_ptr" /\ Pointer!Init
       /\ mode = "running" /\ listed = <<>> /\ iter = Unused
       /\ NoDeque /\ NoBlocks /\ NoVector /\ NoNext /\ NoNodes /\ NoOrder
       /\ NoHash /\ NoTree /\ NoTuple /\ NoValue
    \/ /\ which = "dispatch" /\ Lookup!Init
       /\ mode = "running" /\ listed = <<>> /\ iter = Unused
       /\ NoDeque /\ NoBlocks /\ NoVector /\ NoNext /\ NoNodes /\ NoOrder
       /\ NoHash /\ NoTree /\ NoTuple /\ NoPointer

\* The steps of the kind, which leave the other variables as they are.
ChosenNext ==
    \/ /\ which = "deque" /\ Next
       /\ UNCHANGED <<vecOnly, next, chained, nodesOnly, hashOnly, treeOnly,
                      tupleOnly, ptrOnly, valueOnly>>
    \/ /\ \/ which = "vector" /\ Vec(FALSE, 64, Values, 4)!Next
          \/ which = "vector<bool>" /\ Vec(TRUE, 3, {0, 1}, 2)!Next
       /\ UNCHANGED <<dequeOnly, next, chained, nodesOnly, hashOnly, treeOnly,
                      tupleOnly, ptrOnly, valueOnly>>
    \/ /\ \/ which = "list" /\ Linked(TRUE)!Next
          \/ which = "forward_list" /\ Linked(FALSE)!Next
       /\ UNCHANGED <<dequeOnly, blocks, vecOnly, hashOnly, treeOnly,
                      tupleOnly, ptrOnly, valueOnly>>
    \/ /\ \/ which = "tr1::unordered_map" /\ Table(TRUE, TRUE)!Next
          \/ which = "unordered_set" /\ Table(FALSE, FALSE)!Next
       /\ UNCHANGED <<dequeOnly, blocks, vecOnly, chained, nodesOnly, treeOnly,
                      tupleOnly, ptrOnly, valueOnly>>
    \/ /\ \/ which = "map" /\ Tree(TRUE)!Next
          \/ which = "set" /\ Tree(FALSE)!Next
       /\ UNCHANGED <<dequeOnly, blocks, vecOnly, next, nodesOnly, hashOnly,
                      tupleOnly, ptrOnly, valueOnly>>
    \/ /\ which = "tuple" /\ Tower!Next
       /\ UNCHANGED <<dequeOnly, finish, cells, iter, vecOnly, next, chained,
                      nodesOnly, hashOnly, treeOnly, ptrOnly, valueOnly>>
    \/ /\ which = "shared_ptr" /\ Pointer!Next
       /\ UNCHANGED <<stops, dequeOnly, blocks, vecOnly, next, chained,
                      nodesOnly, hashOnly, treeOnly, tupleOnly,
                      valueOnly>>
    \/ /\ which = "dispatch" /\ Lookup!Next
       /\ UNCHANGED <<stops, dequeOnly, blocks, vecOnly, next, chained,
                      nodesOnly, hashOnly, treeOnly, tupleOnly, ptrOnly>>

AnyNext == ChosenNext /\ UNCHANGED which

\* __next__ is called until it raises StopIteration, if the user lets it.
Called == AnyNext /\ mode = "listing" /\ mode' # "running"

AnySpec == AnyInit /\ [][AnyNext]_everything /\ WF_everything(Called)
-----------------------------------------------------------------------------
\* Every variable of every kind keeps its type; above all the iterators, which
\* stay within the memory of their container (printers.py:133-860) and take
\* nothing for an element that is none: the mark behind the last bucket of a tr1
\* table never, the header of a tree only when a node has gone that is still
\* counted (printers.py:416-434, 714-735).
AnyTypeOK ==
    CASE which = "deque" -> TypeOK
      [] which = "vector" -> Vec(FALSE, 64, Values, 4)!TypeOK
      [] which = "vector<bool>" -> Vec(TRUE, 3, {0, 1}, 2)!TypeOK
      [] which = "list" -> Linked(TRUE)!TypeOK
      [] which = "forward_list" -> Linked(FALSE)!TypeOK
      [] which = "tr1::unordered_map" -> /\ Table(TRUE, TRUE)!TypeOK
                                         /\ Table(TRUE, TRUE)!StaysInTable
      [] which = "unordered_set" -> Table(FALSE, FALSE)!TypeOK
      [] which = "map" -> /\ Tree(TRUE)!TypeOK
                          /\ Tree(TRUE)!HeaderOnlyWhenErased
      [] which = "set" -> /\ Tree(FALSE)!TypeOK
                          /\ Tree(FALSE)!HeaderOnlyWhenErased
      [] which = "tuple" -> Tower!TypeOK
      [] which = "shared_ptr" -> Pointer!TypeOK
      [] which = "dispatch" -> Lookup!TypeOK

held == CASE which \in {"deque", "vector", "vector<bool>", "tuple"} -> contents
          [] which = "list" -> Linked(TRUE)!contents
          [] which = "forward_list" -> Linked(FALSE)!contents
          [] which = "tr1::unordered_map" -> Table(TRUE, TRUE)!contents
          [] which = "unordered_set" -> Table(FALSE, FALSE)!contents
          [] which = "map" -> Tree(TRUE)!contents
          [] which = "set" -> Tree(FALSE)!contents
          [] which \in {"shared_ptr", "dispatch"} -> <<>>

\* The numbers of a tuple begin with 1, unlike those of the other printers.
numbered == IF which = "tuple"
            THEN [i \in DOMAIN listed |-> <<listed[i][1] - 1, listed[i][2]>>]
            ELSE listed

\* Every printer implements Listing: wherever the program has been stopped,
\* each element is listed once and in order, across the nodes of a deque, the
\* words of a vector<bool>, half made links, empty buckets, a tree of any
\* shape and a tower of either library (printers.py:146-153, 247-268, 331-370,
\* 415-435, 494-505, 616-632, 714-753, 795-818).
L == INSTANCE Listing WITH First <- 0, contents <- held, listed <- numbered
Lists == L!Spec

\* A listing ends in every state in which the program can be stopped
\* (printers.py:146, 251, 334, 416, 617, 724, 747).
ListingEnds == (mode = "listing") ~> (mode # "listing")

\* The xmethods return what the object contains: front(), back() and empty() of
\* every deque, size() and operator[] of one whose first element is the first of
\* its node, all of them in words of a vector<bool> that are full and that are
\* not, and of a list between the two stores that link a node, but for back()
\* (xmethods.py:170-226, 285-369, 399-481).
MethodsAgree ==
    CASE which = "deque" -> EndsAgree /\ CountsFromStart
      [] which = "vector" -> Vec(FALSE, 64, Values, 4)!WorkersAgree
      [] which = "vector<bool>" -> Vec(TRUE, 3, {0, 1}, 2)!WorkersAgree
      [] which = "list" -> /\ Linked(TRUE)!WorkersAgree
                           /\ Linked(TRUE)!BackUnlessHalf
      [] which = "forward_list" -> Linked(FALSE)!WorkersAgree
      [] OTHER -> TRUE

\* What a printer announces is what is then listed, by deques and vectors of any
\* history, by rehashed tables, by trees that are relinked and not yet counted;
\* and the owners and observers of a pointer, wherever the threads have been
\* stopped (printers.py:110-120, 280-297, 511, 644, 767).
AnnouncedIsThere ==
    CASE which = "deque" -> CountsElements
      [] which = "vector" -> Vec(FALSE, 64, Values, 4)!LengthAgrees
      [] which = "vector<bool>" -> Vec(TRUE, 3, {0, 1}, 2)!LengthAgrees
      [] which = "tr1::unordered_map" -> Table(TRUE, TRUE)!AnnouncedIsListed
      [] which = "unordered_set" -> Table(FALSE, FALSE)!AnnouncedIsListed
      [] which = "map" -> Tree(TRUE)!AnnouncedIsListed
      [] which = "set" -> Tree(FALSE)!AnnouncedIsListed
      [] which = "shared_ptr" -> /\ Pointer!ShowsOwners
                                 /\ Pointer!ShowsObservers
                                 /\ Pointer!CountersCount
      [] OTHER -> TRUE

\* A stack, a queue, an any or an optional shows what it contains, through all
\* layers and whatever the user has switched off, but for a container without
\* a printer, memory that only looks like an any, and an any whose manager or
\* type the debugger does not know (printers.py:384-401, 861-967).
NestedShown == which = "dispatch" => Lookup!RaisesOnly /\ Lookup!HintFits

\* Every form of the name of a class gets the printer of the plain one, but for
\* the list of the new ABI, which has none, and its xmethods, if it has any, read
\* what the printer reads (printers.py:1066-1117, xmethods.py:535-554).
FormsAgree == which = "dispatch" => Lookup!FormsShown /\ Lookup!MethodsFit
=============================================================================
