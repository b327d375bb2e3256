------------------------------- MODULE Vector -------------------------------
(***************************************************************************)
(* A std::vector, or a std::vector<bool>, in the memory of a debugged      *)
(* program, and the Python that reads it: StdVectorPrinter of              *)
(* libstdcxx/v6/printers.py, also used by the path printer for its         *)
(* components, and the vector workers of libstdcxx/v6/xmethods.py.         *)
(*                                                                         *)
(* A vector<bool> packs isize elements into a word; its iterators are a    *)
(* word and an offset in it.  A plain vector is kept in the same cells,    *)
(* with one element to an item and offset 0.                               *)
(***************************************************************************)
EXTENDS Integers, Sequences

CONSTANTS bitvec,    \* whether the elements are bool
          isize,     \* the bits of a word
          Values,    \* what an element can be; {0, 1} if bitvec
          MaxItems   \* the most items allocated

Width == IF bitvec THEN isize ELSE 1

VARIABLES finish,    \* _M_finish: [p, offset]; _M_start is [0, 0]
          storage,   \* _M_end_of_storage: the number of items allocated
          cells,     \* the elements in memory: item, offset
          contents, mode, iter, listed

container == <<finish, storage, cells, contents>>
vars == <<finish, storage, cells, contents, mode, iter, listed>>

start == [p |-> 0, offset |-> 0]
NoIter == [item |-> 0, so |-> 0, count |-> 0]

Init == /\ finish = start
        /\ storage = 0
        /\ cells = <<>>
        /\ contents = <<>>
        /\ mode = "running"
        /\ iter = NoIter
        /\ listed = <<>>
-----------------------------------------------------------------------------
\* The program's side (bits/stl_vector.h, bits/stl_bvector.h).  Memory that
\* was never written holds anything.

Slots(n) == (0..n - 1) \X (0..Width - 1)

Reserve(n) == /\ mode = "running"
              /\ n > storage
              /\ \E fill \in Values :
                    cells' = [s \in Slots(n) |->
                                IF s \in DOMAIN cells THEN cells[s] ELSE fill]
              /\ storage' = n
              /\ UNCHANGED <<finish, contents, mode, iter, listed>>

PushBack(v) ==
    /\ mode = "running"
    /\ finish.p < storage
    /\ cells' = [cells EXCEPT ![<<finish.p, finish.offset>>] = v]
    /\ finish' = IF finish.offset = Width - 1
                 THEN [p |-> finish.p + 1, offset |-> 0]
                 ELSE [finish EXCEPT !.offset = @ + 1]
    /\ contents' = Append(contents, v)
    /\ UNCHANGED <<storage, mode, iter, listed>>

PopBack ==
    /\ mode = "running"
    /\ contents # <<>>
    /\ finish' = IF finish.offset = 0
                 THEN [p |-> finish.p - 1, offset |-> Width - 1]
                 ELSE [finish EXCEPT !.offset = @ - 1]
    /\ contents' = SubSeq(contents, 1, Len(contents) - 1)
    /\ UNCHANGED <<storage, cells, mode, iter, listed>>

\* StdVectorPrinter.children, _iterator.__init__
Children == /\ mode = "running"
            /\ mode' = "listing"
            /\ iter' = [item |-> start.p, so |-> start.offset, count |-> 0]
            /\ UNCHANGED <<container, listed>>

\* The test of __next__ for the end of the container.
AtEnd == /\ iter.item = finish.p
         /\ bitvec => iter.so >= finish.offset

\* The element that the iterator points at.  Behind the storage is none.
HasElement == <<iter.item, iter.so>> \in DOMAIN cells
element == <<iter.count, cells[<<iter.item, iter.so>>]>>

\* Mutant: the offset runs on behind the word.
BitRunsOn == /\ bitvec
             /\ mode = "listing"
             /\ ~AtEnd
             /\ HasElement
             /\ listed' = Append(listed, element)
             /\ iter' = [iter EXCEPT !.so = @ + 1, !.count = @ + 1]
             /\ UNCHANGED <<container, mode>>

\* __next__ of a vector<bool> returns an element ...
Bit == /\ bitvec
       /\ mode = "listing"
       /\ ~AtEnd
       /\ HasElement
       /\ listed' = Append(listed, element)
       /\ iter' = [item |-> IF iter.so + 1 >= isize
                            THEN iter.item + 1 ELSE iter.item,
                   so |-> IF iter.so + 1 >= isize THEN 0 ELSE iter.so + 1,
                   count |-> iter.count + 1]
       /\ UNCHANGED <<container, mode>>

\* ... and of any other vector.
Element == /\ ~bitvec
           /\ mode = "listing"
           /\ ~AtEnd
           /\ HasElement
           /\ listed' = Append(listed, element)
           /\ iter' = [iter EXCEPT !.item = @ + 1, !.count = @ + 1]
           /\ UNCHANGED <<container, mode>>

\* __next__ raises StopIteration.
StopIteration == /\ mode = "listing"
                 /\ AtEnd
                 /\ mode' = "listed"
                 /\ iter' = NoIter
                 /\ UNCHANGED <<container, listed>>

\* The user lets the program go on, perhaps having interrupted the listing.
Continue == /\ mode \in {"listing", "listed"}
            /\ mode' = "running"
            /\ iter' = NoIter
            /\ listed' = <<>>
            /\ UNCHANGED container

Next == \/ \E n \in 1..MaxItems : Reserve(n)
        \/ \E v \in Values : PushBack(v)
        \/ PopBack
        \/ Children
        \/ Bit
        \/ Element
        \/ StopIteration
        \/ Continue

Spec == Init /\ [][Next]_vars
-----------------------------------------------------------------------------
\* The length that StdVectorPrinter.to_string announces.
length ==
    IF bitvec
    THEN (isize - start.offset) + isize * ((finish.p - start.p) - 1)
         + finish.offset
    ELSE finish.p - start.p

\* The capacity that it announces.
capacity == IF bitvec THEN isize * (storage - start.p) ELSE storage - start.p

\* VectorWorkerBase.size
size == IF bitvec THEN (finish.p - start.p) * isize + finish.offset
                  ELSE finish.p - start.p

\* VectorWorkerBase.get
get(i) == IF bitvec THEN cells[<<start.p + i \div isize, i % isize>>]
                    ELSE cells[<<start.p + i, 0>>]

\* VectorAtWorker, VectorEmptyWorker and VectorBackWorker
AtRefuses(i) == i >= size
empty == size = 0
back == get(size - 1)
-----------------------------------------------------------------------------
TypeOK == /\ finish \in [p : 0..MaxItems, offset : 0..Width - 1]
          /\ storage \in 0..MaxItems
          /\ cells \in [Slots(storage) -> Values]
          /\ contents \in Seq(Values)
          /\ mode \in {"running", "listing", "listed"}
          /\ iter \in [item : 0..MaxItems, so : 0..Width - 1, count : Nat]
          /\ listed \in Seq(Nat \X Values)

\* The announced length is the number of elements, and the announced capacity
\* what can be held without allocating: no less (printers.py:280-297).
LengthAgrees == /\ length = Len(contents)
                /\ length <= capacity

\* size(), at(), operator[], back() and empty() give what the program would
\* get, and the printer announces the same size (xmethods.py:399-481).
WorkersAgree ==
    /\ size = length
    /\ empty <=> contents = <<>>
    /\ \A i \in 0..Len(contents) : AtRefuses(i) <=> i = Len(contents)
    /\ \A i \in 1..Len(contents) : get(i - 1) = contents[i]
    /\ contents # <<>> => back = contents[Len(contents)]
=============================================================================
