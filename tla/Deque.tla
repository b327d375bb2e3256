------------------------------- MODULE Deque -------------------------------
(***************************************************************************)
(* A std::deque in the memory of a debugged program, and the two pieces of *)
(* Python that read it: StdDequePrinter of libstdcxx/v6/printers.py and    *)
(* the deque workers of libstdcxx/v6/xmethods.py.                          *)
(*                                                                         *)
(* The map of the deque points to buffers ("nodes") of buffer_size slots.  *)
(* A pointer is <<node, slot>>; an iterator of the deque (_M_start,        *)
(* _M_finish) is its _M_node and the slot of its _M_cur, its _M_first and  *)
(* _M_last being slots 0 and buffer_size of the node.  The program changes *)
(* the deque at both ends; a stopped program is printed.                   *)
(***************************************************************************)
EXTENDS Integers, Sequences

CONSTANTS ElementSize,   \* sizeof of the element type
          Values,        \* what an element can be
          Garbage,       \* what a slot holds that was never constructed
          Nodes          \* the number of nodes the map has room for

ASSUME DequeAssumption == /\ ElementSize \in Nat \ {0}
                          /\ Garbage \notin Values
                          /\ Nodes \in Nat \ {0}

VARIABLES start, finish,   \* _M_start, _M_finish: [node, cur]
          cells,           \* the slots of all nodes
          contents,        \* the elements, in order
          mode,            \* "running", "listing" or "listed"
          iter,            \* the fields of StdDequePrinter._iter
          listed           \* what __next__ has returned

container == <<start, finish, cells, contents>>
vars == <<start, finish, cells, contents, mode, iter, listed>>

\* StdDequePrinter.__init__
buffer_size == IF ElementSize < 512 THEN 512 \div ElementSize ELSE 1

Slots == 0..buffer_size - 1
Pointers == (0..Nodes - 1) \X Slots
AnyPointer == (0..Nodes) \X (0..buffer_size)

Cur(i) == <<i.node, i.cur>>
PlusOne(p) == <<p[1], p[2] + 1>>
NoIter == [node |-> 0, p |-> <<0, 0>>, end |-> <<0, 0>>, last |-> <<0, 0>>,
           count |-> 0]

Init == /\ start = [node |-> Nodes \div 2, cur |-> 0]
        /\ finish = start
        /\ cells = [p \in Pointers |-> Garbage]
        /\ contents = <<>>
        /\ mode = "running"
        /\ iter = NoIter
        /\ listed = <<>>
-----------------------------------------------------------------------------
\* The program's side (bits/stl_deque.h).  _M_finish never rests at the end
\* of a node: its _M_cur is a slot.

Forward(i) == IF i.cur = buffer_size - 1 THEN [node |-> i.node + 1, cur |-> 0]
                                         ELSE [i EXCEPT !.cur = @ + 1]
Backward(i) == IF i.cur = 0 THEN [node |-> i.node - 1, cur |-> buffer_size - 1]
                            ELSE [i EXCEPT !.cur = @ - 1]

PushBack(v) == /\ mode = "running"
               /\ Forward(finish).node < Nodes
               /\ cells' = [cells EXCEPT ![Cur(finish)] = v]
               /\ finish' = Forward(finish)
               /\ contents' = Append(contents, v)
               /\ UNCHANGED <<start, mode, iter, listed>>

PushFront(v) == /\ mode = "running"
                /\ Backward(start).node >= 0
                /\ start' = Backward(start)
                /\ cells' = [cells EXCEPT ![Cur(Backward(start))] = v]
                /\ contents' = <<v>> \o contents
                /\ UNCHANGED <<finish, mode, iter, listed>>

PopBack == /\ mode = "running"
           /\ contents # <<>>
           /\ finish' = Backward(finish)
           /\ contents' = SubSeq(contents, 1, Len(contents) - 1)
           /\ UNCHANGED <<start, cells, mode, iter, listed>>

PopFront == /\ mode = "running"
            /\ contents # <<>>
            /\ start' = Forward(start)
            /\ contents' = Tail(contents)
            /\ UNCHANGED <<finish, cells, mode, iter, listed>>

\* StdDequePrinter.children, _iter.__init__
Children ==
    /\ mode = "running"
    /\ mode' = "listing"
    /\ iter' = [node |-> start.node, p |-> Cur(start),
                end |-> <<start.node, buffer_size>>,
                last |-> Cur(finish), count |-> 0]
    /\ UNCHANGED <<container, listed>>

\* Advance the 'cur' pointer; at the end of a bucket, move to the next one.
Advance(i) ==
    LET q == PlusOne(i.p)
        m == i.node + 1
    IN  IF q = i.end
        THEN [i EXCEPT !.node = m, !.p = <<m, 0>>,
                       !.end = <<m, buffer_size>>, !.count = @ + 1]
        ELSE [i EXCEPT !.p = q, !.count = @ + 1]

\* __next__ returns an element.  A pointer that is no slot has no value.
Element == /\ mode = "listing"
           /\ iter.p # iter.last
           /\ iter.p \in Pointers
           /\ listed' = Append(listed, <<iter.count, cells[iter.p]>>)
           /\ iter' = Advance(iter)
           /\ UNCHANGED <<container, mode>>

\* __next__ raises StopIteration.
StopIteration == /\ mode = "listing"
                 /\ iter.p = iter.last
                 /\ mode' = "listed"
                 /\ iter' = NoIter
                 /\ UNCHANGED <<container, listed>>

\* The user lets the program go on, perhaps having interrupted the listing.
Continue == /\ mode \in {"listing", "listed"}
            /\ mode' = "running"
            /\ iter' = NoIter
            /\ listed' = <<>>
            /\ UNCHANGED container

Next == \/ \E v \in Values : PushBack(v) \/ PushFront(v)
        \/ PopBack
        \/ PopFront
        \/ Children
        \/ Element
        \/ StopIteration
        \/ Continue

Spec == Init /\ [][Next]_vars

\* The debugger runs __next__ until it raises; nothing is assumed of the
\* program.
-----------------------------------------------------------------------------
\* StdDequePrinter.to_string: the number in "with %d elements".
to_string ==
    LET delta_n == finish.node - start.node - 1
        delta_s == buffer_size - start.cur      \* _M_last - _M_cur
        delta_e == finish.cur                   \* _M_cur - _M_first
    IN  buffer_size * delta_n + delta_s + delta_e

\* The workers of xmethods.py; _bufsize is (512 / sizeof) or 1.
bufsize == IF 512 \div ElementSize # 0 THEN 512 \div ElementSize ELSE 1

DequeSize == (finish.node - start.node) * bufsize + finish.cur

index(i) == cells[<<start.node + i \div bufsize, i % bufsize>>]

DequeAtRefuses(i) == i >= DequeSize

DequeEmpty == Cur(start) = Cur(finish)

DequeFront == cells[Cur(start)]

\* Mutant: DequeBackWorker without the case of _M_finish at a node's start.
DequeBackSameNode == cells[<<finish.node, (finish.cur - 1) % bufsize>>]

DequeBack == IF finish.cur = 0
             THEN cells[<<finish.node - 1, bufsize - 1>>]
             ELSE cells[<<finish.node, finish.cur - 1>>]
-----------------------------------------------------------------------------
TypeOK == /\ start \in [node : 0..Nodes - 1, cur : Slots]
          /\ finish \in [node : 0..Nodes - 1, cur : Slots]
          /\ cells \in [Pointers -> Values \union {Garbage}]
          /\ contents \in Seq(Values)
          /\ mode \in {"running", "listing", "listed"}
          /\ iter \in [node : 0..Nodes - 1, p : AnyPointer, end : AnyPointer,
                       last : AnyPointer, count : Nat]
          /\ listed \in Seq(Nat \X Values)

\* The number that to_string announces is the number of elements, wherever in
\* their buckets the deque begins and ends (printers.py:644-654).
CountsElements == to_string = Len(contents)

\* front(), back() and empty() as the debugger evaluates them are those of the
\* program (xmethods.py:189-226), also with _M_finish at a node's start.
EndsAgree == /\ DequeEmpty <=> contents = <<>>
             /\ contents # <<>> => /\ DequeFront = Head(contents)
                                   /\ DequeBack = contents[Len(contents)]

\* size() and operator[] are right whenever the first element is the first of
\* its node, however many nodes the rest fills (xmethods.py:170-180).
CountsFromStart ==
    start.cur = 0 => /\ DequeSize = Len(contents)
                     /\ \A i \in 1..Len(contents) : index(i - 1) = contents[i]

\* "Deque index should not be >= size" (xmethods.py:248): at() refuses
\* every index behind the last element.
AtRefusesBeyondEnd ==
    \A i \in 0..DequeSize + 1 : i >= Len(contents) => DequeAtRefuses(i)
=============================================================================
