------------------------------- MODULE Nodes -------------------------------
(***************************************************************************)
(* Linked lists in the memory of a debugged program, and the Python that   *)
(* reads them: StdListPrinter, StdSlistPrinter and StdForwardListPrinter   *)
(* of libstdcxx/v6/printers.py, and the list and forward_list workers of   *)
(* libstdcxx/v6/xmethods.py.                                               *)
(*                                                                         *)
(* A std::list is a ring through a sentinel that lies in the list object;  *)
(* the other two are chains that end in a null pointer.  A breakpoint or a *)
(* signal can stop the program between the stores of one insertion or      *)
(* removal, so each store is a step.                                       *)
(***************************************************************************)
EXTENDS Integers, Sequences, Functions

CONSTANTS Ring,       \* a std::list; otherwise a forward_list or slist
          Addresses,  \* where a node can be allocated
          Values,     \* what an element can be
          Sentinel,   \* the address of the sentinel in the list object
          Null        \* the null pointer

VARIABLES next, prev,   \* the pointers of the nodes; prev in a ring only
          data,         \* the elements of the nodes
          order,        \* the addresses of the list's nodes, in order
          half,         \* the store still to be made to a node's prev
          mode, iter, listed

container == <<next, prev, data, order, half>>
vars == <<next, prev, data, order, half, mode, iter, listed>>

Links == Addresses \union {Sentinel}
End == IF Ring THEN Sentinel ELSE Null
contents == [i \in DOMAIN order |-> data[order[i]]]
NoIter == [base |-> Null, count |-> 0]
Done == <<>>

Init == /\ next = [a \in Links |-> IF a = Sentinel THEN End ELSE Null]
        /\ prev = [a \in Links |-> IF a = Sentinel THEN End ELSE Null]
        /\ data \in [Addresses -> Values]
        /\ order = <<>>
        /\ half = Done
        /\ mode = "running"
        /\ iter = NoIter
        /\ listed = <<>>
-----------------------------------------------------------------------------
\* The program's side: _List_node_base::_M_hook and _M_unhook, and their
\* counterparts for chains.  Nodes are numbered from 1, the head is 0.

At(k) == IF k = 0 THEN Sentinel ELSE order[k]

\* The node is ready and the one before it leads to it; for a list the prev of
\* the one behind it is still to be stored.
Hook(k, n, v) ==
    /\ mode = "running"
    /\ half = Done
    /\ n \notin Range(order)
    /\ data' = [data EXCEPT ![n] = v]
    /\ next' = [next EXCEPT ![n] = next[At(k)], ![At(k)] = n]
    /\ IF Ring
       THEN /\ prev' = [prev EXCEPT ![n] = At(k)]
            /\ half' = <<next[At(k)], n>>
       ELSE UNCHANGED <<prev, half>>
    /\ order' = SubSeq(order, 1, k) \o <<n>> \o SubSeq(order, k + 1, Len(order))
    /\ UNCHANGED <<mode, iter, listed>>

\* The node before the k-th leads past it.
Unhook(k) ==
    /\ mode = "running"
    /\ half = Done
    /\ next' = [next EXCEPT ![At(k - 1)] = next[order[k]]]
    /\ half' = IF Ring THEN <<next[order[k]], At(k - 1)>> ELSE Done
    /\ order' = SubSeq(order, 1, k - 1) \o SubSeq(order, k + 1, Len(order))
    /\ UNCHANGED <<prev, data, mode, iter, listed>>

StorePrev == /\ mode = "running"
             /\ half # Done
             /\ prev' = [prev EXCEPT ![half[1]] = half[2]]
             /\ half' = Done
             /\ UNCHANGED <<next, data, order, mode, iter, listed>>

\* children() and the constructors of the three iterators
Children == /\ mode = "running"
            /\ mode' = "listing"
            /\ iter' = [base |-> next[Sentinel], count |-> 0]
            /\ UNCHANGED <<container, listed>>

\* The test of __next__ for the end of the list.
AtEnd == iter.base = End

\* __next__ returns an element.  Only a node has one.
Element == /\ mode = "listing"
           /\ ~AtEnd
           /\ iter.base \in Addresses
           /\ listed' = Append(listed, <<iter.count, data[iter.base]>>)
           /\ iter' = [base |-> next[iter.base], count |-> iter.count + 1]
           /\ UNCHANGED <<container, mode>>

\* __next__ raises StopIteration.
StopIteration == /\ mode = "listing"
                 /\ AtEnd
                 /\ mode' = "listed"
                 /\ iter' = NoIter
                 /\ UNCHANGED <<container, listed>>

\* The user lets the program go on, perhaps having interrupted the listing.
Continue == /\ mode \in {"listing", "listed"}
            /\ mode' = "running"
            /\ iter' = NoIter
            /\ listed' = <<>>
            /\ UNCHANGED container

Next == \/ \E k \in 0..Len(order), n \in Addresses, v \in Values : Hook(k, n, v)
        \/ \E k \in 1..Len(order) : Unhook(k)
        \/ StorePrev
        \/ Children
        \/ Element
        \/ StopIteration
        \/ Continue

Spec == Init /\ [][Next]_vars
-----------------------------------------------------------------------------
\* Whether to_string says "empty".
SaysEmpty == next[Sentinel] = End

\* ListEmptyWorker and ForwardListEmptyWorker
empty == next[Sentinel] = End

\* ListFrontWorker and ForwardListFrontWorker
front == data[next[Sentinel]]

\* ListBackWorker
back == data[prev[Sentinel]]

\* The loop of ListSizeWorker from a node to the sentinel; a ring or chain has
\* no more than Fuel nodes.
Fuel == Len(order) + 1
Following[i \in 0..Fuel] == IF i = 0 THEN next[Sentinel]
                            ELSE IF Following[i - 1] \in Links
                                 THEN next[Following[i - 1]] ELSE Null
size == CHOOSE i \in 0..Fuel :
            Following[i] = End /\ \A j \in 0..i - 1 : Following[j] # End
-----------------------------------------------------------------------------
TypeOK == /\ next \in [Links -> Links \union {Null}]
          /\ prev \in [Links -> Links \union {Null}]
          /\ data \in [Addresses -> Values]
          /\ order \in Seq(Addresses)
          /\ half = Done \/ half \in Links \X Links
          /\ mode \in {"running", "listing", "listed"}
          /\ iter \in [base : Links \union {Null}, count : Nat]
          /\ listed \in Seq(Nat \X Values)

\* The debugger's empty(), front() and size() agree with what the printer
\* shows at every stop (printers.py:164, xmethods.py:335-361).
WorkersAgree == /\ SaysEmpty <=> contents = <<>>
                /\ empty <=> contents = <<>>
                /\ contents # <<>> => front = Head(contents)
                /\ Ring => size = Len(contents)

\* back() reads the prev of the sentinel, the last store of an insertion at the
\* end: it is the last element except in front of that store (xmethods.py:367).
BackUnlessHalf == Ring /\ half = Done /\ contents # <<>>
                      => back = contents[Len(contents)]
=============================================================================
