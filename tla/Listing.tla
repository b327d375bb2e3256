------------------------------ MODULE Listing ------------------------------
(***************************************************************************)
(* What a pretty-printer of libstdcxx/v6/printers.py promises: while the   *)
(* debugged program is stopped, the iterator that children() returns gives *)
(* every element of the container once, in order, each under its number,   *)
(* and then raises StopIteration.  Deque, Vector, Nodes, Hashtable, Rbtree *)
(* and Tuple implement this for one memory layout each.                    *)
(***************************************************************************)
EXTENDS Integers, Sequences

CONSTANT First     \* the number of the first element

VARIABLES contents,   \* the elements the container holds
          mode,       \* "running": the program; "listing", "listed": stopped
          listed      \* what __next__ has returned, <<number, element>> each

vars == <<contents, mode, listed>>

Init == mode = "running" /\ listed = <<>>

\* The program changes the container.
Change == mode = "running" /\ UNCHANGED <<mode, listed>>

\* children()
Start == /\ mode = "running"
         /\ mode' = "listing"
         /\ UNCHANGED <<contents, listed>>

\* __next__() returns an element ...
Emit == /\ mode = "listing"
        /\ Len(listed) < Len(contents)
        /\ listed' = Append(listed,
                        <<Len(listed) + First, contents[Len(listed) + 1]>>)
        /\ UNCHANGED <<contents, mode>>

\* ... or raises StopIteration.
Finish == /\ mode = "listing"
          /\ Len(listed) = Len(contents)
          /\ mode' = "listed"
          /\ UNCHANGED <<contents, listed>>

\* The user lets the program go on, perhaps having interrupted the listing.
Resume == /\ mode \in {"listing", "listed"}
          /\ mode' = "running"
          /\ listed' = <<>>
          /\ UNCHANGED contents

Next == Change \/ Start \/ Emit \/ Finish \/ Resume

Spec == Init /\ [][Next]_vars
=============================================================================
