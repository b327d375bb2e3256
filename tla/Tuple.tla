------------------------------- MODULE Tuple -------------------------------
(***************************************************************************)
(* StdTuplePrinter of libstdcxx/v6/printers.py.  A std::tuple is a tower   *)
(* of base classes, one for each element, and the iterator walks it by     *)
(* casting.  The towers of the two library versions that the code's        *)
(* comments name differ at their end:                                      *)
(*    GCC 5:   _Tuple_impl<n-1> has one base, the head of the last element *)
(*    GCC 4.x: it has two, the first being the empty _Tuple_impl<n>        *)
(* The head of an element holds it as _M_head_impl, or, if its type is     *)
(* empty, is derived from it.                                              *)
(***************************************************************************)
EXTENDS Integers, Sequences

CONSTANTS MaxSize,   \* the most elements of a tuple
          Values

VARIABLES gcc,       \* the version of the library that laid the tuple out
          derived,   \* the elements whose head is derived from them
          contents,
          mode,
          head,      \* the level self.head of the iterator is cast to
          count, listed

tuple == <<gcc, derived, contents>>
vars == <<gcc, derived, contents, mode, head, count, listed>>

Top == <<"tuple", 0>>   \* the type of the tuple itself
None == <<"None", 0>>   \* Python's None
Level(i) == <<"impl", i>>

Init == /\ gcc \in {4, 5}
        /\ contents \in UNION {[1..n -> Values] : n \in 0..MaxSize}
        /\ derived \in SUBSET DOMAIN contents
        /\ mode = "running"
        /\ head = None
        /\ count = 0
        /\ listed = <<>>

\* type.fields() of a level: the bases <<kind, index>>, the next level first.
fields(level) ==
    LET size == Len(contents)
        i == level[2]
    IN  IF level = Top
        THEN IF size = 0 THEN <<>> ELSE << Level(0) >>
        ELSE IF i = size THEN <<>>
        ELSE IF i = size - 1 /\ gcc = 5 THEN << <<"head", i>> >>
        ELSE << Level(i + 1), <<"head", i>> >>

\* The name of the first field of the head of an element.
FirstField(h) == IF h[2] + 1 \in derived THEN "a base class"
                                         ELSE "_M_head_impl"

\* The member of that name, and the head as it is: a head that is derived from
\* the element is the element, any other one only contains it.
Member(h) == IF h[2] + 1 \in derived THEN None ELSE contents[h[2] + 1]
Itself(h) == IF h[2] + 1 \in derived THEN contents[h[2] + 1] ELSE h

\* What __next__ returns for a head.
Shown(h) == IF FirstField(h) # "_M_head_impl" THEN Itself(h) ELSE Member(h)

\* children(), _iterator.__init__: from the tuple to its first level.
Children == /\ mode = "running"
            /\ mode' = "listing"
            /\ head' = IF Len(fields(Top)) = 1 THEN fields(Top)[1] ELSE Top
            /\ count' = 0
            /\ UNCHANGED <<tuple, listed>>

\* The last node of a GCC 5+ tuple.
Last == /\ mode = "listing"
        /\ head # None
        /\ Len(fields(head)) = 1
        /\ head' = None
        /\ count' = count + 1
        /\ listed' = Append(listed, <<count', Shown(fields(head)[1])>>)
        /\ UNCHANGED <<tuple, mode>>

\* A node before the last node, or the last node of a GCC 4.x tuple.
Element == /\ mode = "listing"
           /\ head # None
           /\ Len(fields(head)) = 2
           /\ head' = fields(head)[1]
           /\ count' = count + 1
           /\ listed' = Append(listed, <<count', Shown(fields(head)[2])>>)
           /\ UNCHANGED <<tuple, mode>>

\* The two tests of __next__ for the end of the tuple.
AtEnd == head = None \/ fields(head) = <<>>

StopIteration == /\ mode = "listing"
                 /\ AtEnd
                 /\ mode' = "listed"
                 /\ UNCHANGED <<tuple, head, count, listed>>

\* The user lets the program go on, perhaps having interrupted the listing.
Continue == /\ mode \in {"listing", "listed"}
            /\ mode' = "running"
            /\ head' = None
            /\ listed' = <<>>
            /\ UNCHANGED <<tuple, count>>

Next == Children \/ Last \/ Element \/ StopIteration \/ Continue

Spec == Init /\ [][Next]_vars
-----------------------------------------------------------------------------
TypeOK == /\ gcc \in {4, 5}
          /\ derived \subseteq DOMAIN contents
          /\ contents \in Seq(Values)
          /\ mode \in {"running", "listing", "listed"}
          /\ head \in {None, Top} \union {Level(i) : i \in 0..MaxSize}
          /\ count \in 0..MaxSize
          /\ listed \in Seq(Nat \X Values)
=============================================================================
