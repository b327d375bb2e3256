------------------------------ MODULE Dispatch ------------------------------
(***************************************************************************)
(* Which printer and which xmethods of libstdcxx/v6 a value gets, by the   *)
(* name of its type, and what comes of printers that show another value    *)
(* inside their own: stack and queue, and any and optional of the Library  *)
(* Fundamentals.  The user switches printers off and on between printing.  *)
(*                                                                         *)
(* The name of a class template is <<namespaces, template>>.  Arguments,   *)
(* references and typedefs are stripped before the look-up.                *)
(***************************************************************************)
EXTENDS Integers, Sequences, FiniteSets, Functions

CONSTANTS Subjects,          \* the values that are printed
          Switched,          \* names of printers the user switches
          SwitchedMethods    \* and of xmethods, <<template, method>>

\* A value is the sequence of its layers from the outside in: the container of
\* a stack follows it, what an any or optional contains follows that.  A layer
\* has the name of its type and a state: "full"; "empty", of an any or
\* optional that contains nothing; "junk", of an any in memory that is not
\* initialized, the payload of an optional that is empty; or "opaque", of an any
\* that contains what gdb cannot tell, by its manager or the type that it names.
VARIABLES value,             \* the value printed
          disabled,          \* the RxPrinters that are not enabled
          disabledMethods    \* the XMethods that are not enabled

vars == <<value, disabled, disabledMethods>>
-----------------------------------------------------------------------------
(* The registry: Printer.add, add_version, add_container, by the namespaces *)
(* in which they make a name known.                                         *)

std == <<"std">>
Ordered == {"set", "map", "multiset", "multimap"}
Unordered == {"unordered_set", "unordered_map", "unordered_multiset",
              "unordered_multimap"}

add(base) == {base}

add_version(base) == add(base) \union add(Append(base, "__7"))

add_container(base) ==
    add_version(base) \union add_version(Append(base, "__cxx1998"))

\* The printers of the dictionary, by the way they are added.
Containers ==
    [bitset |-> "Bitset", deque |-> "Deque", list |-> "List", map |-> "Map",
     multimap |-> "Map", multiset |-> "Set", set |-> "Set",
     vector |-> "Vector", unordered_map |-> "UnorderedMap",
     unordered_set |-> "UnorderedSet", unordered_multimap |-> "UnorderedMap",
     unordered_multiset |-> "UnorderedSet", forward_list |-> "ForwardList"]
Adaptors == [priority_queue |-> "StackOrQueue", queue |-> "StackOrQueue",
             stack |-> "StackOrQueue", unique_ptr |-> "UniquePointer"]
Shared == [shared_ptr |-> "SharedPointer", weak_ptr |-> "SharedPointer"]
Experimental == [any |-> "Any", optional |-> "Optional",
                 basic_string_view |-> "StringView"]
Iterators == [_List_iterator |-> "ListIterator",
              _List_const_iterator |-> "ListIterator",
              _Deque_iterator |-> "DequeIterator",
              _Deque_const_iterator |-> "DequeIterator"]
TreeIterators == [_Rb_tree_iterator |-> "RbtreeIterator",
                  _Rb_tree_const_iterator |-> "RbtreeIterator"]
Extensions == [slist |-> "Slist", __normal_iterator |-> "VectorIterator",
               _Slist_iterator |-> "SlistIterator"]

fundamentals == <<"std", "experimental", "fundamentals_v1">>
filesystem == <<"std", "experimental", "filesystem", "v1">>
cxx11 == <<"std", "__cxx11">>

build_libstdcxx_dictionary ==
    LET debug == <<"std", "__debug">>
        rows(known, named) == [namespaces |-> known, printers |-> named]
    IN  {rows(add_container(std), Containers),
         rows(add(debug), Containers),
         rows(add_version(std), Adaptors),
         rows(add(debug), Adaptors),
         rows(add_version(std), Shared),
         rows(add_version(std),
               [tuple |-> "Tuple", basic_string |-> "String"]),
         rows(add(cxx11) \union add(<<"std", "__7", "__cxx11">>),
               [basic_string |-> "String"]),
         rows(add_version(<<"std", "tr1">>), Shared),
         rows(add_version(<<"std", "tr1">>), Restrict(Containers, Unordered)),
         rows(add_version(fundamentals), Experimental),
         rows(add_version(filesystem), [path |-> "Path"]),
         rows(add_version(filesystem \o <<"__cxx11">>), [path |-> "Path"]),
         rows(add_container(std), Iterators),
         rows(add(<<"std", "__norm">>), Iterators),
         rows(add_version(std), TreeIterators),
         rows(add_version(<<"__gnu_cxx">>), Extensions),
         rows(add(<<"__gnu_debug">>), [_Safe_iterator |-> "DebugIterator"])}

\* The printers that are added for a name: at most one, says FormsShown.
places(type) ==
    {row.printers[type[2]] : row \in
        {row \in build_libstdcxx_dictionary : /\ type[1] \in row.namespaces
                                             /\ type[2] \in DOMAIN row.printers}}
lookup(type) == CHOOSE class \in places(type) : TRUE
-----------------------------------------------------------------------------
(* Printer.__call__, and what the printers do with the printer of the value *)
(* inside, their visualizer: what it is, its children, text and hint.       *)

called(type) ==
    IF places(type) = {} \/ type \in disabled THEN "none" ELSE lookup(type)

Wrappers == {"StackOrQueue", "Any", "Optional"}
None == Len(value) + 1    \* the layer of a value without a printer

Unreadable == {"junk", "opaque"}

\* The constructors.  That of Optional looks at the payload even if the
\* optional is empty, and that of Any raises if its manager is junk or is not
\* recognized, or if gdb.lookup_type does not find the type it manages.
visualizer ==
    LET made[i \in 1..None] ==
            IF i = None THEN "none"
            ELSE LET class == called(value[i].type)
                 IN  IF \/ class = "Any" /\ value[i].state \in Unreadable
                        \/ class \in Wrappers /\ made[i + 1] = "raises"
                     THEN "raises"
                     ELSE class
    IN  made

HasChildren(class) ==
    class \in {"Bitset", "Deque", "List", "Map", "Set", "Vector",
              "UnorderedMap", "UnorderedSet", "ForwardList", "Tuple", "Path",
              "Slist"} \union Wrappers

\* Mutant: a value inside that has no printer is asked for its children.
children_asked ==
    LET class == visualizer
        given[i \in 1..None] ==
            IF ~HasChildren(class[i]) THEN "raises"
            ELSE IF class[i] \notin Wrappers THEN "elements"
            ELSE IF class[i] # "StackOrQueue" /\ value[i].state # "full"
                 THEN "nothing"
                 ELSE given[i + 1]
    IN  given

\* children(): a stack takes it for granted that its container has a printer.
children ==
    LET class == visualizer
        given[i \in 1..None] ==
            IF ~HasChildren(class[i]) THEN "raises"
            ELSE IF class[i] \notin Wrappers THEN "elements"
            ELSE IF class[i] = "StackOrQueue" THEN given[i + 1]
            ELSE IF value[i].state # "full" THEN "nothing"
            ELSE IF HasChildren(class[i + 1]) THEN given[i + 1]
            ELSE "contained"
    IN  given

\* to_string()
to_string ==
    LET class == visualizer
        text[i \in 1..None] ==
            IF class[i] \in {"none", "raises"} THEN "raises"
            ELSE IF \/ class[i] = "StackOrQueue"
                    \/ /\ class[i] \in {"Any", "Optional"}
                       /\ value[i].state = "full"
                       /\ HasChildren(class[i + 1])
                 THEN text[i + 1]
                 ELSE "text"
    IN  text

\* What the printers without a visualizer answer.
OwnHint(class) == CASE class \in {"Vector", "Deque"} -> "array"
                    [] class \in {"Map", "UnorderedMap"} -> "map"
                    [] class \in {"String", "StringView"} -> "string"
                    [] OTHER -> "none"

\* display_hint(): any and optional answer with that of a value they show as if
\* it were themselves.
display_hint ==
    LET class == visualizer
        hint[i \in 1..None] ==
            CASE class[i] = "StackOrQueue" -> hint[i + 1]
              [] class[i] \in {"Any", "Optional"} ->
                     IF HasChildren(class[i + 1]) THEN hint[i + 1] ELSE "none"
              [] OTHER -> OwnHint(class[i])
    IN  hint
-----------------------------------------------------------------------------
(* The xmethods: one matcher for each template, whose methods can be        *)
(* disabled, too.                                                           *)

ArrayMethods == {"size", "empty", "front", "back", "at", "operator[]"}
DequeMethods == {"empty", "size", "front", "back", "operator[]", "at"}
ForwardListMethods == {"empty", "front"}
ListMethods == {"empty", "size", "front", "back"}
VectorMethods == {"size", "empty", "front", "back", "at", "operator[]"}
AssociativeMethods == {"size", "empty"}
UniquePtrMethods == {"get", "operator*"}

matchers ==
    LET own == [array |-> ArrayMethods, forward_list |-> ForwardListMethods,
                deque |-> DequeMethods, list |-> ListMethods,
                vector |-> VectorMethods, unique_ptr |-> UniquePtrMethods]
    IN  [t \in DOMAIN own \union Ordered \union Unordered |->
            IF t \in DOMAIN own THEN own[t] ELSE AssociativeMethods]

\* Mutant: the pattern allows for other namespaces within std.
match_within(type) ==
    {m \in (IF type[1][1] = "std" /\ type[2] \in DOMAIN matchers
            THEN matchers[type[2]] ELSE {}) :
        <<type[2], m>> \notin disabledMethods}

\* The methods of a type that get a worker: '^std::deque<.*>$'.
match(type) ==
    {m \in (IF type[1] = std /\ type[2] \in DOMAIN matchers
            THEN matchers[type[2]] ELSE {}) :
        <<type[2], m>> \notin disabledMethods}

\* The member the worker counts in ...
node_count(template) == IF template \in Unordered THEN "_M_h" ELSE "_M_t"

\* ... and that of the printer, which the tr1 classes do not have.
hashtable(type) == IF type[2] \notin Unordered THEN "_M_t"
                   ELSE IF "tr1" \in Range(type[1]) THEN "itself" ELSE "_M_h"
-----------------------------------------------------------------------------
Init == /\ value \in Subjects
        /\ disabled = {}
        /\ disabledMethods = {}

\* disable pretty-printer and enable pretty-printer
Switch(name) == /\ disabled' = IF name \in disabled THEN disabled \ {name}
                               ELSE disabled \union {name}
                /\ UNCHANGED <<value, disabledMethods>>

\* disable xmethod and enable xmethod
SwitchMethod(m) ==
    /\ disabledMethods' = IF m \in disabledMethods THEN disabledMethods \ {m}
                          ELSE disabledMethods \union {m}
    /\ UNCHANGED <<value, disabled>>

Next == \/ \E name \in Switched : Switch(name)
        \/ \E m \in SwitchedMethods : SwitchMethod(m)

Spec == Init /\ [][Next]_vars
-----------------------------------------------------------------------------
TypeOK == /\ \A i \in DOMAIN value :
                 value[i].state \in {"full", "empty"} \union Unreadable
          /\ disabled \subseteq Switched
          /\ disabledMethods \subseteq SwitchedMethods
          /\ \A m \in disabledMethods : m[2] \in matchers[m[1]]

raises == LET class == visualizer[1]
          IN  \/ class = "raises"
              \/ class # "none" /\ to_string[1] = "raises"
              \/ HasChildren(class) /\ children[1] = "raises"

\* Only a stack or queue whose container has no printer or, as a string, one
\* without children, an any that gdb cannot tell the type of, and an optional
\* over memory that is taken for an any, cannot be shown; an any or optional
\* shows whatever it contains, with or without a printer (printers.py:389-396,
\* 890-966).
RaisesOnly ==
    raises => LET class == visualizer
              IN  \E i \in DOMAIN value :
                      \/ class[i] = "StackOrQueue" /\ ~HasChildren(class[i + 1])
                      \/ value[i].state \in Unreadable

\* Only what is then given as elements, or empty, is announced as a map or an
\* array, through any number of layers (printers.py:398-401, 897-901).
HintFits ==
    visualizer[1] \in Wrappers /\ ~raises /\ display_hint[1] # "none"
        => children[1] \in {"elements", "nothing"}

\* Every form that a template has, in the normal and the debug mode and with
\* versioned namespaces, gets the printer of its plain form; no name is
\* registered for two.  The list of the new ABI, std::__cxx11::list, is known in
\* no form, unlike its string (printers.py:1066-1117, 1346).
FormsShown ==
    \A i \in DOMAIN value :
        LET type == value[i].type
            plain == <<std, type[2]>>
        IN  /\ Cardinality(places(type)) <= 1
            /\ places(plain) # {} /\ type \notin disabled =>
                   called(type) = IF /\ type[2] = "list"
                                     /\ "__cxx11" \in Range(type[1])
                                  THEN "none"
                                  ELSE lookup(plain)

\* A value whose methods are replaced is of a class that a printer knows, which
\* reads it the same way; std::array is gdb's own (printers.py:1375,
\* xmethods.py:512-516, 547-554).
MethodsFit ==
    \A i \in DOMAIN value :
        LET type == value[i].type
        IN  match(type) # {} =>
                /\ type[2] # "array" => places(type) # {}
                /\ type[2] \in Ordered \union Unordered =>
                       node_count(type[2]) = hashtable(type)
=============================================================================
