----------------------------- MODULE Hashtable -----------------------------
(***************************************************************************)
(* The hash tables of the unordered containers in the memory of a debugged *)
(* program, and the Python that reads them: Tr1HashtableIterator,          *)
(* StdHashtableIterator, Tr1UnorderedSetPrinter and Tr1UnorderedMapPrinter *)
(* of libstdcxx/v6/printers.py, and the associative workers of             *)
(* libstdcxx/v6/xmethods.py.                                               *)
(*                                                                         *)
(* The table of std::tr1 is an array of buckets, each a chain that ends in *)
(* a null pointer, and one entry more that the library marks with a        *)
(* pointer to nowhere.  The table of std is a single chain.  A node is     *)
(* named by its key, so that no two are the same.  The program links a     *)
(* node first and counts it afterwards, and can be stopped in between; a   *)
(* rehash, and the stores that link one node, are one step.                *)
(***************************************************************************)
EXTENDS Integers, Sequences, FiniteSets, Functions

CONSTANTS Tr1,          \* whether the container is of std::tr1
          Map,          \* whether it is a map, whose nodes hold pairs
          Keys,
          MaxBuckets,   \* the most buckets a table is given
          Null,         \* the null pointer
          Nowhere       \* the mark behind the last bucket

VARIABLES hash,           \* the bucket of each key, before the modulus
          bucket_count,   \* _M_bucket_count
          buckets,        \* _M_buckets; std: only 0, _M_before_begin._M_nxt
          next,           \* the pointer of each node
          element_count,  \* _M_element_count
          chains,         \* the keys in each bucket, in order
          mode, iter, listed

container == <<hash, bucket_count, buckets, next, element_count, chains>>
vars == <<hash, bucket_count, buckets, next, element_count, chains,
          mode, iter, listed>>

\* The n chains c, one behind the other, and so the keys in order.
joined(c, n) ==
    LET before[b \in 0..n] == IF b = 0 THEN <<>> ELSE before[b - 1] \o c[b - 1]
    IN  before[n]
keys == joined(chains, bucket_count)

\* A pair of a map is listed in two halves.
first(k) == <<"first", k>>
second(k) == <<"second", k>>
contents == IF Map THEN [i \in 1..2 * Len(keys) |->
                            IF i % 2 = 1 THEN first(keys[(i + 1) \div 2])
                                         ELSE second(keys[i \div 2])]
                   ELSE [i \in DOMAIN keys |-> first(keys[i])]

NoIter == [bucket |-> 0, node |-> Null, second |-> Null, count |-> 0]

\* The array of n empty buckets.
Empty(n) == [b \in 0..n |-> IF Tr1 /\ b = n THEN Nowhere ELSE Null]

Init == /\ hash \in [Keys -> 0..MaxBuckets - 1]
        /\ bucket_count \in IF Tr1 THEN 1..MaxBuckets ELSE {1}
        /\ buckets = Empty(bucket_count)
        /\ next = [k \in Keys |-> Null]
        /\ element_count = 0
        /\ chains = [b \in 0..bucket_count - 1 |-> <<>>]
        /\ mode = "running"
        /\ iter = NoIter
        /\ listed = <<>>
-----------------------------------------------------------------------------
\* The program's side (tr1/hashtable.h, bits/hashtable.h).

Bucket(k, n) == IF Tr1 THEN hash[k] % n ELSE 0

\* The pointers of a table with these chains.
Linked(n, c) ==
    /\ buckets' = [b \in 0..n |-> IF b < n /\ c[b] # <<>>
                                  THEN Head(c[b]) ELSE Empty(n)[b]]
    /\ next' = [k \in Keys |->
                  LET b == Bucket(k, n)
                      at == {i \in DOMAIN c[b] : c[b][i] = k}
                  IN  IF \E i \in at : i < Len(c[b])
                      THEN c[b][1 + CHOOSE i \in at : TRUE] ELSE Null]

\* Every node that is linked has been counted, and no other.
Counted == element_count = Len(keys)

Insert(k) ==
    LET b == Bucket(k, bucket_count)
    IN  /\ mode = "running" /\ Counted
        /\ k \notin Range(keys)
        /\ chains' = [chains EXCEPT ![b] = <<k>> \o @]
        /\ Linked(bucket_count, chains')
        /\ UNCHANGED <<hash, bucket_count, element_count, mode, iter, listed>>

Erase(k) ==
    /\ mode = "running" /\ Counted
    /\ k \in Range(keys)
    /\ LET b == Bucket(k, bucket_count)
           i == CHOOSE i \in DOMAIN chains[b] : chains[b][i] = k
       IN  chains' = [chains EXCEPT ![b] = SubSeq(@, 1, i - 1)
                                             \o SubSeq(@, i + 1, Len(@))]
    /\ Linked(bucket_count, chains')
    /\ UNCHANGED <<hash, bucket_count, element_count, mode, iter, listed>>

\* ++_M_element_count or --_M_element_count
Count == /\ mode = "running" /\ ~Counted
         /\ element_count' = Len(keys)
         /\ UNCHANGED <<hash, bucket_count, buckets, next, chains, mode, iter,
                        listed>>

\* The nodes go to n buckets, in whatever order there.
Rehash(n) ==
    LET inBucket(b) == {k \in Range(keys) : Bucket(k, n) = b}
        orders(b) == Bijection(1..Cardinality(inBucket(b)), inBucket(b))
    IN  /\ Tr1
        /\ mode = "running" /\ Counted
        /\ n # bucket_count
        /\ bucket_count' = n
        /\ \E c \in [0..n - 1 -> UNION {orders(b) : b \in 0..n - 1}] :
              /\ \A b \in 0..n - 1 : c[b] \in orders(b)
              /\ chains' = c
        /\ Linked(n, chains')
        /\ UNCHANGED <<hash, element_count, mode, iter, listed>>
-----------------------------------------------------------------------------
\* The loop over self.bucket, from b on: where it stops and what self.node is
\* then.
Seek(b) ==
    LET full == {c \in b..bucket_count - 1 : buckets[c] # Null}
        least == CHOOSE c \in full : \A d \in full : c <= d
    IN  IF full = {} THEN [bucket |-> bucket_count, node |-> Null]
                     ELSE [bucket |-> least, node |-> buckets[least]]

\* children(): the constructors of Tr1HashtableIterator and
\* StdHashtableIterator, and the counter they are zipped with.
Children ==
    /\ mode = "running"
    /\ mode' = "listing"
    /\ iter' = LET at == IF Tr1 THEN Seek(0)
                         ELSE [bucket |-> 0, node |-> buckets[0]]
               IN  [NoIter EXCEPT !.bucket = at.bucket, !.node = at.node]
    /\ UNCHANGED <<container, listed>>

\* What __next__ of the two iterators does: along the chain and, in a table of
\* tr1, on to the next bucket that is not empty.
Advance(i) == IF Tr1 /\ next[i.node] = Null
              THEN LET at == Seek(i.bucket + 1)
                   IN  [i EXCEPT !.bucket = at.bucket, !.node = at.node]
              ELSE [i EXCEPT !.node = next[i.node]]

\* Mutant: the key is shown once more in the place of the value.
SecondIsFirst ==
    /\ mode = "listing"
    /\ iter.second # Null
    /\ listed' = Append(listed, <<iter.count, first(iter.second)>>)
    /\ iter' = [iter EXCEPT !.second = Null, !.count = @ + 1]
    /\ UNCHANGED <<container, mode>>

\* flatten() yields the second half of a pair.
Second == /\ mode = "listing"
          /\ iter.second # Null
          /\ listed' = Append(listed, <<iter.count, second(iter.second)>>)
          /\ iter' = [iter EXCEPT !.second = Null, !.count = @ + 1]
          /\ UNCHANGED <<container, mode>>

\* An element, or the first half of a pair.  Only a node has one.
Element == /\ mode = "listing"
           /\ iter.second = Null
           /\ iter.node \in Keys
           /\ listed' = Append(listed, <<iter.count, first(iter.node)>>)
           /\ iter' = [Advance(iter) EXCEPT
                         !.second = IF Map THEN iter.node ELSE Null,
                         !.count = @ + 1]
           /\ UNCHANGED <<container, mode>>

\* The test of __next__ for the end of the table.
AtEnd == iter.node = Null

\* StopIteration, of the iterator and then of what is zipped with it.
StopIteration == /\ mode = "listing"
                 /\ iter.second = Null
                 /\ AtEnd
                 /\ mode' = "listed"
                 /\ iter' = NoIter
                 /\ UNCHANGED <<container, listed>>

\* The user lets the program go on, perhaps having interrupted the listing.
Continue == /\ mode \in {"listing", "listed"}
            /\ mode' = "running"
            /\ iter' = NoIter
            /\ listed' = <<>>
            /\ UNCHANGED container

Next == \/ \E k \in Keys : Insert(k) \/ Erase(k)
        \/ Count
        \/ \E n \in 1..MaxBuckets : Rehash(n)
        \/ Children
        \/ Second
        \/ Element
        \/ StopIteration
        \/ Continue

Spec == Init /\ [][Next]_vars
-----------------------------------------------------------------------------
\* Mutant: the number of buckets is announced.
to_string_buckets == bucket_count

\* The number that to_string announces, and node_count() of the workers.
to_string == element_count
-----------------------------------------------------------------------------
Pointers == Keys \union {Null}

TypeOK == /\ hash \in [Keys -> 0..MaxBuckets - 1]
          /\ bucket_count \in 1..MaxBuckets
          /\ buckets \in [0..bucket_count -> Pointers \union {Nowhere}]
          /\ next \in [Keys -> Pointers]
          /\ element_count \in 0..Cardinality(Keys)
          /\ chains \in [0..bucket_count - 1 -> Seq(Keys)]
          /\ mode \in {"running", "listing", "listed"}
          /\ iter \in [bucket : 0..bucket_count, node : Pointers,
                       second : Pointers, count : Nat]
          /\ listed \in Seq(Nat \X ({"first", "second"} \X Keys))

\* What was announced "with %d elements" is what has been listed in the end,
\* but for the one that the program had linked or unlinked and not yet counted
\* when it was stopped (printers.py:768, 793).
AnnouncedIsListed ==
    mode = "listed" =>
        \E uncounted \in -1..1 :
            Len(listed) = (to_string + uncounted) * (IF Map THEN 2 ELSE 1)

\* The iterator never leaves the table: the mark behind the last bucket of a
\* tr1 table is not taken for a node (printers.py:714, 731).
StaysInTable == iter.node # Nowhere
=============================================================================
