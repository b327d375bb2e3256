---------------------------- MODULE PrinterProofs ----------------------------
(***************************************************************************)
(* Proofs about the printers and xmethods of libstdcxx/v6, side by side as *)
(* MCPrinters has them.  Each kind of object has an inductive invariant    *)
(* that says how the library keeps its memory and where the iterator of    *)
(* the printer stands in it; what the printers and xmethods return follows *)
(* from it.                                                                *)
(***************************************************************************)
EXTENDS MCPrinters, TLAPS, FiniteSetTheorems, SequenceTheorems,
        WellFoundedInduction
-----------------------------------------------------------------------------
(* The pointers.                                                           *)


LEMMA PointerCardinality == \A S : Pointer!Cardinality(S) = Cardinality(S)
  BY DEF Pointer!Cardinality, Cardinality

PointerInv == /\ Pointer!IInv
              /\ \A k \in {"shared", "weak", "disposing"} :
                    IsFiniteSet(Pointer!Of(k))

LEMMA PointerInit == Pointer!Init => PointerInv
<1> SUFFICES ASSUME Pointer!Init PROVE PointerInv
  OBVIOUS
<1>1. \A k \in {"shared", "weak", "disposing"} : Pointer!Of(k) = {}
  BY DEF Pointer!Init, Pointer!Of
<1>2. /\ Pointer!Owners = 0 /\ Pointer!Observers = 0 /\ Pointer!Leaving = 0
      /\ \A k \in {"shared", "weak", "disposing"} : IsFiniteSet(Pointer!Of(k))
  BY <1>1, FS_EmptySet, PointerCardinality
     DEF Pointer!Owners, Pointer!Observers, Pointer!Leaving
<1>3. Pointer!TypeOK /\ use = 0 /\ weak = 0 /\ block = FALSE
  BY DEF Pointer!Init, Pointer!TypeOK
<1> QED BY <1>2, <1>3 DEF PointerInv, Pointer!IInv, Pointer!CountersCount

\* A handle of kind k becomes one of kind l.
LEMMA HandleMoves ==
  ASSUME Pointer!TypeOK, NEW h \in Handles, NEW l,
         kind' = [kind EXCEPT ![h] = l], NEW k
  PROVE  Pointer!Of(k)' = IF k = l THEN Pointer!Of(k) \union {h}
                                   ELSE Pointer!Of(k) \ {h}
<1>1. kind' = [x \in Handles |-> IF x = h THEN l ELSE kind[x]]
  BY DEF Pointer!TypeOK
<1> QED BY <1>1 DEF Pointer!Of

LEMMA PointerStep ==
  ASSUME PointerInv, Pointer!Next
  PROVE  PointerInv'
<1> DEFINE S == Pointer!Of("shared")
           W == Pointer!Of("weak")
           D == Pointer!Of("disposing")
<1> USE DEF PointerInv, Pointer!IInv, Pointer!CountersCount
<1>1. PICK h \in Handles :
        \/ Pointer!Make(h)
        \/ \E g \in Handles : \/ Pointer!Copy(h, g) \/ Pointer!Observe(h, g)
                              \/ Pointer!Lock(h, g)
        \/ Pointer!ReleaseShared(h)
        \/ Pointer!ReleaseWeak(h)
  BY DEF Pointer!Next
<1>2. /\ IsFiniteSet(S) /\ IsFiniteSet(W) /\ IsFiniteSet(D)
      /\ Cardinality(S) \in Nat /\ Cardinality(W) \in Nat
      /\ Cardinality(D) \in Nat
      /\ Cardinality(S) = Pointer!Owners /\ Cardinality(W) = Pointer!Observers
      /\ Cardinality(D) = Pointer!Leaving
  BY FS_CardinalityType, PointerCardinality
     DEF Pointer!Owners, Pointer!Observers, Pointer!Leaving
<1>3. /\ kind[h] = "shared" <=> h \in S
      /\ kind[h] = "weak" <=> h \in W
      /\ kind[h] = "disposing" <=> h \in D
  BY DEF Pointer!Of
<1>4. PICK l \in {"empty", "shared", "weak", "disposing"} :
         kind' = [kind EXCEPT ![h] = l]
  BY <1>1 DEF Pointer!Make, Pointer!Copy, Pointer!Observe, Pointer!Lock,
              Pointer!ReleaseShared, Pointer!ReleaseWeak
<1>5. Pointer!TypeOK OBVIOUS
<1>6. kind'[h] = l /\ kind' \in [Handles -> {"empty", "shared", "weak",
                                             "disposing"}]
  BY <1>4, <1>5 DEF Pointer!TypeOK
<1>7. /\ S' = IF l = "shared" THEN S \union {h} ELSE S \ {h}
      /\ W' = IF l = "weak" THEN W \union {h} ELSE W \ {h}
      /\ D' = IF l = "disposing" THEN D \union {h} ELSE D \ {h}
  BY <1>4, <1>5, HandleMoves
<1> HIDE DEF S, W, D
<1>8. /\ IsFiniteSet(S') /\ IsFiniteSet(W') /\ IsFiniteSet(D')
      /\ Cardinality(S') = IF l = "shared"
                           THEN IF h \in S THEN Cardinality(S)
                                ELSE Cardinality(S) + 1
                           ELSE IF h \in S THEN Cardinality(S) - 1
                                ELSE Cardinality(S)
      /\ Cardinality(W') = IF l = "weak"
                           THEN IF h \in W THEN Cardinality(W)
                                ELSE Cardinality(W) + 1
                           ELSE IF h \in W THEN Cardinality(W) - 1
                                ELSE Cardinality(W)
      /\ Cardinality(D') = IF l = "disposing"
                           THEN IF h \in D THEN Cardinality(D)
                                ELSE Cardinality(D) + 1
                           ELSE IF h \in D THEN Cardinality(D) - 1
                                ELSE Cardinality(D)
  BY <1>2, <1>7, FS_AddElement, FS_RemoveElement
<1>9. /\ Cardinality(S') = Pointer!Owners'
      /\ Cardinality(W') = Pointer!Observers'
      /\ Cardinality(D') = Pointer!Leaving'
  BY PointerCardinality
     DEF Pointer!Owners, Pointer!Observers, Pointer!Leaving, S, W, D
<1>10. h \in S => Cardinality(S) # 0 BY <1>2, FS_EmptySet
<1>11. /\ h \in W => Cardinality(W) # 0
       /\ h \in D => Cardinality(D) # 0
  BY <1>2, FS_EmptySet
<1> DEFINE s == Cardinality(S)
           w == Cardinality(W)
           d == Cardinality(D)
           t == Cardinality(S')
           x == Cardinality(W')
           e == Cardinality(D')
<1>12. /\ use = s
       /\ weak = w + (IF s # 0 \/ d # 0 THEN 1 ELSE 0)
       /\ block <=> weak # 0
       /\ d # 0 => s = 0 /\ d = 1
       /\ block \in BOOLEAN
  BY <1>2, <1>5, Zenon DEF Pointer!TypeOK
<1> HIDE DEF PointerInv, Pointer!IInv, Pointer!CountersCount
<1>13. /\ block' \in BOOLEAN
       /\ use' = t
       /\ weak' = x + (IF t # 0 \/ e # 0 THEN 1 ELSE 0)
       /\ block' <=> weak' # 0
       /\ e # 0 => t = 0 /\ e = 1
       /\ use' \in Nat /\ weak' \in Nat
  <2> USE <1>2, <1>3, <1>6, <1>8, <1>10, <1>11, <1>12
          DEF s, w, d, t, x, e
  <2>1. CASE Pointer!Make(h) BY <2>1 DEF Pointer!Make
  <2>2. CASE \E g \in Handles : \/ Pointer!Copy(h, g) \/ Pointer!Observe(h, g)
                                \/ Pointer!Lock(h, g)
    <3>1. PICK g \in Handles : \/ Pointer!Copy(h, g) \/ Pointer!Observe(h, g)
                               \/ Pointer!Lock(h, g)
      BY <2>2
    <3>2. g \in S => s # 0
      BY FS_EmptySet
    <3>3. g \in W => w # 0
      BY FS_EmptySet
    <3>4. /\ kind[g] = "shared" => g \in S
          /\ kind[g] = "weak" => g \in W
      BY DEF S, W, Pointer!Of
    <3> QED
      BY <3>1, <3>2, <3>3, <3>4
         DEF Pointer!Copy, Pointer!Observe, Pointer!Lock
  <2>3. CASE Pointer!ReleaseShared(h) BY <2>3 DEF Pointer!ReleaseShared
  <2>4. CASE Pointer!ReleaseWeak(h)
    <3>1. /\ l = "empty" /\ h \notin S /\ weak' = weak - 1 /\ use' = use
      BY <2>4 DEF Pointer!ReleaseWeak, Pointer!TypeOK
    <3>2. block' = (weak # 1) BY <2>4 DEF Pointer!ReleaseWeak
    <3>5. weak \in Nat
      BY DEF Pointer!TypeOK
    <3>6. block' \in BOOLEAN /\ (block' <=> weak' # 0)
      <4>1. weak # 1 <=> weak' # 0 BY <3>1, <3>5
      <4> HIDE <1>2, <1>3, <1>6, <1>8, <1>10, <1>11, <1>12
      <4> QED BY <3>2, <4>1, Zenon
    <3>3. CASE kind[h] = "weak"
      <4>1. h \notin D /\ x = w - 1 /\ e = d /\ w # 0 /\ t = s BY <3>1, <3>3
      <4>2. e # 0 => t = 0 /\ e = 1 BY <4>1
      <4>3. use' = t /\ weak' = x + (IF t # 0 \/ e # 0 THEN 1 ELSE 0)
        BY <3>1, <4>1
      <4>4. use' \in Nat /\ weak' \in Nat BY <3>1, <4>1
      <4> QED BY <3>6, <4>2, <4>3, <4>4
    <3>4. CASE kind[h] = "disposing"
      <4>1. h \notin W /\ x = w /\ e = d - 1 /\ d # 0 /\ t = s BY <3>1, <3>4
      <4>2. e # 0 => t = 0 /\ e = 1 BY <4>1
      <4>3. use' = t /\ weak' = x + (IF t # 0 \/ e # 0 THEN 1 ELSE 0)
        BY <3>1, <4>1
      <4>4. use' \in Nat /\ weak' \in Nat BY <3>1, <4>1
      <4> QED BY <3>6, <4>2, <4>3, <4>4
    <3> QED BY <2>4, <3>3, <3>4 DEF Pointer!ReleaseWeak
  <2> QED BY <1>1, <2>1, <2>2, <2>3, <2>4
<1> QED
  <2>1. \A k \in {"shared", "weak", "disposing"} : IsFiniteSet(Pointer!Of(k)')
    BY <1>8 DEF S, W, D
  <2> QED
    BY <1>6, <1>9, <1>13, <2>1
       DEF PointerInv, Pointer!IInv, Pointer!CountersCount, Pointer!TypeOK,
           t, x, e

LEMMA PointerShows ==
  ASSUME PointerInv
  PROVE  Pointer!ShowsOwners /\ Pointer!ShowsObservers /\ Pointer!CountersCount
<1> USE DEF PointerInv, Pointer!IInv, Pointer!CountersCount
<1>1. /\ Pointer!Owners \in Nat /\ Pointer!Observers \in Nat
      /\ Pointer!Leaving \in Nat
  BY FS_CardinalityType, PointerCardinality
     DEF Pointer!Owners, Pointer!Observers, Pointer!Leaving
<1>2. ASSUME NEW h \in Pointer!Of("shared")
      PROVE  Pointer!Owners # 0 /\ kind[h] = "shared"
  BY FS_EmptySet, PointerCardinality DEF Pointer!Owners, Pointer!Of
<1>3. Pointer!ShowsOwners
  <2> SUFFICES ASSUME NEW h \in Pointer!Of("shared")
               PROVE  Pointer!to_string(h) =
                        [state |-> "count", count |-> Pointer!Owners,
                         weak |-> Pointer!Observers]
    BY DEF Pointer!ShowsOwners
  <2>1. use = Pointer!Owners /\ use # 0 /\ weak - 1 = Pointer!Observers
    BY <1>1, <1>2
  <2> QED BY <1>2, <2>1 DEF Pointer!to_string
<1>4. Pointer!ShowsObservers
  <2> SUFFICES ASSUME NEW h \in Pointer!Of("weak")
               PROVE  Pointer!to_string(h) =
                        IF Pointer!Owners = 0
                        THEN [state |-> "expired",
                              weak |-> Pointer!Observers + Pointer!Leaving]
                        ELSE [state |-> "count", count |-> Pointer!Owners,
                              weak |-> Pointer!Observers]
    BY DEF Pointer!ShowsObservers
  <2>1. kind[h] = "weak"
    BY DEF Pointer!Of
  <2>2. CASE Pointer!Owners = 0
    <3>1. use = 0 /\ weak = Pointer!Observers + Pointer!Leaving BY <1>1, <2>2
    <3> QED BY <2>1, <2>2, <3>1 DEF Pointer!to_string
  <2>3. CASE Pointer!Owners # 0
    <3>1. use = Pointer!Owners /\ weak - 1 = Pointer!Observers BY <1>1, <2>3
    <3> QED BY <2>1, <2>3, <3>1 DEF Pointer!to_string
  <2> QED BY <2>2, <2>3
<1> QED BY <1>3, <1>4

-----------------------------------------------------------------------------
(* Numbers as a multiple of w and a rest.                                  *)

LEMMA Ordered2 ==
  ASSUME NEW w \in Nat \ {0}, NEW m \in Int, NEW n \in Int, m < n
  PROVE  m * w + w <= n * w
<1>1. PICK d \in Nat : n = m + 1 + d
  <2>1. n - m - 1 \in Nat /\ n = m + 1 + (n - m - 1) OBVIOUS
  <2> QED BY <2>1
<1>2. n * w = m * w + w + d * w BY <1>1
<1>3. d * w >= 0 BY <1>1
<1>4. /\ m * w \in Int /\ d * w \in Int BY <1>1
<1> QED BY <1>2, <1>3, <1>4

LEMMA Unique ==
  ASSUME NEW w \in Nat \ {0}, NEW m \in Int, NEW r \in 0 .. w - 1,
         NEW n \in Int, NEW s \in 0 .. w - 1
  PROVE  /\ m * w + r = n * w + s => m = n /\ r = s
         /\ m * w + r <= n * w + s => m <= n
         /\ m < n => m * w + r < n * w + s
<1> DEFINE x == m * w
           y == n * w
<1>1. x \in Int /\ y \in Int OBVIOUS
<1>2. m < n => x + w <= y
  BY Ordered2
<1>3. n < m => y + w <= x
  BY Ordered2
<1>4. m = n => x = y OBVIOUS
<1> HIDE DEF x, y
<1>5. /\ x + r = y + s => m = n /\ r = s
      /\ x + r <= y + s => m <= n
      /\ m < n => x + r < y + s
  BY <1>1, <1>2, <1>3, <1>4
<1> QED BY <1>5 DEF x, y

LEMMA Division ==
  ASSUME NEW w \in Nat \ {0}, NEW x \in Nat
  PROVE  /\ x \div w \in Nat /\ x % w \in 0 .. w - 1
         /\ x = (x \div w) * w + (x % w)
<1>1. /\ x \div w \in Int /\ x % w \in 0 .. w - 1
      /\ x = (x \div w) * w + (x % w)
  OBVIOUS
<1> DEFINE q == x \div w
<1>2. q >= 0
  <2>1. q < 0 => q * w + w <= 0 * w BY <1>1, Ordered2
  <2>2. q * w \in Int /\ 0 * w = 0 BY <1>1
  <2> QED BY <1>1, <2>1, <2>2
<1> QED BY <1>1, <1>2

LEMMA Quotient ==
  ASSUME NEW w \in Nat \ {0}, NEW n \in Nat, NEW s \in 0 .. w - 1
  PROVE  (n * w + s) \div w = n /\ (n * w + s) % w = s
<1> DEFINE x == n * w + s
<1>1. x \in Nat OBVIOUS
<1> HIDE DEF x
<1>2. /\ x \div w \in Nat /\ x % w \in 0 .. w - 1
      /\ x = (x \div w) * w + (x % w)
  BY <1>1, Division
<1>3. n * w + s = (x \div w) * w + (x % w) BY <1>2 DEF x
<1>4. n = x \div w /\ s = x % w
  <2> DEFINE q == x \div w
             r == x % w
  <2>1. q \in Int /\ r \in 0 .. w - 1 /\ n * w + s = q * w + r /\ n \in Int
    BY <1>2, <1>3
  <2> HIDE DEF q, r
  <2>2. n = q /\ s = r BY <2>1, Unique
  <2> QED BY <2>2 DEF q, r
<1> QED BY <1>4 DEF x

\* The number of place <<n, s>> when w places make a row, and back.
Place(w, n, s) == n * w + s
Spot(w, x) == <<x \div w, x % w>>

LEMMA Places ==
  ASSUME NEW w \in Nat \ {0}, NEW n \in Nat, NEW s \in 0 .. w - 1
  PROVE  /\ Place(w, n, s) \in Nat
         /\ Spot(w, Place(w, n, s)) = <<n, s>>
         /\ s = w - 1 => Place(w, n, s) + 1 = Place(w, n + 1, 0)
         /\ s # w - 1 => Place(w, n, s) + 1 = Place(w, n, s + 1)
         /\ n # 0 /\ s = 0 => Place(w, n, s) - 1 = Place(w, n - 1, w - 1)
         /\ s # 0 => Place(w, n, s) - 1 = Place(w, n, s - 1)
         /\ n = 0 /\ s = 0 => Place(w, n, s) = 0
<1>1. Spot(w, Place(w, n, s)) = <<n, s>>
  BY Quotient DEF Spot, Place
<1>2. (n + 1) * w = n * w + w /\ (n - 1) * w = n * w - w /\ 0 * w = 0 OBVIOUS
<1>3. n * w \in Nat OBVIOUS
<1> QED BY <1>1, <1>2, <1>3 DEF Place

LEMMA PlaceSpot ==
  ASSUME NEW w \in Nat \ {0}, NEW n \in Nat, NEW s \in 0 .. w - 1
  PROVE  Spot(w, Place(w, n, s)) = <<n, s>>
BY Places

LEMMA PlacesOrdered ==
  ASSUME NEW w \in Nat \ {0}, NEW m \in Nat, NEW r \in 0 .. w - 1,
         NEW n \in Nat, NEW s \in 0 .. w - 1
  PROVE  /\ Place(w, m, r) = Place(w, n, s) => m = n /\ r = s
         /\ Place(w, m, r) <= Place(w, n, s) => m <= n
         /\ m < n => Place(w, m, r) < Place(w, n, s)
  BY Unique DEF Place

LEMMA Spots ==
  ASSUME NEW w \in Nat \ {0}, NEW x \in Nat
  PROVE  /\ Spot(w, x)[1] \in Nat /\ Spot(w, x)[2] \in 0 .. w - 1
         /\ Spot(w, x) = <<Spot(w, x)[1], Spot(w, x)[2]>>
         /\ Place(w, Spot(w, x)[1], Spot(w, x)[2]) = x
  BY Division DEF Spot, Place

LEMMA SpotsDiffer ==
  ASSUME NEW w \in Nat \ {0}, NEW x \in Nat, NEW y \in Nat,
         Spot(w, x) = Spot(w, y)
  PROVE  x = y
  BY Spots

LEMMA SpotsLater ==
  ASSUME NEW w \in Nat \ {0}, NEW n \in Nat, NEW x \in Nat
  PROVE  Spot(w, n * w + x) = <<n + x \div w, x % w>>
<1> DEFINE q == x \div w
           r == x % w
<1>1. q \in Nat /\ r \in 0 .. w - 1 /\ x = q * w + r
  BY Division
<1> HIDE DEF q, r
<1>2. n * w + x = (n + q) * w + r BY <1>1
<1>3. n + q \in Nat BY <1>1
<1>4. ((n + q) * w + r) \div w = n + q /\ ((n + q) * w + r) % w = r
  BY <1>1, <1>3, Quotient
<1> QED BY <1>2, <1>4 DEF Spot, q, r
-----------------------------------------------------------------------------
(* The deque.                                                              *)

LEMMA BufferSize ==
  buffer_size \in Nat \ {0} /\ bufsize = buffer_size
<1>1. ElementSize \in Nat \ {0}
  BY DequeAssumption
<1>2. /\ 512 \div ElementSize \in Nat
      /\ 512 = (512 \div ElementSize) * ElementSize + (512 % ElementSize)
      /\ 512 % ElementSize \in 0 .. ElementSize - 1
  <2>1. ASSUME NEW x \in Nat
        PROVE  /\ x \div ElementSize \in Nat
               /\ x = (x \div ElementSize) * ElementSize + (x % ElementSize)
               /\ x % ElementSize \in 0 .. ElementSize - 1
    BY <1>1, Division
  <2>2. 512 \in Nat OBVIOUS
  <2> QED BY <2>1, <2>2, Zenon
<1>3. ElementSize <= 512 => 512 \div ElementSize # 0
  <2>1. 512 \div ElementSize = 0 => (512 \div ElementSize) * ElementSize = 0
    BY <1>1
  <2> QED BY <1>1, <1>2, <2>1
<1>4. ElementSize > 512 => 512 \div ElementSize = 0
  <2>1. 512 \div ElementSize # 0
           => 0 * ElementSize + ElementSize
                <= (512 \div ElementSize) * ElementSize
    BY <1>1, <1>2, Ordered2
  <2>2. 0 * ElementSize = 0 /\ (512 \div ElementSize) * ElementSize \in Int
    BY <1>1, <1>2
  <2> QED BY <1>1, <1>2, <2>1, <2>2
<1>5. ElementSize = 512 => 512 \div ElementSize = 1 BY <1>1
<1> DEFINE q == 512 \div ElementSize
<1>6. q \in Nat BY <1>2
<1>7. CASE ElementSize < 512 BY <1>1, <1>2, <1>3, <1>7 DEF buffer_size, bufsize
<1>8. CASE ElementSize = 512 BY <1>1, <1>5, <1>8 DEF buffer_size, bufsize
<1>9. CASE ElementSize > 512 BY <1>1, <1>4, <1>9 DEF buffer_size, bufsize
<1> QED BY <1>1, <1>7, <1>8, <1>9

DequeFirst == Place(buffer_size, start.node, start.cur)
DequeLast == Place(buffer_size, finish.node, finish.cur)

\* The elements lie in a row from _M_start to _M_finish.
DequeRow ==
  /\ DequeLast = DequeFirst + Len(contents)
  /\ \A i \in 1 .. Len(contents) :
        cells[Spot(buffer_size, DequeFirst + i - 1)] = contents[i]

\* The iterator is at the element that is next.
DequeIterates ==
  mode = "listing" =>
    /\ Len(listed) <= Len(contents)
    /\ iter.count = Len(listed)
    /\ iter.p = Spot(buffer_size, DequeFirst + Len(listed))
    /\ iter.node = iter.p[1]
    /\ iter.end = <<iter.node, buffer_size>>
    /\ iter.last = Cur(finish)

Idle == mode = "running" => listed = <<>>

DequeInv == TypeOK /\ DequeRow /\ DequeIterates /\ Idle

LEMMA DequeTyped ==
  ASSUME TypeOK
  PROVE  /\ buffer_size \in Nat \ {0} /\ Nodes \in Nat \ {0}
         /\ start.node \in Nat /\ start.cur \in 0 .. buffer_size - 1
         /\ finish.node \in Nat /\ finish.cur \in 0 .. buffer_size - 1
         /\ DequeFirst \in Nat /\ DequeLast \in Nat
         /\ contents \in Seq(Values) /\ Len(contents) \in Nat
         /\ listed \in Seq(Nat \X Values) /\ Len(listed) \in Nat
<1>1. buffer_size \in Nat \ {0} /\ Nodes \in Nat \ {0}
  BY BufferSize, DequeAssumption
<1>2. /\ start.node \in Nat /\ start.cur \in 0 .. buffer_size - 1
      /\ finish.node \in Nat /\ finish.cur \in 0 .. buffer_size - 1
  BY <1>1 DEF TypeOK, Slots
<1>3. DequeFirst \in Nat /\ DequeLast \in Nat
  BY <1>1, <1>2, Places DEF DequeFirst, DequeLast
<1>4. contents \in Seq(Values) /\ listed \in Seq(Nat \X Values)
  BY DEF TypeOK
<1> QED BY <1>1, <1>2, <1>3, <1>4, LenProperties

LEMMA DequeInit == Init => DequeInv
<1> SUFFICES ASSUME Init PROVE DequeInv
  OBVIOUS
<1>1. buffer_size \in Nat \ {0} /\ Nodes \in Nat \ {0}
  BY BufferSize, DequeAssumption
<1>2. 0 \in Slots /\ 0 \in 0 .. buffer_size /\ 0 \in 0 .. Nodes
      /\ 0 \in 0 .. Nodes - 1 /\ Nodes \div 2 \in 0 .. Nodes - 1
  BY <1>1 DEF Slots
<1>3. iter \in [node : 0 .. Nodes - 1, p : AnyPointer, end : AnyPointer,
                last : AnyPointer, count : Nat]
  BY <1>2 DEF Init, NoIter, AnyPointer
<1>4. /\ cells \in [Pointers -> Values \union {Garbage}]
      /\ contents \in Seq(Values) /\ listed \in Seq(Nat \X Values)
      /\ mode = "running" /\ listed = <<>> /\ contents = <<>>
  BY DEF Init
<1>5. /\ start \in [node : 0 .. Nodes - 1, cur : Slots] /\ finish = start
  BY <1>2 DEF Init
<1>6. TypeOK BY <1>3, <1>4, <1>5 DEF TypeOK
<1>7. DequeFirst \in Nat /\ DequeLast = DequeFirst /\ Len(contents) = 0
  BY <1>4, <1>5, <1>6, DequeTyped DEF DequeFirst, DequeLast
<1>8. DequeRow BY <1>7 DEF DequeRow
<1> QED BY <1>4, <1>6, <1>8 DEF DequeInv, DequeIterates, Idle

\* An iterator of the deque one place on, or back.
LEMMA DequeMoves ==
  ASSUME NEW n \in Nat, NEW c \in 0 .. buffer_size - 1, NEW i,
         i = [node |-> n, cur |-> c]
  PROVE  /\ Forward(i).node \in Nat
         /\ Forward(i).cur \in 0 .. buffer_size - 1
         /\ Forward(i) = [node |-> Forward(i).node, cur |-> Forward(i).cur]
         /\ Place(buffer_size, Forward(i).node, Forward(i).cur)
               = Place(buffer_size, n, c) + 1
         /\ n # 0 \/ c # 0 =>
               /\ Backward(i).node \in Nat
               /\ Backward(i).node <= n
               /\ Backward(i).cur \in 0 .. buffer_size - 1
               /\ Backward(i) = [node |-> Backward(i).node,
                                 cur |-> Backward(i).cur]
               /\ Place(buffer_size, Backward(i).node, Backward(i).cur)
                     = Place(buffer_size, n, c) - 1
         /\ n = 0 /\ c = 0 => Backward(i).node = -1
<1>1. buffer_size \in Nat \ {0}
  BY BufferSize
<1>2. \/ /\ c = buffer_size - 1 /\ Forward(i) = [node |-> n + 1, cur |-> 0]
      \/ /\ c # buffer_size - 1 /\ Forward(i) = [node |-> n, cur |-> c + 1]
  BY <1>1 DEF Forward
<1>3. \/ /\ c = 0 /\ Backward(i) = [node |-> n - 1, cur |-> buffer_size - 1]
      \/ /\ c # 0 /\ Backward(i) = [node |-> n, cur |-> c - 1]
  BY <1>1 DEF Backward
<1>4. /\ c = buffer_size - 1 => Place(buffer_size, n, c) + 1
                                  = Place(buffer_size, n + 1, 0)
      /\ c # buffer_size - 1 => Place(buffer_size, n, c) + 1
                                  = Place(buffer_size, n, c + 1)
      /\ n # 0 /\ c = 0 => Place(buffer_size, n, c) - 1
                              = Place(buffer_size, n - 1, buffer_size - 1)
      /\ c # 0 => Place(buffer_size, n, c) - 1 = Place(buffer_size, n, c - 1)
  BY <1>1, Places
<1>5. /\ Forward(i).node \in Nat
      /\ Forward(i).cur \in 0 .. buffer_size - 1
      /\ Forward(i) = [node |-> Forward(i).node, cur |-> Forward(i).cur]
      /\ Place(buffer_size, Forward(i).node, Forward(i).cur)
            = Place(buffer_size, n, c) + 1
  BY <1>1, <1>2, <1>4
<1>6. n # 0 \/ c # 0 =>
         /\ Backward(i).node \in Nat
         /\ Backward(i).node <= n
         /\ Backward(i).cur \in 0 .. buffer_size - 1
         /\ Backward(i) = [node |-> Backward(i).node, cur |-> Backward(i).cur]
         /\ Place(buffer_size, Backward(i).node, Backward(i).cur)
               = Place(buffer_size, n, c) - 1
  BY <1>1, <1>3, <1>4
<1>7. n = 0 /\ c = 0 => Backward(i).node = -1 BY <1>3
<1> QED BY <1>5, <1>6, <1>7

LEMMA DequeSpots ==
  ASSUME TypeOK
  PROVE  /\ Cur(start) = Spot(buffer_size, DequeFirst)
         /\ Cur(finish) = Spot(buffer_size, DequeLast)
         /\ \A x \in Nat : x <= DequeLast => Spot(buffer_size, x) \in Pointers
<1>1. /\ Cur(start) = Spot(buffer_size, DequeFirst)
      /\ Cur(finish) = Spot(buffer_size, DequeLast)
  <2>1. Spot(buffer_size, Place(buffer_size, start.node, start.cur))
           = <<start.node, start.cur>>
    BY DequeTyped, PlaceSpot, Zenon
  <2>2. Spot(buffer_size, Place(buffer_size, finish.node, finish.cur))
           = <<finish.node, finish.cur>>
    BY DequeTyped, PlaceSpot, Zenon
  <2> QED BY <2>1, <2>2, Zenon DEF Cur, DequeFirst, DequeLast
<1>2. ASSUME NEW x \in Nat, x <= DequeLast
      PROVE  Spot(buffer_size, x) \in Pointers
  <2> DEFINE m == Spot(buffer_size, x)[1]
             r == Spot(buffer_size, x)[2]
  <2>1. /\ m \in Nat /\ r \in 0 .. buffer_size - 1
        /\ Spot(buffer_size, x) = <<m, r>> /\ Place(buffer_size, m, r) = x
    BY DequeTyped, Spots
  <2> HIDE DEF m, r
  <2>2. m <= finish.node BY <1>2, <2>1, DequeTyped, PlacesOrdered DEF DequeLast
  <2>3. finish.node <= Nodes - 1
    BY DequeTyped DEF TypeOK
  <2>4. m \in 0 .. Nodes - 1 BY <2>1, <2>2, <2>3, DequeTyped
  <2> QED BY <2>1, <2>4 DEF Pointers, Slots
<1> QED BY <1>1, <1>2

LEMMA DequePushBack ==
  ASSUME DequeInv, NEW v \in Values, PushBack(v)
  PROVE  DequeInv'
<1> USE DEF DequeInv
<1> DEFINE b == buffer_size
           n == Len(contents)
<1>1. /\ mode = "running" /\ mode' = mode /\ iter' = iter
      /\ listed' = listed /\ start' = start
      /\ cells' = [cells EXCEPT ![Cur(finish)] = v]
      /\ finish' = Forward(finish) /\ Forward(finish).node < Nodes
      /\ contents' = Append(contents, v)
  BY DEF PushBack
<1>2. finish = [node |-> finish.node, cur |-> finish.cur]
  BY DEF TypeOK
<1>3. /\ Forward(finish).node \in Nat
      /\ Forward(finish).cur \in 0 .. buffer_size - 1
      /\ Forward(finish) = [node |-> Forward(finish).node,
                            cur |-> Forward(finish).cur]
      /\ Place(buffer_size, Forward(finish).node, Forward(finish).cur)
            = DequeLast + 1
  BY <1>2, DequeTyped, DequeMoves DEF DequeLast
<1>4. finish' \in [node : 0 .. Nodes - 1, cur : Slots]
  <2>1. Forward(finish).node \in 0 .. Nodes - 1 BY <1>1, <1>3, DequeTyped
  <2> QED BY <1>1, <1>3, <2>1 DEF Slots
<1>5. cells' \in [Pointers -> Values \union {Garbage}] BY <1>1 DEF TypeOK
<1>6. /\ contents' \in Seq(Values) /\ Len(contents') = n + 1
      /\ \A i \in 1 .. n : contents'[i] = contents[i]
      /\ contents'[n + 1] = v
  BY <1>1, DequeTyped, AppendProperties
<1>7. TypeOK' BY <1>1, <1>4, <1>5, <1>6 DEF TypeOK
<1>8. DequeFirst' = DequeFirst /\ DequeLast' = DequeLast + 1
  BY <1>1, <1>3 DEF DequeFirst, DequeLast
<1>9. ASSUME NEW i \in 1 .. n + 1
      PROVE  cells'[Spot(b, DequeFirst + i - 1)] = contents'[i]
  <2>1. DequeLast = DequeFirst + n
    BY DEF DequeRow
  <2>2. PICK x \in Nat : x = DequeFirst + i - 1
    BY DequeTyped
  <2>3. /\ Cur(finish) = Spot(b, DequeLast) /\ Spot(b, DequeLast) \in Pointers
        /\ Spot(b, x) \in Pointers
    BY <2>1, <2>2, DequeTyped, DequeSpots
  <2>4. DOMAIN cells = Pointers
    BY DEF TypeOK
  <2>5. CASE i = n + 1
    <3>1. x = DequeLast BY <2>1, <2>2, <2>5, DequeTyped
    <3> QED BY <1>1, <1>6, <2>2, <2>3, <2>4, <2>5, <3>1
  <2>6. CASE i # n + 1
    <3>1. i \in 1 .. n /\ x # DequeLast BY <2>1, <2>2, <2>6, DequeTyped
    <3>2. Spot(b, x) # Spot(b, DequeLast) BY <3>1, DequeTyped, SpotsDiffer
    <3>3. cells'[Spot(b, x)] = cells[Spot(b, x)] BY <1>1, <2>3, <2>4, <3>2
    <3>4. cells[Spot(b, x)] = contents[i] BY <2>2, <3>1 DEF DequeRow
    <3>5. contents'[i] = contents[i] BY <1>6, <3>1
    <3> QED BY <2>2, <3>3, <3>4, <3>5
  <2> QED BY <2>5, <2>6
<1>10. DequeRow'
  <2>1. DequeLast' = DequeFirst' + Len(contents')
    BY <1>6, <1>8, DequeTyped DEF DequeRow
  <2>2. buffer_size' = buffer_size
    BY DEF buffer_size
  <2> QED BY <1>6, <1>8, <1>9, <2>1, <2>2 DEF DequeRow
<1> QED BY <1>1, <1>7, <1>10 DEF DequeIterates, Idle

LEMMA Prefixed ==
  ASSUME NEW V, NEW v \in V, NEW c \in Seq(V)
  PROVE  /\ <<v>> \o c \in Seq(V) /\ Len(<<v>> \o c) = Len(c) + 1
         /\ \A i \in 1 .. Len(c) : (<<v>> \o c)[i + 1] = c[i]
         /\ (<<v>> \o c)[1] = v
<1> DEFINE s == <<v>>
           t == s \o c
<1>1. s \in Seq(V) /\ Len(s) = 1 /\ s[1] = v OBVIOUS
<1> HIDE DEF s
<1>2. t \in Seq(V) /\ Len(t) = Len(s) + Len(c) BY <1>1, ConcatProperties
<1>3. \A i \in 1 .. Len(s) + Len(c) :
         t[i] = IF i <= Len(s) THEN s[i] ELSE c[i - Len(s)]
  BY <1>1, ConcatProperties
<1>4. Len(c) \in Nat
  BY LenProperties
<1> HIDE DEF t
<1>5. t[1] = v BY <1>1, <1>3, <1>4
<1>6. ASSUME NEW i \in 1 .. Len(c) PROVE t[i + 1] = c[i]
  <2>1. PICK j \in Int : j = i + 1 OBVIOUS
  <2>2. t[j] = c[j - 1] BY <1>1, <1>3, <1>4, <2>1
  <2> QED BY <2>1, <2>2, <1>4
<1> QED BY <1>1, <1>2, <1>4, <1>5, <1>6 DEF s, t

LEMMA DequePushFront ==
  ASSUME DequeInv, NEW v \in Values, PushFront(v)
  PROVE  DequeInv'
<1> USE DEF DequeInv
<1> DEFINE b == buffer_size
           n == Len(contents)
<1>1. /\ mode = "running" /\ mode' = mode /\ iter' = iter
      /\ listed' = listed /\ finish' = finish
      /\ cells' = [cells EXCEPT ![Cur(Backward(start))] = v]
      /\ start' = Backward(start) /\ Backward(start).node >= 0
      /\ contents' = <<v>> \o contents
  BY DEF PushFront
<1>2. start = [node |-> start.node, cur |-> start.cur]
  BY DEF TypeOK
<1>3. /\ Backward(start).node \in Nat
      /\ Backward(start).node <= start.node
      /\ Backward(start).cur \in 0 .. buffer_size - 1
      /\ Backward(start) = [node |-> Backward(start).node,
                            cur |-> Backward(start).cur]
      /\ Place(buffer_size, Backward(start).node, Backward(start).cur)
            = DequeFirst - 1
  <2>1. start.node # 0 \/ start.cur # 0 BY <1>1, <1>2, DequeTyped, DequeMoves
  <2> QED BY <1>2, <2>1, DequeTyped, DequeMoves DEF DequeFirst
<1>4. start' \in [node : 0 .. Nodes - 1, cur : Slots]
  <2>1. Backward(start).node \in 0 .. Nodes - 1
    BY <1>1, <1>3, DequeTyped DEF TypeOK
  <2> QED BY <1>1, <1>3, <2>1 DEF Slots
<1>5. cells' \in [Pointers -> Values \union {Garbage}] BY <1>1 DEF TypeOK
<1>6. /\ contents' \in Seq(Values) /\ Len(contents') = n + 1
      /\ \A i \in 1 .. n : contents'[i + 1] = contents[i]
      /\ contents'[1] = v
  BY <1>1, DequeTyped, Prefixed
<1>7. TypeOK' BY <1>1, <1>4, <1>5, <1>6 DEF TypeOK
<1>8. DequeFirst' = DequeFirst - 1 /\ DequeLast' = DequeLast
  BY <1>1, <1>3 DEF DequeFirst, DequeLast
<1>9. DequeFirst' \in Nat /\ DequeFirst # 0
  BY <1>7, <1>8, DequeTyped, Places, <1>1, <1>3 DEF DequeFirst
<1>10. Cur(Backward(start)) = Spot(b, DequeFirst - 1)
  BY <1>3, <1>8, BufferSize, Places DEF Cur
<1>11. ASSUME NEW i \in 1 .. n + 1
       PROVE  cells'[Spot(b, DequeFirst - 1 + i - 1)] = contents'[i]
  <2>1. DequeLast = DequeFirst + n
    BY DEF DequeRow
  <2>2. PICK x \in Nat : x = DequeFirst - 1 + i - 1 BY <1>8, <1>9, DequeTyped
  <2>3. /\ Spot(b, DequeFirst - 1) \in Pointers /\ Spot(b, x) \in Pointers
        /\ DequeFirst - 1 \in Nat
    <3>1. DequeFirst - 1 \in Nat /\ DequeFirst - 1 <= DequeLast
          /\ x <= DequeLast
      <4>1. DequeFirst \in Nat /\ n \in Nat
        BY DequeTyped
      <4>2. DequeFirst - 1 \in Nat BY <1>8, <1>9, Zenon
      <4> QED BY <2>1, <2>2, <4>1, <4>2
    <3> QED BY <3>1, DequeSpots
  <2>4. DOMAIN cells = Pointers
    BY DEF TypeOK
  <2>5. CASE i = 1
    <3>1. x = DequeFirst - 1 BY <2>2, <2>5, DequeTyped
    <3> QED BY <1>1, <1>6, <1>10, <2>2, <2>3, <2>4, <2>5, <3>1
  <2>6. CASE i # 1
    <3>1. PICK j \in 1 .. n : i = j + 1
      <4>1. i - 1 \in 1 .. n /\ i = (i - 1) + 1 BY <2>6, DequeTyped
      <4> QED BY <4>1
    <3>2. x # DequeFirst - 1 /\ x = DequeFirst + j - 1
      BY <2>2, <3>1, DequeTyped
    <3>3. Spot(b, x) # Spot(b, DequeFirst - 1)
      BY <2>3, <3>2, BufferSize, SpotsDiffer
    <3>4. cells'[Spot(b, x)] = cells[Spot(b, x)]
      BY <1>1, <1>10, <2>3, <2>4, <3>3
    <3>5. cells[Spot(b, x)] = contents[j] BY <3>2 DEF DequeRow
    <3>6. contents'[i] = contents[j] BY <1>6, <3>1
    <3> QED BY <2>2, <3>4, <3>5, <3>6
  <2> QED BY <2>5, <2>6
<1>12. DequeRow'
  <2>1. DequeLast' = DequeFirst' + Len(contents')
    BY <1>6, <1>8, DequeTyped DEF DequeRow
  <2>2. buffer_size' = buffer_size
    BY DEF buffer_size
  <2> QED BY <1>6, <1>8, <1>11, <2>1, <2>2 DEF DequeRow
<1> QED BY <1>1, <1>7, <1>12 DEF DequeIterates, Idle

\* Where the row ends, it can shrink by one element only if it has one.
LEMMA DequeNotEmpty ==
  ASSUME DequeInv, contents # <<>>
  PROVE  /\ Len(contents) >= 1 /\ DequeLast >= 1 /\ DequeFirst < DequeLast
<1>1. contents \in Seq(Values) /\ Len(contents) \in Nat /\ DequeFirst \in Nat
      /\ DequeLast \in Nat
  BY DequeTyped DEF DequeInv
<1>2. Len(contents) # 0 BY <1>1, EmptySeq
<1>3. DequeLast = DequeFirst + Len(contents)
  BY DEF DequeInv, DequeRow
<1> QED BY <1>1, <1>2, <1>3

LEMMA Shortened ==
  ASSUME NEW V, NEW c \in Seq(V), Len(c) >= 1
  PROVE  /\ SubSeq(c, 1, Len(c) - 1) \in Seq(V)
         /\ Len(SubSeq(c, 1, Len(c) - 1)) = Len(c) - 1
         /\ \A i \in 1 .. Len(c) - 1 : SubSeq(c, 1, Len(c) - 1)[i] = c[i]
<1>1. PICK m \in Nat : m = Len(c) - 1
  BY LenProperties
<1>2. \A i \in 1 .. m : c[i] \in V BY <1>1, LenProperties, ElementOfSeq
<1>3. /\ SubSeq(c, 1, m) \in Seq(V)
      /\ Len(SubSeq(c, 1, m)) = (IF 1 <= m THEN m - 1 + 1 ELSE 0)
      /\ \A i \in 1 .. m - 1 + 1 : SubSeq(c, 1, m)[i] = c[1 + i - 1]
  BY <1>2, SubSeqProperties
<1>4. Len(SubSeq(c, 1, m)) = m
  <2>1. PICK l : l = Len(SubSeq(c, 1, m)) OBVIOUS
  <2>2. l = IF 1 <= m THEN m - 1 + 1 ELSE 0 BY <1>2, <2>1, SubSeqProperties
  <2> QED BY <2>1, <2>2
<1>5. ASSUME NEW i \in 1 .. m PROVE SubSeq(c, 1, m)[i] = c[i]
  <2>1. i \in 1 .. m - 1 + 1 /\ 1 + i - 1 = i BY <1>1
  <2> QED BY <1>3, <2>1
<1> QED BY <1>1, <1>3, <1>4, <1>5

LEMMA DequePopBack ==
  ASSUME DequeInv, PopBack
  PROVE  DequeInv'
<1> USE DEF DequeInv
<1> DEFINE b == buffer_size
           n == Len(contents)
<1>1. /\ mode = "running" /\ mode' = mode /\ iter' = iter
      /\ listed' = listed /\ start' = start /\ cells' = cells
      /\ finish' = Backward(finish) /\ contents # <<>>
      /\ contents' = SubSeq(contents, 1, n - 1)
  BY DEF PopBack
<1>2. finish = [node |-> finish.node, cur |-> finish.cur]
  BY DEF TypeOK
<1>3. /\ n >= 1 /\ n \in Nat /\ DequeLast \in Nat /\ DequeFirst \in Nat
      /\ DequeLast >= 1 /\ DequeLast = DequeFirst + n
  BY <1>1, DequeNotEmpty, DequeTyped DEF DequeRow
<1>4. finish.node # 0 \/ finish.cur # 0
  <2>1. finish.node = 0 /\ finish.cur = 0
           => Place(buffer_size, finish.node, finish.cur) = 0
    BY DequeTyped, Places
  <2> QED BY <1>3, <2>1 DEF DequeLast
<1>5. /\ Backward(finish).node \in Nat
      /\ Backward(finish).node <= finish.node
      /\ Backward(finish).cur \in 0 .. buffer_size - 1
      /\ Backward(finish) = [node |-> Backward(finish).node,
                             cur |-> Backward(finish).cur]
      /\ Place(buffer_size, Backward(finish).node, Backward(finish).cur)
            = DequeLast - 1
  BY <1>2, <1>4, DequeTyped, DequeMoves DEF DequeLast
<1>6. finish' \in [node : 0 .. Nodes - 1, cur : Slots]
  <2>1. Backward(finish).node \in 0 .. Nodes - 1 BY <1>5, DequeTyped DEF TypeOK
  <2> QED BY <1>1, <1>5, <2>1 DEF Slots
<1>7. /\ contents' \in Seq(Values) /\ Len(contents') = n - 1
      /\ \A i \in 1 .. n - 1 : contents'[i] = contents[i]
  BY <1>1, <1>3, DequeTyped, Shortened
<1>8. TypeOK' BY <1>1, <1>6, <1>7 DEF TypeOK
<1>9. DequeFirst' = DequeFirst /\ DequeLast' = DequeLast - 1 /\ buffer_size' = b
  BY <1>1, <1>5 DEF DequeFirst, DequeLast, buffer_size
<1>10. DequeRow'
  <2>1. DequeLast' = DequeFirst' + Len(contents') BY <1>3, <1>7, <1>9
  <2>2. ASSUME NEW i \in 1 .. n - 1
        PROVE  cells[Spot(b, DequeFirst + i - 1)] = contents'[i]
    <3>1. i \in 1 .. n BY <1>3
    <3> QED BY <1>7, <3>1 DEF DequeRow
  <2> QED BY <1>1, <1>7, <1>9, <2>1, <2>2 DEF DequeRow
<1> QED BY <1>1, <1>8, <1>10 DEF DequeIterates, Idle

LEMMA DequePopFront ==
  ASSUME DequeInv, PopFront
  PROVE  DequeInv'
<1> USE DEF DequeInv
<1> DEFINE b == buffer_size
           n == Len(contents)
<1>1. /\ mode = "running" /\ mode' = mode /\ iter' = iter
      /\ listed' = listed /\ finish' = finish /\ cells' = cells
      /\ start' = Forward(start) /\ contents # <<>>
      /\ contents' = Tail(contents)
  BY DEF PopFront
<1>2. start = [node |-> start.node, cur |-> start.cur]
  BY DEF TypeOK
<1>3. /\ n >= 1 /\ n \in Nat /\ DequeLast \in Nat /\ DequeFirst \in Nat
      /\ DequeLast = DequeFirst + n
  BY <1>1, DequeNotEmpty, DequeTyped DEF DequeRow
<1>4. /\ Forward(start).node \in Nat
      /\ Forward(start).cur \in 0 .. buffer_size - 1
      /\ Forward(start) = [node |-> Forward(start).node,
                           cur |-> Forward(start).cur]
      /\ Place(buffer_size, Forward(start).node, Forward(start).cur)
            = DequeFirst + 1
  BY <1>2, DequeTyped, DequeMoves DEF DequeFirst
<1>5. start' \in [node : 0 .. Nodes - 1, cur : Slots]
  <2>1. Place(buffer_size, Forward(start).node, Forward(start).cur)
           <= Place(buffer_size, finish.node, finish.cur)
    BY <1>3, <1>4 DEF DequeLast
  <2>2. Forward(start).node <= finish.node
    BY <1>4, <2>1, DequeTyped, PlacesOrdered
  <2>3. finish.node <= Nodes - 1 /\ finish.node \in Nat
    BY DequeTyped DEF TypeOK
  <2>4. Forward(start).node \in 0 .. Nodes - 1 BY <1>4, <2>2, <2>3, DequeTyped
  <2> QED BY <1>1, <1>4, <2>4 DEF Slots
<1>6. /\ contents' \in Seq(Values) /\ Len(contents') = n - 1
      /\ \A i \in 1 .. n - 1 : contents'[i] = contents[i + 1]
  BY <1>1, <1>3, DequeTyped, HeadTailProperties
<1>7. TypeOK' BY <1>1, <1>5, <1>6 DEF TypeOK
<1>8. DequeFirst' = DequeFirst + 1 /\ DequeLast' = DequeLast /\ buffer_size' = b
  BY <1>1, <1>4 DEF DequeFirst, DequeLast, buffer_size
<1>9. DequeRow'
  <2>1. DequeLast' = DequeFirst' + Len(contents') BY <1>3, <1>6, <1>8
  <2>2. ASSUME NEW i \in 1 .. n - 1
        PROVE  cells[Spot(b, DequeFirst + 1 + i - 1)] = contents'[i]
    <3>1. PICK j \in 1 .. n : j = i + 1 BY <1>3
    <3>2. DequeFirst + 1 + i - 1 = DequeFirst + j - 1 BY <1>3, <3>1
    <3>3. cells[Spot(b, DequeFirst + j - 1)] = contents[j]
      BY DEF DequeRow
    <3>4. contents'[i] = contents[j] BY <1>6, <3>1
    <3> QED BY <3>2, <3>3, <3>4
  <2> QED BY <1>1, <1>6, <1>8, <2>1, <2>2 DEF DequeRow
<1> QED BY <1>1, <1>7, <1>9 DEF DequeIterates, Idle

LEMMA DequeChildren ==
  ASSUME DequeInv, Children
  PROVE  DequeInv'
<1> USE DEF DequeInv
<1>1. /\ mode = "running" /\ mode' = "listing"
      /\ iter' = [node |-> start.node, p |-> Cur(start),
                  end |-> <<start.node, buffer_size>>,
                  last |-> Cur(finish), count |-> 0]
      /\ start' = start /\ finish' = finish /\ cells' = cells
      /\ contents' = contents /\ listed' = listed /\ listed = <<>>
  BY DEF Children, container, Idle
<1>2. iter' \in [node : 0 .. Nodes - 1, p : AnyPointer, end : AnyPointer,
                 last : AnyPointer, count : Nat]
  <2>1. /\ start.node \in 0 .. Nodes - 1 /\ finish.node \in 0 .. Nodes - 1
        /\ start.cur \in Slots /\ finish.cur \in Slots
    BY DEF TypeOK
  <2>2. /\ 0 .. Nodes - 1 \subseteq 0 .. Nodes /\ Slots \subseteq 0 .. buffer_size
        /\ buffer_size \in 0 .. buffer_size
    BY DequeTyped DEF Slots
  <2>3. /\ Cur(start) \in AnyPointer /\ Cur(finish) \in AnyPointer
        /\ <<start.node, buffer_size>> \in AnyPointer
    BY <2>1, <2>2 DEF Cur, AnyPointer
  <2> QED BY <1>1, <2>1, <2>3
<1>3. TypeOK' BY <1>1, <1>2 DEF TypeOK
<1>4. DequeRow' /\ DequeFirst' = DequeFirst /\ buffer_size' = buffer_size
  BY <1>1 DEF DequeRow, DequeFirst, DequeLast, buffer_size
<1>5. DequeIterates'
  <2>1. Len(listed') = 0 /\ Len(contents) \in Nat /\ DequeFirst + 0 = DequeFirst
    BY <1>1, DequeTyped
  <2>2. Cur(start) = Spot(buffer_size, DequeFirst)
    BY DequeSpots
  <2>3. Cur(start)[1] = start.node
    BY DEF Cur
  <2> QED BY <1>1, <1>4, <2>1, <2>2, <2>3 DEF DequeIterates, Cur
<1> QED BY <1>1, <1>3, <1>4, <1>5 DEF Idle

\* At an element, the iterator has a slot that was written, and the number of
\* the element is that of those before it.
LEMMA DequeElementIs ==
  ASSUME DequeInv, mode = "listing", iter.p # iter.last
  PROVE  /\ Len(listed) < Len(contents) /\ iter.p \in Pointers
         /\ iter.count = Len(listed)
         /\ cells[iter.p] = contents[Len(listed) + 1]
         /\ contents[Len(listed) + 1] \in Values
<1> USE DEF DequeInv
<1> DEFINE k == Len(listed)
<1>1. /\ k \in Nat /\ Len(contents) \in Nat /\ DequeFirst \in Nat
      /\ DequeLast \in Nat /\ contents \in Seq(Values)
      /\ DequeLast = DequeFirst + Len(contents)
  BY DequeTyped DEF DequeRow
<1>2. /\ k <= Len(contents) /\ iter.count = k
      /\ iter.p = Spot(buffer_size, DequeFirst + k) /\ iter.last = Cur(finish)
  BY DEF DequeIterates
<1>3. k # Len(contents)
  <2>1. Cur(finish) = Spot(buffer_size, DequeLast)
    BY DequeSpots
  <2> QED BY <1>1, <1>2, <2>1
<1>4. k < Len(contents) BY <1>1, <1>2, <1>3
<1>5. PICK i \in 1 .. Len(contents) : i = k + 1 BY <1>1, <1>4
<1>6. DequeFirst + i - 1 = DequeFirst + k BY <1>1, <1>5
<1>7. cells[iter.p] = contents[i] BY <1>2, <1>6 DEF DequeRow
<1>8. iter.p \in Pointers
  <2>1. DequeFirst + k \in Nat /\ DequeFirst + k <= DequeLast BY <1>1, <1>4
  <2> QED BY <1>2, <2>1, DequeSpots
<1>9. contents[i] \in Values BY <1>1, ElementOfSeq
<1> QED BY <1>2, <1>4, <1>5, <1>7, <1>8, <1>9

LEMMA DequeElement ==
  ASSUME DequeInv, Element
  PROVE  DequeInv'
<1> USE DEF DequeInv
<1> DEFINE b == buffer_size
           k == Len(listed)
<1>1. /\ mode = "listing" /\ mode' = "listing" /\ iter.p # iter.last
      /\ iter' = Advance(iter)
      /\ listed' = Append(listed, <<iter.count, cells[iter.p]>>)
      /\ start' = start /\ finish' = finish /\ cells' = cells
      /\ contents' = contents
  BY DEF Element, container
<1>2. /\ k < Len(contents) /\ iter.p \in Pointers /\ iter.count = k
      /\ cells[iter.p] = contents[k + 1] /\ contents[k + 1] \in Values
  BY <1>1, DequeElementIs
<1>3. /\ k \in Nat /\ Len(contents) \in Nat /\ DequeFirst \in Nat
      /\ DequeLast \in Nat /\ DequeLast = DequeFirst + Len(contents)
      /\ b \in Nat \ {0} /\ Nodes \in Nat \ {0}
  BY DequeTyped DEF DequeRow
<1>4. listed' \in Seq(Nat \X Values) /\ Len(listed') = k + 1
  <2>1. <<iter.count, cells[iter.p]>> \in Nat \X Values BY <1>2, <1>3
  <2> QED BY <1>1, <2>1, DequeTyped, AppendProperties
<1>5. /\ iter.p = Spot(b, DequeFirst + k) /\ iter.node = iter.p[1]
      /\ iter.end = <<iter.node, b>> /\ iter.last = Cur(finish)
      /\ iter = [node |-> iter.node, p |-> iter.p, end |-> iter.end,
                 last |-> iter.last, count |-> iter.count]
      /\ iter.last \in AnyPointer
  BY <1>1 DEF DequeIterates, TypeOK
<1>6. PICK x \in Nat : x = DequeFirst + k BY <1>3
<1> DEFINE m == iter.p[1]
           r == iter.p[2]
<1>7. /\ m \in Nat /\ r \in 0 .. b - 1 /\ iter.p = <<m, r>>
      /\ Place(b, m, r) = x
  BY <1>3, <1>5, <1>6, Spots
<1>8. PICK y \in Nat : y = x + 1 /\ y <= DequeLast
                       /\ y = DequeFirst + Len(listed')
  BY <1>2, <1>3, <1>4, <1>6
<1> HIDE DEF m, r
<1> DEFINE Placed ==
             /\ iter' \in [node : 0 .. Nodes - 1, p : AnyPointer,
                           end : AnyPointer, last : AnyPointer, count : Nat]
             /\ iter'.node = iter'.p[1] /\ iter'.p = Spot(b, y)
             /\ iter'.end = <<iter'.node, b>> /\ iter'.last = Cur(finish)
             /\ iter'.count = k + 1
<1>9. ASSUME r = b - 1
      PROVE  Placed
  <2>1. Advance(iter) = [node |-> m + 1, p |-> <<m + 1, 0>>,
                         end |-> <<m + 1, b>>, last |-> iter.last,
                         count |-> k + 1]
    <3>1. PlusOne(iter.p) = iter.end /\ iter.node = m
      BY <1>3, <1>5, <1>7, <1>9 DEF PlusOne
    <3> QED BY <1>2, <1>5, <3>1 DEF Advance
  <2>2. Spot(b, y) = <<m + 1, 0>>
    <3>1. Place(b, m, r) + 1 = Place(b, m + 1, 0) BY <1>3, <1>7, <1>9, Places
    <3>2. Spot(b, Place(b, m + 1, 0)) = <<m + 1, 0>>
      <4>1. m + 1 \in Nat /\ 0 \in 0 .. b - 1 BY <1>3, <1>7
      <4> QED BY <1>3, <4>1, Places
    <3> QED BY <1>7, <1>8, <3>1, <3>2
  <2>3. m + 1 \in 0 .. Nodes - 1
    <3>1. <<m + 1, 0>> \in Pointers BY <1>8, <2>2, DequeSpots
    <3> QED BY <3>1 DEF Pointers
  <2>4. <<m + 1, 0>> \in AnyPointer /\ <<m + 1, b>> \in AnyPointer
    BY <1>3, <2>3 DEF AnyPointer
  <2>5. iter' \in [node : 0 .. Nodes - 1, p : AnyPointer, end : AnyPointer,
                   last : AnyPointer, count : Nat]
    BY <1>1, <1>3, <1>5, <2>1, <2>3, <2>4
  <2>6. /\ iter'.node = iter'.p[1] /\ iter'.p = Spot(b, y)
        /\ iter'.end = <<iter'.node, b>> /\ iter'.last = Cur(finish)
        /\ iter'.count = k + 1
    BY <1>1, <1>5, <2>1, <2>2
  <2> QED BY <2>5, <2>6
<1>10. ASSUME r # b - 1
       PROVE  Placed
  <2>1. Advance(iter) = [node |-> iter.node, p |-> <<m, r + 1>>,
                         end |-> iter.end, last |-> iter.last,
                         count |-> k + 1]
    <3>1. PlusOne(iter.p) = <<m, r + 1>> /\ PlusOne(iter.p) # iter.end
      BY <1>3, <1>5, <1>7, <1>10 DEF PlusOne
    <3> QED BY <1>2, <1>5, <3>1 DEF Advance
  <2>2. Spot(b, y) = <<m, r + 1>>
    <3>1. Place(b, m, r) + 1 = Place(b, m, r + 1) BY <1>3, <1>7, <1>10, Places
    <3>2. r + 1 \in 0 .. b - 1 BY <1>3, <1>7, <1>10
    <3>3. Spot(b, Place(b, m, r + 1)) = <<m, r + 1>>
      BY <1>3, <1>7, <3>2, Places
    <3> QED BY <1>7, <1>8, <3>1, <3>3
  <2>3. <<m, r + 1>> \in AnyPointer
    <3>1. m \in 0 .. Nodes - 1 BY <1>2, <1>7 DEF Pointers
    <3> QED BY <1>3, <1>7, <1>10, <3>1 DEF AnyPointer
  <2>4. iter' \in [node : 0 .. Nodes - 1, p : AnyPointer, end : AnyPointer,
                   last : AnyPointer, count : Nat]
    <3>1. iter.node \in 0 .. Nodes - 1 /\ iter.end \in AnyPointer
      BY DEF TypeOK
    <3> QED BY <1>1, <1>3, <1>5, <2>1, <2>3, <3>1
  <2>5. /\ iter'.node = iter'.p[1] /\ iter'.p = Spot(b, y)
        /\ iter'.end = <<iter'.node, b>> /\ iter'.last = Cur(finish)
        /\ iter'.count = k + 1
    BY <1>1, <1>5, <1>7, <2>1, <2>2
  <2> QED BY <2>4, <2>5
<1>11. Placed BY <1>9, <1>10
<1>12. TypeOK' BY <1>1, <1>4, <1>11 DEF TypeOK
<1>13. DequeRow' /\ DequeFirst' = DequeFirst /\ buffer_size' = b
  BY <1>1 DEF DequeRow, DequeFirst, DequeLast, buffer_size
<1>14. DequeIterates'
  <2>1. Len(listed') <= Len(contents') BY <1>1, <1>2, <1>3, <1>4
  <2>2. Cur(finish)' = Cur(finish) BY <1>1 DEF Cur
  <2> QED BY <1>4, <1>8, <1>11, <1>13, <2>1, <2>2 DEF DequeIterates
<1> QED BY <1>1, <1>12, <1>13, <1>14 DEF Idle

LEMMA DequeStep ==
  ASSUME DequeInv, Next
  PROVE  DequeInv'
<1>1. CASE \E v \in Values : PushBack(v) \/ PushFront(v)
  BY <1>1, DequePushBack, DequePushFront
<1>2. CASE PopBack BY <1>2, DequePopBack
<1>3. CASE PopFront BY <1>3, DequePopFront
<1>4. CASE Children BY <1>4, DequeChildren
<1>5. CASE Element BY <1>5, DequeElement
<1>6. ASSUME StopIteration \/ Continue
      PROVE  DequeInv'
  <2>1. /\ start' = start /\ finish' = finish /\ cells' = cells
        /\ contents' = contents /\ iter' = NoIter
        /\ \/ mode' = "listed" /\ listed' = listed
           \/ mode' = "running" /\ listed' = <<>>
    BY <1>6 DEF StopIteration, Continue, container
  <2>2. NoIter \in [node : 0 .. Nodes - 1, p : AnyPointer, end : AnyPointer,
                    last : AnyPointer, count : Nat]
    BY DequeTyped DEF DequeInv, NoIter, AnyPointer
  <2>3. listed' \in Seq(Nat \X Values) /\ mode' \in {"running", "listing", "listed"}
    <3>1. listed \in Seq(Nat \X Values) /\ <<>> \in Seq(Nat \X Values)
      BY DEF DequeInv, TypeOK
    <3> QED BY <2>1, <3>1
  <2>4. TypeOK' BY <2>1, <2>2, <2>3 DEF DequeInv, TypeOK
  <2>5. DequeRow'
    BY <2>1 DEF DequeInv, DequeRow, DequeFirst, DequeLast, buffer_size
  <2> QED BY <2>1, <2>4, <2>5 DEF DequeInv, DequeIterates, Idle
<1> QED BY <1>1, <1>2, <1>3, <1>4, <1>5, <1>6 DEF Next

LEMMA Spans ==
  ASSUME NEW w \in Nat \ {0}, NEW m \in Int, NEW r \in Int,
         NEW n \in Int, NEW s \in Int, NEW k \in Int,
         n * w + s = m * w + r + k
  PROVE  /\ w * (n - m - 1) + (w - r) + s = k
         /\ (n - m) * w + s = k + r
<1>1. PICK x \in Int : x = m * w OBVIOUS
<1>2. PICK y \in Int : y = n * w OBVIOUS
<1>3. w * (n - m - 1) = y - x - w /\ (n - m) * w = y - x BY <1>1, <1>2
<1>4. y + s = x + r + k BY <1>1, <1>2
<1> QED BY <1>1, <1>2, <1>3, <1>4

LEMMA DequeShows ==
  ASSUME DequeInv
  PROVE  CountsElements /\ EndsAgree /\ CountsFromStart
<1> USE DEF DequeInv
<1> DEFINE b == buffer_size
           n == Len(contents)
<1>1. /\ b \in Nat \ {0} /\ bufsize = b
      /\ start.node \in Nat /\ start.cur \in 0 .. b - 1
      /\ finish.node \in Nat /\ finish.cur \in 0 .. b - 1
      /\ DequeFirst \in Nat /\ DequeLast \in Nat /\ n \in Nat
      /\ contents \in Seq(Values) /\ DequeLast = DequeFirst + n
  BY BufferSize, DequeTyped DEF DequeRow
<1>2. finish.node * b + finish.cur = start.node * b + start.cur + n
  BY <1>1, Zenon DEF DequeFirst, DequeLast, Place
<1>3. /\ b * (finish.node - start.node - 1) + (b - start.cur) + finish.cur = n
      /\ (finish.node - start.node) * b + finish.cur = n + start.cur
  <2>1. /\ start.node \in Int /\ start.cur \in Int /\ n \in Int
        /\ finish.node \in Int /\ finish.cur \in Int /\ b \in Nat \ {0}
    BY <1>1
  <2> HIDE DEF b, n, DequeInv
  <2>2. PICK m \in Int, r \in Int, p \in Int, s \in Int, k \in Int :
             /\ m = start.node /\ r = start.cur /\ k = n
             /\ p = finish.node /\ s = finish.cur
    BY <2>1
  <2>3. p * b + s = m * b + r + k BY <1>2, <2>2
  <2>4. b * (p - m - 1) + (b - r) + s = k /\ (p - m) * b + s = k + r
    BY <2>1, <2>3, Spans
  <2> QED BY <2>2, <2>4
<1>6. CountsElements BY <1>3, Zenon DEF CountsElements, to_string
<1>7. DequeSize = n + start.cur BY <1>1, <1>3, Zenon DEF DequeSize
<1>8. ASSUME NEW i \in 1 .. n
      PROVE  index(start.cur + i - 1) = contents[i]
  <2>1. PICK j \in Nat : j = start.cur + i - 1 BY <1>1
  <2>2. Spot(b, start.node * b + j) = <<start.node + j \div b, j % b>>
    BY <1>1, SpotsLater
  <2>3. start.node * b + j = DequeFirst + i - 1
    <3>1. DequeFirst = start.node * b + start.cur
      BY DEF DequeFirst, Place
    <3>2. start.node * b \in Nat BY <1>1
    <3> HIDE DEF b, n
    <3>3. PICK x \in Nat : x = start.node * b BY <3>2
    <3> QED
      <4>1. j = start.cur + i - 1 /\ start.cur \in Int /\ i \in Int
        BY <1>1, <2>1 DEF n
      <4>2. DequeFirst = x + start.cur BY <3>1, <3>3
      <4> HIDE DEF DequeInv
      <4>3. x + j = DequeFirst + i - 1 BY <4>1, <4>2
      <4> QED BY <3>3, <4>3
  <2>4. cells[Spot(b, DequeFirst + i - 1)] = contents[i]
    BY DEF DequeRow
  <2>5. index(j) = contents[i] BY <1>1, <2>2, <2>3, <2>4 DEF index
  <2> QED BY <2>1, <2>5
<1>9. DequeEmpty <=> contents = <<>>
  <2>1. DequeEmpty <=> Spot(b, DequeFirst) = Spot(b, DequeLast)
    BY DequeSpots DEF DequeEmpty
  <2>2. Spot(b, DequeFirst) = Spot(b, DequeLast) => DequeFirst = DequeLast
    BY <1>1, SpotsDiffer
  <2>3. DequeFirst = DequeLast <=> n = 0 BY <1>1
  <2>4. n = 0 <=> contents = <<>> BY <1>1, EmptySeq
  <2> QED BY <2>1, <2>2, <2>3, <2>4
<1>10. ASSUME contents # <<>>
       PROVE  DequeFront = Head(contents) /\ DequeBack = contents[n]
  <2>1. n >= 1 /\ DequeLast >= 1 /\ 1 \in 1 .. n /\ n \in 1 .. n
    BY <1>1, <1>10, DequeNotEmpty
  <2>2. DequeFront = Head(contents)
    <3>1. cells[Spot(b, DequeFirst + 1 - 1)] = contents[1] BY <2>1 DEF DequeRow
    <3>2. DequeFirst + 1 - 1 = DequeFirst /\ contents[1] = Head(contents)
      BY <1>1, <1>10
    <3>3. Cur(start) = Spot(b, DequeFirst)
      BY DequeSpots
    <3> QED BY <3>1, <3>2, <3>3 DEF DequeFront
  <2>3. PICK z \in Nat : z = DequeLast - 1 BY <1>1, <2>1
  <2>4. cells[Spot(b, z)] = contents[n]
    <3>1. DequeFirst + n - 1 = z BY <1>1, <2>3
    <3> QED BY <2>1, <3>1 DEF DequeRow
  <2>5. CASE finish.cur = 0
    <3>1. finish.node # 0
      <4>1. finish.node = 0 => DequeLast = 0
        BY <1>1, <2>5, Places DEF DequeLast
      <4> QED BY <2>1, <4>1
    <3>2. Place(b, finish.node - 1, b - 1) = z
      <4>1. PICK q \in Nat, r \in 0 .. b - 1 : q = finish.node /\ r = finish.cur
        BY <1>1
      <4>2. Place(b, q, r) = z + 1 BY <1>1, <2>3, <4>1 DEF DequeLast
      <4>3. Place(b, q, r) - 1 = Place(b, q - 1, b - 1)
        BY <1>1, <2>5, <3>1, <4>1, Places
      <4>4. q - 1 = finish.node - 1 BY <4>1
      <4> QED BY <4>2, <4>3, <4>4
    <3>3. finish.node - 1 \in Nat /\ b - 1 \in 0 .. b - 1 BY <1>1, <3>1
    <3>4. Spot(b, z) = <<finish.node - 1, b - 1>>
      <4>1. Spot(b, Place(b, finish.node - 1, b - 1))
               = <<finish.node - 1, b - 1>>
        BY <1>1, <3>3, PlaceSpot, Zenon
      <4> QED BY <3>2, <4>1
    <3> QED BY <1>1, <2>2, <2>4, <2>5, <3>4 DEF DequeBack
  <2>6. CASE finish.cur # 0
    <3>1. Place(b, finish.node, finish.cur - 1) = z
      BY <1>1, <2>3, <2>6, Places DEF DequeLast
    <3>2. finish.cur - 1 \in 0 .. b - 1 BY <1>1, <2>6
    <3>3. Spot(b, z) = <<finish.node, finish.cur - 1>>
      <4>1. Spot(b, Place(b, finish.node, finish.cur - 1))
               = <<finish.node, finish.cur - 1>>
        BY <1>1, <3>2, PlaceSpot, Zenon
      <4> QED BY <3>1, <4>1
    <3> QED BY <2>2, <2>4, <2>6, <3>3 DEF DequeBack
  <2> QED BY <2>5, <2>6
<1>11. ASSUME start.cur = 0
       PROVE  /\ DequeSize = n
              /\ \A i \in 1 .. n : index(i - 1) = contents[i]
  <2>1. DequeSize = n BY <1>1, <1>7, <1>11
  <2>2. ASSUME NEW i \in 1 .. n PROVE index(i - 1) = contents[i]
    <3>1. start.cur + i - 1 = i - 1 BY <1>1, <1>11
    <3> QED BY <1>8, <3>1
  <2> QED BY <2>1, <2>2
<1> QED BY <1>6, <1>9, <1>10, <1>11, Zenon DEF EndsAgree, CountsFromStart
-----------------------------------------------------------------------------
(* The vectors.                                                            *)

\* One place on, and one place back.
LEMMA SpotsNext ==
  ASSUME NEW w \in Nat \ {0}, NEW x \in Nat, NEW q, NEW r,
         Spot(w, x) = <<q, r>>
  PROVE  /\ q \in Nat /\ r \in 0 .. w - 1 /\ x = q * w + r
         /\ r = w - 1 => Spot(w, x + 1) = <<q + 1, 0>>
         /\ r # w - 1 => Spot(w, x + 1) = <<q, r + 1>>
         /\ x # 0 /\ r = 0 => q # 0 /\ Spot(w, x - 1) = <<q - 1, w - 1>>
         /\ x # 0 /\ r # 0 => Spot(w, x - 1) = <<q, r - 1>>
<1>1. /\ q \in Nat /\ r \in 0 .. w - 1 /\ Place(w, q, r) = x
  <2>1. Spot(w, x)[1] = q /\ Spot(w, x)[2] = r OBVIOUS
  <2> QED BY <2>1, Spots
<1>2. x = q * w + r BY <1>1 DEF Place
<1>3. ASSUME r = w - 1
      PROVE  Spot(w, x + 1) = <<q + 1, 0>>
  <2>1. Place(w, q + 1, 0) = x + 1 BY <1>1, <1>3, Places
  <2>2. q + 1 \in Nat /\ 0 \in 0 .. w - 1 BY <1>1
  <2>3. Spot(w, Place(w, q + 1, 0)) = <<q + 1, 0>> BY <2>2, Places
  <2> QED BY <2>1, <2>3
<1>4. ASSUME r # w - 1
      PROVE  Spot(w, x + 1) = <<q, r + 1>>
  <2>1. Place(w, q, r + 1) = x + 1 BY <1>1, <1>4, Places
  <2>2. r + 1 \in 0 .. w - 1 BY <1>1, <1>4
  <2>3. Spot(w, Place(w, q, r + 1)) = <<q, r + 1>> BY <1>1, <2>2, Places
  <2> QED BY <2>1, <2>3
<1>5. ASSUME x # 0, r = 0
      PROVE  q # 0 /\ Spot(w, x - 1) = <<q - 1, w - 1>>
  <2>1. q # 0 BY <1>1, <1>5, Places
  <2>2. Place(w, q - 1, w - 1) = x - 1 BY <1>1, <1>5, <2>1, Places
  <2>3. q - 1 \in Nat /\ w - 1 \in 0 .. w - 1 BY <1>1, <2>1
  <2>4. Spot(w, Place(w, q - 1, w - 1)) = <<q - 1, w - 1>> BY <2>3, Places
  <2> QED BY <2>1, <2>2, <2>4
<1>6. ASSUME x # 0, r # 0
      PROVE  Spot(w, x - 1) = <<q, r - 1>>
  <2>1. Place(w, q, r - 1) = x - 1 BY <1>1, <1>6, Places
  <2>2. r - 1 \in 0 .. w - 1 BY <1>1, <1>6
  <2>3. Spot(w, Place(w, q, r - 1)) = <<q, r - 1>>
    BY <1>1, <2>2, PlaceSpot, Zenon
  <2> QED BY <2>1, <2>3
<1> QED BY <1>1, <1>2, <1>3, <1>4, <1>5, <1>6

\* The places below n * w are those of the first n words.
LEMMA SpotsBelow ==
  ASSUME NEW w \in Nat \ {0}, NEW n \in Nat, NEW x \in Nat, NEW q, NEW r,
         Spot(w, x) = <<q, r>>
  PROVE  /\ n * w \in Nat
         /\ x < n * w <=> q < n
         /\ x <= n * w => q <= n
<1>1. q \in Nat /\ r \in 0 .. w - 1 /\ x = q * w + r
  BY SpotsNext
<1>2. q < n => q * w + w <= n * w BY <1>1, Ordered2
<1>3. n < q => n * w + w <= q * w BY <1>1, Ordered2
<1>4. n = q => n * w = q * w OBVIOUS
<1>5. PICK a \in Nat, b \in Nat : a = n * w /\ b = q * w BY <1>1
<1>6. /\ q < n => b + w <= a
      /\ n < q => a + w <= b
      /\ n = q => a = b
      /\ x = b + r
  BY <1>1, <1>2, <1>3, <1>4, <1>5
<1>7. x < a <=> q < n BY <1>1, <1>6
<1>8. x <= a => q <= n BY <1>1, <1>6
<1> QED BY <1>5, <1>7, <1>8

LEMMA SpotsWithin ==
  ASSUME NEW w \in Nat \ {0}, NEW n \in Nat, NEW x \in Nat, x < n * w
  PROVE  Spot(w, x) \in (0 .. n - 1) \X (0 .. w - 1)
<1>1. PICK q, r : Spot(w, x) = <<q, r>>
  BY DEF Spot
<1>2. q \in Nat /\ r \in 0 .. w - 1 BY <1>1, SpotsNext
<1>3. x < n * w <=> q < n BY <1>1, SpotsBelow
<1>4. q \in 0 .. n - 1 BY <1>2, <1>3
<1> QED BY <1>1, <1>2, <1>4

LEMMA Indices ==
  ASSUME NEW n \in Nat, NEW i \in 1 .. n
  PROVE  \E x \in Nat : x = i - 1 /\ x < n
<1>1. i - 1 \in Nat /\ i - 1 < n OBVIOUS
<1> QED BY <1>1

\* The elements lie in a row from the first item to _M_finish, which the
\* storage is large enough for.
VectorRow(w) ==
  /\ <<finish.p, finish.offset>> = Spot(w, Len(contents))
  /\ Len(contents) <= storage * w
  /\ \A i \in 1 .. Len(contents) : cells[Spot(w, i - 1)] = contents[i]

\* The iterator is at the element that is next.
VectorIterates(w) ==
  mode = "listing" =>
    /\ Len(listed) <= Len(contents)
    /\ iter.count = Len(listed)
    /\ <<iter.item, iter.so>> = Spot(w, Len(listed))

VectorInv(bv, sz, vs, mx) ==
  /\ Vec(bv, sz, vs, mx)!TypeOK
  /\ VectorRow(Vec(bv, sz, vs, mx)!Width)
  /\ VectorIterates(Vec(bv, sz, vs, mx)!Width)
  /\ Idle

\* The parts of the type invariant, with the width by its name.
LEMMA VectorTyped ==
  ASSUME NEW bv \in BOOLEAN, NEW sz \in Nat \ {0}, NEW vs, NEW mx \in Nat,
         NEW w, w = Vec(bv, sz, vs, mx)!Width, Vec(bv, sz, vs, mx)!TypeOK
  PROVE  /\ w \in Nat \ {0} /\ (bv => w = sz) /\ (~bv => w = 1)
         /\ finish = [p |-> finish.p, offset |-> finish.offset]
         /\ finish.p \in 0 .. mx /\ finish.offset \in 0 .. w - 1
         /\ storage \in 0 .. mx
         /\ cells \in [(0 .. storage - 1) \X (0 .. w - 1) -> vs]
         /\ contents \in Seq(vs) /\ Len(contents) \in Nat
         /\ iter = [item |-> iter.item, so |-> iter.so, count |-> iter.count]
         /\ iter.item \in 0 .. mx /\ iter.so \in 0 .. w - 1
         /\ listed \in Seq(Nat \X vs) /\ Len(listed) \in Nat
<1>1. w \in Nat \ {0} /\ (bv => w = sz) /\ (~bv => w = 1)
  BY DEF Vec!Width
<1>2. /\ finish \in [p : 0 .. mx, offset : 0 .. w - 1]
      /\ storage \in 0 .. mx
      /\ cells \in [(0 .. storage - 1) \X (0 .. w - 1) -> vs]
      /\ contents \in Seq(vs)
      /\ iter \in [item : 0 .. mx, so : 0 .. w - 1, count : Nat]
      /\ listed \in Seq(Nat \X vs)
  BY DEF Vec!TypeOK, Vec!Slots
<1>3. /\ finish = [p |-> finish.p, offset |-> finish.offset]
      /\ finish.p \in 0 .. mx /\ finish.offset \in 0 .. w - 1
      /\ iter = [item |-> iter.item, so |-> iter.so, count |-> iter.count]
      /\ iter.item \in 0 .. mx /\ iter.so \in 0 .. w - 1
  BY <1>2
<1>4. Len(contents) \in Nat /\ Len(listed) \in Nat BY <1>2, LenProperties
<1> QED BY <1>1, <1>2, <1>3, <1>4

LEMMA VectorInit ==
  ASSUME NEW bv \in BOOLEAN, NEW sz \in Nat \ {0}, NEW vs, NEW mx \in Nat,
         Vec(bv, sz, vs, mx)!Init
  PROVE  VectorInv(bv, sz, vs, mx)
<1> DEFINE w == Vec(bv, sz, vs, mx)!Width
<1>1. /\ finish = [p |-> 0, offset |-> 0] /\ storage = 0 /\ cells = <<>>
      /\ contents = <<>> /\ mode = "running" /\ listed = <<>>
      /\ iter = [item |-> 0, so |-> 0, count |-> 0]
  BY DEF Vec!Init, Vec!start, Vec!NoIter
<1>2. w \in Nat \ {0}
  BY DEF Vec!Width
<1>3. Vec(bv, sz, vs, mx)!TypeOK
  <2> HIDE DEF w
  <2>1. cells \in [(0 .. storage - 1) \X (0 .. w - 1) -> vs]
    <3>1. (0 .. storage - 1) \X (0 .. w - 1) = {} BY <1>1
    <3> QED BY <1>1, <3>1
  <2>2. /\ finish \in [p : 0 .. mx, offset : 0 .. w - 1]
        /\ storage \in 0 .. mx
        /\ iter \in [item : 0 .. mx, so : 0 .. w - 1, count : Nat]
        /\ contents \in Seq(vs) /\ listed \in Seq(Nat \X vs)
    BY <1>1, <1>2
  <2> QED BY <1>1, <2>1, <2>2 DEF Vec!TypeOK, Vec!Slots, w
<1> HIDE DEF w
<1>4. Spot(w, 0) = <<0, 0>> /\ Len(contents) = 0 /\ storage * w = 0
  <2>1. Place(w, 0, 0) = 0 /\ Spot(w, Place(w, 0, 0)) = <<0, 0>>
    BY <1>2, Places
  <2> QED BY <1>1, <1>2, <2>1
<1> QED BY <1>1, <1>3, <1>4 DEF VectorInv, VectorRow, VectorIterates, Idle, w

LEMMA VectorReserve ==
  ASSUME NEW bv \in BOOLEAN, NEW sz \in Nat \ {0}, NEW vs, NEW mx \in Nat,
         VectorInv(bv, sz, vs, mx), NEW n \in 1 .. mx,
         Vec(bv, sz, vs, mx)!Reserve(n)
  PROVE  VectorInv(bv, sz, vs, mx)'
<1>1. PICK w : w = Vec(bv, sz, vs, mx)!Width OBVIOUS
<1>2. Vec(bv, sz, vs, mx)!TypeOK /\ VectorRow(w) /\ VectorIterates(w) /\ Idle
  BY <1>1 DEF VectorInv
<1>3. PICK fill \in vs :
         /\ mode = "running" /\ n > storage /\ storage' = n
         /\ cells' = [s \in (0 .. n - 1) \X (0 .. w - 1) |->
                         IF s \in DOMAIN cells THEN cells[s] ELSE fill]
         /\ finish' = finish /\ contents' = contents /\ mode' = mode
         /\ iter' = iter /\ listed' = listed
  BY <1>1 DEF Vec!Reserve, Vec!Slots
<1>4. w \in Nat \ {0} /\ storage \in Nat /\ n \in Nat /\ Len(contents) \in Nat
      /\ DOMAIN cells = (0 .. storage - 1) \X (0 .. w - 1)
  <2>1. /\ w \in Nat \ {0} /\ storage \in 0 .. mx /\ Len(contents) \in Nat
        /\ cells \in [(0 .. storage - 1) \X (0 .. w - 1) -> vs]
    BY <1>1, <1>2, VectorTyped, Zenon
  <2> QED BY <2>1
<1>5. cells' \in [(0 .. n - 1) \X (0 .. w - 1) -> vs]
  <2>1. cells \in [(0 .. storage - 1) \X (0 .. w - 1) -> vs]
    BY <1>1, <1>2, VectorTyped
  <2> QED BY <1>3, <2>1
<1>6. Vec(bv, sz, vs, mx)!TypeOK' /\ w = (Vec(bv, sz, vs, mx)!Width)'
  <2>1. w = (Vec(bv, sz, vs, mx)!Width)' BY <1>1 DEF Vec!Width
  <2>2. n \in 0 .. mx OBVIOUS
  <2> QED BY <1>1, <1>2, <1>3, <1>5, <2>1, <2>2 DEF Vec!TypeOK, Vec!Slots
<1>7. Len(contents) <= n * w /\ Len(contents) <= storage * w
  <2>1. storage * w + w <= n * w BY <1>3, <1>4, Ordered2
  <2>2. PICK x \in Int, y \in Int : x = storage * w /\ y = n * w BY <1>4
  <2>3. Len(contents) <= x BY <1>2, <2>2, Zenon DEF VectorRow
  <2> QED BY <1>4, <2>1, <2>2, <2>3
<1>8. ASSUME NEW i \in 1 .. Len(contents)
      PROVE  cells'[Spot(w, i - 1)] = contents[i]
  <2>1. PICK x \in Nat : x = i - 1 /\ x < Len(contents) BY <1>4, Indices
  <2>3. n * w \in Nat /\ storage * w \in Nat BY <1>4
  <2>4. x < n * w /\ x < storage * w BY <1>4, <1>7, <2>1, <2>3
  <2>5. Spot(w, x) \in (0 .. n - 1) \X (0 .. w - 1) BY <1>4, <2>4, SpotsWithin
  <2>6. Spot(w, x) \in (0 .. storage - 1) \X (0 .. w - 1)
    BY <1>4, <2>4, SpotsWithin
  <2>7. cells'[Spot(w, x)] = cells[Spot(w, x)] BY <1>3, <1>4, <2>5, <2>6
  <2> QED BY <1>2, <2>1, <2>7 DEF VectorRow
<1>9. VectorRow(w)' BY <1>2, <1>3, <1>7, <1>8 DEF VectorRow
<1> QED BY <1>2, <1>3, <1>6, <1>9 DEF VectorInv, VectorIterates, Idle

LEMMA VectorPushBack ==
  ASSUME NEW bv \in BOOLEAN, NEW sz \in Nat \ {0}, NEW vs, NEW mx \in Nat,
         VectorInv(bv, sz, vs, mx), NEW v \in vs,
         Vec(bv, sz, vs, mx)!PushBack(v)
  PROVE  VectorInv(bv, sz, vs, mx)'
<1>1. PICK w : w = Vec(bv, sz, vs, mx)!Width OBVIOUS
<1>2. Vec(bv, sz, vs, mx)!TypeOK /\ VectorRow(w) /\ VectorIterates(w) /\ Idle
  BY <1>1 DEF VectorInv
<1>3. /\ mode = "running" /\ finish.p < storage
      /\ cells' = [cells EXCEPT ![<<finish.p, finish.offset>>] = v]
      /\ finish' = IF finish.offset = w - 1
                   THEN [p |-> finish.p + 1, offset |-> 0]
                   ELSE [finish EXCEPT !.offset = @ + 1]
      /\ contents' = Append(contents, v)
      /\ storage' = storage /\ mode' = mode
      /\ iter' = iter /\ listed' = listed
  BY <1>1 DEF Vec!PushBack
<1>4. PICK q, r, n : q = finish.p /\ r = finish.offset /\ n = Len(contents)
  OBVIOUS
<1>5. /\ w \in Nat \ {0} /\ storage \in 0 .. mx /\ n \in Nat
      /\ finish = [p |-> q, offset |-> r]
      /\ cells \in [(0 .. storage - 1) \X (0 .. w - 1) -> vs]
      /\ contents \in Seq(vs)
  BY <1>1, <1>2, <1>4, VectorTyped, Zenon
<1>6. Spot(w, n) = <<q, r>> /\ n <= storage * w BY <1>2, <1>4 DEF VectorRow
<1>7. /\ q \in Nat /\ r \in 0 .. w - 1 /\ storage \in Nat /\ q < storage
      /\ storage * w \in Nat /\ n < storage * w
      /\ <<q, r>> \in (0 .. storage - 1) \X (0 .. w - 1)
  <2>1. q < storage /\ storage \in Nat BY <1>3, <1>4, <1>5
  <2>2. q \in Nat /\ r \in 0 .. w - 1 /\ storage * w \in Nat
    BY <1>5, <1>6, <2>1, SpotsNext
  <2>3. n < storage * w BY <1>5, <1>6, <2>1, SpotsBelow
  <2> QED BY <1>5, <1>6, <2>1, <2>2, <2>3, SpotsWithin
<1>8. /\ finish' = [p |-> finish'.p, offset |-> finish'.offset]
      /\ <<finish'.p, finish'.offset>> = Spot(w, n + 1)
  <2>1. CASE r = w - 1
    <3>1. finish' = [p |-> q + 1, offset |-> 0] BY <1>3, <1>4, <2>1
    <3>2. Spot(w, n + 1) = <<q + 1, 0>> BY <1>5, <1>6, <2>1, SpotsNext
    <3> QED BY <3>1, <3>2
  <2>2. CASE r # w - 1
    <3>1. finish' = [p |-> q, offset |-> r + 1] BY <1>3, <1>4, <1>5, <2>2
    <3>2. Spot(w, n + 1) = <<q, r + 1>> BY <1>5, <1>6, <2>2, SpotsNext
    <3> QED BY <3>1, <3>2
  <2> QED BY <2>1, <2>2
<1>9. finish' \in [p : 0 .. mx, offset : 0 .. w - 1]
  <2>1. PICK a, b : a = finish'.p /\ b = finish'.offset OBVIOUS
  <2>2. Spot(w, n + 1) = <<a, b>> /\ n + 1 \in Nat /\ n + 1 <= storage * w
    BY <1>5, <1>7, <1>8, <2>1
  <2>3. a \in Nat /\ b \in 0 .. w - 1 /\ a <= storage
    BY <1>5, <1>7, <2>2, SpotsNext, SpotsBelow
  <2>4. a \in 0 .. mx BY <1>5, <2>3
  <2> QED BY <1>8, <2>1, <2>3, <2>4
<1>10. /\ contents' \in Seq(vs) /\ Len(contents') = n + 1
       /\ \A i \in 1 .. n : contents'[i] = contents[i]
       /\ contents'[n + 1] = v
  BY <1>3, <1>4, <1>5, AppendProperties
<1>11. cells' \in [(0 .. storage - 1) \X (0 .. w - 1) -> vs] BY <1>3, <1>5
<1>12. Vec(bv, sz, vs, mx)!TypeOK' /\ w = (Vec(bv, sz, vs, mx)!Width)'
  <2>1. w = (Vec(bv, sz, vs, mx)!Width)' BY <1>1 DEF Vec!Width
  <2> QED
    BY <1>1, <1>2, <1>3, <1>9, <1>10, <1>11, <2>1 DEF Vec!TypeOK, Vec!Slots
<1>13. ASSUME NEW i \in 1 .. n + 1
       PROVE  cells'[Spot(w, i - 1)] = contents'[i]
  <2>1. PICK x \in Nat : x = i - 1 /\ x < n + 1 BY <1>5, Indices
  <2>2. x <= n BY <1>5, <2>1
  <2>3. CASE x = n
    <3>1. cells'[<<q, r>>] = v BY <1>3, <1>4, <1>5, <1>7
    <3>2. i = n + 1 BY <1>5, <2>1, <2>3
    <3> QED BY <1>6, <1>10, <2>1, <2>3, <3>1, <3>2
  <2>4. CASE x # n
    <3>1. Spot(w, x) # <<q, r>> BY <1>5, <1>6, <2>4, SpotsDiffer
    <3>2. cells'[Spot(w, x)] = cells[Spot(w, x)]
      <4>1. x < storage * w BY <1>5, <1>7, <2>2
      <4>3. Spot(w, x) \in (0 .. storage - 1) \X (0 .. w - 1)
        BY <1>5, <1>7, <4>1, SpotsWithin
      <4> QED BY <1>3, <1>4, <1>5, <3>1, <4>3
    <3>3. i \in 1 .. n BY <1>5, <2>1, <2>2, <2>4
    <3>4. cells[Spot(w, i - 1)] = contents[i] BY <1>2, <1>4, <3>3 DEF VectorRow
    <3> QED BY <1>10, <2>1, <3>2, <3>3, <3>4
  <2> QED BY <2>3, <2>4
<1>14. VectorRow(w)'
  <2>1. n + 1 <= storage * w BY <1>5, <1>7
  <2> QED BY <1>3, <1>8, <1>10, <1>13, <2>1 DEF VectorRow
<1> QED BY <1>2, <1>3, <1>12, <1>14 DEF VectorInv, VectorIterates, Idle

LEMMA VectorPopBack ==
  ASSUME NEW bv \in BOOLEAN, NEW sz \in Nat \ {0}, NEW vs, NEW mx \in Nat,
         VectorInv(bv, sz, vs, mx), Vec(bv, sz, vs, mx)!PopBack
  PROVE  VectorInv(bv, sz, vs, mx)'
<1>1. PICK w : w = Vec(bv, sz, vs, mx)!Width OBVIOUS
<1>2. Vec(bv, sz, vs, mx)!TypeOK /\ VectorRow(w) /\ VectorIterates(w) /\ Idle
  BY <1>1 DEF VectorInv
<1>3. /\ mode = "running" /\ contents # <<>>
      /\ finish' = IF finish.offset = 0
                   THEN [p |-> finish.p - 1, offset |-> w - 1]
                   ELSE [finish EXCEPT !.offset = @ - 1]
      /\ contents' = SubSeq(contents, 1, Len(contents) - 1)
      /\ storage' = storage /\ cells' = cells /\ mode' = mode
      /\ iter' = iter /\ listed' = listed
  BY <1>1 DEF Vec!PopBack
<1>4. PICK q, r, n : q = finish.p /\ r = finish.offset /\ n = Len(contents)
  OBVIOUS
<1>5. /\ w \in Nat \ {0} /\ storage \in 0 .. mx /\ n \in Nat
      /\ finish = [p |-> q, offset |-> r]
      /\ contents \in Seq(vs)
  BY <1>1, <1>2, <1>4, VectorTyped, Zenon
<1>6. Spot(w, n) = <<q, r>> /\ n <= storage * w /\ n # 0
  BY <1>2, <1>3, <1>4, <1>5, EmptySeq DEF VectorRow
<1>7. /\ finish' = [p |-> finish'.p, offset |-> finish'.offset]
      /\ <<finish'.p, finish'.offset>> = Spot(w, n - 1)
  <2>1. CASE r = 0
    <3>1. finish' = [p |-> q - 1, offset |-> w - 1] BY <1>3, <1>4, <2>1
    <3>2. Spot(w, n - 1) = <<q - 1, w - 1>> BY <1>5, <1>6, <2>1, SpotsNext
    <3> QED BY <3>1, <3>2
  <2>2. CASE r # 0
    <3>1. finish' = [p |-> q, offset |-> r - 1] BY <1>3, <1>4, <1>5, <2>2
    <3>2. Spot(w, n - 1) = <<q, r - 1>> BY <1>5, <1>6, <2>2, SpotsNext
    <3> QED BY <3>1, <3>2
  <2> QED BY <2>1, <2>2
<1>8. storage * w \in Nat /\ storage \in Nat /\ n - 1 \in Nat
      /\ n - 1 <= storage * w
  <2>1. storage \in Nat BY <1>5
  <2>2. storage * w \in Nat BY <1>5, <2>1
  <2> QED BY <1>5, <1>6, <2>1, <2>2
<1>9. finish' \in [p : 0 .. mx, offset : 0 .. w - 1]
  <2>1. PICK a, b : a = finish'.p /\ b = finish'.offset OBVIOUS
  <2>2. Spot(w, n - 1) = <<a, b>> BY <1>7, <2>1
  <2>3. a \in Nat /\ b \in 0 .. w - 1 /\ a <= storage
    BY <1>5, <1>8, <2>2, SpotsNext, SpotsBelow
  <2>4. a \in 0 .. mx BY <1>5, <2>3
  <2> QED BY <1>7, <2>1, <2>3, <2>4
<1>10. /\ contents' \in Seq(vs) /\ Len(contents') = n - 1
       /\ \A i \in 1 .. n - 1 : contents'[i] = contents[i]
  <2>1. n >= 1 BY <1>5, <1>6
  <2> QED BY <1>3, <1>4, <1>5, <2>1, Shortened
<1>11. Vec(bv, sz, vs, mx)!TypeOK' /\ w = (Vec(bv, sz, vs, mx)!Width)'
  <2>1. w = (Vec(bv, sz, vs, mx)!Width)' BY <1>1 DEF Vec!Width
  <2> QED BY <1>1, <1>2, <1>3, <1>9, <1>10, <2>1 DEF Vec!TypeOK, Vec!Slots
<1>12. ASSUME NEW i \in 1 .. n - 1
       PROVE  cells[Spot(w, i - 1)] = contents'[i]
  <2>1. i \in 1 .. n BY <1>5
  <2> QED BY <1>2, <1>4, <1>10, <2>1 DEF VectorRow
<1>13. VectorRow(w)' BY <1>3, <1>7, <1>8, <1>10, <1>12 DEF VectorRow
<1> QED BY <1>2, <1>3, <1>11, <1>13 DEF VectorInv, VectorIterates, Idle

LEMMA VectorChildren ==
  ASSUME NEW bv \in BOOLEAN, NEW sz \in Nat \ {0}, NEW vs, NEW mx \in Nat,
         VectorInv(bv, sz, vs, mx), Vec(bv, sz, vs, mx)!Children
  PROVE  VectorInv(bv, sz, vs, mx)'
<1>1. PICK w : w = Vec(bv, sz, vs, mx)!Width OBVIOUS
<1>2. Vec(bv, sz, vs, mx)!TypeOK /\ VectorRow(w) /\ Idle BY <1>1 DEF VectorInv
<1>3. /\ mode = "running" /\ mode' = "listing"
      /\ iter' = [item |-> 0, so |-> 0, count |-> 0]
      /\ finish' = finish /\ storage' = storage /\ cells' = cells
      /\ contents' = contents /\ listed' = listed /\ listed = <<>>
  BY <1>2 DEF Vec!Children, Vec!container, Vec!start, Idle
<1>4. w \in Nat \ {0} /\ Len(contents) \in Nat BY <1>1, <1>2, VectorTyped
<1>5. iter' \in [item : 0 .. mx, so : 0 .. w - 1, count : Nat] BY <1>3, <1>4
<1>6. Vec(bv, sz, vs, mx)!TypeOK' /\ w = (Vec(bv, sz, vs, mx)!Width)'
  <2>1. w = (Vec(bv, sz, vs, mx)!Width)' BY <1>1 DEF Vec!Width
  <2> QED BY <1>1, <1>2, <1>3, <1>5, <2>1 DEF Vec!TypeOK, Vec!Slots
<1>7. VectorIterates(w)'
  <2>1. Spot(w, 0) = <<0, 0>>
    <3>1. 0 \in Nat /\ 0 \in 0 .. w - 1 BY <1>4
    <3>2. Place(w, 0, 0) = 0 /\ Spot(w, Place(w, 0, 0)) = <<0, 0>>
      BY <1>4, <3>1, Places
    <3> QED BY <3>2
  <2>2. Len(listed') = 0 BY <1>3
  <2> QED BY <1>3, <1>4, <2>1, <2>2 DEF VectorIterates
<1> QED BY <1>2, <1>3, <1>6, <1>7 DEF VectorInv, VectorRow, Idle

\* Unless it is at the end, the iterator has an element, of the number of
\* those before it; and it is at the end when all have been listed.
LEMMA VectorElementIs ==
  ASSUME NEW bv \in BOOLEAN, NEW sz \in Nat \ {0}, NEW vs, NEW mx \in Nat,
         VectorInv(bv, sz, vs, mx), mode = "listing"
  PROVE  /\ Vec(bv, sz, vs, mx)!AtEnd <=> Len(listed) = Len(contents)
         /\ Len(listed) <= Len(contents)
         /\ ~Vec(bv, sz, vs, mx)!AtEnd =>
               /\ <<iter.item, iter.so>> \in DOMAIN cells
               /\ iter.count = Len(listed)
               /\ cells[<<iter.item, iter.so>>] = contents[Len(listed) + 1]
               /\ contents[Len(listed) + 1] \in vs
<1>1. PICK w : w = Vec(bv, sz, vs, mx)!Width OBVIOUS
<1>2. Vec(bv, sz, vs, mx)!TypeOK /\ VectorRow(w) /\ VectorIterates(w)
  BY <1>1 DEF VectorInv
<1>3. PICK n, k, q, r, i, o :
         /\ n = Len(contents) /\ k = Len(listed)
         /\ q = finish.p /\ r = finish.offset
         /\ i = iter.item /\ o = iter.so
  OBVIOUS
<1>4. /\ w \in Nat \ {0}
      /\ n \in Nat /\ k \in Nat /\ storage \in 0 .. mx
      /\ cells \in [(0 .. storage - 1) \X (0 .. w - 1) -> vs]
      /\ contents \in Seq(vs)
  BY <1>1, <1>2, <1>3, VectorTyped, Zenon
<1>5. /\ Spot(w, n) = <<q, r>> /\ Spot(w, k) = <<i, o>>
      /\ k <= n /\ iter.count = k /\ n <= storage * w
  BY <1>2, <1>3 DEF VectorRow, VectorIterates
<1>6. /\ q \in Nat /\ r \in 0 .. w - 1 /\ n = q * w + r
      /\ i \in Nat /\ o \in 0 .. w - 1 /\ k = i * w + o
  BY <1>4, <1>5, SpotsNext
<1>7. Vec(bv, sz, vs, mx)!AtEnd <=> i = q /\ (bv => o >= r)
  BY <1>3 DEF Vec!AtEnd
<1>8. k = n => i = q /\ o = r BY <1>5
<1>9. ASSUME i = q, bv => o >= r
      PROVE  k = n
  <2>1. o >= r
    <3>1. ~bv => w = 1 BY <1>1 DEF Vec!Width
    <3> QED BY <1>6, <1>9, <3>1
  <2>2. PICK x \in Int : x = q * w BY <1>4, <1>6
  <2>3. n = x + r /\ k = x + o BY <1>6, <1>9, <2>2
  <2> QED BY <1>4, <1>5, <1>6, <2>1, <2>2, <2>3
<1>10. Vec(bv, sz, vs, mx)!AtEnd <=> k = n
  <2>1. k = n => (bv => o >= r) BY <1>6, <1>8
  <2> QED BY <1>7, <1>8, <1>9, <2>1
<1>11. ASSUME k # n
       PROVE  /\ <<i, o>> \in DOMAIN cells
              /\ cells[<<i, o>>] = contents[k + 1]
              /\ contents[k + 1] \in vs
  <2>1. PICK j \in 1 .. n : j = k + 1 BY <1>4, <1>5, <1>11
  <2>2. j - 1 = k BY <1>4, <2>1
  <2>3. cells[Spot(w, j - 1)] = contents[j] BY <1>2, <1>3 DEF VectorRow
  <2>4. contents[j] \in vs BY <1>3, <1>4, ElementOfSeq
  <2>5. storage \in Nat /\ storage * w \in Nat
    <3>1. storage \in Nat BY <1>4
    <3> QED BY <1>4, <3>1
  <2>6. k < storage * w BY <1>4, <1>5, <1>11, <2>5
  <2>7. Spot(w, k) \in (0 .. storage - 1) \X (0 .. w - 1)
    BY <1>4, <2>5, <2>6, SpotsWithin
  <2> QED BY <1>4, <1>5, <2>1, <2>2, <2>3, <2>4, <2>7
<1> QED BY <1>3, <1>5, <1>10, <1>11

LEMMA VectorElement ==
  ASSUME NEW bv \in BOOLEAN, NEW sz \in Nat \ {0}, NEW vs, NEW mx \in Nat,
         VectorInv(bv, sz, vs, mx),
         Vec(bv, sz, vs, mx)!Bit \/ Vec(bv, sz, vs, mx)!Element
  PROVE  VectorInv(bv, sz, vs, mx)'
<1>1. PICK w : w = Vec(bv, sz, vs, mx)!Width OBVIOUS
<1>2. Vec(bv, sz, vs, mx)!TypeOK /\ VectorRow(w) /\ VectorIterates(w)
  BY <1>1 DEF VectorInv
<1>3. PICK i, o, k : i = iter.item /\ o = iter.so /\ k = Len(listed) OBVIOUS
<1>4. /\ w \in Nat \ {0}
      /\ k \in Nat /\ Len(contents) \in Nat /\ storage \in 0 .. mx
      /\ iter = [item |-> i, so |-> o, count |-> iter.count]
      /\ listed \in Seq(Nat \X vs)
      /\ DOMAIN cells = (0 .. storage - 1) \X (0 .. w - 1)
      /\ Len(contents) <= storage * w
      /\ i \in 0 .. mx
  <2>1. /\ w \in Nat \ {0}
        /\ k \in Nat /\ Len(contents) \in Nat /\ storage \in 0 .. mx
        /\ cells \in [(0 .. storage - 1) \X (0 .. w - 1) -> vs]
        /\ iter = [item |-> i, so |-> o, count |-> iter.count]
        /\ listed \in Seq(Nat \X vs) /\ i \in 0 .. mx
    BY <1>1, <1>2, <1>3, VectorTyped, Zenon
  <2>2. Len(contents) <= storage * w BY <1>2 DEF VectorRow
  <2>3. DOMAIN cells = (0 .. storage - 1) \X (0 .. w - 1) BY <2>1
  <2> QED BY <2>1, <2>2, <2>3, Zenon
<1>5. /\ mode = "listing" /\ mode' = mode /\ ~Vec(bv, sz, vs, mx)!AtEnd
      /\ listed' = Append(listed, <<iter.count, cells[<<i, o>>]>>)
      /\ finish' = finish /\ storage' = storage /\ cells' = cells
      /\ contents' = contents
  BY <1>3 DEF Vec!Bit, Vec!Element, Vec!element, Vec!container
<1>6. /\ k < Len(contents) /\ iter.count = k /\ Spot(w, k) = <<i, o>>
      /\ <<i, o>> \in DOMAIN cells
      /\ cells[<<i, o>>] = contents[k + 1] /\ contents[k + 1] \in vs
  <2>1. /\ k # Len(contents) /\ k <= Len(contents) /\ iter.count = k
        /\ <<i, o>> \in DOMAIN cells
        /\ cells[<<i, o>>] = contents[k + 1] /\ contents[k + 1] \in vs
    BY <1>3, <1>5, VectorElementIs
  <2>2. Spot(w, k) = <<i, o>> BY <1>2, <1>3, <1>5 DEF VectorIterates
  <2> QED BY <1>4, <2>1, <2>2
<1>7. /\ i \in Nat /\ o \in 0 .. w - 1
      /\ (o = w - 1 => Spot(w, k + 1) = <<i + 1, 0>>)
      /\ (o # w - 1 => Spot(w, k + 1) = <<i, o + 1>>)
  <2>1. w \in Nat \ {0} /\ k \in Nat /\ Spot(w, k) = <<i, o>> BY <1>4, <1>6
  <2> QED BY <2>1, SpotsNext
<1>20. (bv => w = sz) /\ (~bv => w = 1) BY <1>1 DEF Vec!Width
<1>8. iter' = [item |-> Spot(w, k + 1)[1], so |-> Spot(w, k + 1)[2],
               count |-> k + 1]
  <2>1. CASE Vec(bv, sz, vs, mx)!Bit
    <3>1. /\ bv
          /\ iter' = [item |-> IF o + 1 >= sz THEN i + 1 ELSE i,
                      so |-> IF o + 1 >= sz THEN 0 ELSE o + 1,
                      count |-> iter.count + 1]
      BY <1>3, <2>1 DEF Vec!Bit
    <3>2. CASE o = w - 1
      <4>1. o + 1 >= sz BY <1>7, <1>20, <3>1, <3>2
      <4> QED BY <1>6, <1>7, <3>1, <3>2, <4>1
    <3>3. CASE o # w - 1
      <4>1. ~(o + 1 >= sz)
        <5>1. sz = w /\ o \in 0 .. w - 1 /\ w \in Nat
          BY <1>4, <1>7, <1>20, <3>1
        <5> QED BY <3>3, <5>1
      <4> QED BY <1>6, <1>7, <3>1, <3>3, <4>1
    <3> QED BY <3>2, <3>3
  <2>2. CASE Vec(bv, sz, vs, mx)!Element
    <3>1. ~bv /\ iter' = [iter EXCEPT !.item = @ + 1, !.count = @ + 1]
      BY <2>2 DEF Vec!Element
    <3>2. o = w - 1 /\ o = 0 BY <1>7, <1>20, <3>1
    <3>3. iter' = [item |-> i + 1, so |-> o, count |-> k + 1]
      <4>1. iter = [item |-> i, so |-> o, count |-> k] BY <1>4, <1>6
      <4> QED BY <3>1, <4>1
    <3> QED BY <1>7, <3>2, <3>3
  <2> QED BY <2>1, <2>2
<1>9. PICK a, b : Spot(w, k + 1) = <<a, b>> BY <1>7
<1>10. a \in 0 .. mx /\ b \in 0 .. w - 1
  <2>1. k + 1 \in Nat /\ storage \in Nat /\ k + 1 <= Len(contents)
    BY <1>4, <1>6
  <2>2. storage * w \in Nat BY <1>4, <2>1
  <2>3. k + 1 <= storage * w BY <1>4, <2>1, <2>2
  <2>4. a \in Nat /\ b \in 0 .. w - 1 /\ a <= storage
    BY <1>4, <1>9, <2>1, <2>3, SpotsNext, SpotsBelow
  <2> QED BY <1>4, <2>1, <2>4
<1>11. iter' = [item |-> a, so |-> b, count |-> k + 1] BY <1>8, <1>9
<1>12. listed' \in Seq(Nat \X vs) /\ Len(listed') = k + 1
  <2>1. <<iter.count, cells[<<i, o>>]>> \in Nat \X vs BY <1>4, <1>6
  <2> QED BY <1>3, <1>4, <1>5, <2>1, AppendProperties
<1>13. Vec(bv, sz, vs, mx)!TypeOK' /\ w = (Vec(bv, sz, vs, mx)!Width)'
  <2>1. w = (Vec(bv, sz, vs, mx)!Width)' BY <1>1 DEF Vec!Width
  <2>2. iter' \in [item : 0 .. mx, so : 0 .. w - 1, count : Nat]
    BY <1>4, <1>10, <1>11
  <2> QED BY <1>1, <1>2, <1>5, <1>12, <2>1, <2>2 DEF Vec!TypeOK, Vec!Slots
<1>14. VectorIterates(w)'
  <2>1. /\ Len(listed') <= Len(contents') BY <1>4, <1>5, <1>6, <1>12
  <2> QED BY <1>9, <1>11, <1>12, <2>1 DEF VectorIterates
<1>15. VectorRow(w)' BY <1>2, <1>5 DEF VectorRow
<1> QED BY <1>5, <1>13, <1>14, <1>15 DEF VectorInv, Idle

LEMMA VectorStep ==
  ASSUME NEW bv \in BOOLEAN, NEW sz \in Nat \ {0}, NEW vs, NEW mx \in Nat,
         VectorInv(bv, sz, vs, mx), Vec(bv, sz, vs, mx)!Next
  PROVE  VectorInv(bv, sz, vs, mx)'
<1>1. CASE \E n \in 1 .. mx : Vec(bv, sz, vs, mx)!Reserve(n)
  BY <1>1, VectorReserve
<1>2. CASE \E v \in vs : Vec(bv, sz, vs, mx)!PushBack(v)
  BY <1>2, VectorPushBack
<1>3. CASE Vec(bv, sz, vs, mx)!PopBack BY <1>3, VectorPopBack
<1>4. CASE Vec(bv, sz, vs, mx)!Children BY <1>4, VectorChildren
<1>5. CASE Vec(bv, sz, vs, mx)!Bit \/ Vec(bv, sz, vs, mx)!Element
  BY <1>5, VectorElement
<1>6. ASSUME \/ Vec(bv, sz, vs, mx)!StopIteration
             \/ Vec(bv, sz, vs, mx)!Continue
      PROVE  VectorInv(bv, sz, vs, mx)'
  <2>1. /\ finish' = finish /\ storage' = storage /\ cells' = cells
        /\ contents' = contents
        /\ iter' = [item |-> 0, so |-> 0, count |-> 0]
        /\ \/ mode' = "listed" /\ listed' = listed
           \/ mode' = "running" /\ listed' = <<>>
    BY <1>6 DEF Vec!StopIteration, Vec!Continue, Vec!container, Vec!NoIter
  <2>2. PICK w : w = Vec(bv, sz, vs, mx)!Width OBVIOUS
  <2>3. Vec(bv, sz, vs, mx)!TypeOK /\ VectorRow(w) BY <2>2 DEF VectorInv
  <2>4. w \in Nat \ {0} /\ listed \in Seq(Nat \X vs) BY <2>2, <2>3, VectorTyped
  <2>5. /\ iter' \in [item : 0 .. mx, so : 0 .. w - 1, count : Nat]
        /\ mode' \in {"running", "listing", "listed"}
    BY <2>1, <2>4
  <2>6. listed' \in Seq(Nat \X vs)
    <3>1. <<>> \in Seq(Nat \X vs) OBVIOUS
    <3> QED BY <2>1, <2>4, <3>1
  <2>7. Vec(bv, sz, vs, mx)!TypeOK' /\ w = (Vec(bv, sz, vs, mx)!Width)'
    <3>1. w = (Vec(bv, sz, vs, mx)!Width)' BY <2>2 DEF Vec!Width
    <3> QED BY <2>1, <2>2, <2>3, <2>5, <2>6, <3>1 DEF Vec!TypeOK, Vec!Slots
  <2>8. VectorRow(w)' BY <2>1, <2>3 DEF VectorRow
  <2> QED BY <2>1, <2>7, <2>8 DEF VectorInv, VectorIterates, Idle
<1> QED BY <1>1, <1>2, <1>3, <1>4, <1>5, <1>6 DEF Vec!Next

LEMMA VectorShows ==
  ASSUME NEW bv \in BOOLEAN, NEW sz \in Nat \ {0}, NEW vs, NEW mx \in Nat,
         VectorInv(bv, sz, vs, mx)
  PROVE  Vec(bv, sz, vs, mx)!LengthAgrees /\ Vec(bv, sz, vs, mx)!WorkersAgree
<1>1. PICK w : w = Vec(bv, sz, vs, mx)!Width OBVIOUS
<1>2. Vec(bv, sz, vs, mx)!TypeOK /\ VectorRow(w) BY <1>1 DEF VectorInv
<1>3. PICK q, r, n : q = finish.p /\ r = finish.offset /\ n = Len(contents)
  OBVIOUS
<1>4. /\ w \in Nat \ {0}
      /\ n \in Nat /\ storage \in 0 .. mx /\ contents \in Seq(vs)
  BY <1>1, <1>2, <1>3, VectorTyped, Zenon
<1>5. Spot(w, n) = <<q, r>> /\ n <= storage * w BY <1>2, <1>3 DEF VectorRow
<1>6. q \in Nat /\ r \in 0 .. w - 1 /\ n = q * w + r BY <1>4, <1>5, SpotsNext
<1>20. (bv => w = sz) /\ (~bv => w = 1) BY <1>1 DEF Vec!Width
<1>7. Vec(bv, sz, vs, mx)!length = n /\ Vec(bv, sz, vs, mx)!size = n
  <2>1. CASE bv
    <3>1. /\ Vec(bv, sz, vs, mx)!length = (w - 0) + w * ((q - 0) - 1) + r
          /\ Vec(bv, sz, vs, mx)!size = (q - 0) * w + r
      BY <1>3, <1>20, <2>1 DEF Vec!length, Vec!size, Vec!start
    <3>2. /\ (w - 0) + w * ((q - 0) - 1) + r = n
          /\ (q - 0) * w + r = n
      <4>1. PICK x \in Int : x = q * w BY <1>4, <1>6
      <4>2. w * ((q - 0) - 1) = x - w /\ (q - 0) * w = x BY <1>4, <1>6, <4>1
      <4> QED BY <1>4, <1>6, <4>1, <4>2
    <3> QED BY <3>1, <3>2
  <2>2. CASE ~bv
    <3>1. /\ Vec(bv, sz, vs, mx)!length = q - 0
          /\ Vec(bv, sz, vs, mx)!size = q - 0
      BY <1>3, <2>2 DEF Vec!length, Vec!size, Vec!start
    <3>2. n = q BY <1>6, <1>20, <2>2
    <3> QED BY <1>6, <3>1, <3>2
  <2> QED BY <2>1, <2>2
<1>8. Vec(bv, sz, vs, mx)!capacity = storage * w
  <2>1. storage \in Nat BY <1>4
  <2>2. CASE bv BY <1>4, <1>20, <2>1, <2>2 DEF Vec!capacity, Vec!start
  <2>3. CASE ~bv BY <1>20, <2>1, <2>3 DEF Vec!capacity, Vec!start
  <2> QED BY <2>2, <2>3
<1>9. Vec(bv, sz, vs, mx)!LengthAgrees
  BY <1>3, <1>5, <1>7, <1>8 DEF Vec!LengthAgrees
<1>10. ASSUME NEW i \in 1 .. n
       PROVE  Vec(bv, sz, vs, mx)!get(i - 1) = contents[i]
  <2>1. PICK x \in Nat : x = i - 1 /\ x < n BY <1>4, Indices
  <2>2. cells[Spot(w, x)] = contents[i] BY <1>2, <1>3, <2>1 DEF VectorRow
  <2>3. CASE bv
    <3>1. x \div w \in Nat BY <1>4, Division
    <3>2. Vec(bv, sz, vs, mx)!get(x) = cells[<<0 + x \div w, x % w>>]
      BY <1>20, <2>3 DEF Vec!get, Vec!start
    <3>3. <<0 + x \div w, x % w>> = Spot(w, x) BY <3>1 DEF Spot
    <3> QED BY <2>1, <2>2, <3>2, <3>3
  <2>4. CASE ~bv
    <3>1. Vec(bv, sz, vs, mx)!get(x) = cells[<<x, 0>>]
      BY <2>4 DEF Vec!get, Vec!start
    <3>2. w = 1 BY <1>20, <2>4
    <3>3. PICK a, b : Spot(w, x) = <<a, b>>
      BY DEF Spot
    <3>4. a = x /\ b = 0 BY <1>4, <3>2, <3>3, SpotsNext
    <3> QED BY <2>1, <2>2, <3>1, <3>3, <3>4
  <2> QED BY <2>3, <2>4
<1>11. contents = <<>> <=> n = 0 BY <1>3, <1>4, EmptySeq
<1>12. ASSUME contents # <<>>
       PROVE  Vec(bv, sz, vs, mx)!back = contents[n]
  <2>1. n \in 1 .. n BY <1>4, <1>11, <1>12
  <2> QED BY <1>7, <1>10, <2>1 DEF Vec!back
<1>13. \A i \in 0 .. n : Vec(bv, sz, vs, mx)!AtRefuses(i) <=> i = n
  BY <1>4, <1>7 DEF Vec!AtRefuses
<1>14. Vec(bv, sz, vs, mx)!empty <=> contents = <<>>
  BY <1>7, <1>11 DEF Vec!empty
<1> QED BY <1>3, <1>7, <1>9, <1>10, <1>12, <1>13, <1>14 DEF Vec!WorkersAgree
\* Induction, without an operator for what is proved.
LEMMA Induction ==
  ASSUME NEW m \in Int, NEW n \in Int, NEW T, m \in T,
         \A k \in m .. n - 1 : k \in T => k + 1 \in T
  PROVE  m .. n \subseteq T
<1> DEFINE U == {k \in Nat : m + k \in m .. n /\ m + k \notin T}
<1> SUFFICES ASSUME U # {} PROVE FALSE
  <2>1. ASSUME NEW i \in m .. n, i \notin T PROVE i - m \in U BY <2>1
  <2> QED BY <2>1
<1> HIDE DEF U
<1>1. U \subseteq Nat
  BY DEF U
<1>2. \E x \in U : \A y \in U : ~(<<y, x>> \in OpToRel(<, Nat))
  BY <1>1, NatLessThanWellFounded, WFMin
<1>3. \A a, b \in Nat : a < b => <<a, b>> \in OpToRel(<, Nat)
  BY DEF OpToRel
<1>4. PICK x \in U : \A y \in U : ~(y < x) BY <1>1, <1>2, <1>3, Zenon
<1>5. x \in Nat /\ m + x \in m .. n /\ m + x \notin T
  BY DEF U
<1>6. x # 0 BY <1>5
<1>7. x - 1 \in Nat /\ x - 1 < x /\ m + (x - 1) \in m .. n - 1 BY <1>5, <1>6
<1>8. m + (x - 1) \in T BY <1>4, <1>7 DEF U
<1>9. m + (x - 1) + 1 = m + x BY <1>5
<1> QED BY <1>5, <1>7, <1>8, <1>9


\* The same, downwards.
LEMMA InductionDown ==
  ASSUME NEW m \in Int, NEW n \in Int, NEW T, n \in T, m <= n,
         \A k \in m .. n - 1 : k + 1 \in T => k \in T
  PROVE  m .. n \subseteq T
<1> DEFINE U == {k \in 0 .. n - m : n - k \in T}
<1>1. 0 \in U
  BY SMT
<1>2. \A k \in 0 .. n - m - 1 : k \in U => k + 1 \in U
  <2> SUFFICES ASSUME NEW k \in 0 .. n - m - 1, k \in U
               PROVE  k + 1 \in U
    OBVIOUS
  <2>1. PICK j \in m .. n - 1 : j = n - (k + 1) /\ j + 1 = n - k OBVIOUS
  <2>2. j \in T BY <2>1
  <2> QED BY <2>1, <2>2
<1> HIDE DEF U
<1>3. 0 .. n - m \subseteq U
  <2>1. 0 \in Int /\ n - m \in Int OBVIOUS
  <2> QED BY <1>1, <1>2, <2>1, Induction, Zenon
<1>4. ASSUME NEW i \in m .. n PROVE i \in T
  <2>1. PICK k \in 0 .. n - m : k = n - i /\ n - k = i OBVIOUS
  <2> QED BY <1>3, <2>1 DEF U
<1> QED BY <1>4

\* The function f is defined from its last value, b, downwards by G: there is
\* one.
IsDefined(n, V, b, G, f) ==
  /\ f \in [1 .. n + 1 -> V]
  /\ f[n + 1] = b
  /\ \A i \in 1 .. n : f[i] = G[<<i, f[i + 1]>>]

LEMMA Downwards ==
  ASSUME NEW n \in Nat, NEW V, NEW b \in V, NEW G \in [(1 .. n) \X V -> V]
  PROVE  \E f : IsDefined(n, V, b, G, f)
<1> DEFINE Is(f, k) == /\ f[n + 1] = b
                       /\ \A i \in k .. n : f[i] = G[<<i, f[i + 1]>>]
           T == {k \in 1 .. n + 1 : \E f \in [k .. n + 1 -> V] : Is(f, k)}
<1>1. n + 1 \in T
  <2> DEFINE f == [i \in n + 1 .. n + 1 |-> b]
  <2>1. f \in [n + 1 .. n + 1 -> V] /\ f[n + 1] = b /\ n + 1 .. n = {} OBVIOUS
  <2>2. Is(f, n + 1) /\ n + 1 \in 1 .. n + 1 BY <2>1
  <2> HIDE DEF f, Is
  <2> QED BY <2>1, <2>2
<1>2. \A k \in 1 .. n : k + 1 \in T => k \in T
  <2> SUFFICES ASSUME NEW k \in 1 .. n, k + 1 \in T
               PROVE  k \in T
    OBVIOUS
  <2>1. PICK f \in [k + 1 .. n + 1 -> V] : Is(f, k + 1) OBVIOUS
  <2>2. PICK x : x = G[<<k, f[k + 1]>>] OBVIOUS
  <2>3. x \in V
    <3>1. k + 1 \in k + 1 .. n + 1 OBVIOUS
    <3>2. f[k + 1] \in V BY <3>1
    <3>3. <<k, f[k + 1]>> \in (1 .. n) \X V BY <3>2
    <3> QED BY <2>2, <3>3
  <2> DEFINE g == [i \in k .. n + 1 |-> IF i = k THEN x ELSE f[i]]
  <2>4. g \in [k .. n + 1 -> V]
    <3>1. \A i \in k .. n + 1 : i # k => i \in k + 1 .. n + 1 OBVIOUS
    <3>2. \A i \in k + 1 .. n + 1 : f[i] \in V OBVIOUS
    <3> QED BY <2>3, <3>1, <3>2
  <2>5. g[k] = x /\ \A i \in k + 1 .. n + 1 : g[i] = f[i] OBVIOUS
  <2> HIDE DEF g
  <2>6. g[n + 1] = b
    <3>1. n + 1 \in k + 1 .. n + 1 OBVIOUS
    <3> QED BY <2>1, <2>5, <3>1
  <2>7. ASSUME NEW i \in k .. n
        PROVE  g[i] = G[<<i, g[i + 1]>>]
    <3>1. i + 1 \in k + 1 .. n + 1 OBVIOUS
    <3>2. g[i + 1] = f[i + 1] BY <2>5, <3>1
    <3>3. CASE i = k BY <2>2, <2>5, <3>2, <3>3
    <3>4. CASE i # k
      <4>1. i \in k + 1 .. n /\ i \in k + 1 .. n + 1 BY <3>4
      <4>2. f[i] = G[<<i, f[i + 1]>>] BY <2>1, <4>1
      <4> QED BY <2>5, <3>2, <4>1, <4>2
    <3> QED BY <3>3, <3>4
  <2>8. Is(g, k) /\ k \in 1 .. n + 1 BY <2>6, <2>7
  <2> HIDE DEF Is
  <2> QED BY <2>4, <2>8
<1>3. 1 .. n + 1 \subseteq T
  <2> HIDE DEF T
  <2>1. PICK h \in Int : h = n + 1 /\ h - 1 = n OBVIOUS
  <2>2. 1 \in Int /\ 1 <= h BY <2>1
  <2>3. h \in T /\ \A k \in 1 .. h - 1 : k + 1 \in T => k \in T
    BY <1>1, <1>2, <2>1
  <2>4. 1 .. h \subseteq T BY <2>2, <2>3, InductionDown, Zenon
  <2> QED BY <2>1, <2>4
<1>4. 1 \in T BY <1>3
<1> QED BY <1>4 DEF IsDefined

-----------------------------------------------------------------------------
(* The linked lists.                                                       *)

\* What the links of a list are; this and the sets of the hash tables and trees
\* below are always expanded.
ListNodes == Addresses \union {Sentinel}
ListLinks == [ListNodes -> Addresses \union {Sentinel, Null}]
USE DEF ListNodes, ListLinks

\* c is the list a and, behind it, the list b.
IsJoin(V, a, b, c) ==
  /\ c \in Seq(V) /\ Len(c) = Len(a) + Len(b)
  /\ \A i \in 1 .. Len(a) + Len(b) :
        c[i] = IF i <= Len(a) THEN a[i] ELSE b[i - Len(a)]

LEMMA Joined ==
  ASSUME NEW V, NEW a \in Seq(V), NEW b \in Seq(V)
  PROVE  IsJoin(V, a, b, a \o b)
<1> DEFINE c == a \o b
<1>1. c \in Seq(V) /\ Len(c) = Len(a) + Len(b)
  BY ConcatProperties
<1>2. \A i \in 1 .. Len(a) + Len(b) :
         c[i] = IF i <= Len(a) THEN a[i] ELSE b[i - Len(a)]
  BY ConcatProperties
<1> HIDE DEF c
<1> QED BY <1>1, <1>2 DEF IsJoin, c

\* d is the list c with v behind its first k elements, ...
IsInserted(V, c, k, v, d) ==
  /\ d \in Seq(V) /\ Len(d) = Len(c) + 1
  /\ \A i \in 1 .. Len(c) + 1 :
        d[i] = IF i <= k THEN c[i] ELSE IF i = k + 1 THEN v ELSE c[i - 1]

\* ... and is it without its k-th element.
IsRemoved(V, c, k, d) ==
  /\ d \in Seq(V) /\ Len(d) = Len(c) - 1
  /\ \A i \in 1 .. Len(c) - 1 : d[i] = IF i < k THEN c[i] ELSE c[i + 1]

LEMMA Inserted ==
  ASSUME NEW V, NEW c \in Seq(V), NEW k \in 0 .. Len(c), NEW v \in V,
         NEW d, d = SubSeq(c, 1, k) \o <<v>> \o SubSeq(c, k + 1, Len(c))
  PROVE  IsInserted(V, c, k, v, d)
<1>1. PICK n \in Nat : n = Len(c)
  BY LenProperties
<1>2. \A i \in 1 .. n : c[i] \in V BY <1>1, ElementOfSeq
<1>3. PICK a : a = SubSeq(c, 1, k) OBVIOUS
<1>4. PICK b : b = SubSeq(c, k + 1, n) OBVIOUS
<1>5. a \in Seq(V) /\ Len(a) = k /\ \A i \in 1 .. k : a[i] = c[i]
  <2>1. \A i \in 1 .. k : c[i] \in V BY <1>1, <1>2
  <2>2. /\ a \in Seq(V) /\ Len(a) = (IF 1 <= k THEN k - 1 + 1 ELSE 0)
        /\ \A i \in 1 .. k - 1 + 1 : a[i] = c[1 + i - 1]
    BY <1>1, <1>3, <2>1, SubSeqProperties
  <2>3. (IF 1 <= k THEN k - 1 + 1 ELSE 0) = k BY <1>1
  <2>4. \A i \in 1 .. k : i \in 1 .. k - 1 + 1 /\ 1 + i - 1 = i BY <1>1
  <2> QED BY <2>2, <2>3, <2>4
<1>6. b \in Seq(V) /\ Len(b) = n - k /\ \A i \in 1 .. n - k : b[i] = c[k + i]
  <2>1. PICK p \in Int : p = k + 1 BY <1>1
  <2>2. (\A i \in p .. n : c[i] \in V) /\ n \in Int BY <1>1, <1>2, <2>1
  <2>3. b = SubSeq(c, p, n) BY <1>4, <2>1
  <2>4. /\ b \in Seq(V) /\ Len(b) = (IF p <= n THEN n - p + 1 ELSE 0)
        /\ \A i \in 1 .. n - p + 1 : b[i] = c[p + i - 1]
    BY <2>2, <2>3, SubSeqProperties
  <2>5. (IF p <= n THEN n - p + 1 ELSE 0) = n - k BY <1>1, <2>1
  <2>6. \A i \in 1 .. n - k : i \in 1 .. n - p + 1 /\ p + i - 1 = k + i
    BY <1>1, <2>1
  <2> QED BY <2>4, <2>5, <2>6
<1>7. PICK e : e = <<v>> OBVIOUS
<1>8. e \in Seq(V) /\ Len(e) = 1 /\ e[1] = v BY <1>7
<1>9. PICK f : f = a \o e OBVIOUS
<1>20. IsJoin(V, a, e, f)
  <2>1. a \in Seq(V) /\ e \in Seq(V) BY <1>5, <1>8
  <2>2. IsJoin(V, a, e, a \o e) BY <2>1, Joined
  <2> QED BY <1>9, <2>2
<1>10. /\ f \in Seq(V) /\ Len(f) = k + 1
       /\ \A i \in 1 .. k + 1 : f[i] = IF i <= k THEN c[i] ELSE v
  <2>1. f \in Seq(V) /\ Len(f) = k + 1 BY <1>5, <1>8, <1>20 DEF IsJoin
  <2>2. ASSUME NEW i \in 1 .. k + 1
        PROVE  f[i] = IF i <= k THEN c[i] ELSE v
    <3>1. f[i] = IF i <= k THEN a[i] ELSE e[i - k]
      BY <1>1, <1>5, <1>8, <1>20 DEF IsJoin
    <3>2. CASE i <= k BY <1>5, <3>1, <3>2
    <3>3. CASE ~(i <= k)
      <4>1. i - k = 1 BY <1>1, <3>3
      <4> QED BY <1>8, <3>1, <3>3, <4>1
    <3> QED BY <3>2, <3>3
  <2> QED BY <2>1, <2>2
<1>11. IsJoin(V, f, b, d)
  <2>1. f \in Seq(V) /\ b \in Seq(V) BY <1>6, <1>10
  <2>2. IsJoin(V, f, b, f \o b) BY <2>1, Joined
  <2>3. d = f \o b BY <1>1, <1>3, <1>4, <1>7, <1>9
  <2> QED BY <2>2, <2>3
<1>12. d \in Seq(V) /\ Len(d) = n + 1
  <2>1. Len(f) = k + 1 /\ Len(b) = n - k /\ d \in Seq(V)
    BY <1>6, <1>10, <1>11 DEF IsJoin
  <2>2. Len(d) = Len(f) + Len(b) BY <1>11 DEF IsJoin
  <2>3. k + 1 + (n - k) = n + 1 BY <1>1
  <2> QED BY <2>1, <2>2, <2>3, Zenon
<1>13. ASSUME NEW i \in 1 .. n + 1
       PROVE  d[i] = IF i <= k THEN c[i] ELSE IF i = k + 1 THEN v ELSE c[i - 1]
  <2>1. d[i] = IF i <= k + 1 THEN f[i] ELSE b[i - (k + 1)]
    <3>1. i \in 1 .. Len(f) + Len(b) BY <1>1, <1>6, <1>10
    <3> QED BY <1>6, <1>10, <1>11, <3>1 DEF IsJoin
  <2>2. CASE i <= k + 1
    <3>1. i \in 1 .. k + 1 BY <1>1, <2>2
    <3>2. f[i] = IF i <= k THEN c[i] ELSE v BY <1>10, <3>1
    <3>3. ~(i <= k) => i = k + 1 BY <1>1, <2>2
    <3> QED BY <2>1, <2>2, <3>2, <3>3
  <2>3. CASE ~(i <= k + 1)
    <3>1. PICK j \in 1 .. n - k : j = i - (k + 1) BY <1>1, <2>3
    <3>2. k + j = i - 1 /\ ~(i <= k) /\ i # k + 1 BY <1>1, <2>3, <3>1
    <3> QED BY <1>6, <2>1, <2>3, <3>1, <3>2
  <2> QED BY <2>2, <2>3
<1> QED BY <1>1, <1>12, <1>13 DEF IsInserted

LEMMA Removed ==
  ASSUME NEW V, NEW c \in Seq(V), NEW k \in 1 .. Len(c),
         NEW d, d = SubSeq(c, 1, k - 1) \o SubSeq(c, k + 1, Len(c))
  PROVE  IsRemoved(V, c, k, d)
<1>1. PICK n \in Nat : n = Len(c)
  BY LenProperties
<1>2. \A i \in 1 .. n : c[i] \in V BY <1>1, ElementOfSeq
<1>3. PICK m \in Nat : m = k - 1 BY <1>1
<1>4. PICK a : a = SubSeq(c, 1, m) OBVIOUS
<1>5. PICK b : b = SubSeq(c, k + 1, n) OBVIOUS
<1>6. a \in Seq(V) /\ Len(a) = m /\ \A i \in 1 .. m : a[i] = c[i]
  <2>1. \A i \in 1 .. m : c[i] \in V BY <1>1, <1>2, <1>3
  <2>2. /\ a \in Seq(V) /\ Len(a) = (IF 1 <= m THEN m - 1 + 1 ELSE 0)
        /\ \A i \in 1 .. m - 1 + 1 : a[i] = c[1 + i - 1]
    BY <1>1, <1>4, <2>1, SubSeqProperties
  <2>3. (IF 1 <= m THEN m - 1 + 1 ELSE 0) = m BY <1>1
  <2>4. \A i \in 1 .. m : i \in 1 .. m - 1 + 1 /\ 1 + i - 1 = i BY <1>1
  <2> QED BY <2>2, <2>3, <2>4
<1>7. b \in Seq(V) /\ Len(b) = n - k /\ \A i \in 1 .. n - k : b[i] = c[k + i]
  <2>1. \A i \in k + 1 .. n : c[i] \in V BY <1>1, <1>2
  <2>2. /\ b \in Seq(V)
        /\ Len(b) = (IF k + 1 <= n THEN n - (k + 1) + 1 ELSE 0)
        /\ \A i \in 1 .. n - (k + 1) + 1 : b[i] = c[k + 1 + i - 1]
    BY <1>1, <1>5, <2>1, SubSeqProperties
  <2>3. (IF k + 1 <= n THEN n - (k + 1) + 1 ELSE 0) = n - k BY <1>1
  <2>4. \A i \in 1 .. n - k : i \in 1 .. n - (k + 1) + 1 /\ k + 1 + i - 1 = k + i
    BY <1>1
  <2> QED BY <2>2, <2>3, <2>4
<1>8. IsJoin(V, a, b, d)
  <2>1. a \in Seq(V) /\ b \in Seq(V) BY <1>6, <1>7
  <2>2. IsJoin(V, a, b, a \o b) BY <2>1, Joined
  <2>3. d = a \o b BY <1>1, <1>3, <1>4, <1>5
  <2> QED BY <2>2, <2>3
<1>9. d \in Seq(V) /\ Len(d) = n - 1
  <2>1. Len(a) = m /\ Len(b) = n - k /\ d \in Seq(V)
    BY <1>6, <1>7, <1>8 DEF IsJoin
  <2>2. Len(d) = Len(a) + Len(b) BY <1>8 DEF IsJoin
  <2>3. m + (n - k) = n - 1 BY <1>1, <1>3
  <2> QED BY <2>1, <2>2, <2>3, Zenon
<1>10. ASSUME NEW i \in 1 .. n - 1
       PROVE  d[i] = IF i < k THEN c[i] ELSE c[i + 1]
  <2>1. d[i] = IF i <= m THEN a[i] ELSE b[i - m]
    <3>1. i \in 1 .. Len(a) + Len(b) BY <1>1, <1>3, <1>6, <1>7
    <3> QED BY <1>6, <1>7, <1>8, <3>1 DEF IsJoin
  <2>2. CASE i <= m
    <3>1. i < k /\ i \in 1 .. m BY <1>1, <1>3, <2>2
    <3> QED BY <1>6, <2>1, <2>2, <3>1
  <2>3. CASE ~(i <= m)
    <3>1. PICK j \in 1 .. n - k : j = i - m BY <1>1, <1>3, <2>3
    <3>2. k + j = i + 1 /\ ~(i < k) BY <1>1, <1>3, <2>3, <3>1
    <3> QED BY <1>7, <2>1, <2>3, <3>1, <3>2
  <2> QED BY <2>2, <2>3
<1> QED BY <1>1, <1>9, <1>10 DEF IsRemoved

\* The k-th node of the list o, whose head is the sentinel, and what follows it
\* if e ends the list.
Node(o, k) == IF k = 0 THEN Sentinel ELSE o[k]
After(o, k, e) == IF k = Len(o) THEN e ELSE o[k + 1]

\* The pointers f lead from the head through the list o to e.
Leads(o, f, e) ==
  /\ o \in Seq(Addresses)
  /\ \A i, j \in 1 .. Len(o) : o[i] = o[j] => i = j
  /\ \A k \in 0 .. Len(o) : f[Node(o, k)] = After(o, k, e)

LEMMA NodesDiffer ==
  ASSUME NEW o \in Seq(Addresses),
         \A i, j \in 1 .. Len(o) : o[i] = o[j] => i = j
  PROVE  /\ \A k \in 1 .. Len(o) : Node(o, k) = o[k] /\ o[k] \in Addresses
         /\ \A k \in 0 .. Len(o) : Node(o, k) \in ListNodes
         /\ \A j, k \in 0 .. Len(o) : Node(o, j) = Node(o, k) => j = k
<1>1. Len(o) \in Nat
  BY LenProperties
<1>2. \A k \in 1 .. Len(o) : Node(o, k) = o[k] /\ o[k] \in Addresses
  BY <1>1, ElementOfSeq DEF Node
<1>3. Node(o, 0) = Sentinel
  BY DEF Node
<1>4. \A k \in 0 .. Len(o) : k = 0 \/ k \in 1 .. Len(o) BY <1>1
<1>5. Sentinel \notin Addresses
  BY PrintersAssumption
<1> QED BY <1>2, <1>3, <1>4, <1>5

\* A node n is linked behind the k-th.
LEMMA LeadsHook ==
  ASSUME NEW e, NEW V,
         NEW o \in Seq(Addresses), NEW f \in [ListNodes -> V],
         Leads(o, f, e), NEW k \in 0 .. Len(o),
         NEW n \in Addresses, \A i \in 1 .. Len(o) : o[i] # n,
         NEW d, d = SubSeq(o, 1, k) \o <<n>> \o SubSeq(o, k + 1, Len(o)),
         NEW g, g = [f EXCEPT ![n] = f[Node(o, k)], ![Node(o, k)] = n]
  PROVE  Leads(d, g, e)
<1>1. PICK m \in Nat : m = Len(o)
  BY LenProperties
<1>2. /\ d \in Seq(Addresses) /\ Len(d) = m + 1
      /\ \A i \in 1 .. m + 1 :
            d[i] = IF i <= k THEN o[i] ELSE IF i = k + 1 THEN n ELSE o[i - 1]
  <2>1. IsInserted(Addresses, o, k, n, d)
    BY Inserted
  <2> QED BY <1>1, <2>1 DEF IsInserted
<1>3. \A i, j \in 1 .. m : o[i] = o[j] => i = j BY <1>1 DEF Leads
<1>4. /\ \A j \in 1 .. m : Node(o, j) = o[j] /\ o[j] \in Addresses
      /\ \A j \in 0 .. m : Node(o, j) \in ListNodes
      /\ \A i, j \in 0 .. m : Node(o, i) = Node(o, j) => i = j
  BY <1>1, <1>3, NodesDiffer
<1>5. \A j \in 0 .. m : Node(o, j) # n
  <2>1. Node(o, 0) = Sentinel /\ Sentinel # n
    BY PrintersAssumption DEF Node
  <2>2. \A j \in 0 .. m : j = 0 \/ j \in 1 .. m BY <1>1
  <2> QED BY <1>1, <1>4, <2>1, <2>2
<1>6. /\ g[n] = f[Node(o, k)] /\ g[Node(o, k)] = n
      /\ \A j \in 0 .. m : j # k => g[Node(o, j)] = f[Node(o, j)]
  BY <1>1, <1>4, <1>5
<1>7. \A j \in 0 .. m : f[Node(o, j)] = IF j = m THEN e ELSE o[j + 1]
  BY <1>1 DEF Leads, After
<1>8. ASSUME NEW i \in 1 .. m + 1, NEW j \in 1 .. m + 1, d[i] = d[j]
      PROVE  i = j
  <2>1. ASSUME NEW x \in 1 .. m + 1, x # k + 1
        PROVE  \E y \in 1 .. m : /\ d[x] = o[y] /\ d[x] # n
                                 /\ x = IF y <= k THEN y ELSE y + 1
    <3>1. CASE x <= k
      <4>1. x \in 1 .. m BY <1>1, <3>1
      <4> QED BY <1>1, <1>2, <3>1, <4>1
    <3>2. CASE ~(x <= k)
      <4>1. PICK y \in 1 .. m : y = x - 1 BY <1>1, <2>1, <3>2
      <4>2. d[x] = o[y] /\ o[y] # n BY <1>1, <1>2, <2>1, <3>2, <4>1
      <4>3. x = IF y <= k THEN y ELSE y + 1 BY <1>1, <2>1, <3>2, <4>1
      <4> QED BY <4>2, <4>3
    <3> QED BY <3>1, <3>2
  <2>2. d[k + 1] = n
    <3>1. k + 1 \in 1 .. m + 1 /\ ~(k + 1 <= k) BY <1>1
    <3> QED BY <1>2, <3>1
  <2>3. CASE i = k + 1 BY <1>8, <2>1, <2>2, <2>3
  <2>4. CASE j = k + 1 BY <1>8, <2>1, <2>2, <2>4
  <2>5. CASE i # k + 1 /\ j # k + 1
    <3>1. PICK y \in 1 .. m : d[i] = o[y] /\ i = IF y <= k THEN y ELSE y + 1
      BY <2>1, <2>5
    <3>2. PICK z \in 1 .. m : d[j] = o[z] /\ j = IF z <= k THEN z ELSE z + 1
      BY <2>1, <2>5
    <3>3. y = z BY <1>3, <1>8, <3>1, <3>2
    <3> QED BY <3>1, <3>2, <3>3
  <2> QED BY <2>3, <2>4, <2>5
<1>9. ASSUME NEW j \in 0 .. m + 1
      PROVE  g[Node(d, j)] = After(d, j, e)
  <2>1. After(d, j, e) = IF j = m + 1 THEN e ELSE d[j + 1] BY <1>2 DEF After
  <2>2. CASE j < k
    <3>1. j \in 0 .. m /\ j # k /\ j # m /\ j # m + 1 /\ j + 1 \in 1 .. m + 1
          /\ j + 1 <= k
      BY <1>1, <2>2
    <3>2. Node(d, j) = Node(o, j)
      <4>1. CASE j = 0 BY <4>1 DEF Node
      <4>2. CASE j # 0
        <5>1. j \in 1 .. m + 1 /\ j <= k BY <2>2, <3>1, <4>2
        <5> QED BY <1>2, <4>2, <5>1 DEF Node
      <4> QED BY <4>1, <4>2
    <3>3. d[j + 1] = o[j + 1] BY <1>2, <3>1
    <3> QED BY <1>6, <1>7, <2>1, <3>1, <3>2, <3>3
  <2>3. CASE j = k
    <3>1. j # m + 1 /\ j + 1 \in 1 .. m + 1 /\ ~(j + 1 <= k) /\ j + 1 = k + 1
      BY <1>1, <2>3
    <3>2. Node(d, j) = Node(o, k)
      <4>1. CASE j = 0 BY <2>3, <4>1 DEF Node
      <4>2. CASE j # 0
        <5>1. j \in 1 .. m + 1 /\ j <= k BY <2>3, <4>2
        <5> QED BY <1>2, <2>3, <4>2, <5>1 DEF Node
      <4> QED BY <4>1, <4>2
    <3>3. d[j + 1] = n BY <1>2, <3>1
    <3> QED BY <1>6, <2>1, <3>1, <3>2, <3>3
  <2>4. CASE j = k + 1
    <3>1. j \in 1 .. m + 1 /\ j # 0 /\ ~(j <= k) BY <1>1, <2>4
    <3>2. Node(d, j) = n BY <1>2, <2>4, <3>1 DEF Node
    <3>3. g[n] = IF k = m THEN e ELSE o[k + 1] BY <1>1, <1>6, <1>7
    <3>4. k # m => d[j + 1] = o[k + 1]
      <4> SUFFICES ASSUME k # m PROVE d[j + 1] = o[k + 1]
        OBVIOUS
      <4>1. PICK y \in 1 .. m + 1 : /\ y = j + 1 /\ ~(y <= k) /\ y # k + 1
                                    /\ y - 1 = k + 1
        BY <1>1, <2>4
      <4> QED BY <1>2, <4>1
    <3>5. j = m + 1 <=> k = m BY <1>1, <2>4
    <3> QED BY <2>1, <3>2, <3>3, <3>4, <3>5
  <2>5. CASE j > k + 1
    <3>1. PICK x \in 0 .. m : x = j - 1 /\ x # k /\ x # 0 BY <1>1, <2>5
    <3>2. j \in 1 .. m + 1 /\ j # 0 /\ ~(j <= k) /\ j # k + 1 BY <1>1, <2>5
    <3>3. Node(d, j) = Node(o, x) BY <1>2, <3>1, <3>2 DEF Node
    <3>4. x # m => d[j + 1] = o[x + 1]
      <4> SUFFICES ASSUME x # m PROVE d[j + 1] = o[x + 1]
        OBVIOUS
      <4>1. PICK y \in 1 .. m + 1 : /\ y = j + 1 /\ ~(y <= k) /\ y # k + 1
                                    /\ y - 1 = x + 1
        BY <1>1, <2>5, <3>1
      <4> QED BY <1>2, <4>1
    <3>5. j = m + 1 <=> x = m BY <1>1, <3>1
    <3> QED BY <1>6, <1>7, <2>1, <3>1, <3>3, <3>4, <3>5
  <2> QED BY <1>1, <2>2, <2>3, <2>4, <2>5
<1> QED BY <1>2, <1>8, <1>9 DEF Leads

\* The k-th node is unlinked.
LEMMA LeadsUnhook ==
  ASSUME NEW e, NEW V,
         NEW o \in Seq(Addresses), NEW f \in [ListNodes -> V],
         Leads(o, f, e), NEW k \in 1 .. Len(o),
         NEW d, d = SubSeq(o, 1, k - 1) \o SubSeq(o, k + 1, Len(o)),
         NEW g, g = [f EXCEPT ![Node(o, k - 1)] = f[o[k]]]
  PROVE  Leads(d, g, e)
<1>1. PICK m \in Nat : m = Len(o)
  BY LenProperties
<1>2. /\ d \in Seq(Addresses) /\ Len(d) = m - 1
      /\ \A i \in 1 .. m - 1 : d[i] = IF i < k THEN o[i] ELSE o[i + 1]
  <2>1. IsRemoved(Addresses, o, k, d)
    BY Removed
  <2> QED BY <1>1, <2>1 DEF IsRemoved
<1>3. \A i, j \in 1 .. m : o[i] = o[j] => i = j BY <1>1 DEF Leads
<1>4. /\ \A j \in 1 .. m : Node(o, j) = o[j] /\ o[j] \in Addresses
      /\ \A j \in 0 .. m : Node(o, j) \in ListNodes
      /\ \A i, j \in 0 .. m : Node(o, i) = Node(o, j) => i = j
  BY <1>1, <1>3, NodesDiffer
<1>5. PICK h \in 0 .. m : h = k - 1 BY <1>1
<1>6. /\ g[Node(o, h)] = f[Node(o, k)]
      /\ \A j \in 0 .. m : j # h => g[Node(o, j)] = f[Node(o, j)]
  BY <1>1, <1>4, <1>5
<1>7. \A j \in 0 .. m : f[Node(o, j)] = IF j = m THEN e ELSE o[j + 1]
  BY <1>1 DEF Leads, After
<1>8. ASSUME NEW i \in 1 .. m - 1, NEW j \in 1 .. m - 1, d[i] = d[j]
      PROVE  i = j
  <2>1. ASSUME NEW x \in 1 .. m - 1
        PROVE  \E y \in 1 .. m : d[x] = o[y] /\ y = IF x < k THEN x ELSE x + 1
    <3>1. PICK y \in 1 .. m : y = IF x < k THEN x ELSE x + 1 BY <1>1
    <3> QED BY <1>2, <3>1
  <2>2. PICK y \in 1 .. m : d[i] = o[y] /\ y = IF i < k THEN i ELSE i + 1
    BY <2>1
  <2>3. PICK z \in 1 .. m : d[j] = o[z] /\ z = IF j < k THEN j ELSE j + 1
    BY <2>1
  <2>4. y = z BY <1>3, <1>8, <2>2, <2>3
  <2> QED BY <1>1, <2>2, <2>3, <2>4
<1>9. ASSUME NEW j \in 0 .. m - 1
      PROVE  g[Node(d, j)] = After(d, j, e)
  <2>1. After(d, j, e) = IF j = m - 1 THEN e ELSE d[j + 1] BY <1>2 DEF After
  <2>2. ASSUME j < k PROVE Node(d, j) = Node(o, j)
    <3>1. CASE j = 0 BY <3>1 DEF Node
    <3>2. CASE j # 0
      <4>1. j \in 1 .. m - 1 BY <1>1, <3>2
      <4> QED BY <1>2, <2>2, <3>2, <4>1 DEF Node
    <3> QED BY <3>1, <3>2
  <2>3. CASE j < h
    <3>1. PICK y \in 1 .. m - 1 : /\ y = j + 1 /\ y < k /\ j < k
                                  /\ j \in 0 .. m /\ j # h /\ j # m /\ j # m - 1
      BY <1>1, <1>5, <2>3
    <3>2. d[y] = o[y] BY <1>2, <3>1
    <3> QED BY <1>6, <1>7, <2>1, <2>2, <3>1, <3>2
  <2>4. CASE j = h
    <3>1. j < k /\ k \in 0 .. m BY <1>1, <1>5, <2>4
    <3>2. g[Node(d, j)] = IF k = m THEN e ELSE o[k + 1]
      BY <1>6, <1>7, <2>2, <2>4, <3>1
    <3>3. ASSUME k # m PROVE d[j + 1] = o[k + 1]
      <4>1. k \in 1 .. m - 1 /\ ~(k < k) /\ j + 1 = k BY <1>1, <1>5, <2>4, <3>3
      <4> QED BY <1>2, <4>1
    <3>4. j = m - 1 <=> k = m BY <1>1, <1>5, <2>4
    <3> QED BY <2>1, <3>2, <3>3, <3>4
  <2>5. CASE j > h
    <3>1. PICK y \in 1 .. m : /\ y = j + 1 /\ y # h /\ ~(j < k)
                              /\ j \in 1 .. m - 1 /\ j # 0
      BY <1>1, <1>5, <2>5
    <3>2. Node(d, j) = o[y] /\ Node(o, y) = o[y] /\ y \in 0 .. m
      <4>1. Node(o, y) = o[y] /\ y \in 0 .. m BY <1>1, <1>4
      <4>2. Node(d, j) = d[j] BY <3>1 DEF Node
      <4> QED BY <1>2, <3>1, <4>1, <4>2
    <3>3. g[Node(d, j)] = IF y = m THEN e ELSE o[y + 1]
      BY <1>6, <1>7, <3>1, <3>2
    <3>4. ASSUME y # m PROVE d[y] = o[y + 1]
      <4>1. y \in 1 .. m - 1 /\ ~(y < k) BY <1>1, <3>1, <3>4
      <4> QED BY <1>2, <4>1
    <3>5. j = m - 1 <=> y = m BY <1>1, <3>1
    <3> QED BY <2>1, <3>1, <3>3, <3>4, <3>5
  <2> QED BY <1>1, <1>5, <2>3, <2>4, <2>5
<1>10. m - 1 \in Nat BY <1>1
<1> QED BY <1>2, <1>8, <1>9, <1>10 DEF Leads

\* The prev of the sentinel is the last node, or will be.
BackLeads ==
  IF half # <<>> /\ half[1] = Sentinel
  THEN half[2] = Node(order, Len(order))
  ELSE prev[Sentinel] = Node(order, Len(order))

NodesIterates(ring) ==
  mode = "listing" =>
    /\ Len(listed) <= Len(order)
    /\ iter.count = Len(listed)
    /\ iter.base = After(order, Len(listed), Linked(ring)!End)

NodesRow(ring) ==
  /\ Leads(order, next, Linked(ring)!End)
  /\ ring => BackLeads
  /\ ~ring => half = <<>>

NodesInv(ring) ==
  /\ Linked(ring)!TypeOK
  /\ NodesRow(ring)
  /\ NodesIterates(ring)
  /\ Idle

LEMMA NodesTyped ==
  ASSUME NEW ring \in BOOLEAN, Linked(ring)!TypeOK
  PROVE  /\ next \in ListLinks
         /\ prev \in ListLinks
         /\ data \in [Addresses -> Values]
         /\ order \in Seq(Addresses) /\ Len(order) \in Nat
         /\ \A k \in 1 .. Len(order) : order[k] \in Addresses
         /\ half # <<>> => /\ half[1] \in ListNodes
                           /\ half[2] \in ListNodes
         /\ mode \in {"running", "listing", "listed"}
         /\ iter = [base |-> iter.base, count |-> iter.count]
         /\ iter.base \in Addresses \union {Sentinel, Null}
         /\ iter.count \in Nat
         /\ listed \in Seq(Nat \X Values) /\ Len(listed) \in Nat
<1>1. /\ next \in [ListNodes ->
                     ListNodes \union {Null}]
      /\ prev \in [ListNodes ->
                     ListNodes \union {Null}]
      /\ iter \in [base : ListNodes \union {Null},
                   count : Nat]
  BY DEF Linked!TypeOK, Linked!Links
<1>2. ListNodes \union {Null}
        = Addresses \union {Sentinel, Null}
  OBVIOUS
<1>3. order \in Seq(Addresses) /\ listed \in Seq(Nat \X Values)
  BY DEF Linked!TypeOK
<1>4. /\ Len(order) \in Nat /\ Len(listed) \in Nat
      /\ \A k \in 1 .. Len(order) : order[k] \in Addresses
  BY <1>3, LenProperties, ElementOfSeq
<1>5. half # <<>> => /\ half[1] \in ListNodes
                     /\ half[2] \in ListNodes
  BY DEF Linked!TypeOK, Linked!Links, Linked!Done
<1>6. /\ data \in [Addresses -> Values]
      /\ mode \in {"running", "listing", "listed"}
  BY DEF Linked!TypeOK
<1>7. /\ iter = [base |-> iter.base, count |-> iter.count]
      /\ iter.base \in Addresses \union {Sentinel, Null} /\ iter.count \in Nat
  BY <1>1, <1>2
<1>8. /\ next \in ListLinks
      /\ prev \in ListLinks
  BY <1>1, <1>2
<1> QED BY <1>3, <1>4, <1>5, <1>6, <1>7, <1>8

LEMMA NodesEnd ==
  ASSUME NEW ring \in BOOLEAN
  PROVE  /\ Linked(ring)!End \in {Sentinel, Null}
         /\ Linked(ring)!End \notin Addresses
         /\ ring => Linked(ring)!End = Sentinel
         /\ ~ring => Linked(ring)!End = Null
BY PrintersAssumption DEF Linked!End

LEMMA NodesInit ==
  ASSUME NEW ring \in BOOLEAN, Linked(ring)!Init
  PROVE  NodesInv(ring)
<1>1. /\ order = <<>> /\ half = <<>> /\ mode = "running" /\ listed = <<>>
      /\ iter = [base |-> Null, count |-> 0]
      /\ data \in [Addresses -> Values]
  BY DEF Linked!Init, Linked!Done, Linked!NoIter
<1>2. PICK e : e = Linked(ring)!End OBVIOUS
<1>3. e \in {Sentinel, Null} BY <1>2, NodesEnd
<1>4. /\ next = [a \in ListNodes |->
                   IF a = Sentinel THEN e ELSE Null]
      /\ prev = [a \in ListNodes |->
                   IF a = Sentinel THEN e ELSE Null]
  BY <1>2 DEF Linked!Init, Linked!Links
<1>5. Linked(ring)!TypeOK
  <2>1. /\ next \in [Linked(ring)!Links -> Linked(ring)!Links \union {Null}]
        /\ prev \in [Linked(ring)!Links -> Linked(ring)!Links \union {Null}]
    BY <1>3, <1>4 DEF Linked!Links
  <2>2. /\ order \in Seq(Addresses) /\ listed \in Seq(Nat \X Values)
        /\ half = Linked(ring)!Done
        /\ iter \in [base : Linked(ring)!Links \union {Null}, count : Nat]
    BY <1>1 DEF Linked!Done
  <2> QED BY <1>1, <2>1, <2>2 DEF Linked!TypeOK
<1>6. Len(order) = 0 /\ Node(order, 0) = Sentinel BY <1>1 DEF Node
<1>7. Leads(order, next, e)
  <2>1. next[Node(order, 0)] = After(order, 0, e) BY <1>4, <1>6 DEF After
  <2>2. \A k \in 0 .. Len(order) : k = 0 BY <1>6
  <2>3. \A i, j \in 1 .. Len(order) : order[i] = order[j] => i = j BY <1>6
  <2>4. order \in Seq(Addresses) BY <1>1
  <2> QED BY <2>1, <2>2, <2>3, <2>4 DEF Leads
<1>8. ring => BackLeads
  <2>1. ring => e = Sentinel BY <1>2, NodesEnd
  <2> QED BY <1>1, <1>4, <1>6, <2>1 DEF BackLeads
<1> QED
  BY <1>1, <1>2, <1>5, <1>7, <1>8 DEF NodesInv, NodesRow, NodesIterates, Idle

LEMMA NodesHook ==
  ASSUME NEW ring \in BOOLEAN, NodesInv(ring),
         NEW k \in 0 .. Len(order), NEW n \in Addresses, NEW v \in Values,
         Linked(ring)!Hook(k, n, v)
  PROVE  NodesInv(ring)'
<1> USE DEF NodesInv
<1>1. /\ next \in ListLinks
      /\ prev \in ListLinks
      /\ data \in [Addresses -> Values]
      /\ order \in Seq(Addresses) /\ Len(order) \in Nat
      /\ \A i \in 1 .. Len(order) : order[i] \in Addresses
  BY NodesTyped
<1>2. /\ mode = "running" /\ half = <<>> /\ mode' = mode /\ iter' = iter
      /\ listed' = listed /\ data' = [data EXCEPT ![n] = v]
      /\ order' = SubSeq(order, 1, k) \o <<n>> \o SubSeq(order, k + 1, Len(order))
  BY DEF Linked!Hook, Linked!Done
<1>3. Linked(ring)!At(k) = Node(order, k)
  BY DEF Linked!At, Node
<1>4. /\ next' = [next EXCEPT ![n] = next[Node(order, k)],
                              ![Node(order, k)] = n]
      /\ IF ring
         THEN /\ prev' = [prev EXCEPT ![n] = Node(order, k)]
              /\ half' = <<next[Node(order, k)], n>>
         ELSE prev' = prev /\ half' = half
  BY <1>3 DEF Linked!Hook
<1>5. \A i \in 1 .. Len(order) : order[i] # n
  <2>1. n \notin Linked(ring)!Range(order)
    BY DEF Linked!Hook
  <2>2. DOMAIN order = 1 .. Len(order) BY <1>1, LenProperties
  <2> QED BY <2>1, <2>2 DEF Linked!Range
<1>6. PICK e : e = Linked(ring)!End OBVIOUS
<1>7. Leads(order, next, e) BY <1>6 DEF NodesRow
<1>8. order' \in Seq(Addresses) /\ Leads(order', next', e)
  <2>1. PICK V : V = Addresses \union {Sentinel, Null} OBVIOUS
  <2>2. next \in [ListNodes -> V] BY <1>1, <2>1
  <2>3. ASSUME NEW d, NEW g, d = order', g = next'
        PROVE  Leads(d, g, e)
    <3>1. d = SubSeq(order, 1, k) \o <<n>> \o SubSeq(order, k + 1, Len(order))
      BY <1>2, <2>3
    <3>2. g = [next EXCEPT ![n] = next[Node(order, k)], ![Node(order, k)] = n]
      BY <1>4, <2>3
    <3>3. order \in Seq(Addresses) BY <1>1
    <3> QED BY <1>5, <1>7, <2>2, <3>1, <3>2, <3>3, LeadsHook, Zenon
  <2> QED BY <2>3 DEF Leads
<1>9. IsInserted(Addresses, order, k, n, order') BY <1>1, <1>2, Inserted
<1>10. \A i, j \in 1 .. Len(order) : order[i] = order[j] => i = j
  BY <1>7 DEF Leads
<1>11. Node(order, k) \in ListNodes BY <1>1, <1>10, NodesDiffer
<1>12. next[Node(order, k)] = IF k = Len(order) THEN e ELSE order[k + 1]
  BY <1>7 DEF Leads, After
<1>13. ring => e = Sentinel BY <1>6, NodesEnd
<1>14. next[Node(order, k)] \in Addresses \union {Sentinel, Null}
  BY <1>1, <1>11
<1>15. Linked(ring)!TypeOK'
  <2>1. next' \in ListLinks BY <1>1, <1>4, <1>11, <1>14
  <2>2. prev' \in ListLinks BY <1>1, <1>4, <1>11
  <2>3. ASSUME ring
        PROVE  half' \in ListNodes \X
                         ListNodes
    <3>1. next[Node(order, k)] \in ListNodes
      <4>1. CASE k = Len(order) BY <1>12, <1>13, <2>3, <4>1
      <4>2. CASE k # Len(order)
        <5>1. k + 1 \in 1 .. Len(order) BY <1>1, <4>2
        <5> QED BY <1>1, <1>12, <4>2, <5>1
      <4> QED BY <4>1, <4>2
    <3> QED BY <1>4, <2>3, <3>1
  <2>4. ASSUME ~ring PROVE half' = <<>> BY <1>2, <1>4, <2>4
  <2>5. data' \in [Addresses -> Values] BY <1>1, <1>2
  <2>6. Addresses \union {Sentinel, Null}
          = ListNodes \union {Null}
    OBVIOUS
  <2>7. /\ mode \in {"running", "listing", "listed"}
        /\ iter \in [base : Linked(ring)!Links \union {Null}, count : Nat]
        /\ listed \in Seq(Nat \X Values)
    BY DEF Linked!TypeOK
  <2>8. /\ next' \in [Linked(ring)!Links -> Linked(ring)!Links \union {Null}]
        /\ prev' \in [Linked(ring)!Links -> Linked(ring)!Links \union {Null}]
    BY <2>1, <2>2, <2>6 DEF Linked!Links
  <2>9. half' = Linked(ring)!Done
        \/ half' \in Linked(ring)!Links \X Linked(ring)!Links
    BY <2>3, <2>4 DEF Linked!Links, Linked!Done
  <2>10. Linked(ring)!Links' = Linked(ring)!Links
         /\ Linked(ring)!Done' = Linked(ring)!Done
    BY DEF Linked!Links, Linked!Done
  <2> QED BY <1>2, <1>8, <2>5, <2>7, <2>8, <2>9, <2>10 DEF Linked!TypeOK
<1>16. ASSUME ring PROVE BackLeads'
  <2>1. /\ order' \in Seq(Addresses) /\ Len(order') = Len(order) + 1
        /\ Len(order) + 1 \in 1 .. Len(order) + 1 /\ Len(order) + 1 # 0
    BY <1>1, <1>9 DEF IsInserted
  <2>2. Node(order', Len(order')) = order'[Len(order) + 1] BY <2>1 DEF Node
  <2>3. order'[Len(order) + 1] =
           IF Len(order) + 1 <= k THEN order[Len(order) + 1]
           ELSE IF Len(order) + 1 = k + 1 THEN n ELSE order[Len(order) + 1 - 1]
    BY <1>9, <2>1 DEF IsInserted
  <2>4. half' # <<>> /\ half'[1] = next[Node(order, k)] /\ half'[2] = n
    <3>1. half' = <<next[Node(order, k)], n>> BY <1>4, <1>16
    <3>2. half' # <<>> BY <3>1
    <3> QED BY <3>1, <3>2
  <2>5. CASE k = Len(order)
    <3>1. half'[1] = Sentinel BY <1>12, <1>13, <1>16, <2>4, <2>5
    <3>2. order'[Len(order) + 1] = n BY <1>1, <2>3, <2>5
    <3> QED BY <2>2, <2>4, <3>1, <3>2 DEF BackLeads
  <2>6. CASE k # Len(order)
    <3>1. k + 1 \in 1 .. Len(order) /\ Len(order) # 0
          /\ ~(Len(order) + 1 <= k) /\ Len(order) + 1 # k + 1
          /\ Len(order) + 1 - 1 = Len(order)
      <4>1. PICK l \in Nat : l = Len(order) /\ k \in 0 .. l BY <1>1
      <4>2. k # l BY <2>6, <4>1
      <4>3. /\ k + 1 \in 1 .. l /\ l # 0 /\ ~(l + 1 <= k) /\ l + 1 # k + 1
            /\ l + 1 - 1 = l
        BY <4>1, <4>2
      <4> QED BY <4>1, <4>3, Zenon
    <3>2. half'[1] # Sentinel
      <4>1. next[Node(order, k)] = order[k + 1] BY <1>12, <2>6
      <4>2. order[k + 1] \in Addresses BY <1>1, <3>1
      <4> QED BY <2>4, <4>1, <4>2, PrintersAssumption
    <3>3. Node(order', Len(order')) = Node(order, Len(order))
      <4>1. Node(order, Len(order)) = order[Len(order)] BY <3>1 DEF Node
      <4> QED BY <2>2, <2>3, <3>1, <4>1, Zenon
    <3>4. prev'[Sentinel] = prev[Sentinel]
      BY <1>1, <1>4, <1>16, PrintersAssumption
    <3>5. prev[Sentinel] = Node(order, Len(order))
      BY <1>2, <1>16 DEF NodesRow, BackLeads
    <3> QED BY <3>2, <3>3, <3>4, <3>5 DEF BackLeads
  <2> QED BY <2>5, <2>6
<1>17. NodesRow(ring)'
  <2>1. Linked(ring)!End' = e BY <1>6 DEF Linked!End
  <2> QED BY <1>2, <1>4, <1>8, <1>16, <2>1 DEF NodesRow
<1> QED BY <1>2, <1>15, <1>17 DEF NodesIterates, Idle

LEMMA NodesUnhook ==
  ASSUME NEW ring \in BOOLEAN, NodesInv(ring),
         NEW k \in 1 .. Len(order), Linked(ring)!Unhook(k)
  PROVE  NodesInv(ring)'
<1> USE DEF NodesInv
<1>1. /\ next \in ListLinks
      /\ prev \in ListLinks
      /\ order \in Seq(Addresses) /\ Len(order) \in Nat
      /\ \A i \in 1 .. Len(order) : order[i] \in Addresses
  BY NodesTyped
<1>2. /\ mode = "running" /\ half = <<>> /\ mode' = mode /\ iter' = iter
      /\ listed' = listed /\ prev' = prev /\ data' = data
      /\ order' = SubSeq(order, 1, k - 1) \o SubSeq(order, k + 1, Len(order))
  BY DEF Linked!Unhook, Linked!Done
<1>3. Linked(ring)!At(k - 1) = Node(order, k - 1)
  BY DEF Linked!At, Node
<1>4. /\ next' = [next EXCEPT ![Node(order, k - 1)] = next[order[k]]]
      /\ half' = IF ring THEN <<next[order[k]], Node(order, k - 1)>> ELSE <<>>
  BY <1>3 DEF Linked!Unhook, Linked!Done
<1>5. PICK e : e = Linked(ring)!End OBVIOUS
<1>6. Leads(order, next, e) BY <1>5 DEF NodesRow
<1>7. Leads(order', next', e)
  <2>1. PICK V : V = Addresses \union {Sentinel, Null} OBVIOUS
  <2>2. next \in [ListNodes -> V] BY <1>1, <2>1
  <2>3. ASSUME NEW d, NEW g, d = order', g = next'
        PROVE  Leads(d, g, e)
    <3>1. d = SubSeq(order, 1, k - 1) \o SubSeq(order, k + 1, Len(order))
      BY <1>2, <2>3
    <3>2. g = [next EXCEPT ![Node(order, k - 1)] = next[order[k]]]
      BY <1>4, <2>3
    <3>3. order \in Seq(Addresses) BY <1>1
    <3> QED BY <1>6, <2>2, <3>1, <3>2, <3>3, LeadsUnhook, Zenon
  <2> QED BY <2>3
<1>8. /\ order' \in Seq(Addresses) /\ Len(order') = Len(order) - 1
      /\ \A i \in 1 .. Len(order) - 1 :
            order'[i] = IF i < k THEN order[i] ELSE order[i + 1]
  <2>1. IsRemoved(Addresses, order, k, order') BY <1>1, <1>2, Removed
  <2> QED BY <2>1 DEF IsRemoved
<1>9. /\ k \in 0 .. Len(order) /\ k # 0 /\ k - 1 \in 0 .. Len(order)
      /\ Len(order) # 0
  BY <1>1
<1>10. /\ Node(order, k) = order[k]
       /\ Node(order, k - 1) \in ListNodes
  <2>1. \A i, j \in 1 .. Len(order) : order[i] = order[j] => i = j
    BY <1>6 DEF Leads
  <2> QED BY <1>1, <1>9, <2>1, NodesDiffer
<1>11. next[order[k]] = IF k = Len(order) THEN e ELSE order[k + 1]
  BY <1>6, <1>9, <1>10 DEF Leads, After
<1>12. ring => e = Sentinel BY <1>5, NodesEnd
<1>13. next[order[k]] \in Addresses \union {Sentinel, Null} BY <1>1
<1>14. Linked(ring)!TypeOK'
  <2>1. next' \in ListLinks BY <1>1, <1>4, <1>10, <1>13
  <2>2. ASSUME ring
        PROVE  half' \in ListNodes \X
                         ListNodes
    <3>1. next[order[k]] \in ListNodes
      <4>1. CASE k = Len(order) BY <1>11, <1>12, <2>2, <4>1
      <4>2. CASE k # Len(order)
        <5>1. k + 1 \in 1 .. Len(order) BY <1>1, <4>2
        <5> QED BY <1>1, <1>11, <4>2, <5>1
      <4> QED BY <4>1, <4>2
    <3> QED BY <1>4, <1>10, <2>2, <3>1
  <2>3. ASSUME ~ring PROVE half' = <<>> BY <1>4, <2>3
  <2>4. Addresses \union {Sentinel, Null}
          = ListNodes \union {Null}
    OBVIOUS
  <2>5. /\ mode \in {"running", "listing", "listed"}
        /\ iter \in [base : Linked(ring)!Links \union {Null}, count : Nat]
        /\ listed \in Seq(Nat \X Values) /\ data \in [Addresses -> Values]
        /\ prev \in [Linked(ring)!Links -> Linked(ring)!Links \union {Null}]
    BY DEF Linked!TypeOK
  <2>6. next' \in [Linked(ring)!Links -> Linked(ring)!Links \union {Null}]
    BY <2>1, <2>4 DEF Linked!Links
  <2>7. half' = Linked(ring)!Done
        \/ half' \in Linked(ring)!Links \X Linked(ring)!Links
    BY <2>2, <2>3 DEF Linked!Links, Linked!Done
  <2>8. Linked(ring)!Links' = Linked(ring)!Links
        /\ Linked(ring)!Done' = Linked(ring)!Done
    BY DEF Linked!Links, Linked!Done
  <2> QED BY <1>2, <1>8, <2>5, <2>6, <2>7, <2>8 DEF Linked!TypeOK
<1>15. ASSUME ring PROVE BackLeads'
  <2>1. PICK m \in Nat : m = Len(order) /\ m # 0 BY <1>1, <1>9
  <2>2. Len(order') = m - 1 /\ m - 1 \in Nat BY <1>8, <2>1
  <2>3. half' = <<next[order[k]], Node(order, k - 1)>> BY <1>4, <1>15
  <2>4. half' # <<>> /\ half'[1] = next[order[k]]
        /\ half'[2] = Node(order, k - 1)
    BY <2>3
  <2>5. CASE k = m
    <3>1. half'[1] = Sentinel BY <1>11, <1>12, <1>15, <2>1, <2>4, <2>5
    <3>2. Node(order', m - 1) = Node(order, m - 1)
      <4>1. CASE m - 1 = 0 BY <4>1 DEF Node
      <4>2. CASE m - 1 # 0
        <5>1. m - 1 \in 1 .. m - 1 /\ m - 1 < k BY <2>1, <2>5, <4>2
        <5>2. order'[m - 1] = order[m - 1] BY <1>8, <2>1, <5>1
        <5> QED BY <4>2, <5>2 DEF Node
      <4> QED BY <4>1, <4>2
    <3> QED BY <2>2, <2>4, <2>5, <3>1, <3>2 DEF BackLeads
  <2>6. CASE k # m
    <3>1. k + 1 \in 1 .. m /\ m - 1 # 0 /\ m - 1 \in 1 .. m - 1
          /\ ~(m - 1 < k) /\ m - 1 + 1 = m
      BY <2>1, <2>6
    <3>2. half'[1] # Sentinel
      BY <1>1, <1>11, <2>1, <2>4, <2>6, <3>1, PrintersAssumption
    <3>3. order'[m - 1] = order[m]
      <4>1. order'[m - 1] = order[m - 1 + 1] BY <1>8, <2>1, <3>1
      <4> QED BY <3>1, <4>1
    <3>4. Node(order', Len(order')) = Node(order, Len(order))
      BY <2>1, <2>2, <3>1, <3>3 DEF Node
    <3>5. prev[Sentinel] = Node(order, Len(order))
      BY <1>2, <1>15 DEF NodesRow, BackLeads
    <3> QED BY <1>2, <3>2, <3>4, <3>5 DEF BackLeads
  <2> QED BY <2>5, <2>6
<1>16. NodesRow(ring)'
  <2>1. Linked(ring)!End' = e BY <1>5 DEF Linked!End
  <2> QED BY <1>4, <1>7, <1>15, <2>1 DEF NodesRow
<1> QED BY <1>2, <1>14, <1>16 DEF NodesIterates, Idle

LEMMA NodesStorePrev ==
  ASSUME NEW ring \in BOOLEAN, NodesInv(ring),
         Linked(ring)!StorePrev
  PROVE  NodesInv(ring)'
<1> USE DEF NodesInv
<1>1. /\ prev \in ListLinks
      /\ half # <<>> => /\ half[1] \in ListNodes
                        /\ half[2] \in ListNodes
  BY NodesTyped
<1>2. /\ mode = "running" /\ half # <<>> /\ half' = <<>>
      /\ prev' = [prev EXCEPT ![half[1]] = half[2]]
      /\ next' = next /\ data' = data /\ order' = order /\ mode' = mode
      /\ iter' = iter /\ listed' = listed
  BY DEF Linked!StorePrev, Linked!Done
<1>3. ring /\ BackLeads BY <1>2 DEF NodesRow
<1>4. prev'[Sentinel] = Node(order, Len(order))
  BY <1>1, <1>2, <1>3 DEF BackLeads
<1>5. BackLeads' BY <1>2, <1>4 DEF BackLeads
<1>6. Linked(ring)!TypeOK'
  <2>1. prev' \in ListLinks BY <1>1, <1>2
  <2>2. Addresses \union {Sentinel, Null}
          = ListNodes \union {Null}
    OBVIOUS
  <2>3. prev' \in [Linked(ring)!Links -> Linked(ring)!Links \union {Null}]
    BY <2>1, <2>2 DEF Linked!Links
  <2> QED BY <1>2, <2>3 DEF Linked!TypeOK, Linked!Links, Linked!Done
<1>7. Linked(ring)!End' = Linked(ring)!End
  BY DEF Linked!End
<1> QED BY <1>2, <1>3, <1>5, <1>6, <1>7 DEF NodesRow, NodesIterates, Idle

\* A stop, a listing and its end leave the list as it is.
LEMMA NodesStays ==
  ASSUME NEW ring \in BOOLEAN, NodesInv(ring),
         UNCHANGED <<next, prev, data, order, half>>
  PROVE  NodesRow(ring)'
<1>1. Linked(ring)!End' = Linked(ring)!End
  BY DEF Linked!End
<1>2. BackLeads' <=> BackLeads
  BY DEF BackLeads
<1> QED BY <1>1, <1>2 DEF NodesInv, NodesRow

LEMMA NodesChildren ==
  ASSUME NEW ring \in BOOLEAN, NodesInv(ring),
         Linked(ring)!Children
  PROVE  NodesInv(ring)'
<1> USE DEF NodesInv
<1>1. /\ next \in ListLinks
      /\ Len(order) \in Nat
  BY NodesTyped
<1>2. /\ mode = "running" /\ mode' = "listing"
      /\ iter' = [base |-> next[Sentinel], count |-> 0]
      /\ UNCHANGED <<next, prev, data, order, half>> /\ listed' = listed
  BY DEF Linked!Children, Linked!container
<1>3. listed = <<>> /\ Len(listed) = 0 BY <1>2 DEF Idle
<1>4. next[Sentinel] = After(order, 0, Linked(ring)!End)
  <2>1. 0 \in 0 .. Len(order) /\ Node(order, 0) = Sentinel BY <1>1 DEF Node
  <2> QED BY <2>1 DEF NodesRow, Leads
<1>5. NodesIterates(ring)'
  <2>1. Linked(ring)!End' = Linked(ring)!End
    BY DEF Linked!End
  <2> QED BY <1>1, <1>2, <1>3, <1>4, <2>1 DEF NodesIterates
<1>6. Linked(ring)!TypeOK'
  <2>1. iter' \in [base : Linked(ring)!Links \union {Null}, count : Nat]
    BY <1>1, <1>2 DEF Linked!Links
  <2> QED BY <1>2, <2>1 DEF Linked!TypeOK, Linked!Links, Linked!Done
<1>7. NodesRow(ring)' BY <1>2, NodesStays
<1> QED BY <1>2, <1>5, <1>6, <1>7 DEF Idle

\* The iterator is at a node of the list, which is the next to be listed.
LEMMA NodesElementIs ==
  ASSUME NEW ring \in BOOLEAN, NodesInv(ring),
         mode = "listing", iter.base # Linked(ring)!End
  PROVE  /\ Len(listed) + 1 \in 1 .. Len(order)
         /\ iter.base = order[Len(listed) + 1] /\ iter.base \in Addresses
         /\ next[iter.base] = After(order, Len(listed) + 1, Linked(ring)!End)
<1> USE DEF NodesInv
<1>1. PICK n \in Nat, l \in Nat : n = Len(order) /\ l = Len(listed)
  BY NodesTyped
<1>2. l <= n /\ iter.base = After(order, l, Linked(ring)!End)
  BY <1>1 DEF NodesIterates
<1>3. l # n /\ iter.base = order[l + 1] BY <1>1, <1>2 DEF After
<1>4. l + 1 \in 1 .. n /\ l + 1 \in 0 .. n /\ l + 1 # 0 BY <1>1, <1>2, <1>3
<1>5. order[l + 1] \in Addresses BY <1>1, <1>4, NodesTyped
<1>6. Node(order, l + 1) = order[l + 1] BY <1>4 DEF Node
<1>7. next[order[l + 1]] = After(order, l + 1, Linked(ring)!End)
  BY <1>1, <1>4, <1>6 DEF NodesRow, Leads
<1> QED BY <1>1, <1>3, <1>4, <1>5, <1>7

LEMMA NodesElement ==
  ASSUME NEW ring \in BOOLEAN, NodesInv(ring),
         Linked(ring)!Element
  PROVE  NodesInv(ring)'
<1> USE DEF NodesInv
<1>1. /\ next \in ListLinks
      /\ data \in [Addresses -> Values]
      /\ listed \in Seq(Nat \X Values) /\ Len(listed) \in Nat
      /\ iter.count \in Nat /\ Len(order) \in Nat
  BY NodesTyped
<1>2. /\ mode = "listing" /\ mode' = mode /\ iter.base # Linked(ring)!End
      /\ listed' = Append(listed, <<iter.count, data[iter.base]>>)
      /\ iter' = [base |-> next[iter.base], count |-> iter.count + 1]
      /\ UNCHANGED <<next, prev, data, order, half>>
  BY DEF Linked!Element, Linked!container, Linked!AtEnd
<1>3. /\ Len(listed) + 1 \in 1 .. Len(order) /\ iter.base \in Addresses
      /\ next[iter.base] = After(order, Len(listed) + 1, Linked(ring)!End)
  BY <1>2, NodesElementIs
<1>4. listed' \in Seq(Nat \X Values) /\ Len(listed') = Len(listed) + 1
  <2>1. <<iter.count, data[iter.base]>> \in Nat \X Values BY <1>1, <1>3
  <2> QED BY <1>1, <1>2, <2>1, AppendProperties
<1>5. iter.count = Len(listed) BY <1>2 DEF NodesIterates
<1>6. NodesIterates(ring)'
  <2>1. Linked(ring)!End' = Linked(ring)!End
    BY DEF Linked!End
  <2>2. Len(listed) + 1 <= Len(order) BY <1>1, <1>3
  <2>3. iter'.count = Len(listed) + 1 /\ iter'.base = next[iter.base]
    BY <1>2, <1>5
  <2> QED BY <1>2, <1>3, <1>4, <2>1, <2>2, <2>3 DEF NodesIterates
<1>7. Linked(ring)!TypeOK'
  <2>1. next[iter.base] \in Addresses \union {Sentinel, Null} BY <1>1, <1>3
  <2>2. iter' \in [base : Linked(ring)!Links \union {Null}, count : Nat]
    BY <1>1, <1>2, <2>1 DEF Linked!Links
  <2> QED BY <1>2, <1>4, <2>2 DEF Linked!TypeOK, Linked!Links, Linked!Done
<1>8. NodesRow(ring)' BY <1>2, NodesStays
<1> QED BY <1>2, <1>6, <1>7, <1>8 DEF Idle

LEMMA NodesStep ==
  ASSUME NEW ring \in BOOLEAN, NodesInv(ring),
         Linked(ring)!Next
  PROVE  NodesInv(ring)'
<1>1. ASSUME NEW k \in 0 .. Len(order), NEW n \in Addresses, NEW v \in Values,
             Linked(ring)!Hook(k, n, v)
      PROVE  NodesInv(ring)'
  BY <1>1, NodesHook
<1>2. ASSUME NEW k \in 1 .. Len(order), Linked(ring)!Unhook(k)
      PROVE  NodesInv(ring)'
  BY <1>2, NodesUnhook
<1>3. CASE Linked(ring)!StorePrev BY <1>3, NodesStorePrev
<1>4. CASE Linked(ring)!Children BY <1>4, NodesChildren
<1>5. CASE Linked(ring)!Element BY <1>5, NodesElement
<1>6. ASSUME mode' # "listing", iter' = Linked(ring)!NoIter,
             mode' \in {"running", "listed"}, listed' \in {listed, <<>>},
             mode' = "running" => listed' = <<>>,
             UNCHANGED <<next, prev, data, order, half>>
      PROVE  NodesInv(ring)'
  <2>1. NodesRow(ring)' BY <1>6, NodesStays
  <2>2. Linked(ring)!TypeOK'
    <3>1. iter' \in [base : Linked(ring)!Links \union {Null}, count : Nat]
      BY <1>6 DEF Linked!NoIter, Linked!Links
    <3>2. listed' \in Seq(Nat \X Values)
      <4>1. listed \in Seq(Nat \X Values) /\ <<>> \in Seq(Nat \X Values)
        BY DEF NodesInv, Linked!TypeOK
      <4> QED BY <1>6, <4>1
    <3> QED
      BY <1>6, <3>1, <3>2
         DEF NodesInv, Linked!TypeOK, Linked!Links, Linked!Done
  <2> QED BY <1>6, <2>1, <2>2 DEF NodesInv, NodesIterates, Idle
<1>7. CASE Linked(ring)!StopIteration
  <2>1. /\ mode' = "listed" /\ iter' = Linked(ring)!NoIter /\ listed' = listed
        /\ UNCHANGED <<next, prev, data, order, half>>
    BY <1>7 DEF Linked!StopIteration, Linked!container
  <2> QED BY <1>6, <2>1
<1>8. CASE Linked(ring)!Continue
  <2>1. /\ mode' = "running" /\ iter' = Linked(ring)!NoIter /\ listed' = <<>>
        /\ UNCHANGED <<next, prev, data, order, half>>
    BY <1>8 DEF Linked!Continue, Linked!container
  <2> QED BY <1>6, <2>1
<1> QED BY <1>1, <1>2, <1>3, <1>4, <1>5, <1>7, <1>8 DEF Linked!Next

\* The nodes that the loop of ListSizeWorker reaches are those of the list.
LEMMA NodesFollowing ==
  ASSUME NodesInv(TRUE)
  PROVE  \A i \in 0 .. Len(order) :
            Linked(TRUE)!Following[i] = After(order, i, Sentinel)
<1>1. PICK n \in Nat : n = Len(order)
  BY NodesTyped DEF NodesInv
<1>2. /\ \A i \in 1 .. n : order[i] \in Addresses
      /\ \A k \in 0 .. n : next[Node(order, k)] = After(order, k, Sentinel)
  <2>1. Linked(TRUE)!End = Sentinel
    BY NodesEnd
  <2> QED BY <1>1, <2>1, NodesTyped DEF NodesInv, NodesRow, Leads
<1> DEFINE A == ListNodes
           Step(f) == [i \in 0 .. n + 1 |->
                         IF i = 0 THEN next[Sentinel]
                         ELSE IF f[i - 1] \in A THEN next[f[i - 1]] ELSE Null]
           F == [i \in 0 .. n + 1 |->
                   IF i <= n THEN After(order, i, Sentinel) ELSE next[Sentinel]]
           f == Linked(TRUE)!Following
<1>3. next[Sentinel] = After(order, 0, Sentinel) BY <1>1, <1>2 DEF Node
<1>4. \A i \in 0 .. n : After(order, i, Sentinel) \in A BY <1>1, <1>2 DEF After
<1>5. \A i \in 0 .. n - 1 : /\ i + 1 # 0 /\ i + 1 \in 1 .. n
                            /\ After(order, i, Sentinel) = Node(order, i + 1)
  <2>1. ASSUME NEW i \in 0 .. n - 1
        PROVE  /\ i + 1 # 0 /\ i + 1 \in 1 .. n
               /\ After(order, i, Sentinel) = Node(order, i + 1)
    <3>1. i + 1 # 0 /\ i + 1 \in 1 .. n /\ i # n BY <1>1
    <3> QED BY <1>1, <3>1 DEF After, Node
  <2> QED BY <2>1
<1>6. F = Step(F)
  <2>1. ASSUME NEW i \in 0 .. n + 1
        PROVE  F[i] = IF i = 0 THEN next[Sentinel]
                      ELSE IF F[i - 1] \in A THEN next[F[i - 1]] ELSE Null
    <3>1. CASE i = 0 BY <1>1, <1>3, <3>1
    <3>2. CASE i \in 1 .. n
      <4>1. PICK j \in 0 .. n - 1 : j = i - 1 /\ j + 1 = i BY <1>1, <3>2
      <4>2. F[j] = After(order, j, Sentinel) /\ j \in 0 .. n BY <1>1, <4>1
      <4>3. F[j] \in A /\ F[j] = Node(order, i) BY <1>4, <1>5, <4>1, <4>2
      <4>4. next[F[j]] = After(order, i, Sentinel) BY <1>1, <1>2, <3>2, <4>3
      <4>5. F[i] = After(order, i, Sentinel) /\ i # 0 BY <1>1, <3>2
      <4> QED BY <4>1, <4>3, <4>4, <4>5
    <3>3. CASE i = n + 1
      <4>1. F[n] = Sentinel BY <1>1 DEF After
      <4>2. i - 1 = n /\ i # 0 /\ ~(i <= n) BY <1>1, <3>3
      <4> QED BY <4>1, <4>2
    <3> QED BY <1>1, <3>1, <3>2, <3>3
  <2> QED BY <2>1
<1>7. f = CHOOSE g : g = Step(g)
  BY <1>1 DEF Linked!Following, Linked!Fuel, Linked!Links
<1>8. f = Step(f) BY <1>6, <1>7
<1>9. \A i \in 0 .. n + 1 :
         f[i] = IF i = 0 THEN next[Sentinel]
                ELSE IF f[i - 1] \in A THEN next[f[i - 1]] ELSE Null
  BY <1>8
<1> DEFINE T == {i \in 0 .. n : f[i] = After(order, i, Sentinel)}
<1>10. 0 \in T
  <2>1. 0 \in 0 .. n /\ 0 \in 0 .. n + 1 BY <1>1
  <2>2. f[0] = next[Sentinel] BY <1>9, <2>1, Zenon
  <2> QED BY <1>3, <2>1, <2>2
<1>11. \A k \in 0 .. n - 1 : k \in T => k + 1 \in T
  <2> SUFFICES ASSUME NEW k \in 0 .. n - 1, k \in T
               PROVE  k + 1 \in T
    OBVIOUS
  <2>1. f[k] = Node(order, k + 1) /\ f[k] \in A BY <1>1, <1>4, <1>5
  <2>2. PICK j \in 1 .. n : j = k + 1 /\ j - 1 = k /\ j # 0
                            /\ j \in 0 .. n + 1 /\ j \in 0 .. n
    BY <1>1
  <2>3. f[j] = next[f[k]] BY <1>9, <2>1, <2>2
  <2>4. f[j] = After(order, j, Sentinel) BY <1>2, <2>1, <2>2, <2>3
  <2> QED BY <2>2, <2>4
<1> HIDE DEF T
<1>12. 0 .. n \subseteq T
  <2>1. 0 \in Int /\ n \in Int BY <1>1
  <2> QED BY <1>10, <1>11, <2>1, Induction, Zenon
<1> QED BY <1>1, <1>12 DEF T

\* The loop of ListSizeWorker counts the nodes.
LEMMA NodesSize ==
  ASSUME NodesInv(TRUE)
  PROVE  Linked(TRUE)!size = Len(order)
<1>1. PICK n \in Nat : n = Len(order)
  BY NodesTyped DEF NodesInv
<1>2. PICK f : f = Linked(TRUE)!Following OBVIOUS
<1>3. \A i \in 0 .. n : f[i] = After(order, i, Sentinel)
  BY <1>1, <1>2, NodesFollowing
<1>4. f[n] = Sentinel BY <1>1, <1>3 DEF After
<1>5. \A i \in 0 .. n - 1 : f[i] # Sentinel
  <2> SUFFICES ASSUME NEW i \in 0 .. n - 1
               PROVE  f[i] # Sentinel
    OBVIOUS
  <2>1. i # n /\ i \in 0 .. n /\ i + 1 \in 1 .. n BY <1>1
  <2>2. order[i + 1] \in Addresses BY <1>1, <2>1, NodesTyped DEF NodesInv
  <2>3. f[i] = order[i + 1] BY <1>1, <1>3, <2>1 DEF After
  <2> QED BY <2>2, <2>3, PrintersAssumption
<1>6. Linked(TRUE)!size =
         CHOOSE i \in 0 .. n + 1 :
            f[i] = Sentinel /\ \A j \in 0 .. i - 1 : f[j] # Sentinel
  <2>1. Linked(TRUE)!End = Sentinel
    BY NodesEnd
  <2> QED BY <1>1, <1>2, <2>1 DEF Linked!size, Linked!Fuel
<1>7. n \in 0 .. n + 1 BY <1>1
<1>8. ASSUME NEW i \in 0 .. n + 1, f[i] = Sentinel,
             \A j \in 0 .. i - 1 : f[j] # Sentinel
      PROVE  i = n
  <2>1. ~(i < n) BY <1>1, <1>5, <1>8
  <2>2. ~(n < i) BY <1>1, <1>4, <1>8
  <2> QED BY <1>1, <2>1, <2>2
<1> QED BY <1>1, <1>4, <1>5, <1>6, <1>7, <1>8

LEMMA NodesShow ==
  ASSUME NEW ring \in BOOLEAN, NodesInv(ring)
  PROVE  Linked(ring)!WorkersAgree /\ Linked(ring)!BackUnlessHalf
<1>1. PICK n \in Nat : n = Len(order)
  BY NodesTyped DEF NodesInv
<1>2. order \in Seq(Addresses) /\ \A i \in 1 .. n : order[i] \in Addresses
  BY <1>1, NodesTyped DEF NodesInv
<1>3. PICK c : c = Linked(ring)!contents OBVIOUS
<1>4. c = [i \in 1 .. n |-> data[order[i]]]
  <2>1. DOMAIN order = 1 .. n BY <1>1, <1>2, LenProperties
  <2> QED BY <1>3, <2>1 DEF Linked!contents
<1>5. Len(c) = n BY <1>1, <1>4
<1>6. c = <<>> <=> n = 0 BY <1>1, <1>4
<1>7. next[Sentinel] = IF n = 0 THEN Linked(ring)!End ELSE order[1]
  <2>1. Node(order, 0) = Sentinel /\ 0 \in 0 .. n BY <1>1 DEF Node
  <2> QED BY <1>1, <2>1 DEF NodesInv, NodesRow, Leads, After
<1>8. next[Sentinel] = Linked(ring)!End <=> n = 0
  <2>1. n # 0 => order[1] # Linked(ring)!End BY <1>1, <1>2, NodesEnd
  <2> QED BY <1>7, <2>1
<1>9. n # 0 => Head(c) = data[order[1]]
  <2>1. n # 0 => c[1] = data[order[1]] BY <1>1, <1>4
  <2>2. n # 0 => Head(c) = c[1] BY <1>1, <1>4, <1>5
  <2> QED BY <2>1, <2>2
<1>10. n # 0 => Linked(ring)!front = Head(c) BY <1>7, <1>9 DEF Linked!front
<1>11. ASSUME ring PROVE Linked(ring)!size = n BY <1>1, <1>11, NodesSize
<1>12. Linked(ring)!WorkersAgree
  BY <1>3, <1>5, <1>6, <1>8, <1>10, <1>11
     DEF Linked!WorkersAgree, Linked!SaysEmpty, Linked!empty
<1>13. Linked(ring)!BackUnlessHalf
  <2> SUFFICES ASSUME ring, half = Linked(ring)!Done, n # 0
               PROVE  Linked(ring)!back = c[n]
    BY <1>3, <1>5, <1>6 DEF Linked!BackUnlessHalf
  <2>1. prev[Sentinel] = Node(order, n)
    BY <1>1 DEF NodesInv, NodesRow, BackLeads, Linked!Done
  <2>2. Node(order, n) = order[n] /\ c[n] = data[order[n]]
    BY <1>1, <1>4 DEF Node
  <2> QED BY <2>1, <2>2 DEF Linked!back
<1> QED BY <1>12, <1>13
-----------------------------------------------------------------------------
(* Printers inside of printers.                                            *)

\* The printer of the i-th layer, and the one the constructors make of it if
\* the next is c.
Class(i) == Lookup!called(value[i].type)
Made(i, c) == IF \/ Class(i) = "Any" /\ value[i].state \in Lookup!Unreadable
                 \/ Class(i) \in Lookup!Wrappers /\ c = "raises"
              THEN "raises"
              ELSE Class(i)

LEMMA VisualizersMade ==
  ASSUME Len(value) \in Nat
  PROVE  /\ Lookup!visualizer[Len(value) + 1] = "none"
         /\ \A i \in 1 .. Len(value) :
               Lookup!visualizer[i] = Made(i, Lookup!visualizer[i + 1])
<1>1. PICK n \in Nat : n = Len(value) OBVIOUS
<1> DEFINE V == {Class(i) : i \in 1 .. n} \union {"none", "raises"}
           G == [p \in (1 .. n) \X V |-> Made(p[1], p[2])]
           Step(g) == [i \in 1 .. n + 1 |->
                         IF i = n + 1 THEN "none" ELSE Made(i, g[i + 1])]
           f == Lookup!visualizer
<1>2. \A i \in 1 .. n, c \in V : Made(i, c) \in V
  BY DEF Made
<1>3. G \in [(1 .. n) \X V -> V]
  <2> HIDE DEF V
  <2> QED BY <1>2
<1>4. PICK F : IsDefined(n, V, "none", G, F)
  <2>1. "none" \in V OBVIOUS
  <2> HIDE DEF V, G
  <2> QED BY <1>3, <2>1, Downwards
<1>5. F = Step(F)
  <2> HIDE DEF V
  <2>1. ASSUME NEW i \in 1 .. n PROVE F[i] = Made(i, F[i + 1]) /\ i # n + 1
    <3>1. i + 1 \in 1 .. n + 1 /\ i # n + 1 BY <1>1
    <3>2. F[i + 1] \in V BY <1>4, <3>1 DEF IsDefined
    <3> QED BY <1>4, <3>1, <3>2 DEF IsDefined
  <2>2. \A i \in 1 .. n + 1 : i \in 1 .. n \/ i = n + 1 OBVIOUS
  <2>3. \A i \in 1 .. n + 1 :
           F[i] = IF i = n + 1 THEN "none" ELSE Made(i, F[i + 1])
    BY <1>4, <2>1, <2>2 DEF IsDefined
  <2>4. F = [i \in 1 .. n + 1 |-> F[i]] BY <1>4 DEF IsDefined
  <2> QED BY <2>3, <2>4
<1>6. f = CHOOSE g : g = Step(g)
  BY <1>1 DEF Lookup!visualizer, Lookup!None, Made, Class
<1>7. f = Step(f) BY <1>5, <1>6
<1> HIDE DEF f
<1>8. f[n + 1] = "none" BY <1>7
<1>9. \A i \in 1 .. n : f[i] = Made(i, f[i + 1])
  <2> SUFFICES ASSUME NEW i \in 1 .. n PROVE f[i] = Made(i, f[i + 1])
    OBVIOUS
  <2>1. i \in 1 .. n + 1 /\ i # n + 1 OBVIOUS
  <2> QED BY <1>7, <2>1
<1> QED BY <1>1, <1>8, <1>9 DEF f

\* What to_string, children and display_hint of the i-th layer answer if those
\* of the next answer t.
Text(i, t) ==
  IF Lookup!visualizer[i] \in {"none", "raises"} THEN "raises"
  ELSE IF \/ Lookup!visualizer[i] = "StackOrQueue"
          \/ /\ Lookup!visualizer[i] \in {"Any", "Optional"}
             /\ value[i].state = "full"
             /\ Lookup!HasChildren(Lookup!visualizer[i + 1])
       THEN t
       ELSE "text"
Given(i, t) ==
  IF ~Lookup!HasChildren(Lookup!visualizer[i]) THEN "raises"
  ELSE IF Lookup!visualizer[i] \notin Lookup!Wrappers THEN "elements"
  ELSE IF Lookup!visualizer[i] = "StackOrQueue" THEN t
  ELSE IF value[i].state # "full" THEN "nothing"
  ELSE IF Lookup!HasChildren(Lookup!visualizer[i + 1]) THEN t
  ELSE "contained"
Hint(i, t) ==
  CASE Lookup!visualizer[i] = "StackOrQueue" -> t
    [] Lookup!visualizer[i] \in {"Any", "Optional"} ->
          IF Lookup!HasChildren(Lookup!visualizer[i + 1]) THEN t ELSE "none"
    [] OTHER -> Lookup!OwnHint(Lookup!visualizer[i])

LEMMA TextsMade ==
  ASSUME Len(value) \in Nat
  PROVE  /\ Lookup!to_string[Len(value) + 1] = "raises"
         /\ \A i \in 1 .. Len(value) :
               /\ Lookup!to_string[i] = Text(i, Lookup!to_string[i + 1])
               /\ Lookup!to_string[i] \in {"raises", "text"}
<1>1. PICK n \in Nat : n = Len(value) OBVIOUS
<1> DEFINE V == {"raises", "text"}
           G == [p \in (1 .. n) \X V |-> Text(p[1], p[2])]
           Step(g) == [i \in 1 .. n + 1 |-> Text(i, g[i + 1])]
           f == Lookup!to_string
<1>2. \A i, t : t \in V => Text(i, t) \in V
  BY DEF Text
<1>3. G \in [(1 .. n) \X V -> V]
  <2> HIDE DEF V
  <2> QED BY <1>2
<1>4. PICK F : IsDefined(n, V, "raises", G, F)
  <2>1. "raises" \in V OBVIOUS
  <2> HIDE DEF V, G
  <2> QED BY <1>3, <2>1, Downwards
<1>5. \A t : Text(n + 1, t) = "raises"
  <2>1. Lookup!visualizer[n + 1] = "none" BY <1>1, VisualizersMade
  <2> QED BY <2>1 DEF Text
<1>6. F = Step(F)
  <2> HIDE DEF V
  <2>1. ASSUME NEW i \in 1 .. n PROVE F[i] = Text(i, F[i + 1])
    <3>1. i + 1 \in 1 .. n + 1 BY <1>1
    <3>2. F[i + 1] \in V BY <1>4, <3>1 DEF IsDefined
    <3> QED BY <1>4, <3>2 DEF IsDefined
  <2>2. \A i \in 1 .. n + 1 : i \in 1 .. n \/ i = n + 1 OBVIOUS
  <2>3. \A i \in 1 .. n + 1 : F[i] = Text(i, F[i + 1])
    BY <1>4, <1>5, <2>1, <2>2 DEF IsDefined
  <2>4. F = [i \in 1 .. n + 1 |-> F[i]] BY <1>4 DEF IsDefined
  <2> QED BY <2>3, <2>4
<1>7. f = CHOOSE g : g = Step(g)
  BY <1>1 DEF Lookup!to_string, Lookup!None, Text
<1>8. f = Step(f) BY <1>6, <1>7
<1> HIDE DEF f
<1>9. f[n + 1] = "raises"
  <2>1. n + 1 \in 1 .. n + 1 OBVIOUS
  <2>2. f[n + 1] = Text(n + 1, f[n + 1 + 1]) BY <1>8, <2>1
  <2> QED BY <1>5, <2>2
<1>10. \A i \in 1 .. n : f[i] = Text(i, f[i + 1])
  <2> SUFFICES ASSUME NEW i \in 1 .. n PROVE f[i] = Text(i, f[i + 1])
    OBVIOUS
  <2>1. i \in 1 .. n + 1 OBVIOUS
  <2> QED BY <1>8, <2>1
<1>11. \A i \in 1 .. n : f[i] \in V
  <2> DEFINE T == {i \in 1 .. n + 1 : f[i] \in V}
  <2> HIDE DEF V
  <2>1. PICK h \in Int : h = n + 1 /\ h - 1 = n /\ 1 <= h OBVIOUS
  <2>2. h \in T BY <1>9, <2>1 DEF V
  <2>3. \A k \in 1 .. h - 1 : k + 1 \in T => k \in T BY <1>2, <1>10, <2>1
  <2> HIDE DEF T
  <2>4. 1 .. h \subseteq T
    <3>1. 1 \in Int OBVIOUS
    <3> QED BY <2>1, <2>2, <2>3, <3>1, InductionDown, Zenon
  <2> QED BY <2>1, <2>4 DEF T
<1> QED BY <1>1, <1>9, <1>10, <1>11 DEF f

LEMMA ChildrenMade ==
  ASSUME Len(value) \in Nat
  PROVE  /\ Lookup!children[Len(value) + 1] = "raises"
         /\ \A i \in 1 .. Len(value) :
               /\ Lookup!children[i] = Given(i, Lookup!children[i + 1])
               /\ Lookup!children[i] \in {"raises", "elements", "nothing", "contained"}
<1>1. PICK n \in Nat : n = Len(value) OBVIOUS
<1> DEFINE V == {"raises", "elements", "nothing", "contained"}
           G == [p \in (1 .. n) \X V |-> Given(p[1], p[2])]
           Step(g) == [i \in 1 .. n + 1 |-> Given(i, g[i + 1])]
           f == Lookup!children
<1>2. \A i, t : t \in V => Given(i, t) \in V
  BY DEF Given, Lookup!HasChildren, Lookup!Wrappers
<1>3. G \in [(1 .. n) \X V -> V]
  <2> HIDE DEF V
  <2> QED BY <1>2
<1>4. PICK F : IsDefined(n, V, "raises", G, F)
  <2>1. "raises" \in V OBVIOUS
  <2> HIDE DEF V, G
  <2> QED BY <1>3, <2>1, Downwards
<1>5. \A t : Given(n + 1, t) = "raises"
  <2>1. Lookup!visualizer[n + 1] = "none" BY <1>1, VisualizersMade
  <2> QED BY <2>1 DEF Given, Lookup!HasChildren, Lookup!Wrappers
<1>6. F = Step(F)
  <2> HIDE DEF V
  <2>1. ASSUME NEW i \in 1 .. n PROVE F[i] = Given(i, F[i + 1])
    <3>1. i + 1 \in 1 .. n + 1 BY <1>1
    <3>2. F[i + 1] \in V BY <1>4, <3>1 DEF IsDefined
    <3> QED BY <1>4, <3>2 DEF IsDefined
  <2>2. \A i \in 1 .. n + 1 : i \in 1 .. n \/ i = n + 1 OBVIOUS
  <2>3. \A i \in 1 .. n + 1 : F[i] = Given(i, F[i + 1])
    BY <1>4, <1>5, <2>1, <2>2 DEF IsDefined
  <2>4. F = [i \in 1 .. n + 1 |-> F[i]] BY <1>4 DEF IsDefined
  <2> QED BY <2>3, <2>4
<1>7. f = CHOOSE g : g = Step(g)
  BY <1>1 DEF Lookup!children, Lookup!None, Given
<1>8. f = Step(f) BY <1>6, <1>7
<1> HIDE DEF f
<1>9. f[n + 1] = "raises"
  <2>1. n + 1 \in 1 .. n + 1 OBVIOUS
  <2>2. f[n + 1] = Given(n + 1, f[n + 1 + 1]) BY <1>8, <2>1
  <2> QED BY <1>5, <2>2
<1>10. \A i \in 1 .. n : f[i] = Given(i, f[i + 1])
  <2> SUFFICES ASSUME NEW i \in 1 .. n PROVE f[i] = Given(i, f[i + 1])
    OBVIOUS
  <2>1. i \in 1 .. n + 1 OBVIOUS
  <2> QED BY <1>8, <2>1
<1>11. \A i \in 1 .. n : f[i] \in V
  <2> DEFINE T == {i \in 1 .. n + 1 : f[i] \in V}
  <2> HIDE DEF V
  <2>1. PICK h \in Int : h = n + 1 /\ h - 1 = n /\ 1 <= h OBVIOUS
  <2>2. h \in T BY <1>9, <2>1 DEF V
  <2>3. \A k \in 1 .. h - 1 : k + 1 \in T => k \in T BY <1>2, <1>10, <2>1
  <2> HIDE DEF T
  <2>4. 1 .. h \subseteq T
    <3>1. 1 \in Int OBVIOUS
    <3> QED BY <2>1, <2>2, <2>3, <3>1, InductionDown, Zenon
  <2> QED BY <2>1, <2>4 DEF T
<1> QED BY <1>1, <1>9, <1>10, <1>11 DEF f

LEMMA HintsMade ==
  ASSUME Len(value) \in Nat
  PROVE  /\ Lookup!display_hint[Len(value) + 1] = "none"
         /\ \A i \in 1 .. Len(value) :
               /\ Lookup!display_hint[i] = Hint(i, Lookup!display_hint[i + 1])
               /\ Lookup!display_hint[i] \in {"array", "map", "string", "none"}
<1>1. PICK n \in Nat : n = Len(value) OBVIOUS
<1> DEFINE V == {"array", "map", "string", "none"}
           G == [p \in (1 .. n) \X V |-> Hint(p[1], p[2])]
           Step(g) == [i \in 1 .. n + 1 |-> Hint(i, g[i + 1])]
           f == Lookup!display_hint
<1>2. \A i, t : t \in V => Hint(i, t) \in V
  BY DEF Hint, Lookup!OwnHint
<1>3. G \in [(1 .. n) \X V -> V]
  <2> HIDE DEF V
  <2> QED BY <1>2
<1>4. PICK F : IsDefined(n, V, "none", G, F)
  <2>1. "none" \in V OBVIOUS
  <2> HIDE DEF V, G
  <2> QED BY <1>3, <2>1, Downwards
<1>5. \A t : Hint(n + 1, t) = "none"
  <2>1. Lookup!visualizer[n + 1] = "none" BY <1>1, VisualizersMade
  <2> QED BY <2>1 DEF Hint, Lookup!OwnHint
<1>6. F = Step(F)
  <2> HIDE DEF V
  <2>1. ASSUME NEW i \in 1 .. n PROVE F[i] = Hint(i, F[i + 1])
    <3>1. i + 1 \in 1 .. n + 1 BY <1>1
    <3>2. F[i + 1] \in V BY <1>4, <3>1 DEF IsDefined
    <3> QED BY <1>4, <3>2 DEF IsDefined
  <2>2. \A i \in 1 .. n + 1 : i \in 1 .. n \/ i = n + 1 OBVIOUS
  <2>3. \A i \in 1 .. n + 1 : F[i] = Hint(i, F[i + 1])
    BY <1>4, <1>5, <2>1, <2>2 DEF IsDefined
  <2>4. F = [i \in 1 .. n + 1 |-> F[i]] BY <1>4 DEF IsDefined
  <2> QED BY <2>3, <2>4
<1>7. f = CHOOSE g : g = Step(g)
  BY <1>1 DEF Lookup!display_hint, Lookup!None, Hint
<1>8. f = Step(f) BY <1>6, <1>7
<1> HIDE DEF f
<1>9. f[n + 1] = "none"
  <2>1. n + 1 \in 1 .. n + 1 OBVIOUS
  <2>2. f[n + 1] = Hint(n + 1, f[n + 1 + 1]) BY <1>8, <2>1
  <2> QED BY <1>5, <2>2
<1>10. \A i \in 1 .. n : f[i] = Hint(i, f[i + 1])
  <2> SUFFICES ASSUME NEW i \in 1 .. n PROVE f[i] = Hint(i, f[i + 1])
    OBVIOUS
  <2>1. i \in 1 .. n + 1 OBVIOUS
  <2> QED BY <1>8, <2>1
<1>11. \A i \in 1 .. n : f[i] \in V
  <2> DEFINE T == {i \in 1 .. n + 1 : f[i] \in V}
  <2> HIDE DEF V
  <2>1. PICK h \in Int : h = n + 1 /\ h - 1 = n /\ 1 <= h OBVIOUS
  <2>2. h \in T BY <1>9, <2>1 DEF V
  <2>3. \A k \in 1 .. h - 1 : k + 1 \in T => k \in T BY <1>2, <1>10, <2>1
  <2> HIDE DEF T
  <2>4. 1 .. h \subseteq T
    <3>1. 1 \in Int OBVIOUS
    <3> QED BY <2>1, <2>2, <2>3, <3>1, InductionDown, Zenon
  <2> QED BY <2>1, <2>4 DEF T
<1> QED BY <1>1, <1>9, <1>10, <1>11 DEF f

\* No row of the dictionary is for the two names that mean that there is no
\* printer.
LEMMA PrintersNamed ==
  ASSUME NEW type, Lookup!places(type) # {}
  PROVE  Lookup!lookup(type) \notin {"none", "raises"}
<1> DEFINE Fine(R) == \A t \in DOMAIN R : R[t] \notin {"none", "raises"}
<1>1. /\ Fine(Lookup!Containers) /\ Fine(Lookup!Adaptors)
      /\ Fine(Lookup!Shared) /\ Fine(Lookup!Experimental)
      /\ Fine(Lookup!Iterators) /\ Fine(Lookup!TreeIterators)
      /\ Fine(Lookup!Extensions)
  <2>1. Fine(Lookup!Containers)
    BY DEF Lookup!Containers
  <2>2. Fine(Lookup!Adaptors) /\ Fine(Lookup!Shared)
    BY DEF Lookup!Adaptors, Lookup!Shared
  <2>3. Fine(Lookup!Experimental) /\ Fine(Lookup!Iterators)
    BY DEF Lookup!Experimental, Lookup!Iterators
  <2>4. Fine(Lookup!TreeIterators) /\ Fine(Lookup!Extensions)
    BY DEF Lookup!TreeIterators, Lookup!Extensions
  <2> QED BY <2>1, <2>2, <2>3, <2>4
<1>2. Fine(Lookup!Restrict(Lookup!Containers, Lookup!Unordered))
  <2>1. Lookup!Unordered \subseteq DOMAIN Lookup!Containers
    BY DEF Lookup!Unordered, Lookup!Containers
  <2> QED BY <1>1, <2>1 DEF Lookup!Restrict
<1>3. /\ Fine([tuple |-> "Tuple", basic_string |-> "String"])
      /\ Fine([basic_string |-> "String"]) /\ Fine([path |-> "Path"])
      /\ Fine([_Safe_iterator |-> "DebugIterator"])
  OBVIOUS
<1>4. \A row \in Lookup!build_libstdcxx_dictionary : Fine(row.printers)
  <2> HIDE DEF Fine
  <2> QED BY <1>1, <1>2, <1>3 DEF Lookup!build_libstdcxx_dictionary
<1>5. Lookup!lookup(type) \in Lookup!places(type)
  BY DEF Lookup!lookup
<1>6. PICK row \in Lookup!build_libstdcxx_dictionary :
         /\ type[2] \in DOMAIN row.printers
         /\ Lookup!lookup(type) = row.printers[type[2]]
  BY <1>5 DEF Lookup!places
<1> QED BY <1>4, <1>6

LEMMA CalledNamed ==
  \A type : Lookup!called(type) # "raises"
<1> SUFFICES ASSUME NEW type PROVE Lookup!called(type) # "raises"
  OBVIOUS
<1>1. CASE Lookup!places(type) = {} \/ type \in disabled
  BY <1>1 DEF Lookup!called
<1>2. CASE ~(Lookup!places(type) = {} \/ type \in disabled)
  <2>1. Lookup!called(type) = Lookup!lookup(type) BY <1>2 DEF Lookup!called
  <2> QED BY <1>2, <2>1, PrintersNamed
<1> QED BY <1>1, <1>2

\* Without a stack around a container that has no children, and without
\* uninitialized memory, nothing is raised.
LEMMA ShownOnly ==
  ASSUME Len(value) \in Nat, DOMAIN value = 1 .. Len(value)
  PROVE  Lookup!RaisesOnly
<1>1. PICK n \in Nat : n = Len(value) OBVIOUS
<1>2. PICK h \in Int : h = n + 1 /\ h - 1 = n /\ 1 <= h OBVIOUS
<1> DEFINE class == Lookup!visualizer
           text == Lookup!to_string
           given == Lookup!children
<1> SUFFICES ASSUME \A i \in 1 .. n : /\ value[i].state \notin Lookup!Unreadable
                                      /\ class[i] = "StackOrQueue" =>
                                            Lookup!HasChildren(class[i + 1])
             PROVE  ~Lookup!raises
  BY <1>1 DEF Lookup!RaisesOnly
<1>3. /\ class[h] = "none" /\ text[h] = "raises" /\ given[h] = "raises"
      /\ \A i \in 1 .. n : /\ class[i] = Made(i, class[i + 1])
                           /\ text[i] = Text(i, text[i + 1])
                           /\ given[i] = Given(i, given[i + 1])
  BY <1>1, <1>2, VisualizersMade, TextsMade, ChildrenMade
<1> HIDE DEF class, text, given
<1>4. ~Lookup!HasChildren("none") /\ ~Lookup!HasChildren("raises")
  BY DEF Lookup!HasChildren, Lookup!Wrappers
<1> DEFINE T == {i \in 1 .. h : class[i] # "raises"}
           S == {i \in 1 .. h : class[i] # "none" => text[i] # "raises"}
           R == {i \in 1 .. h : Lookup!HasChildren(class[i]) =>
                                   given[i] # "raises"}
<1>5. 1 .. h \subseteq T
  <2>1. h \in T BY <1>2, <1>3
  <2>2. \A k \in 1 .. h - 1 : k + 1 \in T => k \in T
    <3> SUFFICES ASSUME NEW k \in 1 .. h - 1, k + 1 \in T
                 PROVE  k \in T
      OBVIOUS
    <3>1. k \in 1 .. n /\ k \in 1 .. h BY <1>2
    <3>2. /\ class[k] = Made(k, class[k + 1])
          /\ value[k].state \notin Lookup!Unreadable
      BY <1>3, <3>1
    <3>3. class[k + 1] # "raises" /\ Class(k) # "raises"
      BY CalledNamed DEF Class
    <3>4. class[k] # "raises" BY <3>2, <3>3, Zenon DEF Made
    <3> QED BY <3>1, <3>4
  <2>3. 1 \in Int OBVIOUS
  <2> HIDE DEF T
  <2> QED BY <1>2, <2>1, <2>2, <2>3, InductionDown, Zenon
<1>6. \A i \in 1 .. h : class[i] # "raises" BY <1>5
<1>7. 1 .. h \subseteq S
  <2>1. h \in S BY <1>2, <1>3
  <2>2. ASSUME NEW k \in 1 .. h - 1, k + 1 \in S
        PROVE  k \in S
    <3>1. k \in 1 .. n /\ k \in 1 .. h /\ k + 1 \in 1 .. h BY <1>2
    <3>2. text[k] = Text(k, text[k + 1]) /\ class[k] # "raises"
      BY <1>3, <1>6, <3>1
    <3>3. Lookup!HasChildren(class[k + 1]) => text[k + 1] # "raises"
      BY <1>4, <2>2
    <3>4. class[k] = "StackOrQueue" => text[k + 1] # "raises" BY <3>1, <3>3
    <3>5. class[k] # "none" => Text(k, text[k + 1]) # "raises"
      BY <3>2, <3>3, <3>4, Zenon DEF Text, class
    <3> QED BY <3>1, <3>2, <3>5
  <2>3. 1 \in Int OBVIOUS
  <2> HIDE DEF S
  <2> QED BY <1>2, <2>1, <2>2, <2>3, InductionDown, Zenon
<1>8. 1 .. h \subseteq R
  <2>1. h \in R BY <1>2, <1>3, <1>4
  <2>2. ASSUME NEW k \in 1 .. h - 1, k + 1 \in R
        PROVE  k \in R
    <3>1. k \in 1 .. n /\ k \in 1 .. h /\ k + 1 \in 1 .. h BY <1>2
    <3>2. given[k] = Given(k, given[k + 1]) BY <1>3, <3>1
    <3>3. Lookup!HasChildren(class[k + 1]) => given[k + 1] # "raises" BY <2>2
    <3>4. class[k] = "StackOrQueue" => given[k + 1] # "raises" BY <3>1, <3>3
    <3>5. Lookup!HasChildren(class[k]) => Given(k, given[k + 1]) # "raises"
      BY <3>3, <3>4 DEF Given, class
    <3> QED BY <3>1, <3>2, <3>5
  <2>3. 1 \in Int OBVIOUS
  <2> HIDE DEF R
  <2> QED BY <1>2, <2>1, <2>2, <2>3, InductionDown, Zenon
<1>9. 1 \in 1 .. h BY <1>2
<1>10. /\ class[1] # "raises"
       /\ class[1] # "none" => text[1] # "raises"
       /\ Lookup!HasChildren(class[1]) => given[1] # "raises"
  BY <1>5, <1>7, <1>8, <1>9
<1>11. Lookup!raises =>
          \/ class[1] = "raises"
          \/ class[1] # "none" /\ text[1] = "raises"
          \/ Lookup!HasChildren(class[1]) /\ given[1] = "raises"
  BY Zenon DEF Lookup!raises, class, text, given
<1> QED BY <1>10, <1>11, Zenon

\* What is given as the contained value, by an any or optional around a value
\* without children, has no hint.
LEMMA HintsFit ==
  ASSUME Len(value) \in Nat
  PROVE  Lookup!HintFits
<1>1. PICK n \in Nat : n = Len(value) OBVIOUS
<1>2. PICK h \in Int : h = n + 1 /\ h - 1 = n /\ 1 <= h OBVIOUS
<1> DEFINE class == Lookup!visualizer
           given == Lookup!children
           hint == Lookup!display_hint
<1>3. /\ class[h] = "none" /\ given[h] = "raises" /\ hint[h] = "none"
      /\ \A i \in 1 .. n :
            /\ given[i] = Given(i, given[i + 1])
            /\ given[i] \in {"raises", "elements", "nothing", "contained"}
            /\ hint[i] = Hint(i, hint[i + 1])
  BY <1>1, <1>2, VisualizersMade, ChildrenMade, HintsMade
<1> HIDE DEF class, given, hint
<1> DEFINE T == {i \in 1 .. h : given[i] = "contained" => hint[i] = "none"}
<1>4. 1 .. h \subseteq T
  <2>1. h \in T BY <1>2, <1>3
  <2>2. ASSUME NEW k \in 1 .. h - 1, k + 1 \in T
        PROVE  k \in T
    <3>1. k \in 1 .. n /\ k \in 1 .. h BY <1>2
    <3>2. given[k] = Given(k, given[k + 1]) /\ hint[k] = Hint(k, hint[k + 1])
      BY <1>3, <3>1
    <3>3. given[k + 1] = "contained" => hint[k + 1] = "none" BY <2>2
    <3>4. ASSUME given[k] = "contained" PROVE hint[k] = "none"
      <4>1. /\ class[k] \in {"StackOrQueue", "Any", "Optional"}
            /\ \/ given[k + 1] = "contained"
               \/ /\ class[k] # "StackOrQueue"
                  /\ ~Lookup!HasChildren(class[k + 1])
        BY <3>2, <3>4 DEF Given, class, Lookup!Wrappers
      <4>2. CASE class[k] = "StackOrQueue"
        BY <3>2, <3>3, <4>1, <4>2, Zenon DEF Hint, class
      <4>3. CASE class[k] # "StackOrQueue"
        BY <3>2, <3>3, <4>1, <4>3, Zenon DEF Hint, class
      <4> QED BY <4>2, <4>3
    <3> QED BY <3>1, <3>4
  <2>3. 1 \in Int OBVIOUS
  <2> HIDE DEF T
  <2> QED BY <1>2, <2>1, <2>2, <2>3, InductionDown, Zenon
<1>5. 1 \in 1 .. h /\ (1 \in 1 .. n \/ 1 = h) BY <1>2
<1>6. given[1] \in {"raises", "elements", "nothing", "contained"} BY <1>3, <1>5
<1>7. given[1] = "contained" => hint[1] = "none" BY <1>4, <1>5
<1> SUFFICES ASSUME class[1] \in Lookup!Wrappers, ~Lookup!raises,
                    hint[1] # "none"
             PROVE  given[1] \in {"elements", "nothing"}
  BY DEF Lookup!HintFits, class, given, hint
<1>8. Lookup!HasChildren(class[1])
  BY DEF Lookup!HasChildren
<1>9. given[1] # "raises" BY <1>8 DEF Lookup!raises, class, given
<1> QED BY <1>6, <1>7, <1>9
-----------------------------------------------------------------------------
(* The tuples.                                                             *)

\* The iterator is cast to the level of the element that is next; behind the
\* last one it is None, or at the empty level of the older library.
TupleLevel(n, k) ==
  IF k < n THEN Tower!Level(k)
  ELSE IF n = 0 THEN Tower!Top
  ELSE IF gcc = 5 THEN Tower!None ELSE Tower!Level(n)

TupleIterates ==
  mode = "listing" =>
    /\ Len(listed) <= Len(contents)
    /\ count = Len(listed)
    /\ head = TupleLevel(Len(contents), Len(listed))

TupleInv == /\ Tower!TypeOK
            /\ Len(contents) <= 4
            /\ TupleIterates
            /\ Idle

LEMMA TupleTyped ==
  ASSUME TupleInv
  PROVE  /\ contents \in Seq(Values) /\ Len(contents) \in 0 .. 4
         /\ listed \in Seq(Nat \X Values) /\ Len(listed) \in Nat
         /\ \A i \in 1 .. Len(contents) : contents[i] \in Values
         /\ gcc \in {4, 5}
<1>1. contents \in Seq(Values) /\ listed \in Seq(Nat \X Values)
  BY DEF TupleInv, Tower!TypeOK
<1>2. Len(contents) \in Nat /\ Len(listed) \in Nat BY <1>1, LenProperties
<1>3. \A i \in 1 .. Len(contents) : contents[i] \in Values
  BY <1>1, ElementOfSeq
<1>4. Len(contents) <= 4 /\ gcc \in {4, 5}
  BY DEF TupleInv, Tower!TypeOK
<1>5. Len(contents) \in 0 .. 4
  <2>1. \A n \in Nat : n <= 4 => n \in 0 .. 4 OBVIOUS
  <2> QED BY <1>2, <1>4, <2>1, Zenon
<1> QED BY <1>1, <1>2, <1>3, <1>4, <1>5, Zenon

LEMMA TupleInit == Tower!Init => TupleInv
<1> SUFFICES ASSUME Tower!Init PROVE TupleInv
  OBVIOUS
<1>1. PICK n \in 0 .. 4 : contents \in [1 .. n -> Values]
  BY DEF Tower!Init
<1>2. contents \in Seq(Values) /\ Len(contents) = n BY <1>1
<1>3. Tower!TypeOK BY <1>2 DEF Tower!Init, Tower!TypeOK
<1> QED BY <1>2, <1>3 DEF Tower!Init, TupleInv, TupleIterates, Idle

\* The bases of a level.
LEMMA TupleFields ==
  ASSUME TupleInv, NEW n, n = Len(contents), NEW k \in 0 .. n
  PROVE  /\ Tower!fields(Tower!Top) =
              IF n = 0 THEN <<>> ELSE << Tower!Level(0) >>
         /\ Tower!fields(Tower!Level(k)) =
              IF k = n THEN <<>>
              ELSE IF k = n - 1 /\ gcc = 5 THEN << <<"head", k>> >>
              ELSE << Tower!Level(k + 1), <<"head", k>> >>
<1>1. n \in 0 .. 4
  BY TupleTyped
<1>2. Tower!Level(k) # Tower!Top /\ Tower!Level(k)[2] = k
  BY DEF Tower!Level, Tower!Top
<1> QED BY <1>1, <1>2 DEF Tower!fields

\* The head of an element shows it, whether it is derived from it or not.
LEMMA TupleShown ==
  ASSUME NEW k \in Nat
  PROVE  Tower!Shown(<<"head", k>>) = contents[k + 1]
BY DEF Tower!Shown, Tower!FirstField, Tower!Itself, Tower!Member

LEMMA TupleChildren ==
  ASSUME TupleInv, Tower!Children
  PROVE  TupleInv'
<1>1. PICK n \in 0 .. 4 : n = Len(contents)
  BY TupleTyped
<1>2. /\ mode = "running" /\ mode' = "listing" /\ count' = 0
      /\ gcc' = gcc /\ derived' = derived /\ contents' = contents
      /\ listed' = listed /\ listed = <<>>
  BY DEF Tower!Children, Tower!tuple, TupleInv, Idle
<1>3. head' = TupleLevel(n, 0)
  <2>1. /\ Tower!fields(Tower!Top) =
             IF n = 0 THEN <<>> ELSE << Tower!Level(0) >>
        /\ head' = IF Len(Tower!fields(Tower!Top)) = 1
                   THEN Tower!fields(Tower!Top)[1] ELSE Tower!Top
    BY <1>1, TupleFields DEF Tower!Children
  <2>2. CASE n = 0
    <3>1. head' = Tower!Top BY <2>1, <2>2
    <3> QED BY <2>2, <3>1 DEF TupleLevel
  <2>3. CASE n # 0
    <3>1. Tower!fields(Tower!Top) = << Tower!Level(0) >> BY <2>1, <2>3
    <3>2. head' = Tower!Level(0) BY <2>1, <3>1
    <3> QED BY <1>1, <2>3, <3>2 DEF TupleLevel
  <2> QED BY <2>2, <2>3
<1>4. head' \in {Tower!None, Tower!Top} \union {Tower!Level(i) : i \in 0 .. 4}
  BY <1>1, <1>3, TupleTyped DEF TupleLevel
<1>5. TupleLevel(n, 0)' = TupleLevel(n, 0) BY <1>2 DEF TupleLevel
<1> QED
  BY <1>1, <1>2, <1>3, <1>4, <1>5
     DEF TupleInv, Tower!TypeOK, TupleIterates, Idle

\* What __next__ finds at the iterator.
TupleAt(n, k) ==
  /\ head # Tower!None
  /\ Tower!fields(head) =
       IF k = n - 1 /\ gcc = 5 THEN << <<"head", k>> >>
       ELSE << Tower!Level(k + 1), <<"head", k>> >>
  /\ Tower!Shown(<<"head", k>>) = contents[k + 1]
  /\ contents[k + 1] \in Values

LEMMA TupleElementIs ==
  ASSUME TupleInv, mode = "listing", NEW n, n = Len(contents),
         NEW k, k = Len(listed)
  PROVE  /\ k \in 0 .. n /\ n \in 0 .. 4
         /\ k < n => TupleAt(n, k)
         /\ k = n => Tower!AtEnd
<1>1. k \in 0 .. n /\ n \in 0 .. 4 /\ head = TupleLevel(n, k)
  BY TupleTyped DEF TupleInv, TupleIterates
<1>2. ASSUME k < n PROVE TupleAt(n, k)
  <2>1. head = Tower!Level(k) BY <1>1, <1>2 DEF TupleLevel
  <2>2. Tower!Level(k) # Tower!None
    BY DEF Tower!Level, Tower!None
  <2>3. k # n /\ k \in Nat /\ k + 1 \in 1 .. Len(contents) BY <1>1, <1>2
  <2>4. Tower!fields(Tower!Level(k)) =
          IF k = n - 1 /\ gcc = 5 THEN << <<"head", k>> >>
          ELSE << Tower!Level(k + 1), <<"head", k>> >>
    BY <1>1, <2>3, TupleFields
  <2> QED BY <2>1, <2>2, <2>3, <2>4, TupleShown, TupleTyped DEF TupleAt
<1>3. ASSUME k = n PROVE Tower!AtEnd
  <2>1. CASE n = 0 BY <1>1, <1>3, <2>1, TupleFields DEF TupleLevel, Tower!AtEnd
  <2>2. CASE n # 0 /\ gcc = 5 BY <1>1, <1>3, <2>2 DEF TupleLevel, Tower!AtEnd
  <2>3. CASE n # 0 /\ gcc # 5
    <3>1. head = Tower!Level(n) BY <1>1, <1>3, <2>3 DEF TupleLevel
    <3>2. Tower!fields(Tower!Level(n)) = <<>> BY <1>1, <1>3, TupleFields
    <3> QED BY <3>1, <3>2 DEF Tower!AtEnd
  <2> QED BY <2>1, <2>2, <2>3
<1> QED BY <1>1, <1>2, <1>3

\* At the end of the tuple there is no field.
LEMMA TupleEnds ==
  ASSUME TupleInv, mode = "listing", Tower!AtEnd
  PROVE  Len(listed) = Len(contents)
<1>1. PICK n, k : n = Len(contents) /\ k = Len(listed) OBVIOUS
<1> SUFFICES ASSUME k # n PROVE FALSE
  BY <1>1
<1>2. k \in 0 .. n /\ n \in 0 .. 4 /\ k < n
  <2>1. k \in 0 .. n /\ n \in 0 .. 4 BY <1>1, TupleElementIs
  <2> QED BY <2>1
<1>3. TupleAt(n, k) BY <1>1, <1>2, TupleElementIs
<1>4. Tower!fields(head) # <<>> BY <1>3 DEF TupleAt
<1> QED BY <1>3, <1>4 DEF TupleAt, Tower!AtEnd

\* An element is taken from the head that belongs to it.
LEMMA TupleTakes ==
  ASSUME TupleInv, Tower!Last \/ Tower!Element,
         NEW n, n = Len(contents), NEW k, k = Len(listed)
  PROVE  /\ k \in 0 .. n - 1 /\ n \in 1 .. 4
         /\ mode = "listing" /\ mode' = "listing"
         /\ gcc' = gcc /\ derived' = derived /\ contents' = contents
         /\ count' = k + 1 /\ head' = TupleLevel(n, k + 1)
         /\ listed' = Append(listed, <<k + 1, contents[k + 1]>>)
         /\ contents[k + 1] \in Values
<1>1. /\ mode = "listing" /\ mode' = mode
      /\ gcc' = gcc /\ derived' = derived /\ contents' = contents
      /\ head # Tower!None /\ Tower!fields(head) # <<>>
      /\ count' = count + 1
  BY DEF Tower!Last, Tower!Element, Tower!tuple
<1>2. k \in 0 .. n /\ n \in 0 .. 4 /\ (k = n => Tower!AtEnd)
  BY <1>1, TupleElementIs
<1>3. k < n BY <1>1, <1>2 DEF Tower!AtEnd
<1>4. k \in 0 .. n - 1 /\ n \in 1 .. 4 /\ count' = k + 1
  BY <1>1, <1>2, <1>3 DEF TupleInv, TupleIterates
<1>5. TupleAt(n, k) BY <1>1, <1>3, TupleElementIs
<1> USE DEF TupleAt
<1>6. CASE k = n - 1 /\ gcc = 5
  <2>1. Tower!fields(head) = << <<"head", k>> >> BY <1>5, <1>6
  <2>2. Tower!Last BY <2>1 DEF Tower!Element
  <2>3. head' = Tower!None BY <2>2 DEF Tower!Last
  <2>4. TupleLevel(n, k + 1) = Tower!None BY <1>4, <1>6 DEF TupleLevel
  <2>5. listed' = Append(listed, <<k + 1, contents[k + 1]>>)
    BY <1>4, <1>5, <2>1, <2>2 DEF Tower!Last
  <2> QED BY <1>1, <1>4, <1>5, <2>3, <2>4, <2>5
<1>7. CASE ~(k = n - 1 /\ gcc = 5)
  <2>1. Tower!fields(head) = << Tower!Level(k + 1), <<"head", k>> >>
    BY <1>5, <1>7
  <2>2. Tower!Element BY <2>1 DEF Tower!Last
  <2>3. head' = Tower!Level(k + 1) BY <2>1, <2>2 DEF Tower!Element
  <2>4. TupleLevel(n, k + 1) = Tower!Level(k + 1)
    <3>1. CASE k + 1 < n BY <3>1 DEF TupleLevel
    <3>2. CASE k + 1 = n /\ gcc # 5 BY <1>4, <3>2 DEF TupleLevel
    <3> QED BY <1>4, <1>7, <3>1, <3>2
  <2>5. listed' = Append(listed, <<k + 1, contents[k + 1]>>)
    BY <1>4, <1>5, <2>1, <2>2 DEF Tower!Element
  <2> QED BY <1>1, <1>4, <1>5, <2>3, <2>4, <2>5
<1> QED BY <1>6, <1>7

LEMMA TupleElement ==
  ASSUME TupleInv, Tower!Last \/ Tower!Element
  PROVE  TupleInv'
<1>1. PICK n, k : n = Len(contents) /\ k = Len(listed) OBVIOUS
<1>2. /\ k \in 0 .. n - 1 /\ n \in 1 .. 4
      /\ mode = "listing" /\ mode' = "listing"
      /\ gcc' = gcc /\ derived' = derived /\ contents' = contents
      /\ count' = k + 1 /\ head' = TupleLevel(n, k + 1)
      /\ listed' = Append(listed, <<k + 1, contents[k + 1]>>)
      /\ contents[k + 1] \in Values
  BY <1>1, TupleTakes
<1>3. listed' \in Seq(Nat \X Values) /\ Len(listed') = k + 1
  <2>1. listed \in Seq(Nat \X Values)
    BY TupleTyped
  <2>2. <<k + 1, contents[k + 1]>> \in Nat \X Values BY <1>2
  <2> QED BY <1>1, <1>2, <2>1, <2>2, AppendProperties
<1>4. head' \in {Tower!None, Tower!Top} \union {Tower!Level(i) : i \in 0 .. 4}
  BY <1>2, TupleTyped DEF TupleLevel
<1>5. TupleLevel(n, k + 1)' = TupleLevel(n, k + 1) BY <1>2 DEF TupleLevel
<1> QED
  BY <1>1, <1>2, <1>3, <1>4, <1>5
     DEF TupleInv, Tower!TypeOK, TupleIterates, Idle

LEMMA TupleStep ==
  ASSUME TupleInv, Tower!Next
  PROVE  TupleInv'
<1>1. CASE Tower!Children BY <1>1, TupleChildren
<1>2. CASE Tower!Last \/ Tower!Element BY <1>2, TupleElement
<1>3. CASE Tower!StopIteration
  BY <1>3 DEF Tower!StopIteration, Tower!tuple, TupleInv, Tower!TypeOK,
              TupleIterates, Idle
<1>4. CASE Tower!Continue
  BY <1>4 DEF Tower!Continue, Tower!tuple, TupleInv, Tower!TypeOK,
              TupleIterates, Idle
<1> QED BY <1>1, <1>2, <1>3, <1>4 DEF Tower!Next
-----------------------------------------------------------------------------
(* The values that are looked up are sequences of layers.                  *)

Types == Names \union {<<<<"std">>, "stack">>, <<FundamentalsTS, "any">>,
                        <<FundamentalsTS, "optional">>}
States == {"full", "empty", "junk", "opaque"}
IsLayer(x) == x.state \in States /\ x.type \in Types
Layered(v) == \E S : v \in Seq(S) /\ \A x \in S : IsLayer(x)

LEMMA NoLayer == Layered(<<>>)
<1>1. PICK S : S = {} OBVIOUS
<1>2. <<>> \in Seq(S) /\ \A y \in S : IsLayer(y) BY <1>1
<1> QED BY <1>2, Zenon DEF Layered

LEMMA OneLayer ==
  ASSUME NEW x, IsLayer(x)
  PROVE  Layered(<<x>>)
<1>1. PICK S : S = {x} OBVIOUS
<1>2. <<x>> \in Seq(S) /\ \A y \in S : IsLayer(y) BY <1>1
<1> QED BY <1>2, Zenon DEF Layered

LEMMA MoreLayers ==
  ASSUME NEW x, IsLayer(x), NEW v, Layered(v)
  PROVE  Layered(<<x>> \o v)
<1>1. PICK S : v \in Seq(S) /\ \A y \in S : IsLayer(y)
  BY DEF Layered
<1>2. <<x>> \in Seq(S \union {x}) /\ v \in Seq(S \union {x}) BY <1>1
<1>3. <<x>> \o v \in Seq(S \union {x}) BY <1>2
<1>4. \A y \in S \union {x} : IsLayer(y) BY <1>1
<1> QED BY <1>3, <1>4 DEF Layered

LEMMA LayersAround ==
  ASSUME NEW values, \A v \in values : Layered(v)
  PROVE  \A v \in Around(values) : Layered(v)
<1>1. Layered(<<>>)
  BY NoLayer
<1> SUFFICES ASSUME NEW u \in Around(values)
             PROVE  Layered(u)
  OBVIOUS
<1> DEFINE wrap(n, state, v) == <<[type |-> n, state |-> state]>> \o v
           any == <<FundamentalsTS, "any">>
           optional == <<FundamentalsTS, "optional">>
           A == {wrap(<<<<"std">>, "stack">>, "full", v) :
                   v \in {v \in values : v # <<>> /\ Head(v).type[2] \in
                                      {"vector", "list", "basic_string"}}}
           B == {wrap(any, "full", v) : v \in values}
           C == {wrap(any, state, <<>>) : state \in {"empty", "opaque"}}
           D == {wrap(optional, state, v) :
                     state \in {"full", "empty"}, v \in values}
           E == wrap(optional, "empty", wrap(any, "junk", <<>>))
<1>8. /\ <<<<"std">>, "stack">> \in Types /\ any \in Types
      /\ optional \in Types
  BY DEF Types
<1>2. ASSUME NEW n \in Types, NEW state \in States, NEW v, Layered(v)
      PROVE  Layered(wrap(n, state, v))
  <2>1. PICK x : x = [type |-> n, state |-> state] OBVIOUS
  <2>2. IsLayer(x) BY <2>1 DEF IsLayer
  <2>3. Layered(<<x>> \o v) BY <1>2, <2>2, MoreLayers
  <2> QED BY <2>1, <2>3
<1>3. Around(values) = A \union B \union C \union D \union {E}
  BY DEF Around
<1>4. Layered(E)
  <2>1. Layered(wrap(any, "junk", <<>>)) BY <1>1, <1>2, <1>8 DEF States
  <2> QED BY <1>1, <1>2, <1>8, <2>1 DEF States
<1>9. ASSUME u \in C PROVE Layered(u)
  <2> HIDE DEF wrap
  <2>1. PICK state \in {"empty", "opaque"} : u = wrap(any, state, <<>>) BY <1>9
  <2> QED BY <1>1, <1>2, <1>8, <2>1 DEF States
<1>5. ASSUME u \in A PROVE Layered(u)
  <2>1. PICK v \in values : u = wrap(<<<<"std">>, "stack">>, "full", v) BY <1>5
  <2>2. Layered(wrap(<<<<"std">>, "stack">>, "full", v))
    BY <1>2, <1>8 DEF States
  <2> QED BY <2>1, <2>2
<1>6. ASSUME u \in B PROVE Layered(u)
  <2>1. PICK v \in values : u = wrap(any, "full", v) BY <1>6
  <2>2. Layered(wrap(any, "full", v)) BY <1>2, <1>8 DEF States
  <2> QED BY <2>1, <2>2
<1>7. ASSUME u \in D PROVE Layered(u)
  <2> HIDE DEF wrap
  <2>1. PICK state \in {"full", "empty"}, v \in values :
           u = wrap(optional, state, v)
    BY <1>7
  <2>2. Layered(wrap(optional, state, v)) BY <1>2, <1>8 DEF States
  <2> QED BY <2>1, <2>2
<1> HIDE DEF A, B, C, D, E
<1> QED BY <1>3, <1>4, <1>5, <1>6, <1>7, <1>9

LEMMA LayersOfSubjects == Lookup!Init => Layered(value)
<1>1. \A n \in Names : Layered(<<Form(n[1], n[2])>>)
  <2> SUFFICES ASSUME NEW n \in Names PROVE Layered(<<Form(n[1], n[2])>>)
    OBVIOUS
  <2>1. <<n[1], n[2]>> = n
    BY DEF Names
  <2>2. IsLayer(Form(n[1], n[2])) BY <2>1 DEF Form, IsLayer, States, Types
  <2> QED BY <2>2, OneLayer
<1>2. \A v \in Bare : Layered(v)
  <2>1. {<<<<"std">>, "vector">>, <<<<"std">>, "map">>,
         <<<<"std", "__cxx11">>, "list">>,
         <<<<"std", "__cxx11">>, "basic_string">>} \subseteq Names
    BY DEF Names, Modes
  <2> QED BY <1>1, <2>1, NoLayer DEF Bare
<1>3. \A v \in Around(Bare) : Layered(v) BY <1>2, LayersAround
<1>4. \A v \in Around(Around(Bare)) : Layered(v) BY <1>3, LayersAround
<1> QED BY <1>1, <1>3, <1>4 DEF Lookup!Init

LookupInv == Lookup!TypeOK /\ Layered(value)

LEMMA LookupInit == Lookup!Init => LookupInv
<1> SUFFICES ASSUME Lookup!Init PROVE LookupInv
  OBVIOUS
<1>1. Layered(value)
  BY LayersOfSubjects
<1>2. PICK S : value \in Seq(S) /\ \A x \in S : IsLayer(x) BY <1>1 DEF Layered
<1>3. \A i \in DOMAIN value : value[i] \in S BY <1>2
<1> QED
  BY <1>1, <1>2, <1>3 DEF LookupInv, Lookup!Init, Lookup!TypeOK, IsLayer, States,
                           Lookup!Unreadable

LEMMA LookupStep ==
  ASSUME LookupInv, Lookup!Next
  PROVE  LookupInv'
<1>1. value' = value
  BY DEF Lookup!Next, Lookup!Switch, Lookup!SwitchMethod
<1>2. "size" \in Lookup!matchers["vector"]
  BY DEF Lookup!matchers, Lookup!VectorMethods
<1>3. \A m \in {<<"vector", "size">>} : m[2] \in Lookup!matchers[m[1]] BY <1>2
<1>4. Lookup!TypeOK'
  <2> USE DEF LookupInv, Lookup!TypeOK
  <2>1. ASSUME NEW name \in {<<<<"std">>, "vector">>, <<<<"std">>, "stack">>,
                             <<FundamentalsTS, "any">>},
               Lookup!Switch(name)
        PROVE  Lookup!TypeOK'
    BY <1>1, <2>1 DEF Lookup!Switch
  <2>2. ASSUME NEW m \in {<<"vector", "size">>}, Lookup!SwitchMethod(m)
        PROVE  Lookup!TypeOK'
    BY <1>1, <1>3, <2>2 DEF Lookup!SwitchMethod
  <2> QED BY <2>1, <2>2 DEF Lookup!Next
<1> QED BY <1>1, <1>4 DEF LookupInv
-----------------------------------------------------------------------------
(* The listings: what Listing allows, of a container that holds c and then  *)
(* d, and of which l and then m has been listed.                            *)

Changes(l, m) == mode = "running" /\ mode' = mode /\ m = l
Starts(c, d, l, m) ==
  mode = "running" /\ mode' = "listing" /\ d = c /\ m = l
Emits(c, d, l, m) ==
  /\ mode = "listing" /\ mode' = mode /\ d = c
  /\ Len(l) < Len(c) /\ m = Append(l, <<Len(l), c[Len(l) + 1]>>)
Finishes(c, d, l, m) ==
  /\ mode = "listing" /\ mode' = "listed" /\ d = c /\ m = l
  /\ Len(l) = Len(c)
Resumes(c, d, m) ==
  mode \in {"listing", "listed"} /\ mode' = "running" /\ d = c /\ m = <<>>

Allowed(c, d, l, m) ==
  \/ Changes(l, m) \/ Starts(c, d, l, m) \/ Emits(c, d, l, m)
  \/ Finishes(c, d, l, m) \/ Resumes(c, d, m)

LEMMA AllowedIsNext ==
  ASSUME Allowed(held, held', numbered, numbered')
  PROVE  L!Next
<1>1. CASE Changes(numbered, numbered') BY <1>1 DEF Changes, L!Next, L!Change
<1>2. CASE Starts(held, held', numbered, numbered')
  BY <1>2 DEF Starts, L!Next, L!Start
<1>3. CASE Emits(held, held', numbered, numbered')
  <2>1. \A n : n \in Nat => n + 0 = n OBVIOUS
  <2> QED BY <1>3, <2>1 DEF Emits, L!Next, L!Emit
<1>4. CASE Finishes(held, held', numbered, numbered')
  BY <1>4 DEF Finishes, L!Next, L!Finish
<1>5. CASE Resumes(held, held', numbered')
  BY <1>5 DEF Resumes, L!Next, L!Resume
<1> QED BY <1>1, <1>2, <1>3, <1>4, <1>5 DEF Allowed

LEMMA DequeLists ==
  ASSUME DequeInv, Next
  PROVE  Allowed(contents, contents', listed, listed')
<1>1. CASE \E v \in Values : PushBack(v) \/ PushFront(v)
  BY <1>1 DEF PushBack, PushFront, Allowed, Changes
<1>2. CASE PopBack \/ PopFront BY <1>2 DEF PopBack, PopFront, Allowed, Changes
<1>3. CASE Children BY <1>3 DEF Children, container, Allowed, Starts
<1>4. CASE Element
  <2>1. /\ mode = "listing" /\ mode' = mode /\ contents' = contents
        /\ iter.p # iter.last
        /\ listed' = Append(listed, <<iter.count, cells[iter.p]>>)
    BY <1>4 DEF Element, container
  <2>2. /\ Len(listed) < Len(contents) /\ iter.count = Len(listed)
        /\ cells[iter.p] = contents[Len(listed) + 1]
    BY <2>1, DequeElementIs
  <2> QED BY <2>1, <2>2 DEF Allowed, Emits
<1>5. CASE StopIteration
  <2>1. /\ mode = "listing" /\ mode' = "listed" /\ contents' = contents
        /\ listed' = listed /\ iter.p = iter.last
    BY <1>5 DEF StopIteration, container
  <2>2. /\ Len(listed) \in Nat /\ Len(contents) \in Nat
        /\ DequeFirst \in Nat /\ DequeLast \in Nat /\ buffer_size \in Nat \ {0}
        /\ DequeLast = DequeFirst + Len(contents)
    BY DequeTyped DEF DequeInv, DequeRow
  <2>3. /\ iter.p = Spot(buffer_size, DequeFirst + Len(listed))
        /\ iter.last = Cur(finish)
    BY <2>1 DEF DequeInv, DequeIterates
  <2>4. Cur(finish) = Spot(buffer_size, DequeLast)
    BY DequeSpots DEF DequeInv
  <2>5. DequeFirst + Len(listed) \in Nat BY <2>2
  <2>6. DequeFirst + Len(listed) = DequeLast
    BY <2>1, <2>2, <2>3, <2>4, <2>5, SpotsDiffer
  <2>7. Len(listed) = Len(contents) BY <2>2, <2>6
  <2> QED BY <2>1, <2>7 DEF Allowed, Finishes
<1>6. CASE Continue BY <1>6 DEF Continue, container, Allowed, Resumes
<1> QED BY <1>1, <1>2, <1>3, <1>4, <1>5, <1>6 DEF Next

LEMMA VectorLists ==
  ASSUME NEW bv \in BOOLEAN, NEW sz \in Nat \ {0}, NEW vs, NEW mx \in Nat,
         VectorInv(bv, sz, vs, mx), Vec(bv, sz, vs, mx)!Next
  PROVE  Allowed(contents, contents', listed, listed')
<1>1. CASE \E n \in 1 .. mx : Vec(bv, sz, vs, mx)!Reserve(n)
  BY <1>1 DEF Vec!Reserve, Allowed, Changes
<1>2. CASE \/ \E v \in vs : Vec(bv, sz, vs, mx)!PushBack(v)
           \/ Vec(bv, sz, vs, mx)!PopBack
  BY <1>2 DEF Vec!PushBack, Vec!PopBack, Allowed, Changes
<1>3. CASE Vec(bv, sz, vs, mx)!Children
  BY <1>3 DEF Vec!Children, Vec!container, Allowed, Starts
<1>4. CASE Vec(bv, sz, vs, mx)!Bit \/ Vec(bv, sz, vs, mx)!Element
  <2>1. /\ mode = "listing" /\ mode' = mode /\ contents' = contents
        /\ ~Vec(bv, sz, vs, mx)!AtEnd
        /\ listed' = Append(listed, <<iter.count, cells[<<iter.item, iter.so>>]>>)
    BY <1>4 DEF Vec!Bit, Vec!Element, Vec!container, Vec!element
  <2>2. /\ Len(listed) # Len(contents) /\ Len(listed) <= Len(contents)
        /\ iter.count = Len(listed)
        /\ cells[<<iter.item, iter.so>>] = contents[Len(listed) + 1]
    BY <2>1, VectorElementIs
  <2>3. Len(listed) \in Nat /\ Len(contents) \in Nat
    <3>1. contents \in Seq(vs) /\ listed \in Seq(Nat \X vs)
      BY DEF VectorInv, Vec!TypeOK
    <3> QED BY <3>1, LenProperties
  <2>4. Len(listed) < Len(contents) BY <2>2, <2>3
  <2> QED BY <2>1, <2>2, <2>4 DEF Allowed, Emits
<1>5. CASE Vec(bv, sz, vs, mx)!StopIteration
  <2>1. /\ mode = "listing" /\ mode' = "listed" /\ contents' = contents
        /\ listed' = listed /\ Vec(bv, sz, vs, mx)!AtEnd
    BY <1>5 DEF Vec!StopIteration, Vec!container
  <2>2. Len(listed) = Len(contents) BY <2>1, VectorElementIs
  <2> QED BY <2>1, <2>2 DEF Allowed, Finishes
<1>6. CASE Vec(bv, sz, vs, mx)!Continue
  BY <1>6 DEF Vec!Continue, Vec!container, Allowed, Resumes
<1> QED BY <1>1, <1>2, <1>3, <1>4, <1>5, <1>6 DEF Vec!Next

LEMMA NodesLists ==
  ASSUME NEW ring \in BOOLEAN, NodesInv(ring), Linked(ring)!Next
  PROVE  Allowed(Linked(ring)!contents, Linked(ring)!contents', listed, listed')
<1>1. PICK n \in Nat : n = Len(order)
  BY NodesTyped DEF NodesInv
<1>2. PICK c : c = Linked(ring)!contents OBVIOUS
<1>3. PICK d : d = Linked(ring)!contents' OBVIOUS
<1>4. Len(c) = n /\ \A i \in 1 .. n : c[i] = data[order[i]]
  <2>1. DOMAIN order = 1 .. n BY <1>1, NodesTyped DEF NodesInv
  <2>2. c = [i \in 1 .. n |-> data[order[i]]] BY <1>2, <2>1 DEF Linked!contents
  <2> QED BY <1>1, <2>2
<1>5. ASSUME data' = data, order' = order PROVE d = c
  BY <1>2, <1>3, <1>5 DEF Linked!contents
<1> SUFFICES Allowed(c, d, listed, listed')
  BY <1>2, <1>3
<1>6. ASSUME NEW k \in 0 .. Len(order), NEW a \in Addresses, NEW v \in Values,
             Linked(ring)!Hook(k, a, v)
      PROVE  Allowed(c, d, listed, listed')
  BY <1>6 DEF Linked!Hook, Allowed, Changes
<1>7. ASSUME NEW k \in 1 .. Len(order), Linked(ring)!Unhook(k)
      PROVE  Allowed(c, d, listed, listed')
  BY <1>7 DEF Linked!Unhook, Allowed, Changes
<1>8. CASE Linked(ring)!StorePrev
  BY <1>8 DEF Linked!StorePrev, Allowed, Changes
<1>9. CASE Linked(ring)!Children
  <2>1. /\ mode = "running" /\ mode' = "listing" /\ listed' = listed
        /\ data' = data /\ order' = order
    BY <1>9 DEF Linked!Children, Linked!container
  <2> QED BY <1>5, <2>1 DEF Allowed, Starts
<1>10. CASE Linked(ring)!Element
  <2>1. /\ mode = "listing" /\ mode' = mode /\ data' = data /\ order' = order
        /\ iter.base # Linked(ring)!End
        /\ listed' = Append(listed, <<iter.count, data[iter.base]>>)
    BY <1>10 DEF Linked!Element, Linked!container, Linked!AtEnd
  <2>2. /\ Len(listed) + 1 \in 1 .. Len(order)
        /\ iter.base = order[Len(listed) + 1]
    BY <2>1, NodesElementIs
  <2>3. iter.count = Len(listed) BY <2>1 DEF NodesInv, NodesIterates
  <2>4. Len(listed) \in Nat
    BY NodesTyped DEF NodesInv
  <2>5. Len(listed) < Len(c) /\ c[Len(listed) + 1] = data[iter.base]
    BY <1>1, <1>4, <2>2, <2>4
  <2>6. d = c BY <1>5, <2>1
  <2> QED BY <2>1, <2>3, <2>5, <2>6 DEF Allowed, Emits
<1>11. CASE Linked(ring)!StopIteration
  <2>1. /\ mode = "listing" /\ mode' = "listed" /\ listed' = listed
        /\ data' = data /\ order' = order
        /\ iter.base = Linked(ring)!End
    BY <1>11 DEF Linked!StopIteration, Linked!container, Linked!AtEnd
  <2>2. PICK l \in Nat : l = Len(listed)
    BY NodesTyped DEF NodesInv
  <2>3. l <= n /\ iter.base = After(order, l, Linked(ring)!End)
    BY <1>1, <2>1, <2>2 DEF NodesInv, NodesIterates
  <2>4. ASSUME l # n PROVE FALSE
    <3>1. l + 1 \in 1 .. n /\ iter.base = order[l + 1]
      BY <1>1, <2>3, <2>4 DEF After
    <3>2. order[l + 1] \in Addresses BY <1>1, <3>1, NodesTyped DEF NodesInv
    <3> QED BY <2>1, <3>1, <3>2, NodesEnd
  <2>5. Len(listed) = Len(c) BY <1>4, <2>2, <2>4
  <2>6. d = c BY <1>5, <2>1
  <2> QED BY <2>1, <2>5, <2>6 DEF Allowed, Finishes
<1>12. CASE Linked(ring)!Continue
  <2>1. /\ mode \in {"listing", "listed"} /\ mode' = "running"
        /\ listed' = <<>> /\ data' = data /\ order' = order
    BY <1>12 DEF Linked!Continue, Linked!container
  <2> QED BY <1>5, <2>1 DEF Allowed, Resumes
<1> QED BY <1>6, <1>7, <1>8, <1>9, <1>10, <1>11, <1>12 DEF Linked!Next

\* The elements of a tuple are listed under their numbers less one.
Renumbered(l) == [i \in DOMAIN l |-> <<l[i][1] - 1, l[i][2]>>]

LEMMA TupleNumbers ==
  ASSUME NEW l \in Seq(Nat \X Values)
  PROVE  /\ Len(Renumbered(l)) = Len(l)
         /\ l = <<>> => Renumbered(l) = <<>>
         /\ \A k \in Nat, x \in Values :
               Renumbered(Append(l, <<k + 1, x>>))
                  = Append(Renumbered(l), <<k, x>>)
<1>1. PICK n \in Nat : n = Len(l) /\ DOMAIN l = 1 .. n
  BY LenProperties
<1>2. \A i \in 1 .. n : l[i] \in Nat \X Values BY <1>1, ElementOfSeq
<1>3. PICK m : m = Renumbered(l) OBVIOUS
<1>4. m = [i \in 1 .. n |-> <<l[i][1] - 1, l[i][2]>>]
  BY <1>1, <1>3 DEF Renumbered
<1>5. m \in Seq(Int \X Values) /\ Len(m) = n BY <1>1, <1>2, <1>4
<1>6. l = <<>> => m = <<>> BY <1>1, <1>5
<1>7. ASSUME NEW k \in Nat, NEW x \in Values
      PROVE  Renumbered(Append(l, <<k + 1, x>>)) = Append(m, <<k, x>>)
  <2>1. PICK a : a = Append(l, <<k + 1, x>>) OBVIOUS
  <2>2. <<k + 1, x>> \in Nat \X Values OBVIOUS
  <2>3. /\ a \in Seq(Nat \X Values) /\ Len(a) = n + 1
        /\ \A i \in 1 .. n : a[i] = l[i]
        /\ a[n + 1] = <<k + 1, x>>
    BY <1>1, <2>1, <2>2, AppendProperties
  <2>4. DOMAIN a = 1 .. n + 1 BY <2>3, LenProperties
  <2>5. PICK b : b = Append(m, <<k, x>>) OBVIOUS
  <2>6. /\ b \in Seq(Int \X Values) /\ Len(b) = n + 1
        /\ \A i \in 1 .. n : b[i] = m[i]
        /\ b[n + 1] = <<k, x>>
    <3>1. <<k, x>> \in Int \X Values OBVIOUS
    <3> QED BY <1>5, <2>5, <3>1, AppendProperties
  <2>7. b = [i \in 1 .. n + 1 |-> b[i]] BY <2>6, LenProperties
  <2>8. ASSUME NEW i \in 1 .. n + 1
        PROVE  b[i] = <<a[i][1] - 1, a[i][2]>>
    <3>1. CASE i = n + 1 BY <2>3, <2>6, <3>1
    <3>2. CASE i # n + 1
      <4>1. i \in 1 .. n BY <3>2
      <4> QED BY <1>4, <2>3, <2>6, <4>1
    <3> QED BY <3>1, <3>2
  <2>9. Renumbered(a) = b BY <2>4, <2>7, <2>8 DEF Renumbered
  <2> QED BY <2>1, <2>5, <2>9
<1> QED BY <1>1, <1>3, <1>5, <1>6, <1>7
LEMMA TupleLists ==
  ASSUME TupleInv, Tower!Next,
         NEW l, l = Renumbered(listed), NEW m, m = Renumbered(listed')
  PROVE  Allowed(contents, contents', l, m)
<1>1. /\ listed \in Seq(Nat \X Values) /\ Len(listed) \in Nat
      /\ contents \in Seq(Values) /\ Len(contents) \in Nat
  BY TupleTyped
<1>2. Len(l) = Len(listed) BY <1>1, TupleNumbers
<1>3. CASE Tower!Children
  <2>1. /\ mode = "running" /\ mode' = "listing" /\ listed' = listed
        /\ contents' = contents
    BY <1>3 DEF Tower!Children, Tower!tuple
  <2> QED BY <2>1 DEF Allowed, Starts
<1>4. CASE Tower!Last \/ Tower!Element
  <2>1. PICK n \in Nat, k \in Nat : n = Len(contents) /\ k = Len(listed)
    BY <1>1
  <2>2. /\ k \in 0 .. n - 1
        /\ mode = "listing" /\ mode' = "listing" /\ contents' = contents
        /\ listed' = Append(listed, <<k + 1, contents[k + 1]>>)
        /\ contents[k + 1] \in Values
    BY <1>4, <2>1, TupleTakes
  <2>3. PICK x \in Values : x = contents[k + 1] BY <2>2
  <2>4. m = Append(l, <<k, x>>)
    <3>1. Renumbered(Append(listed, <<k + 1, x>>))
             = Append(Renumbered(listed), <<k, x>>)
      BY <1>1, TupleNumbers
    <3>2. listed' = Append(listed, <<k + 1, x>>) BY <2>2, <2>3
    <3> QED BY <3>1, <3>2
  <2>5. Len(l) < Len(contents) BY <1>2, <2>1, <2>2
  <2>6. <<k, x>> = <<Len(l), contents[Len(l) + 1]>> BY <1>2, <2>1, <2>3
  <2>7. m = Append(l, <<Len(l), contents[Len(l) + 1]>>) BY <2>4, <2>6
  <2>8. Emits(contents, contents', l, m) BY <2>2, <2>5, <2>7 DEF Emits
  <2> QED BY <2>8 DEF Allowed
<1>5. CASE Tower!StopIteration
  <2>1. /\ mode = "listing" /\ mode' = "listed" /\ listed' = listed
        /\ contents' = contents /\ Tower!AtEnd
    BY <1>5 DEF Tower!StopIteration, Tower!tuple
  <2>2. Len(listed) = Len(contents) BY <2>1, TupleEnds
  <2>3. m = l BY <2>1
  <2>4. Finishes(contents, contents', l, m)
    BY <1>2, <2>1, <2>2, <2>3 DEF Finishes
  <2> QED BY <2>4 DEF Allowed
<1>6. CASE Tower!Continue
  <2>1. /\ mode \in {"listing", "listed"} /\ mode' = "running"
        /\ listed' = <<>> /\ contents' = contents
    BY <1>6 DEF Tower!Continue, Tower!tuple
  <2>2. m = <<>> BY <2>1 DEF Renumbered
  <2> QED BY <2>1, <2>2 DEF Allowed, Resumes
<1> QED BY <1>3, <1>4, <1>5, <1>6 DEF Tower!Next
-----------------------------------------------------------------------------
(* The hash tables.                                                        *)

\* The iterator on a table, and what it lists.
HashIters == [bucket : 0 .. bucket_count, node : Keys \union {Null},
              second : Keys \union {Null}, count : Nat]
HashListings == Seq(Nat \X ({"first", "second"} \X Keys))
USE DEF HashIters, HashListings

\* A list without repetitions is as long as the set of its elements.
Distinct(s) == \A i, j \in 1 .. Len(s) : s[i] = s[j] => i = j

LEMMA DistinctCount ==
  ASSUME NEW V, NEW s \in Seq(V), Distinct(s), NEW R, R = Range(s)
  PROVE  IsFiniteSet(R) /\ Cardinality(R) = Len(s)
<1>1. PICK n \in Nat : n = Len(s) /\ DOMAIN s = 1 .. n
  BY LenProperties
<1>2. s \in Bijection(1 .. n, R)
  BY <1>1 DEF Distinct, Range, Bijection, Injection, Surjection, IsInjective
<1>3. IsFiniteSet(1 .. n) /\ Cardinality(1 .. n) = n
  <2>1. 1 \in Int /\ n \in Int BY <1>1
  <2>2. /\ IsFiniteSet(1 .. n)
        /\ Cardinality(1 .. n) = IF 1 > n THEN 0 ELSE n - 1 + 1
    BY <2>1, FS_Interval
  <2> QED BY <1>1, <2>2
<1>4. ExistsBijection(1 .. n, R) BY <1>2 DEF ExistsBijection
<1> QED BY <1>1, <1>3, <1>4, FS_Bijection

\* The list s is the n lists of c, one behind the other, of which each begins
\* behind its offset.
IsJoined(n, c, o, s) ==
  /\ o \in [0 .. n -> Nat]
  /\ o[0] = 0 /\ \A b \in 0 .. n - 1 : o[b + 1] = o[b] + Len(c[b])
  /\ s \in Seq(Keys) /\ Len(s) = o[n]
  /\ \A b \in 0 .. n - 1 : \A i \in 1 .. Len(c[b]) :
        o[b] + i \in 1 .. Len(s) /\ s[o[b] + i] = c[b][i]
  /\ \A p \in 1 .. Len(s) : \E b \in 0 .. n - 1 : \E i \in 1 .. Len(c[b]) :
        p = o[b] + i

\* The list s is the last of the lists f, each the one before it and a list of c.
IsBuilt(n, c, f, s) ==
  /\ f \in [0 .. n -> Seq(Keys)]
  /\ f[0] = <<>>
  /\ \A b \in 0 .. n - 1 : f[b + 1] = f[b] \o c[b]
  /\ s = f[n]

LEMMA JoinedIs ==
  ASSUME NEW tr1, NEW map, NEW n \in Nat, NEW c \in [0 .. n - 1 -> Seq(Keys)]
  PROVE  \E f : IsBuilt(n, c, f, Table(tr1, map)!joined(c, n))
<1> DEFINE Is(f, k) == /\ f[0] = <<>>
                       /\ \A b \in 0 .. k - 1 : f[b + 1] = f[b] \o c[b]
           T == {k \in 0 .. n : \E f \in [0 .. k -> Seq(Keys)] : Is(f, k)}
<1>1. 0 \in T
  <2>1. PICK f : f = [i \in 0 .. 0 |-> <<>>] OBVIOUS
  <2>2. f \in [0 .. 0 -> Seq(Keys)] /\ Is(f, 0) /\ 0 \in 0 .. n BY <2>1
  <2> HIDE DEF Is
  <2> QED BY <2>2
<1>2. \A k \in 0 .. n - 1 : k \in T => k + 1 \in T
  <2> SUFFICES ASSUME NEW k \in 0 .. n - 1, k \in T
               PROVE  k + 1 \in T
    OBVIOUS
  <2>1. PICK f \in [0 .. k -> Seq(Keys)] : Is(f, k) OBVIOUS
  <2>2. PICK x : x = f[k] \o c[k] OBVIOUS
  <2>3. x \in Seq(Keys) BY <2>2
  <2>4. PICK g : g = [i \in 0 .. k + 1 |-> IF i = k + 1 THEN x ELSE f[i]]
    OBVIOUS
  <2>5. g \in [0 .. k + 1 -> Seq(Keys)]
    <3>1. \A i \in 0 .. k + 1 : i # k + 1 => i \in 0 .. k OBVIOUS
    <3> QED BY <2>3, <2>4, <3>1
  <2>6. g[k + 1] = x /\ \A i \in 0 .. k : g[i] = f[i] BY <2>4
  <2>7. g[0] = <<>> BY <2>1, <2>6
  <2>8. ASSUME NEW b \in 0 .. k PROVE g[b + 1] = g[b] \o c[b]
    <3>1. CASE b = k BY <2>2, <2>6, <3>1
    <3>2. CASE b # k
      <4>1. b \in 0 .. k - 1 /\ b \in 0 .. k /\ b + 1 \in 0 .. k BY <3>2
      <4> QED BY <2>1, <2>6, <4>1
    <3> QED BY <3>1, <3>2
  <2>9. k + 1 \in 0 .. n /\ (k + 1) - 1 = k OBVIOUS
  <2>10. Is(g, k + 1) BY <2>7, <2>8, <2>9
  <2> HIDE DEF Is
  <2> QED BY <2>5, <2>9, <2>10
<1>3. n \in T
  <2> HIDE DEF T
  <2>1. 0 .. n \subseteq T
    <3>1. 0 \in Int /\ n \in Int OBVIOUS
    <3> QED BY <1>1, <1>2, <3>1, Induction, Zenon
  <2> QED BY <2>1
<1>4. PICK f \in [0 .. n -> Seq(Keys)] : Is(f, n) BY <1>3
<1> DEFINE before == CHOOSE g : g = [b \in 0 .. n |->
                        IF b = 0 THEN <<>> ELSE g[b - 1] \o c[b - 1]]
<1>5. f = [b \in 0 .. n |-> IF b = 0 THEN <<>> ELSE f[b - 1] \o c[b - 1]]
  <2>1. ASSUME NEW b \in 0 .. n
        PROVE  f[b] = IF b = 0 THEN <<>> ELSE f[b - 1] \o c[b - 1]
    <3>1. CASE b = 0 BY <1>4, <3>1
    <3>2. CASE b # 0
      <4>1. b - 1 \in 0 .. n - 1 /\ (b - 1) + 1 = b BY <3>2
      <4> QED BY <1>4, <3>2, <4>1
    <3> QED BY <3>1, <3>2
  <2> QED BY <2>1
<1>6. before = [b \in 0 .. n |->
                  IF b = 0 THEN <<>> ELSE before[b - 1] \o c[b - 1]]
  BY <1>5
<1>7. Table(tr1, map)!joined(c, n) = before[n]
  BY DEF Table!joined
<1> HIDE DEF before
<1>8. before[0] = <<>> BY <1>6
<1>9. \A b \in 0 .. n - 1 : before[b + 1] = before[b] \o c[b]
  <2> SUFFICES ASSUME NEW b \in 0 .. n - 1
               PROVE  before[b + 1] = before[b] \o c[b]
    OBVIOUS
  <2>1. b + 1 \in 0 .. n /\ b + 1 # 0 /\ (b + 1) - 1 = b OBVIOUS
  <2> QED BY <1>6, <2>1
<1> DEFINE U == {k \in 0 .. n : before[k] = f[k]}
<1>10. 0 .. n \subseteq U
  <2>1. 0 \in U BY <1>4, <1>8
  <2>2. \A k \in 0 .. n - 1 : k \in U => k + 1 \in U
    <3> SUFFICES ASSUME NEW k \in 0 .. n - 1, k \in U
                 PROVE  k + 1 \in U
      OBVIOUS
    <3>1. k + 1 \in 0 .. n /\ before[k] = f[k] OBVIOUS
    <3>2. before[k + 1] = before[k] \o c[k] /\ f[k + 1] = f[k] \o c[k]
      BY <1>4, <1>9
    <3> QED BY <3>1, <3>2
  <2> HIDE DEF U
  <2>3. 0 \in Int /\ n \in Int OBVIOUS
  <2> QED BY <2>1, <2>2, <2>3, Induction, Zenon
<1>11. before[n] = f[n] BY <1>10
<1>12. IsBuilt(n, c, f, Table(tr1, map)!joined(c, n))
  BY <1>4, <1>7, <1>11 DEF IsBuilt
<1> QED BY <1>12


LEMMA JoinedOffsets ==
  ASSUME NEW tr1, NEW map, NEW n \in Nat, NEW c \in [0 .. n - 1 -> Seq(Keys)]
  PROVE  \E o : IsJoined(n, c, o, Table(tr1, map)!joined(c, n))
<1>0. PICK f : IsBuilt(n, c, f, Table(tr1, map)!joined(c, n))
  BY JoinedIs, Zenon
<1>1. /\ f \in [0 .. n -> Seq(Keys)]
      /\ f[0] = <<>>
      /\ \A b \in 0 .. n - 1 : f[b + 1] = f[b] \o c[b]
      /\ Table(tr1, map)!joined(c, n) = f[n]
  BY <1>0 DEF IsBuilt
<1>2. PICK o : o = [b \in 0 .. n |-> Len(f[b])] OBVIOUS
<1>3. o \in [0 .. n -> Nat] /\ \A b \in 0 .. n : o[b] = Len(f[b])
  <2>1. \A b \in 0 .. n : Len(f[b]) \in Nat
    BY LenProperties
  <2> QED BY <1>2, <2>1
<1>4. ASSUME NEW b \in 0 .. n - 1
      PROVE  /\ IsJoin(Keys, f[b], c[b], f[b + 1])
             /\ Len(f[b]) = o[b] /\ o[b] \in Nat /\ Len(c[b]) \in Nat
             /\ o[b + 1] = o[b] + Len(c[b])
  <2>1. b \in 0 .. n /\ b + 1 \in 0 .. n OBVIOUS
  <2>2. f[b] \in Seq(Keys) /\ c[b] \in Seq(Keys) /\ f[b + 1] = f[b] \o c[b]
    BY <1>1, <2>1
  <2>3. IsJoin(Keys, f[b], c[b], f[b + 1]) BY <2>2, Joined
  <2> QED BY <1>3, <2>1, <2>2, <2>3, LenProperties DEF IsJoin
<1> DEFINE Starts1(k) == \A b \in 0 .. n - 1 : b < k =>
               \A i \in 1 .. Len(c[b]) :
                  o[b] + i \in 1 .. o[k] /\ f[k][o[b] + i] = c[b][i]
           Ends1(k) == \A p \in 1 .. o[k] : \E b \in 0 .. n - 1 :
               b < k /\ \E i \in 1 .. Len(c[b]) : p = o[b] + i
           T == {k \in 0 .. n : Starts1(k) /\ Ends1(k)}
<1>5. o[0] = 0 BY <1>1, <1>3
<1>6. 0 \in T BY <1>5
<1>7. \A k \in 0 .. n - 1 : k \in T => k + 1 \in T
  <2> SUFFICES ASSUME NEW k \in 0 .. n - 1, k \in T
               PROVE  k + 1 \in T
    OBVIOUS
  <2>1. PICK u \in Nat, v \in Nat :
           u = o[k] /\ v = Len(c[k]) /\ o[k + 1] = u + v
    BY <1>4
  <2>2. \A i \in 1 .. u + v :
           f[k + 1][i] = IF i <= u THEN f[k][i] ELSE c[k][i - u]
    <3>1. IsJoin(Keys, f[k], c[k], f[k + 1]) /\ Len(f[k]) = u /\ Len(c[k]) = v
      BY <1>4, <2>1
    <3> QED BY <3>1 DEF IsJoin
  <2>3. Starts1(k) /\ Ends1(k) OBVIOUS
  <2>4. ASSUME NEW b \in 0 .. n - 1, b < k + 1, NEW i \in 1 .. Len(c[b])
        PROVE  o[b] + i \in 1 .. u + v /\ f[k + 1][o[b] + i] = c[b][i]
    <3>1. CASE b = k
      <4>1. i \in 1 .. v BY <2>1, <3>1
      <4>2. PICK j \in 1 .. u + v : j = u + i BY <4>1
      <4>3. ~(j <= u) /\ j - u = i BY <4>1, <4>2
      <4>4. f[k + 1][j] = c[k][j - u] BY <2>2, <4>3
      <4>5. o[b] + i = j BY <2>1, <3>1, <4>2
      <4> QED BY <3>1, <4>3, <4>4, <4>5
    <3>2. CASE b # k
      <4>1. b < k BY <2>4, <3>2
      <4>2. PICK j : j = o[b] + i OBVIOUS
      <4>3. j \in 1 .. u /\ f[k][j] = c[b][i] BY <2>1, <2>3, <4>1, <4>2
      <4>4. j \in 1 .. u + v /\ j <= u BY <4>3
      <4> QED BY <2>2, <4>2, <4>3, <4>4
    <3> QED BY <3>1, <3>2
  <2>5. ASSUME NEW p \in 1 .. u + v
        PROVE  \E b \in 0 .. n - 1 :
                  b < k + 1 /\ \E i \in 1 .. Len(c[b]) : p = o[b] + i
    <3>1. CASE p <= u
      <4>1. p \in 1 .. o[k] BY <2>1, <3>1
      <4>2. PICK b \in 0 .. n - 1 : b < k /\ \E i \in 1 .. Len(c[b]) : p = o[b] + i
        BY <2>3, <4>1
      <4>3. b < k + 1 BY <4>2
      <4> QED BY <4>2, <4>3
    <3>2. CASE p > u
      <4>1. p - u \in 1 .. v /\ p = u + (p - u) BY <3>2
      <4>2. k < k + 1 OBVIOUS
      <4> QED BY <2>1, <4>1, <4>2
    <3> QED BY <3>1, <3>2
  <2>6. Starts1(k + 1) /\ Ends1(k + 1) BY <2>1, <2>4, <2>5
  <2> HIDE DEF Starts1, Ends1
  <2> QED BY <2>6
<1>8. Starts1(n) /\ Ends1(n)
  <2> HIDE DEF T
  <2>1. 0 \in Int /\ n \in Int OBVIOUS
  <2>2. 0 .. n \subseteq T BY <1>6, <1>7, <2>1, Induction, Zenon
  <2>3. n \in T BY <2>2
  <2> QED BY <2>3 DEF T
<1>9. f[n] \in Seq(Keys) /\ Len(f[n]) = o[n] BY <1>1, <1>3
<1>10. IsJoined(n, c, o, f[n])
  <2>1. \A b \in 0 .. n - 1 : \A i \in 1 .. Len(c[b]) :
           o[b] + i \in 1 .. Len(f[n]) /\ f[n][o[b] + i] = c[b][i]
    <3> SUFFICES ASSUME NEW b \in 0 .. n - 1, NEW i \in 1 .. Len(c[b])
                 PROVE  o[b] + i \in 1 .. Len(f[n]) /\ f[n][o[b] + i] = c[b][i]
      OBVIOUS
    <3>1. b < n OBVIOUS
    <3>2. o[b] + i \in 1 .. o[n] /\ f[n][o[b] + i] = c[b][i] BY <1>8, <3>1
    <3> QED BY <1>9, <3>2
  <2>2. \A p \in 1 .. Len(f[n]) : \E b \in 0 .. n - 1 :
           \E i \in 1 .. Len(c[b]) : p = o[b] + i
    BY <1>8, <1>9
  <2>3. o[0] = 0 /\ \A b \in 0 .. n - 1 : o[b + 1] = o[b] + Len(c[b])
    BY <1>4, <1>5
  <2> QED BY <1>3, <1>9, <2>1, <2>2, <2>3 DEF IsJoined
<1> QED BY <1>1, <1>10

\* The bucket of a key, and what is true of the chains and of the pointers.
HashAt(tr1, k, n) == IF tr1 THEN hash[k] % n ELSE 0

Placed(tr1, n, c) ==
  \A b \in 0 .. n - 1 :
     Distinct(c[b]) /\ \A i \in 1 .. Len(c[b]) : HashAt(tr1, c[b][i], n) = b

Pointing(n, c, B, N) ==
  \A b \in 0 .. n - 1 :
     /\ B[b] = IF c[b] = <<>> THEN Null ELSE c[b][1]
     /\ \A i \in 1 .. Len(c[b]) :
           N[c[b][i]] = IF i < Len(c[b]) THEN c[b][i + 1] ELSE Null

\* Each key of the list s is that of one place in the chain of its bucket.
IsSpread(tr1, n, c, o, s) ==
  /\ Distinct(s)
  /\ \A k : k \in Range(s) <=>
        \E b \in 0 .. n - 1 : \E i \in 1 .. Len(c[b]) : c[b][i] = k
  /\ \A p \in 1 .. Len(s) : \E b \in 0 .. n - 1 : \E i \in 1 .. Len(c[b]) :
        p = o[b] + i /\ s[p] = c[b][i] /\ HashAt(tr1, s[p], n) = b

LEMMA JoinedKeys ==
  ASSUME NEW tr1, NEW n \in Nat, NEW c \in [0 .. n - 1 -> Seq(Keys)], NEW o,
         NEW s, IsJoined(n, c, o, s), Placed(tr1, n, c)
  PROVE  IsSpread(tr1, n, c, o, s)
<1>1. ASSUME NEW p \in 1 .. Len(s)
      PROVE  \E b \in 0 .. n - 1 : \E i \in 1 .. Len(c[b]) :
                p = o[b] + i /\ s[p] = c[b][i] /\ HashAt(tr1, s[p], n) = b
  <2>1. PICK b \in 0 .. n - 1 : \E i \in 1 .. Len(c[b]) : p = o[b] + i
    BY DEF IsJoined
  <2>2. PICK i \in 1 .. Len(c[b]) : p = o[b] + i BY <2>1
  <2>3. s[p] = c[b][i] BY <2>2 DEF IsJoined
  <2>4. HashAt(tr1, c[b][i], n) = b
    BY DEF Placed
  <2> QED BY <2>2, <2>3, <2>4
<1>2. ASSUME NEW p \in 1 .. Len(s), NEW q \in 1 .. Len(s), s[p] = s[q]
      PROVE  p = q
  <2>1. PICK b \in 0 .. n - 1 : \E i \in 1 .. Len(c[b]) :
           p = o[b] + i /\ s[p] = c[b][i] /\ HashAt(tr1, s[p], n) = b
    BY <1>1
  <2>2. PICK i \in 1 .. Len(c[b]) :
           p = o[b] + i /\ s[p] = c[b][i] /\ HashAt(tr1, s[p], n) = b
    BY <2>1
  <2>3. PICK d \in 0 .. n - 1 : \E j \in 1 .. Len(c[d]) :
           q = o[d] + j /\ s[q] = c[d][j] /\ HashAt(tr1, s[q], n) = d
    BY <1>1
  <2>4. PICK j \in 1 .. Len(c[d]) :
           q = o[d] + j /\ s[q] = c[d][j] /\ HashAt(tr1, s[q], n) = d
    BY <2>3
  <2>5. b = d BY <1>2, <2>2, <2>4
  <2>6. i = j BY <1>2, <2>2, <2>4, <2>5 DEF Placed, Distinct
  <2> QED BY <2>2, <2>4, <2>5, <2>6
<1>3. ASSUME NEW k
      PROVE  k \in Range(s) <=>
               \E b \in 0 .. n - 1 : \E i \in 1 .. Len(c[b]) : c[b][i] = k
  <2>1. k \in Range(s) <=> \E p \in 1 .. Len(s) : s[p] = k
    <3>1. DOMAIN s = 1 .. Len(s)
      BY LenProperties DEF IsJoined
    <3> QED BY <3>1 DEF Range
  <2>2. ASSUME NEW b \in 0 .. n - 1, NEW i \in 1 .. Len(c[b]), c[b][i] = k
        PROVE  \E p \in 1 .. Len(s) : s[p] = k
    <3>1. o[b] + i \in 1 .. Len(s) /\ s[o[b] + i] = c[b][i]
      BY DEF IsJoined
    <3> QED BY <2>2, <3>1
  <2>3. ASSUME NEW p \in 1 .. Len(s), s[p] = k
        PROVE  \E b \in 0 .. n - 1 : \E i \in 1 .. Len(c[b]) : c[b][i] = k
    BY <1>1, <2>3
  <2> QED BY <2>1, <2>2, <2>3
<1>4. Distinct(s) BY <1>2 DEF Distinct
<1> QED BY <1>1, <1>3, <1>4 DEF IsSpread

\* The keys of the chains, and the table of a container: its chains and its
\* pointers, and the number of its elements, of which one may not be counted.
Members(n, c) ==
  {k \in Keys : \E b \in 0 .. n - 1 : \E i \in 1 .. Len(c[b]) : c[b][i] = k}

HashRow(tr1) ==
  /\ Placed(tr1, bucket_count, chains)
  /\ Pointing(bucket_count, chains, buckets, next)
  /\ \E i \in -1 .. 1 :
        element_count + i = Cardinality(Members(bucket_count, chains))
  /\ ~tr1 => bucket_count = 1

\* The iterator is at the element behind the p first ones, or has yielded the
\* first half of the last of these.
HashAfter(tr1, map, s, p) ==
  /\ iter.count = Len(listed)
  /\ iter.node = IF p < Len(s) THEN s[p + 1] ELSE Null
  /\ p < Len(s) /\ tr1 => iter.bucket = HashAt(tr1, s[p + 1], bucket_count)
  /\ iter.second # Null => map /\ p >= 1 /\ iter.second = s[p]
  /\ Len(listed) = IF ~map THEN p ELSE IF iter.second = Null THEN 2 * p
                                                            ELSE 2 * p - 1

HashIterates(tr1, map) ==
  LET s == Table(tr1, map)!keys
  IN  /\ mode = "listing" => \E p \in 0 .. Len(s) : HashAfter(tr1, map, s, p)
      /\ mode = "listed" => Len(listed) = Len(s) * (IF map THEN 2 ELSE 1)
      /\ mode # "listing" => iter = Table(tr1, map)!NoIter

HashInv(tr1, map) == /\ Table(tr1, map)!TypeOK
                     /\ HashRow(tr1)
                     /\ HashIterates(tr1, map)
                     /\ Idle

LEMMA TableCardinality ==
  ASSUME NEW tr1, NEW map
  PROVE  \A S : Table(tr1, map)!Cardinality(S) = Cardinality(S)
BY DEF Table!Cardinality, Cardinality

LEMMA TableRange ==
  ASSUME NEW tr1, NEW map
  PROVE  \A f : Table(tr1, map)!Range(f) = Range(f)
BY DEF Table!Range, Range

LEMMA HashTyped ==
  ASSUME NEW tr1 \in BOOLEAN, NEW map \in BOOLEAN, Table(tr1, map)!TypeOK
  PROVE  /\ hash \in [Keys -> 0 .. 2] /\ bucket_count \in 1 .. 3
         /\ buckets \in [0 .. bucket_count -> Keys \union {Null, Nowhere}]
         /\ next \in [Keys -> Keys \union {Null}]
         /\ chains \in [0 .. bucket_count - 1 -> Seq(Keys)]
         /\ iter \in HashIters
         /\ listed \in HashListings
         /\ Len(listed) \in Nat
<1>1. listed \in HashListings
  BY DEF Table!TypeOK
<1>2. Len(listed) \in Nat BY <1>1, LenProperties
<1> QED BY <1>1, <1>2 DEF Table!TypeOK, Table!Pointers

\* A bucket of the table.
LEMMA HashRange ==
  ASSUME NEW tr1 \in BOOLEAN, hash \in [Keys -> 0 .. 2], NEW n \in 1 .. 3,
         ~tr1 => n = 1, NEW k \in Keys
  PROVE  HashAt(tr1, k, n) \in 0 .. n - 1
<1>1. hash[k] \in Int OBVIOUS
<1>2. hash[k] % n \in 0 .. n - 1 BY <1>1
<1> QED BY <1>2 DEF HashAt

\* The keys of a table, in order.
LEMMA KeysJoined ==
  ASSUME NEW tr1 \in BOOLEAN, NEW map \in BOOLEAN,
         NEW n \in Nat, NEW c \in [0 .. n - 1 -> Seq(Keys)], Placed(tr1, n, c),
         NEW s, s = Table(tr1, map)!joined(c, n)
  PROVE  /\ \E o : IsJoined(n, c, o, s)
         /\ s \in Seq(Keys) /\ Len(s) \in Nat /\ Distinct(s)
         /\ Range(s) = Members(n, c)
         /\ IsFiniteSet(Range(s)) /\ Cardinality(Range(s)) = Len(s)
<1>1. PICK o : IsJoined(n, c, o, s)
  BY JoinedOffsets, Zenon
<1>2. s \in Seq(Keys) BY <1>1 DEF IsJoined
<1>3. Len(s) \in Nat BY <1>2, LenProperties
<1>0. IsSpread(tr1, n, c, o, s) BY <1>1, JoinedKeys, Zenon
<1>4. /\ Distinct(s)
      /\ \A k : k \in Range(s) <=>
            \E b \in 0 .. n - 1 : \E i \in 1 .. Len(c[b]) : c[b][i] = k
  BY <1>0, Zenon DEF IsSpread
<1>5. Range(s) \subseteq Keys BY <1>2, RangeOfSeq DEF Range
<1>6. Range(s) = Members(n, c) BY <1>4, <1>5 DEF Members
<1>7. IsFiniteSet(Range(s)) /\ Cardinality(Range(s)) = Len(s)
  BY <1>2, <1>4, DistinctCount, Zenon
<1> QED BY <1>1, <1>2, <1>3, <1>4, <1>6, <1>7

\* The keys of the table, as a list.
LEMMA HashKeys ==
  ASSUME NEW tr1 \in BOOLEAN, NEW map \in BOOLEAN, HashInv(tr1, map),
         NEW s, s = Table(tr1, map)!keys
  PROVE  /\ s \in Seq(Keys) /\ Len(s) \in Nat
         /\ Range(s) = Members(bucket_count, chains)
         /\ Cardinality(Members(bucket_count, chains)) = Len(s)
         /\ \E i \in -1 .. 1 : element_count + i = Len(s)
         /\ \A p \in 1 .. Len(s) : s[p] \in Keys /\ s[p] # Null
<1>1. PICK n \in 1 .. 3 : n = bucket_count
  BY HashTyped DEF HashInv
<1>2. PICK c \in [0 .. n - 1 -> Seq(Keys)] : c = chains
  BY <1>1, HashTyped DEF HashInv
<1>3. /\ Placed(tr1, n, c)
      /\ \E i \in -1 .. 1 : element_count + i = Cardinality(Members(n, c))
  BY <1>1, <1>2 DEF HashInv, HashRow
<1>4. s = Table(tr1, map)!joined(c, n) BY <1>1, <1>2 DEF Table!keys
<1>5. /\ s \in Seq(Keys) /\ Len(s) \in Nat /\ Range(s) = Members(n, c)
      /\ Cardinality(Range(s)) = Len(s)
  BY <1>3, <1>4, KeysJoined
<1>6. \A p \in 1 .. Len(s) : s[p] \in Keys BY <1>5, ElementOfSeq
<1> QED BY <1>1, <1>2, <1>3, <1>5, <1>6, PrintersAssumption

\* The members are finitely many, no more than the keys.
LEMMA MembersCount ==
  ASSUME NEW n, NEW c
  PROVE  /\ IsFiniteSet(Members(n, c))
         /\ Cardinality(Members(n, c)) \in 0 .. Cardinality(Keys)
<1>1. Members(n, c) \subseteq Keys /\ IsFiniteSet(Keys)
  BY PrintersAssumption DEF Members
<1>2. /\ IsFiniteSet(Members(n, c))
      /\ Cardinality(Members(n, c)) <= Cardinality(Keys)
  BY <1>1, FS_Subset
<1>3. Cardinality(Members(n, c)) \in Nat /\ Cardinality(Keys) \in Nat
  BY <1>1, <1>2, FS_CardinalityType
<1> QED BY <1>2, <1>3

\* The pointers that the library leaves.
LEMMA HashRelinks ==
  ASSUME NEW tr1 \in BOOLEAN, NEW map \in BOOLEAN, hash \in [Keys -> 0 .. 2],
         NEW n \in 1 .. 3, ~tr1 => n = 1,
         NEW c \in [0 .. n - 1 -> Seq(Keys)], Placed(tr1, n, c),
         Table(tr1, map)!Linked(n, c)
  PROVE  /\ buckets' \in [0 .. n -> Keys \union {Null, Nowhere}]
         /\ next' \in [Keys -> Keys \union {Null}]
         /\ Pointing(n, c, buckets', next')
<1>1. PICK B : B = buckets' OBVIOUS
<1>2. PICK N : N = next' OBVIOUS
<1>3. \A b \in 0 .. n - 1 : b < n /\ b \in 0 .. n OBVIOUS
<1>4. B = [b \in 0 .. n |-> IF b < n /\ c[b] # <<>>
                            THEN Head(c[b]) ELSE Table(tr1, map)!Empty(n)[b]]
  BY <1>1 DEF Table!Linked
<1>5. \A b \in 0 .. n : Table(tr1, map)!Empty(n)[b] =
                          IF tr1 /\ b = n THEN Nowhere ELSE Null
  BY DEF Table!Empty
<1>6. \A b \in 0 .. n - 1 : c[b] # <<>> =>
         Head(c[b]) = c[b][1] /\ c[b][1] \in Keys
  <2> SUFFICES ASSUME NEW b \in 0 .. n - 1, c[b] # <<>>
               PROVE  Head(c[b]) = c[b][1] /\ c[b][1] \in Keys
    OBVIOUS
  <2>1. PICK s \in Seq(Keys) : s = c[b] OBVIOUS
  <2> QED BY <2>1
<1>7. ASSUME NEW b \in 0 .. n - 1
      PROVE  B[b] = IF c[b] = <<>> THEN Null ELSE c[b][1]
  <2>1. b < n /\ b \in 0 .. n /\ b # n OBVIOUS
  <2> QED BY <1>4, <1>5, <1>6, <2>1
<1>8. B \in [0 .. n -> Keys \union {Null, Nowhere}]
  <2>1. \A b \in 0 .. n : b < n => b \in 0 .. n - 1 OBVIOUS
  <2> QED BY <1>4, <1>5, <1>6, <2>1
<1> DEFINE At(k) == {i \in DOMAIN c[HashAt(tr1, k, n)] :
                        c[HashAt(tr1, k, n)][i] = k}
           Following(k) == IF \E i \in At(k) : i < Len(c[HashAt(tr1, k, n)])
                    THEN c[HashAt(tr1, k, n)][1 + CHOOSE i \in At(k) : TRUE]
                    ELSE Null
<1>9. N = [k \in Keys |-> Following(k)]
  BY <1>2 DEF Table!Linked, Table!Bucket, HashAt
<1>10. ASSUME NEW b \in 0 .. n - 1, NEW i \in 1 .. Len(c[b])
       PROVE  /\ c[b][i] \in Keys /\ HashAt(tr1, c[b][i], n) = b
              /\ At(c[b][i]) = {i} /\ DOMAIN c[b] = 1 .. Len(c[b])
              /\ Len(c[b]) \in Nat
  <2>1. PICK s \in Seq(Keys) : s = c[b] OBVIOUS
  <2>2. DOMAIN s = 1 .. Len(s) /\ Len(s) \in Nat /\ s[i] \in Keys
    BY <2>1, LenProperties, ElementOfSeq
  <2>3. HashAt(tr1, s[i], n) = b BY <2>1 DEF Placed
  <2>4. \A j \in 1 .. Len(s) : s[j] = s[i] => j = i
    BY <2>1 DEF Placed, Distinct
  <2>5. At(s[i]) = {i} BY <2>1, <2>2, <2>3, <2>4
  <2> QED BY <2>1, <2>2, <2>3, <2>5
<1>11. ASSUME NEW k \in Keys PROVE Following(k) \in Keys \union {Null}
  <2>1. PICK b \in 0 .. n - 1 : b = HashAt(tr1, k, n)
    BY HashRange
  <2>2. CASE \E i \in At(k) : i < Len(c[b])
    <3>1. PICK i \in DOMAIN c[b] : c[b][i] = k /\ i < Len(c[b]) BY <2>1, <2>2
    <3>2. PICK s \in Seq(Keys) : s = c[b] OBVIOUS
    <3>3. i \in 1 .. Len(s) /\ Len(s) \in Nat BY <3>1, <3>2, LenProperties
    <3>4. At(k) = {i} BY <1>10, <3>1, <3>2, <3>3
    <3>5. (CHOOSE j \in At(k) : TRUE) = i BY <3>4
    <3>6. 1 + i \in 1 .. Len(s) BY <3>1, <3>2, <3>3
    <3>7. s[1 + i] \in Keys BY <3>6, ElementOfSeq
    <3> QED BY <2>1, <3>2, <3>5, <3>7
  <2>3. CASE ~ \E i \in At(k) : i < Len(c[b]) BY <2>1, <2>3
  <2> QED BY <2>2, <2>3
<1>12. N \in [Keys -> Keys \union {Null}] BY <1>9, <1>11
<1>13. ASSUME NEW b \in 0 .. n - 1, NEW i \in 1 .. Len(c[b])
       PROVE  N[c[b][i]] = IF i < Len(c[b]) THEN c[b][i + 1] ELSE Null
  <2>1. PICK k \in Keys : k = c[b][i] BY <1>10
  <2>2. HashAt(tr1, k, n) = b /\ At(k) = {i} BY <1>10, <2>1
  <2>3. (CHOOSE j \in At(k) : TRUE) = i BY <2>2
  <2>4. 1 + i = i + 1 OBVIOUS
  <2>5. (\E j \in At(k) : j < Len(c[b])) <=> i < Len(c[b]) BY <2>2
  <2> HIDE DEF At
  <2>6. Following(k) = IF i < Len(c[b]) THEN c[b][i + 1] ELSE Null
    BY <2>2, <2>3, <2>4, <2>5
  <2> HIDE DEF Following
  <2> QED BY <1>9, <2>1, <2>6
<1> QED BY <1>1, <1>2, <1>7, <1>8, <1>12, <1>13 DEF Pointing

\* A change of the program: other chains, and the pointers that go with them.
LEMMA HashRelaid ==
  ASSUME NEW tr1 \in BOOLEAN, NEW map \in BOOLEAN, HashInv(tr1, map),
         mode = "running", UNCHANGED <<hash, element_count, mode, iter, listed>>,
         NEW n \in 1 .. 3, ~tr1 => n = 1, bucket_count' = n,
         NEW c \in [0 .. n - 1 -> Seq(Keys)], chains' = c, Placed(tr1, n, c),
         Table(tr1, map)!Linked(n, c),
         \E i \in -1 .. 1 : element_count + i = Cardinality(Members(n, c))
  PROVE  HashInv(tr1, map)'
<1>1. hash \in [Keys -> 0 .. 2] /\ listed \in HashListings
  BY HashTyped DEF HashInv
<1>2. /\ buckets' \in [0 .. n -> Keys \union {Null, Nowhere}]
      /\ next' \in [Keys -> Keys \union {Null}]
      /\ Pointing(n, c, buckets', next')
  BY <1>1, HashRelinks, Zenon
<1>3. element_count' \in 0 .. Cardinality(Keys)
  BY TableCardinality DEF HashInv, Table!TypeOK
<1>4. Placed(tr1, n, c)'
  <2>1. ASSUME NEW k PROVE HashAt(tr1, k, n)' = HashAt(tr1, k, n)
    BY DEF HashAt
  <2> QED BY <2>1 DEF Placed
<1>5. HashRow(tr1)' BY <1>2, <1>4 DEF HashRow
<1>6. iter = Table(tr1, map)!NoIter
  BY DEF HashInv, HashIterates
<1>7. iter' \in [bucket : 0 .. n, node : Keys \union {Null},
                 second : Keys \union {Null}, count : Nat]
  <2>1. 0 \in 0 .. n OBVIOUS
  <2> QED BY <1>6, <2>1 DEF Table!NoIter
<1>8. Table(tr1, map)!TypeOK'
  <2>1. Keys \union {Null, Nowhere} = (Keys \union {Null}) \union {Nowhere}
    OBVIOUS
  <2>2. hash' \in [Keys -> 0 .. 3 - 1] /\ mode' \in {"running", "listing", "listed"}
    BY <1>1
  <2>3. listed' \in HashListings BY <1>1
  <2>4. buckets' \in [0 .. n -> (Keys \union {Null}) \union {Nowhere}]
    BY <1>2, <2>1
  <2>5. /\ bucket_count' \in 1 .. 3
        /\ buckets' \in [0 .. bucket_count' -> (Keys \union {Null}) \union {Nowhere}]
        /\ chains' \in [0 .. bucket_count' - 1 -> Seq(Keys)]
        /\ iter' \in [bucket : 0 .. bucket_count', node : Keys \union {Null},
                      second : Keys \union {Null}, count : Nat]
    BY <1>7, <2>4, Zenon
  <2> QED
    BY <1>2, <1>3, <2>2, <2>3, <2>5, TableCardinality DEF Table!TypeOK, Table!Pointers
<1>9. HashIterates(tr1, map)'
  <2>1. mode' = "running" /\ iter' = iter OBVIOUS
  <2>2. Table(tr1, map)!NoIter' = Table(tr1, map)!NoIter
    BY DEF Table!NoIter
  <2> QED BY <1>6, <2>1, <2>2 DEF HashIterates
<1>10. Idle'
  BY DEF HashInv, Idle
<1> QED BY <1>5, <1>8, <1>9, <1>10 DEF HashInv

\* A key of the table is in the chain of its bucket.
LEMMA MembersWhere ==
  ASSUME NEW tr1, NEW n, NEW c, Placed(tr1, n, c), NEW k,
         NEW b \in 0 .. n - 1, HashAt(tr1, k, n) = b
  PROVE  k \in Members(n, c) <=> k \in Keys /\ \E i \in 1 .. Len(c[b]) : c[b][i] = k
<1>1. ASSUME k \in Members(n, c) PROVE \E i \in 1 .. Len(c[b]) : c[b][i] = k
  <2>1. PICK d \in 0 .. n - 1 : \E i \in 1 .. Len(c[d]) : c[d][i] = k
    BY <1>1 DEF Members
  <2>2. d = b BY <2>1 DEF Placed
  <2> QED BY <2>1, <2>2
<1> QED BY <1>1 DEF Members

LEMMA HashInsert ==
  ASSUME NEW tr1 \in BOOLEAN, NEW map \in BOOLEAN, HashInv(tr1, map),
         NEW k \in Keys, Table(tr1, map)!Insert(k)
  PROVE  HashInv(tr1, map)'
<1>1. PICK n \in 1 .. 3 : n = bucket_count
  BY HashTyped DEF HashInv
<1>2. PICK c \in [0 .. n - 1 -> Seq(Keys)] : c = chains
  BY <1>1, HashTyped DEF HashInv
<1>3. /\ Placed(tr1, n, c) /\ (~tr1 => n = 1)
  BY <1>1, <1>2 DEF HashInv, HashRow
<1>4. PICK b \in 0 .. n - 1 : b = HashAt(tr1, k, n)
  BY <1>3, HashRange, HashTyped DEF HashInv
<1>5. k \notin Members(n, c)
  <2>1. k \notin Range(Table(tr1, map)!keys)
    BY TableRange DEF Table!Insert
  <2> QED BY <1>1, <1>2, <2>1, HashKeys
<1>6. PICK s \in Seq(Keys) : s = c[b] OBVIOUS
<1>7. PICK t : t = <<k>> \o s OBVIOUS
<1>8. /\ t \in Seq(Keys) /\ Len(t) = Len(s) + 1 /\ t[1] = k
      /\ \A i \in 1 .. Len(s) : t[i + 1] = s[i]
  BY <1>7, Prefixed
<1>9. Len(s) \in Nat
  BY LenProperties
<1>10. \A i \in 1 .. Len(s) : s[i] # k
  <2>1. ~ \E i \in 1 .. Len(c[b]) : c[b][i] = k
    BY <1>3, <1>4, <1>5, MembersWhere
  <2> QED BY <1>6, <2>1
<1>11. ASSUME NEW i \in 1 .. Len(t)
       PROVE  \/ i = 1 /\ t[i] = k
              \/ i - 1 \in 1 .. Len(s) /\ t[i] = s[i - 1]
  <2>1. CASE i = 1 BY <1>8, <2>1
  <2>2. CASE i # 1
    <3>1. i - 1 \in 1 .. Len(s) /\ (i - 1) + 1 = i BY <1>8, <1>9, <2>2
    <3> QED BY <1>8, <3>1
  <2> QED BY <2>1, <2>2
<1>12. Distinct(s) /\ \A i \in 1 .. Len(s) : HashAt(tr1, s[i], n) = b
  BY <1>3, <1>6 DEF Placed
<1>13. Distinct(t)
  <2> SUFFICES ASSUME NEW i \in 1 .. Len(t), NEW j \in 1 .. Len(t), t[i] = t[j]
               PROVE  i = j
    BY DEF Distinct
  <2>1. CASE i = 1 BY <1>10, <1>11, <2>1
  <2>2. CASE i # 1
    <3>1. i - 1 \in 1 .. Len(s) /\ t[i] = s[i - 1] BY <1>11, <2>2
    <3>2. j - 1 \in 1 .. Len(s) /\ t[j] = s[j - 1] BY <1>10, <1>11, <3>1
    <3>3. i - 1 = j - 1 BY <1>12, <3>1, <3>2 DEF Distinct
    <3> QED BY <3>3
  <2> QED BY <2>1, <2>2
<1>14. PICK d : d = [c EXCEPT ![b] = t] OBVIOUS
<1>15. /\ d \in [0 .. n - 1 -> Seq(Keys)] /\ d[b] = t
       /\ \A e \in 0 .. n - 1 : e # b => d[e] = c[e]
  BY <1>8, <1>14
<1>16. Placed(tr1, n, d)
  <2>1. \A i \in 1 .. Len(t) : HashAt(tr1, t[i], n) = b BY <1>4, <1>11, <1>12
  <2> QED BY <1>3, <1>13, <1>15, <2>1 DEF Placed
<1>17. Members(n, d) = Members(n, c) \union {k}
  <2>1. k \in Members(n, d)
    <3>1. 1 \in 1 .. Len(t) BY <1>8, <1>9
    <3> QED BY <1>8, <1>15, <3>1 DEF Members
  <2>2. ASSUME NEW x \in Members(n, c) PROVE x \in Members(n, d)
    <3>1. PICK e \in 0 .. n - 1 : \E i \in 1 .. Len(c[e]) : c[e][i] = x
      BY DEF Members
    <3>2. PICK i \in 1 .. Len(c[e]) : c[e][i] = x BY <3>1
    <3>3. x \in Keys
      BY DEF Members
    <3>4. CASE e = b
      <4>1. i \in 1 .. Len(s) /\ s[i] = x BY <1>6, <3>2, <3>4
      <4>2. i + 1 \in 1 .. Len(t) /\ t[i + 1] = x BY <1>8, <1>9, <4>1
      <4> QED BY <1>15, <3>3, <4>2 DEF Members
    <3>5. CASE e # b BY <1>15, <3>2, <3>3, <3>5 DEF Members
    <3> QED BY <3>4, <3>5
  <2>3. ASSUME NEW x \in Members(n, d), x # k PROVE x \in Members(n, c)
    <3>1. PICK e \in 0 .. n - 1 : \E i \in 1 .. Len(d[e]) : d[e][i] = x
      BY DEF Members
    <3>2. PICK i \in 1 .. Len(d[e]) : d[e][i] = x BY <3>1
    <3>3. x \in Keys
      BY DEF Members
    <3>4. CASE e = b
      <4>1. i \in 1 .. Len(t) /\ t[i] = x BY <1>15, <3>2, <3>4
      <4>2. i - 1 \in 1 .. Len(s) /\ s[i - 1] = x BY <1>11, <2>3, <4>1
      <4> QED BY <1>6, <3>3, <4>2 DEF Members
    <3>5. CASE e # b BY <1>15, <3>2, <3>3, <3>5 DEF Members
    <3> QED BY <3>4, <3>5
  <2> QED BY <2>1, <2>2, <2>3
<1>18. \E i \in -1 .. 1 : element_count + i = Cardinality(Members(n, d))
  <2>1. PICK M : M = Members(n, c) OBVIOUS
  <2>2. IsFiniteSet(M) BY <2>1, MembersCount
  <2>3. Cardinality(M \union {k}) = Cardinality(M) + 1
    BY <1>5, <2>1, <2>2, FS_AddElement
  <2>4. Cardinality(Members(n, c)) = element_count
    BY <1>1, <1>2, HashKeys DEF Table!Insert, Table!Counted
  <2>5. Cardinality(Members(n, d)) = element_count + 1
    BY <1>17, <2>1, <2>3, <2>4
  <2> QED BY <2>5
<1>19. /\ chains' = d /\ bucket_count' = n /\ mode = "running"
       /\ UNCHANGED <<hash, element_count, mode, iter, listed>>
       /\ Table(tr1, map)!Linked(n, d)
  BY <1>1, <1>2, <1>4, <1>6, <1>7, <1>14
     DEF Table!Insert, Table!Bucket, HashAt
<1> QED BY <1>3, <1>15, <1>16, <1>18, <1>19, HashRelaid

LEMMA HashErase ==
  ASSUME NEW tr1 \in BOOLEAN, NEW map \in BOOLEAN, HashInv(tr1, map),
         NEW k \in Keys, Table(tr1, map)!Erase(k)
  PROVE  HashInv(tr1, map)'
<1>1. PICK n \in 1 .. 3 : n = bucket_count
  BY HashTyped DEF HashInv
<1>2. PICK c \in [0 .. n - 1 -> Seq(Keys)] : c = chains
  BY <1>1, HashTyped DEF HashInv
<1>3. /\ Placed(tr1, n, c) /\ (~tr1 => n = 1)
  BY <1>1, <1>2 DEF HashInv, HashRow
<1>4. PICK b \in 0 .. n - 1 : b = HashAt(tr1, k, n)
  BY <1>3, HashRange, HashTyped DEF HashInv
<1>5. k \in Members(n, c)
  <2>1. k \in Range(Table(tr1, map)!keys)
    BY TableRange DEF Table!Erase
  <2> QED BY <1>1, <1>2, <2>1, HashKeys
<1>6. PICK s \in Seq(Keys) : s = c[b] OBVIOUS
<1>7. Len(s) \in Nat /\ DOMAIN s = 1 .. Len(s)
  BY LenProperties
<1>8. PICK j \in 1 .. Len(s) : s[j] = k BY <1>3, <1>4, <1>5, <1>6, MembersWhere
<1>9. Distinct(s) /\ \A i \in 1 .. Len(s) : HashAt(tr1, s[i], n) = b
  BY <1>3, <1>6 DEF Placed
<1>10. (CHOOSE i \in DOMAIN s : s[i] = k) = j
  <2>1. \A i \in DOMAIN s : s[i] = k <=> i = j BY <1>7, <1>8, <1>9 DEF Distinct
  <2> QED BY <1>7, <1>8, <2>1
<1>11. PICK t : t = SubSeq(s, 1, j - 1) \o SubSeq(s, j + 1, Len(s)) OBVIOUS
<1>12. /\ t \in Seq(Keys) /\ Len(t) = Len(s) - 1
       /\ \A i \in 1 .. Len(s) - 1 : t[i] = IF i < j THEN s[i] ELSE s[i + 1]
  <2>1. IsRemoved(Keys, s, j, t) BY <1>11, Removed
  <2> QED BY <2>1 DEF IsRemoved
<1>13. ASSUME NEW i \in 1 .. Len(t)
       PROVE  \E h \in 1 .. Len(s) :
                 h # j /\ t[i] = s[h] /\ h = IF i < j THEN i ELSE i + 1
  <2>1. i \in 1 .. Len(s) - 1 BY <1>12
  <2>2. CASE i < j
    <3>1. i \in 1 .. Len(s) /\ i # j /\ t[i] = s[i] BY <1>7, <1>12, <2>1, <2>2
    <3> QED BY <2>2, <3>1
  <2>3. CASE ~(i < j)
    <3>1. i + 1 \in 1 .. Len(s) /\ i + 1 # j /\ t[i] = s[i + 1]
      BY <1>7, <1>12, <2>1, <2>3
    <3> QED BY <2>3, <3>1
  <2> QED BY <2>2, <2>3
<1>14. ASSUME NEW h \in 1 .. Len(s), h # j
       PROVE  \E i \in 1 .. Len(t) : t[i] = s[h]
  <2>1. CASE h < j
    <3>1. h \in 1 .. Len(s) - 1 BY <1>7, <2>1
    <3>2. h \in 1 .. Len(t) /\ t[h] = s[h] BY <1>12, <2>1, <3>1
    <3> QED BY <3>2
  <2>2. CASE ~(h < j)
    <3>1. h - 1 \in 1 .. Len(s) - 1 /\ ~(h - 1 < j) /\ (h - 1) + 1 = h
      BY <1>7, <1>14, <2>2
    <3>2. t[h - 1] = s[h] /\ h - 1 \in 1 .. Len(t) BY <1>12, <3>1
    <3> QED BY <3>2
  <2> QED BY <2>1, <2>2
<1>15. Distinct(t)
  <2> SUFFICES ASSUME NEW i \in 1 .. Len(t), NEW l \in 1 .. Len(t), t[i] = t[l]
               PROVE  i = l
    BY DEF Distinct
  <2>1. PICK h \in 1 .. Len(s) :
           h # j /\ t[i] = s[h] /\ h = IF i < j THEN i ELSE i + 1
    BY <1>13
  <2>2. PICK g \in 1 .. Len(s) :
           g # j /\ t[l] = s[g] /\ g = IF l < j THEN l ELSE l + 1
    BY <1>13
  <2>3. h = g BY <1>9, <2>1, <2>2 DEF Distinct
  <2>4. i \in Int /\ l \in Int /\ j \in Int BY <1>7, <1>12
  <2> QED BY <2>1, <2>2, <2>3, <2>4
<1>16. PICK d : d = [c EXCEPT ![b] = t] OBVIOUS
<1>17. /\ d \in [0 .. n - 1 -> Seq(Keys)] /\ d[b] = t
       /\ \A e \in 0 .. n - 1 : e # b => d[e] = c[e]
  BY <1>12, <1>16
<1>18. Placed(tr1, n, d)
  <2>1. \A i \in 1 .. Len(t) : HashAt(tr1, t[i], n) = b BY <1>9, <1>13
  <2> QED BY <1>3, <1>15, <1>17, <2>1 DEF Placed
<1>19. Members(n, d) = Members(n, c) \ {k}
  <2>1. k \notin Members(n, d)
    <3>1. ASSUME NEW i \in 1 .. Len(t) PROVE t[i] # k
      <4>1. PICK h \in 1 .. Len(s) : h # j /\ t[i] = s[h] BY <1>13
      <4> QED BY <1>8, <1>9, <4>1 DEF Distinct
    <3> QED BY <1>4, <1>17, <1>18, <3>1, MembersWhere
  <2>2. ASSUME NEW x \in Members(n, c), x # k PROVE x \in Members(n, d)
    <3>1. PICK e \in 0 .. n - 1 : \E i \in 1 .. Len(c[e]) : c[e][i] = x
      BY DEF Members
    <3>2. PICK i \in 1 .. Len(c[e]) : c[e][i] = x BY <3>1
    <3>3. x \in Keys
      BY DEF Members
    <3>4. CASE e = b
      <4>1. i \in 1 .. Len(s) /\ s[i] = x /\ i # j
        BY <1>6, <1>8, <2>2, <3>2, <3>4
      <4>2. PICK l \in 1 .. Len(t) : t[l] = x BY <1>14, <4>1
      <4> QED BY <1>17, <3>3, <4>2 DEF Members
    <3>5. CASE e # b BY <1>17, <3>2, <3>3, <3>5 DEF Members
    <3> QED BY <3>4, <3>5
  <2>3. ASSUME NEW x \in Members(n, d) PROVE x \in Members(n, c)
    <3>1. PICK e \in 0 .. n - 1 : \E i \in 1 .. Len(d[e]) : d[e][i] = x
      BY DEF Members
    <3>2. PICK i \in 1 .. Len(d[e]) : d[e][i] = x BY <3>1
    <3>3. x \in Keys
      BY DEF Members
    <3>4. CASE e = b
      <4>1. i \in 1 .. Len(t) /\ t[i] = x BY <1>17, <3>2, <3>4
      <4>2. PICK h \in 1 .. Len(s) : s[h] = x BY <1>13, <4>1
      <4> QED BY <1>6, <3>3, <4>2 DEF Members
    <3>5. CASE e # b BY <1>17, <3>2, <3>3, <3>5 DEF Members
    <3> QED BY <3>4, <3>5
  <2> QED BY <2>1, <2>2, <2>3
<1>20. \E i \in -1 .. 1 : element_count + i = Cardinality(Members(n, d))
  <2>1. PICK M : M = Members(n, c) OBVIOUS
  <2>2. IsFiniteSet(M) BY <2>1, MembersCount
  <2>3. Cardinality(M \ {k}) = Cardinality(M) - 1
    BY <1>5, <2>1, <2>2, FS_RemoveElement
  <2>4. Cardinality(Members(n, c)) = element_count
    BY <1>1, <1>2, HashKeys DEF Table!Erase, Table!Counted
  <2>5. PICK e \in Int : e = element_count
    BY TableCardinality DEF HashInv, Table!TypeOK
  <2>6. Cardinality(Members(n, d)) = e - 1 BY <1>19, <2>1, <2>3, <2>4, <2>5
  <2>7. e + (-1) = e - 1 BY <2>5
  <2> QED BY <2>5, <2>6, <2>7
<1>21. /\ chains' = d /\ bucket_count' = n /\ mode = "running"
       /\ UNCHANGED <<hash, element_count, mode, iter, listed>>
       /\ Table(tr1, map)!Linked(n, d)
  <2>1. Table(tr1, map)!Bucket(k, bucket_count) = b
    BY <1>1, <1>4 DEF Table!Bucket, HashAt
  <2>2. /\ chains' = [chains EXCEPT ![b] = SubSeq(chains[b], 1, j - 1)
                                     \o SubSeq(chains[b], j + 1, Len(chains[b]))]
        /\ mode = "running"
        /\ Table(tr1, map)!Linked(bucket_count, chains')
        /\ UNCHANGED <<hash, bucket_count, element_count, mode, iter, listed>>
    BY <1>2, <1>6, <1>10, <2>1 DEF Table!Erase
  <2> QED BY <1>1, <1>2, <1>6, <1>11, <1>16, <2>2
<1> QED BY <1>3, <1>17, <1>18, <1>20, <1>21, HashRelaid

\* The program counts what it has linked or unlinked.
LEMMA HashCounts ==
  ASSUME NEW tr1 \in BOOLEAN, NEW map \in BOOLEAN, HashInv(tr1, map),
         Table(tr1, map)!Count
  PROVE  HashInv(tr1, map)'
<1>1. PICK s : s = Table(tr1, map)!keys OBVIOUS
<1>2. /\ element_count' = Len(s) /\ mode = "running"
      /\ hash' = hash /\ bucket_count' = bucket_count /\ buckets' = buckets
      /\ next' = next /\ chains' = chains
      /\ mode' = mode /\ iter' = iter /\ listed' = listed
  BY <1>1 DEF Table!Count
<1>3. PICK m \in 0 .. Cardinality(Keys) :
        m = Len(s) /\ m = Cardinality(Members(bucket_count, chains))
  BY <1>1, HashKeys, MembersCount
<1>4. Placed(tr1, bucket_count, chains) /\ (~tr1 => bucket_count = 1)
      /\ Pointing(bucket_count, chains, buckets, next)
  BY DEF HashInv, HashRow
<1>5. HashRow(tr1)'
  <2>1. element_count' + 0 = Cardinality(Members(bucket_count, chains))'
    BY <1>2, <1>3 DEF Members
  <2>2. \E i \in -1 .. 1 :
           element_count' + i = Cardinality(Members(bucket_count, chains))'
    BY <2>1
  <2>3. /\ Placed(tr1, bucket_count, chains)'
        /\ Pointing(bucket_count, chains, buckets, next)'
    BY <1>2, <1>4 DEF Placed, Pointing, HashAt, Distinct
  <2> QED BY <1>2, <1>4, <2>2, <2>3 DEF HashRow
<1>6. Table(tr1, map)!TypeOK'
  <2>1. Table(tr1, map)!TypeOK
    BY DEF HashInv
  <2>2. element_count' \in 0 .. Cardinality(Keys) BY <1>2, <1>3
  <2> QED
    BY <1>2, <2>1, <2>2, TableCardinality, Zenon DEF Table!TypeOK, Table!Pointers
<1>7. HashIterates(tr1, map)' BY <1>2 DEF HashInv, HashIterates, Table!NoIter
<1> QED BY <1>2, <1>5, <1>6, <1>7 DEF HashInv, Idle

LEMMA HashRehash ==
  ASSUME NEW tr1 \in BOOLEAN, NEW map \in BOOLEAN, HashInv(tr1, map),
         NEW n \in 1 .. 3, Table(tr1, map)!Rehash(n)
  PROVE  HashInv(tr1, map)'
<1>1. PICK m \in 1 .. 3 : m = bucket_count
  BY HashTyped DEF HashInv
<1>2. PICK c \in [0 .. m - 1 -> Seq(Keys)] : c = chains
  BY <1>1, HashTyped DEF HashInv
<1>3. \E i \in -1 .. 1 : element_count + i = Cardinality(Members(m, c))
  BY <1>1, <1>2 DEF HashInv, HashRow
<1>4. PICK R : R = Members(m, c) OBVIOUS
<1>5. Range(Table(tr1, map)!keys) = R BY <1>1, <1>2, <1>4, HashKeys
<1>6. R \subseteq Keys /\ IsFiniteSet(R)
  <2>1. R \subseteq Keys BY <1>4 DEF Members
  <2> QED BY <1>4, <2>1, MembersCount
<1> DEFINE In(b) == {k \in R : HashAt(tr1, k, n) = b}
           Orders(b) == Bijection(1 .. Cardinality(In(b)), In(b))
<1>7. tr1
  BY DEF Table!Rehash
<1>8. PICK d \in [0 .. n - 1 -> UNION {Orders(b) : b \in 0 .. n - 1}] :
         (\A b \in 0 .. n - 1 : d[b] \in Orders(b)) /\ chains' = d
  BY <1>5, TableCardinality, TableRange
     DEF Table!Rehash, Table!Bucket, Table!Bijection, Table!Injection,
         Table!Surjection, Bijection, Injection, Surjection, HashAt
<1>9. ASSUME NEW b \in 0 .. n - 1
      PROVE  /\ d[b] \in Seq(Keys) /\ Distinct(d[b])
             /\ \A i \in 1 .. Len(d[b]) : d[b][i] \in In(b)
             /\ \A k \in In(b) : \E i \in 1 .. Len(d[b]) : d[b][i] = k
  <2>1. In(b) \subseteq Keys /\ IsFiniteSet(In(b)) BY <1>6, FS_Subset
  <2>2. PICK S : S = In(b) OBVIOUS
  <2>3. PICK l \in Nat : l = Cardinality(S) BY <2>1, <2>2, FS_CardinalityType
  <2>4. PICK s : s = d[b] OBVIOUS
  <2>5. s \in Bijection(1 .. l, S) BY <1>8, <2>2, <2>3, <2>4
  <2>6. /\ s \in [1 .. l -> S]
        /\ \A i, j \in 1 .. l : s[i] = s[j] => i = j
        /\ \A k \in S : \E i \in 1 .. l : s[i] = k
    BY <2>5 DEF Bijection, Injection, Surjection, IsInjective
  <2>7. s \in Seq(Keys) /\ Len(s) = l BY <2>1, <2>2, <2>6
  <2> QED BY <2>2, <2>4, <2>6, <2>7 DEF Distinct
<1>10. d \in [0 .. n - 1 -> Seq(Keys)] BY <1>8, <1>9
<1>11. Placed(tr1, n, d) BY <1>9 DEF Placed
<1>12. Members(n, d) = R
  <2>1. ASSUME NEW k \in R PROVE k \in Members(n, d)
    <3>1. PICK b \in 0 .. n - 1 : b = HashAt(tr1, k, n)
      BY <1>6, <1>7, HashRange, HashTyped DEF HashInv
    <3>2. k \in In(b) BY <3>1
    <3>3. PICK i \in 1 .. Len(d[b]) : d[b][i] = k BY <1>9, <3>2
    <3> QED BY <1>6, <3>3 DEF Members
  <2>2. ASSUME NEW k \in Members(n, d) PROVE k \in R
    <3>1. PICK b \in 0 .. n - 1 : \E i \in 1 .. Len(d[b]) : d[b][i] = k
      BY DEF Members
    <3> QED BY <1>9, <3>1
  <2> QED BY <2>1, <2>2
<1>13. /\ bucket_count' = n /\ mode = "running"
       /\ UNCHANGED <<hash, element_count, mode, iter, listed>>
       /\ Table(tr1, map)!Linked(n, d)
  BY <1>8 DEF Table!Rehash
<1> QED BY <1>3, <1>4, <1>7, <1>10, <1>11, <1>12, <1>13, HashRelaid

\* Over empty chains the offsets do not grow.
IsFlat(n, c, o) == \A a \in 0 .. n : \A m \in a .. n :
                      (\A b \in a .. m - 1 : c[b] = <<>>) => o[m] = o[a]

LEMMA EmptySpan ==
  ASSUME NEW n \in Nat, NEW c \in [0 .. n - 1 -> Seq(Keys)], NEW o, NEW s,
         IsJoined(n, c, o, s)
  PROVE  IsFlat(n, c, o)
<1> SUFFICES ASSUME NEW a \in 0 .. n, NEW m \in a .. n,
                    \A b \in a .. m - 1 : c[b] = <<>>
             PROVE  o[m] = o[a]
  BY DEF IsFlat
<1> DEFINE T == {k \in a .. m : o[k] = o[a]}
<1>1. a \in T OBVIOUS
<1>2. \A k \in a .. m - 1 : k \in T => k + 1 \in T
  <2> SUFFICES ASSUME NEW k \in a .. m - 1, k \in T PROVE k + 1 \in T
    OBVIOUS
  <2>1. k \in 0 .. n - 1 /\ k + 1 \in a .. m OBVIOUS
  <2>2. o[k + 1] = o[k] + Len(c[k]) /\ o[k] \in Nat BY <2>1 DEF IsJoined
  <2>3. Len(c[k]) = 0 OBVIOUS
  <2>4. o[k] = o[a] OBVIOUS
  <2> QED BY <2>1, <2>2, <2>3, <2>4
<1>3. a \in Int /\ m \in Int /\ m \in a .. m OBVIOUS
<1> HIDE DEF T
<1>4. a .. m \subseteq T BY <1>1, <1>2, <1>3, Induction, Zenon
<1>5. m \in T BY <1>3, <1>4
<1> QED BY <1>5 DEF T

\* Of the numbers of an interval that are in F, one is the least.
LEMMA LeastOf ==
  ASSUME NEW a \in Nat, NEW n \in Nat, NEW F \in SUBSET (a .. n), F # {}
  PROVE  \E l \in F : \A k \in F : l <= k
<1> DEFINE T == {k \in a .. n : \A b \in a .. k : b \notin F}
<1> SUFFICES ASSUME ~ \E l \in F : \A k \in F : l <= k
             PROVE  FALSE
  OBVIOUS
<1>1. PICK f \in F : f \in a .. n OBVIOUS
<1>2. ASSUME NEW l \in F PROVE \E k \in F : k < l OBVIOUS
<1>3. a \in T
  <2>1. a \notin F
    <3>1. ASSUME a \in F PROVE FALSE
      <4>1. PICK k \in F : k < a BY <1>2, <3>1
      <4> QED BY <4>1
    <3> QED BY <3>1
  <2> QED BY <1>1, <2>1
<1>4. \A k \in a .. n - 1 : k \in T => k + 1 \in T
  <2> SUFFICES ASSUME NEW k \in a .. n - 1, k \in T PROVE k + 1 \in T
    OBVIOUS
  <2>1. ASSUME k + 1 \in F PROVE FALSE
    <3>1. PICK j \in F : j < k + 1 BY <1>2, <2>1
    <3>2. j \in a .. k BY <3>1
    <3> QED BY <3>2
  <2>2. \A b \in a .. k + 1 : b = k + 1 \/ b \in a .. k OBVIOUS
  <2> QED BY <2>1, <2>2
<1>5. a \in Int /\ n \in Int OBVIOUS
<1> HIDE DEF T
<1>6. a .. n \subseteq T BY <1>3, <1>4, <1>5, Induction, Zenon
<1>7. n \in T /\ f \in a .. n BY <1>1, <1>6
<1> QED BY <1>7 DEF T

\* What Seek finds from bucket b on: the next key, if there is one.
Sought(tr1, n, o, s, b, r) ==
  /\ o[b] <= Len(s)
  /\ r.node = IF o[b] < Len(s) THEN s[o[b] + 1] ELSE Null
  /\ o[b] < Len(s) => r.bucket = HashAt(tr1, s[o[b] + 1], n)
  /\ r.bucket \in 0 .. n

LEMMA HashSeeks ==
  ASSUME NEW tr1 \in BOOLEAN, NEW map \in BOOLEAN, Table(tr1, map)!TypeOK,
         HashRow(tr1), NEW n \in 1 .. 3, n = bucket_count,
         NEW c \in [0 .. n - 1 -> Seq(Keys)], c = chains, NEW o, NEW s,
         IsJoined(n, c, o, s), NEW b \in 0 .. n,
         NEW r, r = Table(tr1, map)!Seek(b)
  PROVE  Sought(tr1, n, o, s, b, r)
<1>0. IsFlat(n, c, o)
  <2>1. n \in Nat OBVIOUS
  <2> QED BY <2>1, EmptySpan, Zenon
<1>1. Placed(tr1, n, c) /\ Pointing(n, c, buckets, next)
  BY DEF HashRow
<1>2. PICK F : F = {d \in b .. n - 1 : c[d] # <<>>} OBVIOUS
<1>3. PICK F2 : F2 = {d \in b .. bucket_count - 1 : buckets[d] # Null} OBVIOUS
<1>4. ASSUME NEW d \in 0 .. n - 1, c[d] # <<>>
      PROVE  /\ Len(c[d]) >= 1 /\ Len(c[d]) \in Nat
             /\ c[d][1] \in Keys /\ buckets[d] = c[d][1] /\ c[d][1] # Null
  <2>1. PICK t \in Seq(Keys) : t = c[d] OBVIOUS
  <2>2. Len(t) \in Nat /\ Len(t) # 0 BY <1>4, <2>1, LenProperties
  <2>3. 1 \in 1 .. Len(t) BY <2>2
  <2>4. t[1] \in Keys BY <2>3, ElementOfSeq
  <2>5. buckets[d] = c[d][1] BY <1>1, <1>4 DEF Pointing
  <2> QED BY <2>1, <2>2, <2>3, <2>4, <2>5, PrintersAssumption
<1>5. ASSUME NEW d \in 0 .. n - 1, c[d] = <<>> PROVE buckets[d] = Null
  BY <1>1, <1>5 DEF Pointing
<1>6. F = F2
  <2>1. \A d \in b .. n - 1 : d \in 0 .. n - 1 OBVIOUS
  <2>2. \A d \in b .. n - 1 : c[d] # <<>> <=> buckets[d] # Null
    BY <1>4, <1>5, <2>1
  <2> QED BY <1>2, <1>3, <2>2
<1> DEFINE least == CHOOSE e \in F : \A d \in F : e <= d
<1>7. r = IF F = {} THEN [bucket |-> n, node |-> Null]
                    ELSE [bucket |-> least, node |-> buckets[least]]
  BY <1>3, <1>6 DEF Table!Seek
<1>8. o \in [0 .. n -> Nat] /\ Len(s) = o[n]
  BY DEF IsJoined
<1>9. CASE F = {}
  <2>1. \A d \in b .. n - 1 : c[d] = <<>> BY <1>2, <1>9
  <2>2. n \in b .. n OBVIOUS
  <2>3. o[n] = o[b] BY <1>0, <2>1, <2>2 DEF IsFlat
  <2>4. o[b] \in Nat BY <1>8
  <2>5. ~(o[b] < Len(s)) /\ o[b] <= Len(s) BY <1>8, <2>3, <2>4
  <2>6. r.node = Null /\ r.bucket = n BY <1>7, <1>9
  <2> QED BY <2>5, <2>6 DEF Sought
<1>10. CASE F # {}
  <2>1. F \in SUBSET (b .. n - 1) BY <1>2
  <2>2. CASE n - 1 >= 0
    <3>1. n - 1 \in Nat /\ b \in Nat BY <2>2
    <3>2. \E e \in F : \A d \in F : e <= d BY <1>10, <2>1, <3>1, LeastOf
    <3>3. PICK e : e = least OBVIOUS
    <3>4. e \in F /\ \A d \in F : e <= d BY <3>2, <3>3
    <3>5. e \in b .. n - 1 /\ e \in 0 .. n - 1 /\ e \in b .. n /\ c[e] # <<>>
      BY <1>2, <3>4
    <3>6. \A d \in b .. e - 1 : c[d] = <<>>
      <4>1. ASSUME NEW d \in b .. e - 1, c[d] # <<>> PROVE FALSE
        <5>1. d \in F BY <1>2, <3>5, <4>1
        <5> QED BY <3>4, <3>5, <5>1
      <4> QED BY <4>1
    <3>7. o[e] = o[b] BY <1>0, <3>5, <3>6 DEF IsFlat
    <3>8. /\ Len(c[e]) >= 1 /\ Len(c[e]) \in Nat
          /\ buckets[e] = c[e][1]
      BY <1>4, <3>5
    <3>9. 1 \in 1 .. Len(c[e]) BY <3>8
    <3>10. o[e] + 1 \in 1 .. Len(s) /\ s[o[e] + 1] = c[e][1]
      BY <3>5, <3>9 DEF IsJoined
    <3>11. HashAt(tr1, c[e][1], n) = e BY <1>1, <3>5, <3>9 DEF Placed
    <3>12. r.bucket = e /\ r.node = buckets[e] BY <1>7, <1>10, <3>3
    <3>13. o[b] \in Nat BY <1>8
    <3>14. o[b] + 1 \in 1 .. Len(s) /\ s[o[b] + 1] = c[e][1] BY <3>7, <3>10
    <3>15. Len(s) \in Nat BY <1>8
    <3>16. o[b] < Len(s) /\ o[b] <= Len(s) BY <3>13, <3>14, <3>15
    <3>17. e \in 0 .. n BY <3>5
    <3> QED BY <3>8, <3>11, <3>12, <3>14, <3>16, <3>17 DEF Sought
  <2> QED BY <2>2
<1> QED BY <1>9, <1>10

\* What __next__ does at the p-th key: it goes to the one behind it.
HashNext(tr1, s, p, r) ==
  /\ r = [iter EXCEPT !.bucket = r.bucket, !.node = r.node]
  /\ r.bucket \in 0 .. bucket_count
  /\ r.node = IF p < Len(s) THEN s[p + 1] ELSE Null
  /\ p < Len(s) /\ tr1 => r.bucket = HashAt(tr1, s[p + 1], bucket_count)

LEMMA HashAdvances ==
  ASSUME NEW tr1 \in BOOLEAN, NEW map \in BOOLEAN, Table(tr1, map)!TypeOK,
         HashRow(tr1), NEW s, s = Table(tr1, map)!keys,
         NEW p \in 1 .. Len(s), iter.node = s[p],
         tr1 => iter.bucket = HashAt(tr1, s[p], bucket_count),
         NEW r, r = Table(tr1, map)!Advance(iter)
  PROVE  HashNext(tr1, s, p, r)
<1>1. PICK n \in 1 .. 3 : n = bucket_count
  BY HashTyped
<1>2. PICK c \in [0 .. n - 1 -> Seq(Keys)] : c = chains BY <1>1, HashTyped
<1>3. /\ Placed(tr1, n, c) /\ Pointing(n, c, buckets, next)
      /\ ~tr1 => n = 1
  BY <1>1, <1>2 DEF HashRow
<1>4. s = Table(tr1, map)!joined(c, n) BY <1>1, <1>2 DEF Table!keys
<1>5. PICK o : IsJoined(n, c, o, s) BY <1>4, JoinedOffsets
<1>6. IsSpread(tr1, n, c, o, s) BY <1>3, <1>5, JoinedKeys
<1>7. PICK b \in 0 .. n - 1 : \E i \in 1 .. Len(c[b]) :
         p = o[b] + i /\ s[p] = c[b][i] /\ HashAt(tr1, s[p], n) = b
  BY <1>6 DEF IsSpread
<1>8. PICK i \in 1 .. Len(c[b]) :
         p = o[b] + i /\ s[p] = c[b][i] /\ HashAt(tr1, s[p], n) = b
  BY <1>7
<1>9. PICK t \in Seq(Keys) : t = c[b] OBVIOUS
<1>10. PICK l \in Nat : l = Len(t)
  BY LenProperties
<1>11. /\ o \in [0 .. n -> Nat] /\ Len(s) = o[n] /\ o[b + 1] = o[b] + l
       /\ \A j \in 1 .. l : o[b] + j \in 1 .. Len(s) /\ s[o[b] + j] = t[j]
  BY <1>5, <1>9, <1>10 DEF IsJoined
<1>12. next[s[p]] = IF i < l THEN t[i + 1] ELSE Null
  BY <1>3, <1>8, <1>9, <1>10 DEF Pointing
<1>13. iter \in [bucket : 0 .. n, node : Keys \union {Null},
                 second : Keys \union {Null}, count : Nat]
  BY <1>1, HashTyped
<1>14. /\ b \in 0 .. n /\ b + 1 \in 0 .. n /\ o[b] \in Nat /\ o[n] \in Nat
       /\ o[b + 1] \in Nat /\ i \in 1 .. l /\ Len(s) \in Nat
  <2>1. b \in 0 .. n /\ b + 1 \in 0 .. n /\ n \in 0 .. n OBVIOUS
  <2>2. i \in 1 .. l BY <1>9, <1>10
  <2> QED BY <1>11, <2>1, <2>2
<1>15. CASE i < l
  <2>1. i + 1 \in 1 .. l /\ o[b] + (i + 1) = p + 1
    <3>1. PICK x \in Nat : x = o[b] BY <1>14
    <3>2. p = x + i BY <1>8, <3>1
    <3>3. i + 1 \in 1 .. l BY <1>14, <1>15
    <3>4. x + (i + 1) = p + 1 BY <1>14, <3>2
    <3> QED BY <3>1, <3>3, <3>4
  <2>2. p + 1 \in 1 .. Len(s) /\ s[p + 1] = t[i + 1] BY <1>11, <2>1
  <2>3. t[i + 1] \in Keys BY <1>10, <2>1, ElementOfSeq
  <2>4. next[iter.node] = t[i + 1] /\ t[i + 1] # Null
    BY <1>12, <1>15, <2>3, PrintersAssumption
  <2>5. r = [iter EXCEPT !.node = t[i + 1]] BY <2>4 DEF Table!Advance
  <2>6. /\ r = [iter EXCEPT !.bucket = r.bucket, !.node = r.node]
        /\ r.bucket = iter.bucket /\ r.node = t[i + 1]
    BY <1>13, <2>5
  <2>7. p < Len(s)
    <3>1. Len(s) \in Nat BY <1>11, <1>14
    <3> QED BY <2>2, <3>1
  <2>8. HashAt(tr1, s[p + 1], n) = b
    BY <1>3, <1>9, <1>10, <2>1, <2>2 DEF Placed
  <2> QED BY <1>1, <1>8, <1>13, <2>2, <2>6, <2>7, <2>8 DEF HashNext
<1>16. CASE ~(i < l)
  <2>1. i = l /\ o[b + 1] = p BY <1>8, <1>11, <1>14, <1>16
  <2>2. next[iter.node] = Null BY <1>12, <1>16
  <2>3. CASE tr1
    <3>1. iter.bucket = b BY <1>1, <1>8, <2>3
    <3>2. PICK at : at = Table(tr1, map)!Seek(b + 1) OBVIOUS
    <3>3. Sought(tr1, n, o, s, b + 1, at)
      BY <1>1, <1>2, <1>5, <1>14, <3>2, HashSeeks
    <3>4. r = [iter EXCEPT !.bucket = at.bucket, !.node = at.node]
      BY <2>2, <2>3, <3>1, <3>2 DEF Table!Advance
    <3>5. /\ r = [iter EXCEPT !.bucket = r.bucket, !.node = r.node]
          /\ r.bucket = at.bucket /\ r.node = at.node
      BY <1>13, <3>4
    <3> QED BY <1>1, <2>1, <3>3, <3>5 DEF Sought, HashNext
  <2>4. CASE ~tr1
    <3>1. r = [iter EXCEPT !.node = Null] BY <2>2, <2>4 DEF Table!Advance
    <3>2. /\ r = [iter EXCEPT !.bucket = r.bucket, !.node = r.node]
          /\ r.bucket = iter.bucket /\ r.node = Null
      BY <1>13, <3>1
    <3>3. b + 1 = n BY <1>3, <2>4
    <3>4. ~(p < Len(s)) BY <1>11, <1>14, <2>1, <3>3
    <3> QED BY <1>1, <1>13, <2>4, <3>2, <3>4 DEF HashNext
  <2> QED BY <2>3, <2>4
<1> QED BY <1>15, <1>16

LEMMA HashInit ==
  ASSUME NEW tr1 \in BOOLEAN, NEW map \in BOOLEAN, Table(tr1, map)!Init
  PROVE  HashInv(tr1, map)
<1>1. PICK n \in 1 .. 3 : n = bucket_count /\ (~tr1 => n = 1)
  BY DEF Table!Init
<1>2. PICK c : c = [b \in 0 .. n - 1 |-> <<>>] OBVIOUS
<1>3. /\ chains = c /\ buckets = Table(tr1, map)!Empty(n)
      /\ next = [k \in Keys |-> Null] /\ hash \in [Keys -> 0 .. 2]
      /\ element_count = 0 /\ mode = "running" /\ listed = <<>>
      /\ iter = Table(tr1, map)!NoIter
  BY <1>1, <1>2 DEF Table!Init
<1>4. c \in [0 .. n - 1 -> Seq(Keys)] /\ \A b \in 0 .. n - 1 : c[b] = <<>>
  BY <1>2
<1>5. \A b \in 0 .. n - 1 : 1 .. Len(c[b]) = {} BY <1>4
<1>6. Members(n, c) = {} BY <1>5 DEF Members
<1>7. Placed(tr1, n, c) BY <1>5 DEF Placed, Distinct
<1>8. buckets \in [0 .. n -> Keys \union {Null, Nowhere}]
      /\ \A b \in 0 .. n - 1 : buckets[b] = Null
  BY <1>3 DEF Table!Empty
<1>9. Pointing(n, c, buckets, next) BY <1>4, <1>5, <1>8 DEF Pointing
<1>10. HashRow(tr1) BY <1>1, <1>3, <1>6, <1>7, <1>9, FS_EmptySet DEF HashRow
<1>11. element_count \in 0 .. Cardinality(Keys)
  BY <1>3, <1>6, MembersCount, FS_EmptySet
<1>12. iter \in [bucket : 0 .. n, node : Keys \union {Null},
                 second : Keys \union {Null}, count : Nat]
  <2>1. 0 \in 0 .. n OBVIOUS
  <2> QED BY <1>3, <2>1 DEF Table!NoIter
<1>13. Table(tr1, map)!TypeOK
  <2>1. Keys \union {Null, Nowhere} = (Keys \union {Null}) \union {Nowhere}
    OBVIOUS
  <2>2. hash \in [Keys -> 0 .. 3 - 1] /\ mode \in {"running", "listing", "listed"}
    BY <1>3
  <2>3. listed \in HashListings BY <1>3
  <2>4. buckets \in [0 .. n -> (Keys \union {Null}) \union {Nowhere}]
    BY <1>8, <2>1
  <2>5. next \in [Keys -> Keys \union {Null}] BY <1>3
  <2>6. /\ bucket_count \in 1 .. 3
        /\ buckets \in [0 .. bucket_count -> (Keys \union {Null}) \union {Nowhere}]
        /\ chains \in [0 .. bucket_count - 1 -> Seq(Keys)]
        /\ iter \in HashIters
    BY <1>1, <1>3, <1>4, <1>12, <2>4, Zenon
  <2> QED
    BY <1>11, <2>2, <2>3, <2>5, <2>6, TableCardinality
       DEF Table!TypeOK, Table!Pointers
<1>14. HashIterates(tr1, map) /\ Idle BY <1>3 DEF HashIterates, Idle
<1> QED BY <1>10, <1>13, <1>14 DEF HashInv

\* What a listing leaves as it is.
HashSame(tr1, map) ==
  /\ hash' = hash /\ bucket_count' = bucket_count /\ buckets' = buckets
  /\ next' = next /\ element_count' = element_count /\ chains' = chains
  /\ Table(tr1, map)!keys' = Table(tr1, map)!keys
  /\ Table(tr1, map)!NoIter' = Table(tr1, map)!NoIter
  /\ HashRow(tr1)'

LEMMA HashStays ==
  ASSUME NEW tr1 \in BOOLEAN, NEW map \in BOOLEAN, HashInv(tr1, map),
         UNCHANGED Table(tr1, map)!container
  PROVE  HashSame(tr1, map)
<1>1. /\ hash' = hash /\ bucket_count' = bucket_count /\ buckets' = buckets
      /\ next' = next /\ element_count' = element_count /\ chains' = chains
  BY DEF Table!container
<1>2. Table(tr1, map)!keys' = Table(tr1, map)!keys
  BY <1>1 DEF Table!keys, Table!joined
<1>3. HashRow(tr1)
  BY DEF HashInv
<1>4. HashRow(tr1)'
  BY <1>1, <1>3 DEF HashRow, Placed, Pointing, HashAt, Members, Distinct
<1>5. Table(tr1, map)!NoIter' = Table(tr1, map)!NoIter
  BY DEF Table!NoIter
<1> QED BY <1>1, <1>2, <1>4, <1>5 DEF HashSame

\* Such a step keeps the types of the table.
LEMMA HashKeeps ==
  ASSUME NEW tr1 \in BOOLEAN, NEW map \in BOOLEAN, HashInv(tr1, map),
         HashSame(tr1, map), mode' \in {"running", "listing", "listed"},
         iter' \in HashIters,
         listed' \in HashListings
  PROVE  Table(tr1, map)!TypeOK'
<1>1. Table(tr1, map)!TypeOK
  BY DEF HashInv
<1>2. /\ hash' = hash /\ bucket_count' = bucket_count /\ buckets' = buckets
      /\ next' = next /\ element_count' = element_count /\ chains' = chains
  BY DEF HashSame
<1>3. /\ hash \in [Keys -> 0 .. 3 - 1] /\ bucket_count \in 1 .. 3
      /\ buckets \in [0 .. bucket_count -> (Keys \union {Null}) \union {Nowhere}]
      /\ next \in [Keys -> Keys \union {Null}]
      /\ element_count \in 0 .. Cardinality(Keys)
      /\ chains \in [0 .. bucket_count - 1 -> Seq(Keys)]
  BY <1>1, TableCardinality DEF Table!TypeOK, Table!Pointers
<1>4. iter' \in [bucket : 0 .. bucket_count', node : Keys \union {Null},
                 second : Keys \union {Null}, count : Nat]
  BY <1>2, Zenon
<1>5. /\ hash' \in [Keys -> 0 .. 3 - 1] /\ bucket_count' \in 1 .. 3
      /\ buckets' \in [0 .. bucket_count' -> (Keys \union {Null}) \union {Nowhere}]
      /\ next' \in [Keys -> Keys \union {Null}]
      /\ element_count' \in 0 .. Cardinality(Keys)
      /\ chains' \in [0 .. bucket_count' - 1 -> Seq(Keys)]
  BY <1>2, <1>3, Zenon
<1> QED BY <1>4, <1>5, TableCardinality DEF Table!TypeOK, Table!Pointers

LEMMA HashChildren ==
  ASSUME NEW tr1 \in BOOLEAN, NEW map \in BOOLEAN, HashInv(tr1, map),
         Table(tr1, map)!Children
  PROVE  HashInv(tr1, map)'
<1>1. HashSame(tr1, map)
  BY HashStays DEF Table!Children
<1>2. PICK n \in 1 .. 3 : n = bucket_count
  BY HashTyped DEF HashInv
<1>3. PICK c \in [0 .. n - 1 -> Seq(Keys)] : c = chains
  BY <1>2, HashTyped DEF HashInv
<1>4. PICK s : s = Table(tr1, map)!keys OBVIOUS
<1>5. s = Table(tr1, map)!joined(c, n) BY <1>2, <1>3, <1>4 DEF Table!keys
<1>6. PICK o : IsJoined(n, c, o, s) BY <1>5, JoinedOffsets
<1>7. s \in Seq(Keys) /\ Len(s) \in Nat /\ \A p \in 1 .. Len(s) : s[p] \in Keys
  BY <1>4, HashKeys
<1>8. PICK at : at = IF tr1 THEN Table(tr1, map)!Seek(0)
                     ELSE [bucket |-> 0, node |-> buckets[0]]
  OBVIOUS
<1>9. /\ mode' = "listing" /\ listed' = listed /\ listed = <<>>
      /\ iter' = [bucket |-> at.bucket, node |-> at.node, second |-> Null,
                  count |-> 0]
  BY <1>8 DEF Table!Children, Table!NoIter, HashInv, Idle
<1>10. /\ at.node = IF 0 < Len(s) THEN s[0 + 1] ELSE Null
       /\ 0 < Len(s) /\ tr1 => at.bucket = HashAt(tr1, s[0 + 1], n)
       /\ at.bucket \in 0 .. n
  <2>1. CASE tr1
    <3>1. Sought(tr1, n, o, s, 0, at)
      <4>1. 0 \in 0 .. n /\ at = Table(tr1, map)!Seek(0) BY <1>8, <2>1
      <4> QED BY <1>2, <1>3, <1>6, <4>1, HashSeeks DEF HashInv
    <3>2. o[0] = 0 BY <1>6 DEF IsJoined
    <3> QED BY <3>1, <3>2 DEF Sought
  <2>2. CASE ~tr1
    <3>1. n = 1 /\ Pointing(n, c, buckets, next)
      BY <1>2, <1>3, <2>2 DEF HashInv, HashRow
    <3>2. PICK t \in Seq(Keys) : t = c[0] BY <3>1
    <3>3. buckets[0] = IF t = <<>> THEN Null ELSE t[1]
      BY <3>1, <3>2 DEF Pointing
    <3>4. Len(t) \in Nat /\ (t = <<>> <=> Len(t) = 0)
      BY LenProperties, EmptySeq
    <3>5. /\ o \in [0 .. 1 -> Nat] /\ o[0] = 0 /\ o[0 + 1] = o[0] + Len(t)
          /\ Len(s) = o[1]
          /\ \A i \in 1 .. Len(t) : s[o[0] + i] = t[i]
      <4>1. 0 \in 0 .. n - 1 BY <3>1
      <4> QED BY <1>6, <3>1, <3>2, <4>1 DEF IsJoined
    <3>6. Len(s) = Len(t) /\ \A i \in 1 .. Len(t) : s[i] = t[i] BY <3>4, <3>5
    <3>7. at.node = buckets[0] /\ at.bucket = 0 BY <1>8, <2>2
    <3>8. CASE Len(s) = 0 BY <2>2, <3>3, <3>4, <3>6, <3>7, <3>8
    <3>9. CASE Len(s) # 0
      <4>1. 1 \in 1 .. Len(t) /\ 0 < Len(s) /\ 0 + 1 = 1 BY <1>7, <3>6, <3>9
      <4> QED BY <2>2, <3>3, <3>4, <3>6, <3>7, <3>9, <4>1
    <3> QED BY <3>8, <3>9
  <2> QED BY <2>1, <2>2
<1>11. at.node \in Keys \union {Null}
  <2>1. 0 < Len(s) => 0 + 1 \in 1 .. Len(s) BY <1>7
  <2> QED BY <1>7, <1>10, <2>1
<1>12. iter' \in [bucket : 0 .. n, node : Keys \union {Null},
                  second : Keys \union {Null}, count : Nat]
  BY <1>9, <1>10, <1>11
<1>13. Table(tr1, map)!TypeOK'
  <2>1. listed' \in HashListings BY <1>9
  <2> QED BY <1>1, <1>2, <1>9, <1>12, <2>1, HashKeeps
<1>14. HashAfter(tr1, map, s, 0)'
  <2>1. Len(listed') = 0 /\ 2 * 0 = 0 BY <1>9
  <2>2. ASSUME NEW k PROVE HashAt(tr1, k, bucket_count)' = HashAt(tr1, k, n)
    BY <1>1, <1>2 DEF HashSame, HashAt
  <2> QED BY <1>9, <1>10, <2>1, <2>2 DEF HashAfter
<1>15. HashIterates(tr1, map)'
  <2>1. 0 \in 0 .. Len(s) /\ Table(tr1, map)!keys' = s
    BY <1>1, <1>4, <1>7 DEF HashSame
  <2> QED BY <1>9, <1>14, <2>1 DEF HashIterates
<1> QED BY <1>1, <1>9, <1>13, <1>15 DEF HashInv, HashSame, Idle

\* What the iterator is at, of a listing.
LEMMA HashElementIs ==
  ASSUME NEW tr1 \in BOOLEAN, NEW map \in BOOLEAN, HashInv(tr1, map),
         mode = "listing", NEW s, s = Table(tr1, map)!keys
  PROVE  \E p \in 0 .. Len(s) :
            /\ HashAfter(tr1, map, s, p)
            /\ iter.node \in Keys <=> p < Len(s)
            /\ iter.node # Null <=> p < Len(s)
            /\ p < Len(s) => p + 1 \in 1 .. Len(s) /\ iter.node = s[p + 1]
<1>1. PICK p \in 0 .. Len(s) : HashAfter(tr1, map, s, p)
  BY DEF HashInv, HashIterates
<1>2. Len(s) \in Nat /\ \A q \in 1 .. Len(s) : s[q] \in Keys /\ s[q] # Null
  BY HashKeys
<1>3. p < Len(s) => p + 1 \in 1 .. Len(s) BY <1>2
<1>4. iter.node = IF p < Len(s) THEN s[p + 1] ELSE Null BY <1>1 DEF HashAfter
<1>5. Null \notin Keys
  BY PrintersAssumption
<1> QED BY <1>1, <1>2, <1>3, <1>4, <1>5

LEMMA HashSecond ==
  ASSUME NEW tr1 \in BOOLEAN, NEW map \in BOOLEAN, HashInv(tr1, map),
         Table(tr1, map)!Second
  PROVE  HashInv(tr1, map)'
<1>1. HashSame(tr1, map)
  BY HashStays DEF Table!Second
<1>2. PICK s : s = Table(tr1, map)!keys OBVIOUS
<1>3. /\ mode = "listing" /\ mode' = mode /\ iter.second # Null
      /\ listed' = Append(listed, <<iter.count, <<"second", iter.second>> >>)
      /\ iter' = [iter EXCEPT !.second = Null, !.count = @ + 1]
  BY DEF Table!Second, Table!second
<1>4. PICK p \in 0 .. Len(s) :
         /\ HashAfter(tr1, map, s, p)
         /\ iter.node \in Keys <=> p < Len(s)
         /\ iter.node # Null <=> p < Len(s)
         /\ p < Len(s) => p + 1 \in 1 .. Len(s) /\ iter.node = s[p + 1]
  BY <1>2, <1>3, HashElementIs
<1>5. /\ iter \in HashIters
      /\ listed \in HashListings
      /\ Len(listed) \in Nat
  BY HashTyped DEF HashInv
<1>6. /\ iter'.bucket = iter.bucket /\ iter'.node = iter.node
      /\ iter'.second = Null /\ iter'.count = iter.count + 1
      /\ iter' \in HashIters
  <2>1. PICK n \in Nat : n = iter.count BY <1>5
  <2>2. iter' = [bucket |-> iter.bucket, node |-> iter.node, second |-> Null,
                 count |-> n + 1]
    BY <1>3, <1>5, <2>1
  <2>3. /\ iter.bucket \in 0 .. bucket_count /\ iter.node \in Keys \union {Null}
        /\ n + 1 \in Nat
    BY <1>5
  <2> QED BY <2>1, <2>2, <2>3
<1>7. /\ listed' \in HashListings
      /\ Len(listed') = Len(listed) + 1
  <2>1. iter.count \in Nat /\ iter.second \in Keys BY <1>3, <1>5
  <2>2. PICK e : e = <<iter.count, <<"second", iter.second>> >> OBVIOUS
  <2>3. e \in Nat \X ({"first", "second"} \X Keys) BY <2>1, <2>2
  <2>4. listed' = Append(listed, e) BY <1>3, <2>2
  <2> QED BY <1>5, <2>3, <2>4, AppendProperties
<1>8. Table(tr1, map)!TypeOK' BY <1>1, <1>3, <1>6, <1>7, HashKeeps
<1>9. HashAfter(tr1, map, s, p)'
  <2>1. map /\ p >= 1 /\ Len(listed) = 2 * p - 1 BY <1>3, <1>4 DEF HashAfter
  <2>2. Len(listed') = 2 * p BY <1>7, <2>1
  <2>3. ASSUME NEW k PROVE HashAt(tr1, k, bucket_count)' = HashAt(tr1, k, bucket_count)
    BY <1>1 DEF HashSame, HashAt
  <2>4. bucket_count' = bucket_count BY <1>1 DEF HashSame
  <2> QED BY <1>4, <1>6, <1>7, <2>1, <2>2, <2>3, <2>4 DEF HashAfter
<1>10. HashIterates(tr1, map)'
  <2>1. Table(tr1, map)!keys' = s BY <1>1, <1>2 DEF HashSame
  <2> QED BY <1>3, <1>9, <2>1 DEF HashIterates
<1> QED BY <1>1, <1>3, <1>8, <1>10 DEF HashInv, HashSame, Idle

LEMMA HashElement ==
  ASSUME NEW tr1 \in BOOLEAN, NEW map \in BOOLEAN, HashInv(tr1, map),
         Table(tr1, map)!Element
  PROVE  HashInv(tr1, map)'
<1>1. HashSame(tr1, map)
  BY HashStays DEF Table!Element
<1>2. PICK s : s = Table(tr1, map)!keys OBVIOUS
<1>3. PICK r : r = Table(tr1, map)!Advance(iter) OBVIOUS
<1>4. /\ mode = "listing" /\ mode' = mode
      /\ iter.second = Null /\ iter.node \in Keys
      /\ listed' = Append(listed, <<iter.count, <<"first", iter.node>> >>)
      /\ iter' = [r EXCEPT !.second = IF map THEN iter.node ELSE Null,
                           !.count = @ + 1]
  BY <1>3 DEF Table!Element, Table!first
<1>5. PICK p \in 0 .. Len(s) :
         /\ HashAfter(tr1, map, s, p)
         /\ iter.node \in Keys <=> p < Len(s)
         /\ iter.node # Null <=> p < Len(s)
         /\ p < Len(s) => p + 1 \in 1 .. Len(s) /\ iter.node = s[p + 1]
  BY <1>2, <1>4, HashElementIs
<1>6. PICK q : q = p + 1 OBVIOUS
<1>7. q \in 1 .. Len(s) /\ iter.node = s[q] /\ p < Len(s) /\ Len(s) \in Nat
  BY <1>2, <1>4, <1>5, <1>6, HashKeys
<1>8. /\ iter \in HashIters
      /\ listed \in HashListings
      /\ Len(listed) \in Nat
  BY HashTyped DEF HashInv
<1>9. HashNext(tr1, s, q, r)
  <2>1. tr1 => iter.bucket = HashAt(tr1, s[q], bucket_count)
    BY <1>5, <1>6, <1>7 DEF HashAfter
  <2>2. Table(tr1, map)!TypeOK /\ HashRow(tr1)
    BY DEF HashInv
  <2> QED BY <1>2, <1>3, <1>7, <2>1, <2>2, HashAdvances, Zenon
<1>10. r.node \in Keys \union {Null}
  <2>1. q < Len(s) => q + 1 \in 1 .. Len(s) BY <1>7
  <2> QED BY <1>2, <1>9, <2>1, HashKeys DEF HashNext
<1>11. r.second = iter.second /\ r.count = iter.count
       /\ r \in HashIters
  <2>1. PICK x \in 0 .. bucket_count, y \in Keys \union {Null} :
           x = r.bucket /\ y = r.node
    BY <1>9, <1>10 DEF HashNext
  <2>2. r = [iter EXCEPT !.bucket = x, !.node = y] BY <1>9, <2>1 DEF HashNext
  <2> QED BY <1>8, <2>2
<1>12. /\ iter'.bucket = r.bucket /\ iter'.node = r.node
       /\ iter'.second = (IF map THEN iter.node ELSE Null)
       /\ iter'.count = iter.count + 1
       /\ iter' \in HashIters
  <2>1. PICK n \in Nat : n = r.count BY <1>11
  <2>2. PICK x \in Keys \union {Null} : x = IF map THEN iter.node ELSE Null
    BY <1>4
  <2>3. iter' = [bucket |-> r.bucket, node |-> r.node, second |-> x,
                 count |-> n + 1]
    BY <1>4, <1>11, <2>1, <2>2
  <2>4. /\ r.bucket \in 0 .. bucket_count /\ r.node \in Keys \union {Null}
        /\ n + 1 \in Nat
    BY <1>11
  <2> QED BY <1>11, <2>1, <2>2, <2>3, <2>4
<1>13. /\ listed' \in HashListings
       /\ Len(listed') = Len(listed) + 1
  <2>1. iter.count \in Nat BY <1>8
  <2>2. PICK e : e = <<iter.count, <<"first", iter.node>> >> OBVIOUS
  <2>3. e \in Nat \X ({"first", "second"} \X Keys) BY <1>4, <2>1, <2>2
  <2>4. listed' = Append(listed, e) BY <1>4, <2>2
  <2> QED BY <1>8, <2>3, <2>4, AppendProperties
<1>14. Table(tr1, map)!TypeOK' BY <1>1, <1>4, <1>12, <1>13, HashKeeps
<1>15. HashAfter(tr1, map, s, q)'
  <2>1. Len(listed) = IF map THEN 2 * p ELSE p BY <1>4, <1>5 DEF HashAfter
  <2>2. Len(listed') = IF map THEN 2 * q - 1 ELSE q BY <1>6, <1>7, <1>13, <2>1
  <2>3. iter'.second # Null <=> map
    <3>1. iter.node # Null BY <1>5, <1>7
    <3> QED BY <1>12, <3>1
  <2>4. iter.count = Len(listed) BY <1>5 DEF HashAfter
  <2>5. ASSUME NEW k PROVE HashAt(tr1, k, bucket_count)' = HashAt(tr1, k, bucket_count)
    BY <1>1 DEF HashSame, HashAt
  <2>6. bucket_count' = bucket_count BY <1>1 DEF HashSame
  <2>7. q >= 1 BY <1>7
  <2>8. /\ iter'.count = Len(listed')
        /\ iter'.node = IF q < Len(s) THEN s[q + 1] ELSE Null
        /\ q < Len(s) /\ tr1 => iter'.bucket = HashAt(tr1, s[q + 1], bucket_count)'
        /\ iter'.second # Null => map /\ q >= 1 /\ iter'.second = s[q]
    BY <1>7, <1>9, <1>12, <1>13, <2>3, <2>4, <2>5, <2>7 DEF HashNext
  <2> QED BY <2>2, <2>3, <2>8 DEF HashAfter
<1>16. HashIterates(tr1, map)'
  <2>1. Table(tr1, map)!keys' = s /\ q \in 0 .. Len(s)
    BY <1>1, <1>2, <1>7 DEF HashSame
  <2> QED BY <1>4, <1>15, <2>1 DEF HashIterates
<1> QED BY <1>1, <1>4, <1>14, <1>16 DEF HashInv, HashSame, Idle

\* A listing ends, or is given up.
LEMMA HashEnds ==
  ASSUME NEW tr1 \in BOOLEAN, NEW map \in BOOLEAN, HashInv(tr1, map),
         Table(tr1, map)!StopIteration \/ Table(tr1, map)!Continue
  PROVE  HashInv(tr1, map)'
<1>1. HashSame(tr1, map) /\ mode' \in {"running", "listed"}
      /\ iter' = Table(tr1, map)!NoIter
  BY HashStays DEF Table!StopIteration, Table!Continue
<1>2. PICK s : s = Table(tr1, map)!keys OBVIOUS
<1>3. listed \in HashListings
  BY HashTyped DEF HashInv
<1>4. listed' \in HashListings
  <2>1. listed' = listed \/ listed' = <<>>
    BY DEF Table!StopIteration, Table!Continue
  <2>2. PICK S : S = Nat \X ({"first", "second"} \X Keys) OBVIOUS
  <2>3. listed \in Seq(S) /\ <<>> \in Seq(S) BY <1>3, <2>2
  <2>4. listed' \in Seq(S) BY <2>1, <2>3
  <2> QED BY <2>2, <2>4
<1>5. iter' \in HashIters
  <2>1. PICK n \in 1 .. 3 : n = bucket_count
    BY HashTyped DEF HashInv
  <2>2. 0 \in 0 .. n OBVIOUS
  <2> QED BY <1>1, <2>1, <2>2 DEF Table!NoIter
<1>6. Table(tr1, map)!TypeOK' BY <1>1, <1>4, <1>5, HashKeeps
<1>7. mode' = "listed" => Len(listed') = Len(s) * (IF map THEN 2 ELSE 1)
  <2> SUFFICES ASSUME mode' = "listed"
               PROVE  Len(listed') = Len(s) * (IF map THEN 2 ELSE 1)
    OBVIOUS
  <2>1. /\ mode = "listing" /\ iter.second = Null /\ iter.node = Null
        /\ listed' = listed
    BY DEF Table!StopIteration, Table!Continue, Table!AtEnd
  <2>2. PICK p \in 0 .. Len(s) :
           /\ HashAfter(tr1, map, s, p)
           /\ iter.node \in Keys <=> p < Len(s)
           /\ iter.node # Null <=> p < Len(s)
           /\ p < Len(s) => p + 1 \in 1 .. Len(s) /\ iter.node = s[p + 1]
    BY <1>2, <2>1, HashElementIs
  <2>3. PICK l \in Nat : l = Len(s) BY <1>2, HashKeys
  <2>4. p = l BY <2>1, <2>2, <2>3
  <2>5. Len(listed) = IF map THEN 2 * l ELSE l
    BY <2>1, <2>2, <2>4 DEF HashAfter
  <2> QED BY <2>1, <2>3, <2>5
<1>8. HashIterates(tr1, map)'
  <2>1. Table(tr1, map)!keys' = s /\ mode' # "listing"
    BY <1>1, <1>2 DEF HashSame
  <2>2. iter' = Table(tr1, map)!NoIter' BY <1>1 DEF HashSame
  <2> QED BY <1>7, <2>1, <2>2 DEF HashIterates
<1>9. Idle'
  BY DEF Table!StopIteration, Table!Continue, Idle
<1> QED BY <1>1, <1>6, <1>8, <1>9 DEF HashInv, HashSame

LEMMA HashStep ==
  ASSUME NEW tr1 \in BOOLEAN, NEW map \in BOOLEAN, HashInv(tr1, map),
         Table(tr1, map)!Next
  PROVE  HashInv(tr1, map)'
<1>1. ASSUME NEW k \in Keys, Table(tr1, map)!Insert(k) PROVE HashInv(tr1, map)'
  BY <1>1, HashInsert
<1>2. ASSUME NEW k \in Keys, Table(tr1, map)!Erase(k) PROVE HashInv(tr1, map)'
  BY <1>2, HashErase
<1>3. ASSUME NEW n \in 1 .. 3, Table(tr1, map)!Rehash(n)
      PROVE  HashInv(tr1, map)'
  BY <1>3, HashRehash
<1>4. CASE Table(tr1, map)!Children BY <1>4, HashChildren
<1>5. CASE Table(tr1, map)!Second BY <1>5, HashSecond
<1>6. CASE Table(tr1, map)!Element BY <1>6, HashElement
<1>7. CASE Table(tr1, map)!StopIteration \/ Table(tr1, map)!Continue
  BY <1>7, HashEnds
<1>8. CASE Table(tr1, map)!Count BY <1>8, HashCounts
<1> QED BY <1>1, <1>2, <1>3, <1>4, <1>5, <1>6, <1>7, <1>8 DEF Table!Next

\* What is announced has been listed in the end, but for what is not counted
\* yet, and the iterator never leaves the table.
LEMMA HashShows ==
  ASSUME NEW tr1 \in BOOLEAN, NEW map \in BOOLEAN, HashInv(tr1, map)
  PROVE  Table(tr1, map)!AnnouncedIsListed /\ Table(tr1, map)!StaysInTable
<1>1. Table(tr1, map)!AnnouncedIsListed
  <2>1. PICK s : s = Table(tr1, map)!keys OBVIOUS
  <2>2. \E i \in -1 .. 1 : element_count + i = Len(s) BY <2>1, HashKeys
  <2>3. mode = "listed" => Len(listed) = Len(s) * (IF map THEN 2 ELSE 1)
    BY <2>1 DEF HashInv, HashIterates
  <2> QED BY <2>2, <2>3 DEF Table!AnnouncedIsListed, Table!to_string
<1>2. Table(tr1, map)!StaysInTable
  <2>1. iter.node \in Keys \union {Null}
    BY HashTyped DEF HashInv
  <2> QED BY <2>1, PrintersAssumption DEF Table!StaysInTable
<1> QED BY <1>1, <1>2

Halves(map) == IF map THEN 2 ELSE 1

\* The elements of a container of n keys or pairs s: the keys, or the halves of
\* the pairs.
Elements(map, s, n) ==
  IF map THEN [i \in 1 .. 2 * n |-> IF i % 2 = 1
                                    THEN <<"first", s[(i + 1) \div 2]>>
                                    ELSE <<"second", s[i \div 2]>>]
         ELSE [i \in 1 .. n |-> <<"first", s[i]>>]

IsContents(map, s, n, c) ==
  /\ Len(c) = n * Halves(map)
  /\ ~map => \A i \in 1 .. n : c[i] = <<"first", s[i]>>
  /\ map => \A i \in 1 .. n :
        c[2 * i - 1] = <<"first", s[i]>> /\ c[2 * i] = <<"second", s[i]>>

LEMMA ContentsAre ==
  ASSUME NEW map \in BOOLEAN, NEW s, NEW n \in Nat, NEW c,
         c = Elements(map, s, n)
  PROVE  IsContents(map, s, n, c)
<1>1. CASE ~map
  <2>1. c = [i \in 1 .. n |-> <<"first", s[i]>>] BY <1>1 DEF Elements
  <2>2. Len(c) = n BY <2>1
  <2>3. \A i \in 1 .. n : c[i] = <<"first", s[i]>> BY <2>1, Zenon
  <2> QED BY <1>1, <2>2, <2>3 DEF IsContents, Halves
<1>2. CASE map
  <2>1. c = [i \in 1 .. 2 * n |->
               IF i % 2 = 1 THEN <<"first", s[(i + 1) \div 2]>>
                            ELSE <<"second", s[i \div 2]>>]
    BY <1>2, Zenon DEF Elements
  <2>2. 2 * n \in Nat OBVIOUS
  <2>3. Len(c) = 2 * n BY <2>1, <2>2
  <2>4. ASSUME NEW i \in 1 .. n
        PROVE  c[2 * i - 1] = <<"first", s[i]>> /\ c[2 * i] = <<"second", s[i]>>
    <3>1. /\ 2 * i - 1 \in 1 .. 2 * n /\ 2 * i \in 1 .. 2 * n
          /\ (2 * i - 1) % 2 = 1 /\ ((2 * i - 1) + 1) \div 2 = i
          /\ (2 * i) % 2 # 1 /\ (2 * i) \div 2 = i
      OBVIOUS
    <3>2. PICK j \in 1 .. 2 * n :
             j = 2 * i - 1 /\ j % 2 = 1 /\ (j + 1) \div 2 = i
      BY <3>1
    <3>3. PICK k \in 1 .. 2 * n : k = 2 * i /\ k % 2 # 1 /\ k \div 2 = i
      BY <3>1
    <3>4. c[j] = <<"first", s[i]>> BY <2>1, <3>2
    <3>5. c[k] = <<"second", s[i]>> BY <2>1, <3>3
    <3> QED BY <3>2, <3>3, <3>4, <3>5
  <2>5. Halves(map) = 2 /\ 2 * n = n * 2 BY <1>2 DEF Halves
  <2>6. Len(c) = n * Halves(map) BY <2>3, <2>5
  <2> QED BY <1>2, <2>4, <2>6 DEF IsContents
<1> QED BY <1>1, <1>2

LEMMA HashContents ==
  ASSUME NEW tr1 \in BOOLEAN, NEW map \in BOOLEAN, HashInv(tr1, map),
         NEW s, s = Table(tr1, map)!keys, NEW c, c = Table(tr1, map)!contents
  PROVE  IsContents(map, s, Len(s), c)
<1>1. c = Elements(map, s, Len(s)) /\ Len(s) \in Nat
  <2>1. s \in Seq(Keys) /\ DOMAIN s = 1 .. Len(s) /\ Len(s) \in Nat
    BY HashKeys, LenProperties
  <2>2. c = Elements(map, s, Len(s))
    BY <2>1, Zenon DEF Table!contents, Table!first, Table!second, Elements
  <2> QED BY <2>1, <2>2
<1> QED BY <1>1, ContentsAre, Zenon

LEMMA HashLists ==
  ASSUME NEW tr1 \in BOOLEAN, NEW map \in BOOLEAN, HashInv(tr1, map),
         Table(tr1, map)!Next
  PROVE  Allowed(Table(tr1, map)!contents, Table(tr1, map)!contents',
                 listed, listed')
<1>1. PICK c : c = Table(tr1, map)!contents OBVIOUS
<1>2. PICK d : d = Table(tr1, map)!contents' OBVIOUS
<1>3. PICK s : s = Table(tr1, map)!keys OBVIOUS
<1>4. ASSUME UNCHANGED Table(tr1, map)!container PROVE d = c
  <2>1. Table(tr1, map)!keys' = Table(tr1, map)!keys
    BY <1>4, HashStays DEF HashSame
  <2> QED
    BY <1>1, <1>2, <2>1
       DEF Table!contents, Table!first, Table!second
<1>5. PICK n \in Nat : n = Len(s) BY <1>3, HashKeys
<1>6. /\ Len(c) = IF map THEN 2 * n ELSE n
      /\ ~map => \A i \in 1 .. n : c[i] = <<"first", s[i]>>
      /\ map => \A i \in 1 .. n :
            c[2 * i - 1] = <<"first", s[i]>> /\ c[2 * i] = <<"second", s[i]>>
  BY <1>1, <1>3, <1>5, HashContents DEF IsContents, Halves
<1> SUFFICES Allowed(c, d, listed, listed')
  BY <1>1, <1>2
<1>7. CASE \E k \in Keys : Table(tr1, map)!Insert(k) \/ Table(tr1, map)!Erase(k)
  BY <1>7 DEF Table!Insert, Table!Erase, Allowed, Changes
<1>8. CASE \E m \in 1 .. 3 : Table(tr1, map)!Rehash(m)
  BY <1>8 DEF Table!Rehash, Allowed, Changes
<1>14. CASE Table(tr1, map)!Count BY <1>14 DEF Table!Count, Allowed, Changes
<1>9. CASE Table(tr1, map)!Children
  BY <1>4, <1>9 DEF Table!Children, Allowed, Starts
<1>10. CASE Table(tr1, map)!Second
  <2>1. /\ mode = "listing" /\ mode' = mode /\ iter.second # Null
        /\ UNCHANGED Table(tr1, map)!container
        /\ listed' = Append(listed, <<iter.count, <<"second", iter.second>> >>)
    BY <1>10 DEF Table!Second, Table!second
  <2>2. PICK p \in 0 .. n : HashAfter(tr1, map, s, p)
    BY <1>3, <1>5, <2>1, HashElementIs
  <2>3. /\ map /\ p \in 1 .. n /\ iter.second = s[p] /\ iter.count = Len(listed)
        /\ Len(listed) = 2 * p - 1
    BY <2>1, <2>2 DEF HashAfter
  <2>4. Len(listed) < Len(c) /\ Len(listed) + 1 = 2 * p BY <1>6, <2>3
  <2>5. c[Len(listed) + 1] = <<"second", iter.second>> BY <1>6, <2>3, <2>4
  <2>6. Emits(c, d, listed, listed') BY <1>4, <2>1, <2>3, <2>4, <2>5 DEF Emits
  <2> QED BY <2>6 DEF Allowed
<1>11. CASE Table(tr1, map)!Element
  <2>1. /\ mode = "listing" /\ mode' = mode /\ iter.second = Null
        /\ iter.node \in Keys /\ UNCHANGED Table(tr1, map)!container
        /\ listed' = Append(listed, <<iter.count, <<"first", iter.node>> >>)
    BY <1>11 DEF Table!Element, Table!first
  <2>2. PICK p \in 0 .. n :
           /\ HashAfter(tr1, map, s, p)
           /\ iter.node \in Keys <=> p < n
           /\ iter.node # Null <=> p < n
           /\ p < n => p + 1 \in 1 .. n /\ iter.node = s[p + 1]
    BY <1>3, <1>5, <2>1, HashElementIs
  <2>3. PICK q \in 1 .. n : q = p + 1 /\ iter.node = s[q] BY <2>1, <2>2
  <2>4. /\ iter.count = Len(listed)
        /\ Len(listed) = IF map THEN 2 * q - 2 ELSE q - 1
    BY <2>1, <2>2, <2>3 DEF HashAfter
  <2>5. Len(listed) < Len(c)
        /\ Len(listed) + 1 = IF map THEN 2 * q - 1 ELSE q
    BY <1>6, <2>4
  <2>6. c[Len(listed) + 1] = <<"first", iter.node>> BY <1>6, <2>3, <2>5
  <2>7. Emits(c, d, listed, listed') BY <1>4, <2>1, <2>4, <2>5, <2>6 DEF Emits
  <2> QED BY <2>7 DEF Allowed
<1>12. CASE Table(tr1, map)!StopIteration
  <2>1. /\ mode = "listing" /\ mode' = "listed" /\ iter.second = Null
        /\ iter.node = Null /\ UNCHANGED Table(tr1, map)!container
        /\ listed' = listed
    BY <1>12 DEF Table!StopIteration, Table!AtEnd
  <2>2. PICK p \in 0 .. n :
           /\ HashAfter(tr1, map, s, p)
           /\ iter.node \in Keys <=> p < n
           /\ iter.node # Null <=> p < n
           /\ p < n => p + 1 \in 1 .. n /\ iter.node = s[p + 1]
    BY <1>3, <1>5, <2>1, HashElementIs
  <2>3. p = n BY <2>1, <2>2
  <2>4. Len(listed) = Len(c) BY <1>6, <2>1, <2>2, <2>3 DEF HashAfter
  <2> QED BY <1>4, <2>1, <2>4 DEF Allowed, Finishes
<1>13. CASE Table(tr1, map)!Continue
  BY <1>4, <1>13 DEF Table!Continue, Allowed, Resumes
<1> QED BY <1>7, <1>8, <1>9, <1>10, <1>11, <1>12, <1>13, <1>14 DEF Table!Next
-----------------------------------------------------------------------------
(* The trees.                                                              *)

\* The links of a tree, the iterator on it, and what that lists.
AnyTreeNode == TreeNodes \union {Header}
TreeLinks == [AnyTreeNode -> TreeNodes \union {Header, Null}]
TreeIters == [node : TreeNodes \union {Header, Null}, count : Nat,
              pair : TreeNodes \union {Header, Null}, number : Nat]
TreeListings == Seq(Nat \X ({"first", "second"} \X AnyTreeNode))
USE DEF AnyTreeNode, TreeLinks, TreeIters, TreeListings

\* The nodes T of a tree have places among them, from 1 to N; those of n and of
\* the nodes below it are the places from lo[n] to hi[n].
HangsLeft(T, l, p, at, lo, hi, n) ==
  IF l[n] = Null THEN lo[n] = at[n]
  ELSE /\ l[n] \in T /\ p[l[n]] = n
       /\ lo[l[n]] = lo[n] /\ hi[l[n]] = at[n] - 1

HangsRight(T, r, p, at, lo, hi, n) ==
  IF r[n] = Null THEN hi[n] = at[n]
  ELSE /\ r[n] \in T /\ p[r[n]] = n
       /\ lo[r[n]] = at[n] + 1 /\ hi[r[n]] = hi[n]

HangsBelow(T, N, l, r, p, lo, hi, n) ==
  IF p[n] = Header THEN p[Header] = n /\ lo[n] = 1 /\ hi[n] = N
  ELSE p[n] \in T /\ (l[p[n]] = n \/ r[p[n]] = n)

TreeTyped(T, N, l, r, p, at, lo, hi) ==
  /\ T \subseteq TreeNodes /\ N \in Nat
  /\ l \in TreeLinks
  /\ r \in TreeLinks
  /\ p \in TreeLinks
  /\ at \in [T -> 1 .. N] /\ lo \in [T -> 1 .. N] /\ hi \in [T -> 1 .. N]

TreeNumbered(T, at, lo, hi) ==
  /\ \A x, y \in T : at[x] = at[y] => x = y
  /\ \A x \in T : lo[x] <= at[x] /\ at[x] <= hi[x]

TreeRooted(T, p) ==
  IF T = {} THEN p[Header] = Null
  ELSE p[Header] \in T /\ p[p[Header]] = Header

TreeFree(T, l, r, p) ==
  \A x \in TreeNodes \ T : l[x] = Null /\ r[x] = Null /\ p[x] = Null

IsTree(T, N, l, r, p, at, lo, hi) ==
  /\ TreeTyped(T, N, l, r, p, at, lo, hi)
  /\ TreeNumbered(T, at, lo, hi)
  /\ TreeRooted(T, p)
  /\ TreeFree(T, l, r, p)
  /\ \A x \in T : /\ HangsLeft(T, l, p, at, lo, hi, x)
                  /\ HangsRight(T, r, p, at, lo, hi, x)
                  /\ HangsBelow(T, N, l, r, p, lo, hi, x)

\* No node is above or below itself, or twice below another.
Related(T, l, r, p, n) ==
  /\ l[n] # n /\ r[n] # n /\ p[n] # n
  /\ l[n] # Null => l[n] # r[n]
  /\ p[n] \in T \union {Header} /\ p[n] # Null
  /\ l[n] \in T \union {Null} /\ r[n] \in T \union {Null}
  /\ n \in TreeNodes /\ n # Header /\ n # Null

LEMMA TreeRelated ==
  ASSUME NEW T, NEW N, NEW l, NEW r, NEW p, NEW at, NEW lo, NEW hi,
         IsTree(T, N, l, r, p, at, lo, hi), NEW n \in T
  PROVE  Related(T, l, r, p, n)
<1>1. /\ n \in TreeNodes /\ n # Header /\ n # Null
      /\ \A x \in T : x # Header /\ x # Null
  BY PrintersAssumption DEF IsTree, TreeTyped
<1>2. /\ at[n] \in Int /\ lo[n] \in Int /\ hi[n] \in Int
      /\ lo[n] <= at[n] /\ at[n] <= hi[n]
  BY DEF IsTree, TreeTyped, TreeNumbered
<1>3. /\ HangsLeft(T, l, p, at, lo, hi, n)
      /\ HangsRight(T, r, p, at, lo, hi, n)
      /\ HangsBelow(T, N, l, r, p, lo, hi, n)
  BY DEF IsTree
<1>4. l[n] \in T \union {Null} /\ r[n] \in T \union {Null}
  BY <1>3 DEF HangsLeft, HangsRight
<1>5. l[n] # n BY <1>1, <1>2, <1>3 DEF HangsLeft
<1>6. r[n] # n BY <1>1, <1>2, <1>3 DEF HangsRight
<1>7. p[n] \in T \union {Header} BY <1>3 DEF HangsBelow
<1>8. p[n] # n BY <1>1, <1>3, <1>5, <1>6 DEF HangsBelow
<1>9. ASSUME l[n] # Null, l[n] = r[n] PROVE FALSE
  <2>1. r[n] # Null /\ lo[r[n]] = lo[n] /\ lo[r[n]] = at[n] + 1
    BY <1>3, <1>9 DEF HangsLeft, HangsRight
  <2> QED BY <1>2, <2>1
<1>10. p[n] # Null BY <1>1, <1>7, PrintersAssumption
<1> QED BY <1>1, <1>4, <1>5, <1>6, <1>7, <1>8, <1>9, <1>10 DEF Related

\* The places when one more node is put behind the first a, or that at place k
\* goes.
UpAt(at, a, n, x) ==
  IF x = n THEN a + 1 ELSE IF at[x] <= a THEN at[x] ELSE at[x] + 1
UpLo(lo, k, a, n, x) ==
  IF x = n THEN a + 1 ELSE IF lo[x] <= k THEN lo[x] ELSE lo[x] + 1
UpHi(hi, k, a, n, x) ==
  IF x = n THEN a + 1 ELSE IF hi[x] >= k THEN hi[x] + 1 ELSE hi[x]

LEMMA UpDiffers ==
  ASSUME NEW a \in Int, NEW x \in Int, NEW y \in Int,
         (IF x <= a THEN x ELSE x + 1) = (IF y <= a THEN y ELSE y + 1)
  PROVE  x = y
OBVIOUS

IsGrown(T, S, at, lo, hi, k, a, n, At, Lo, Hi) ==
  /\ n \in TreeNodes \ T /\ S = T \union {n}
  /\ At = [x \in S |-> UpAt(at, a, n, x)]
  /\ Lo = [x \in S |-> UpLo(lo, k, a, n, x)]
  /\ Hi = [x \in S |-> UpHi(hi, k, a, n, x)]

\* A leaf n hangs below q, at place k, to its left or to its right.
IsLeafOf(l, r, p, k, a, n, q, J, R, P) ==
  /\ \/ a = k - 1 /\ l[q] = Null /\ J[q] = n /\ R[q] = r[q]
     \/ a = k /\ r[q] = Null /\ R[q] = n /\ J[q] = l[q]
  /\ J[n] = Null /\ R[n] = Null /\ P[n] = q
  /\ \A x \in TreeNodes \ {n, q} : J[x] = l[x] /\ R[x] = r[x]
  /\ \A x \in AnyTreeNode \ {n} : P[x] = p[x]

IsLinks(l) == l \in TreeLinks

HasLeaf(T, l, r, p, at, k, a, n, q, J, R, P) ==
  /\ q \in T /\ k = at[q]
  /\ IsLeafOf(l, r, p, k, a, n, q, J, R, P)
  /\ IsLinks(J) /\ IsLinks(R) /\ IsLinks(P)

LEMMA TreeGrows ==
  ASSUME NEW T, NEW N, NEW l, NEW r, NEW p, NEW at, NEW lo, NEW hi,
         IsTree(T, N, l, r, p, at, lo, hi),
         NEW q, NEW n, NEW k, NEW a, NEW J, NEW R, NEW P, NEW T2,
         HasLeaf(T, l, r, p, at, k, a, n, q, J, R, P),
         NEW At, NEW Lo, NEW Hi,
         IsGrown(T, T2, at, lo, hi, k, a, n, At, Lo, Hi)
  PROVE  IsTree(T2, N + 1, J, R, P, At, Lo, Hi)
<1>0. /\ n \in TreeNodes \ T /\ T2 = T \union {n}
      /\ q \in T /\ k = at[q]
      /\ IsLeafOf(l, r, p, k, a, n, q, J, R, P)
      /\ J \in TreeLinks
      /\ R \in TreeLinks
      /\ P \in TreeLinks
  BY DEF IsGrown, HasLeaf, IsLinks
<1> USE <1>0
<1>1. /\ T \subseteq TreeNodes /\ N \in Nat /\ n \notin T /\ n # Null
      /\ n # Header /\ n # q
      /\ at \in [T -> 1 .. N] /\ lo \in [T -> 1 .. N] /\ hi \in [T -> 1 .. N]
  BY PrintersAssumption DEF IsTree, TreeTyped
<1>2. k \in 1 .. N /\ a \in 0 .. N /\ (a = k - 1 \/ a = k) BY <1>1 DEF IsLeafOf
<1>3. /\ \A x, y \in T : at[x] = at[y] => x = y
      /\ \A x \in T : lo[x] <= at[x] /\ at[x] <= hi[x]
  BY DEF IsTree, TreeNumbered
<1>4. ASSUME NEW x \in T
      PROVE  /\ HangsLeft(T, l, p, at, lo, hi, x)
             /\ HangsRight(T, r, p, at, lo, hi, x)
             /\ HangsBelow(T, N, l, r, p, lo, hi, x)
             /\ Related(T, l, r, p, x)
             /\ x # n /\ x \in T2 /\ l[x] # n /\ r[x] # n /\ p[x] # n
  <2>1. Related(T, l, r, p, x)
    BY TreeRelated
  <2> QED BY <1>1, <2>1 DEF IsTree, Related
<1>5. ASSUME NEW x \in T
      PROVE  /\ At[x] = IF at[x] <= a THEN at[x] ELSE at[x] + 1
             /\ Lo[x] = IF lo[x] <= k THEN lo[x] ELSE lo[x] + 1
             /\ Hi[x] = IF hi[x] >= k THEN hi[x] + 1 ELSE hi[x]
             /\ at[x] \in 1 .. N /\ lo[x] \in 1 .. N /\ hi[x] \in 1 .. N
             /\ lo[x] <= at[x] /\ at[x] <= hi[x]
             /\ x # q => at[x] # k
             /\ P[x] = p[x]
  BY <1>1, <1>3, <1>4 DEF IsGrown, UpAt, UpLo, UpHi, IsLeafOf
<1>6. At[n] = a + 1 /\ Lo[n] = a + 1 /\ Hi[n] = a + 1 /\ n \in T2
  BY DEF IsGrown, UpAt, UpLo, UpHi
<1>7. TreeNumbered(T2, At, Lo, Hi)
  <2>1. ASSUME NEW x \in T2, NEW y \in T2, At[x] = At[y] PROVE x = y
    <3>1. ASSUME NEW z \in T PROVE At[z] # a + 1
      <4>1. at[z] \in Int /\ (At[z] = IF at[z] <= a THEN at[z] ELSE at[z] + 1)
        BY <1>5
      <4> QED BY <1>2, <4>1
    <3>2. ASSUME NEW z \in T, NEW w \in T, At[z] = At[w] PROVE z = w
      <4>1. /\ at[z] \in Int /\ (At[z] = IF at[z] <= a THEN at[z] ELSE at[z] + 1)
            /\ at[w] \in Int /\ (At[w] = IF at[w] <= a THEN at[w] ELSE at[w] + 1)
        BY <1>5
      <4>3. a \in Int BY <1>2
      <4>4. (IF at[z] <= a THEN at[z] ELSE at[z] + 1)
            = (IF at[w] <= a THEN at[w] ELSE at[w] + 1)
        BY <3>2, <4>1, Zenon
      <4>2. at[z] = at[w] BY <4>1, <4>3, <4>4, UpDiffers, Zenon
      <4> QED BY <1>3, <4>2
    <3> QED BY <1>6, <2>1, <3>1, <3>2
  <2>2. ASSUME NEW x \in T2 PROVE Lo[x] <= At[x] /\ At[x] <= Hi[x]
    <3>1. CASE x = n BY <1>2, <1>6, <3>1
    <3>2. CASE x \in T BY <1>2, <1>5, <3>2
    <3> QED BY <3>1, <3>2
  <2> QED BY <2>1, <2>2 DEF TreeNumbered
<1>8. TreeTyped(T2, N + 1, J, R, P, At, Lo, Hi)
  <2>1. ASSUME NEW x \in T2
        PROVE  /\ UpAt(at, a, n, x) \in 1 .. N + 1
               /\ UpLo(lo, k, a, n, x) \in 1 .. N + 1
               /\ UpHi(hi, k, a, n, x) \in 1 .. N + 1
    <3>1. CASE x = n BY <1>1, <1>2, <3>1 DEF UpAt, UpLo, UpHi
    <3>2. CASE x \in T BY <1>1, <1>2, <1>4, <1>5, <3>2 DEF UpAt, UpLo, UpHi
    <3> QED BY <3>1, <3>2
  <2>2. /\ At \in [T2 -> 1 .. N + 1] /\ Lo \in [T2 -> 1 .. N + 1]
        /\ Hi \in [T2 -> 1 .. N + 1]
    BY <2>1 DEF IsGrown
  <2>3. T2 \subseteq TreeNodes /\ N + 1 \in Nat BY <1>1
  <2> QED BY <2>2, <2>3 DEF TreeTyped
<1>9. TreeRooted(T2, P)
  <2>1. p[Header] \in T /\ p[p[Header]] = Header
    BY DEF IsTree, TreeRooted
  <2>2. P[Header] = p[Header] BY <1>1 DEF IsLeafOf
  <2> QED BY <1>5, <2>1, <2>2 DEF TreeRooted
<1>10. TreeFree(T2, J, R, P)
  <2> SUFFICES ASSUME NEW x \in TreeNodes \ T2
               PROVE  J[x] = Null /\ R[x] = Null /\ P[x] = Null
    BY DEF TreeFree
  <2>1. x \in TreeNodes \ T /\ x # n /\ x # q OBVIOUS
  <2>2. l[x] = Null /\ r[x] = Null /\ p[x] = Null BY <2>1 DEF IsTree, TreeFree
  <2> QED BY <2>1, <2>2 DEF IsLeafOf
<1>11. ASSUME NEW x \in T
       PROVE  /\ HangsLeft(T2, J, P, At, Lo, Hi, x)
              /\ HangsRight(T2, R, P, At, Lo, Hi, x)
              /\ HangsBelow(T2, N + 1, J, R, P, Lo, Hi, x)
  <2>1. ASSUME x # q, l[x] = Null PROVE HangsLeft(T2, J, P, At, Lo, Hi, x)
    <3>1. J[x] = Null BY <1>1, <1>4, <2>1 DEF IsLeafOf
    <3>2. lo[x] = at[x] /\ at[x] # k BY <1>4, <1>5, <2>1 DEF HangsLeft
    <3>3. Lo[x] = At[x] BY <1>2, <1>5, <3>2
    <3> QED BY <3>1, <3>3 DEF HangsLeft
  <2>2. ASSUME x # q, l[x] # Null PROVE HangsLeft(T2, J, P, At, Lo, Hi, x)
    <3>1. J[x] = l[x] BY <1>1, <1>4, <2>2 DEF IsLeafOf
    <3>2. PICK y \in T : y = l[x] BY <1>4, <2>2 DEF Related
    <3>3. p[y] = x /\ lo[y] = lo[x] /\ hi[y] = at[x] - 1
      BY <1>4, <2>2, <3>2 DEF HangsLeft
    <3>4. Hi[y] = At[x] - 1 BY <1>2, <1>5, <2>2, <3>3
    <3>5. Lo[y] = Lo[x] /\ P[y] = x /\ y \in T2 BY <1>5, <3>3
    <3> QED BY <2>2, <3>1, <3>2, <3>4, <3>5 DEF HangsLeft
  <2>3. ASSUME x # q, r[x] = Null PROVE HangsRight(T2, R, P, At, Lo, Hi, x)
    <3>1. R[x] = Null BY <1>1, <1>4, <2>3 DEF IsLeafOf
    <3>2. hi[x] = at[x] /\ at[x] # k BY <1>4, <1>5, <2>3 DEF HangsRight
    <3>3. Hi[x] = At[x] BY <1>2, <1>5, <3>2
    <3> QED BY <3>1, <3>3 DEF HangsRight
  <2>4. ASSUME x # q, r[x] # Null PROVE HangsRight(T2, R, P, At, Lo, Hi, x)
    <3>1. R[x] = r[x] BY <1>1, <1>4, <2>4 DEF IsLeafOf
    <3>2. PICK y \in T : y = r[x] BY <1>4, <2>4 DEF Related
    <3>3. p[y] = x /\ lo[y] = at[x] + 1 /\ hi[y] = hi[x]
      BY <1>4, <2>4, <3>2 DEF HangsRight
    <3>4. Lo[y] = At[x] + 1 BY <1>2, <1>5, <2>4, <3>3
    <3>5. Hi[y] = Hi[x] /\ P[y] = x /\ y \in T2 BY <1>5, <3>3
    <3> QED BY <2>4, <3>1, <3>2, <3>4, <3>5 DEF HangsRight
  <2>5. /\ HangsLeft(T, l, p, at, lo, hi, q) /\ HangsRight(T, r, p, at, lo, hi, q)
        /\ l[q] \in T \union {Null} /\ r[q] \in T \union {Null}
        /\ at[q] = k /\ P[n] = q /\ Null \notin T2
    BY <1>4, PrintersAssumption DEF Related, IsLeafOf, IsTree, TreeTyped
  <2>6. ASSUME a = k - 1, l[q] = Null, J[q] = n, R[q] = r[q]
        PROVE  HangsLeft(T2, J, P, At, Lo, Hi, q) /\ HangsRight(T2, R, P, At, Lo, Hi, q)
    <3>1. lo[q] = k BY <2>5, <2>6 DEF HangsLeft
    <3>2. Lo[q] = k /\ At[q] = k + 1 BY <1>2, <1>5, <2>5, <2>6, <3>1
    <3>3. Lo[n] = k /\ Hi[n] = k BY <1>2, <1>6, <2>6
    <3>4. HangsLeft(T2, J, P, At, Lo, Hi, q)
      BY <1>2, <1>6, <2>5, <2>6, <3>2, <3>3, <1>1 DEF HangsLeft
    <3>5. ASSUME r[q] = Null PROVE HangsRight(T2, R, P, At, Lo, Hi, q)
      <4>1. hi[q] = k BY <2>5, <3>5 DEF HangsRight
      <4>2. Hi[q] = k + 1 BY <1>2, <1>5, <4>1
      <4> QED BY <2>6, <3>2, <3>5, <4>2 DEF HangsRight
    <3>6. ASSUME r[q] # Null PROVE HangsRight(T2, R, P, At, Lo, Hi, q)
      <4>1. PICK y \in T : y = r[q] BY <2>5, <3>6
      <4>2. p[y] = q /\ lo[y] = k + 1 /\ hi[y] = hi[q]
        BY <2>5, <3>6, <4>1 DEF HangsRight
      <4>3. Lo[y] = At[q] + 1 BY <1>2, <1>5, <3>2, <4>2
      <4>4. Hi[y] = Hi[q] /\ P[y] = q /\ y \in T2 BY <1>5, <4>2
      <4> QED BY <2>6, <3>6, <4>1, <4>3, <4>4 DEF HangsRight
    <3> QED BY <3>4, <3>5, <3>6
  <2>7. ASSUME a = k, r[q] = Null, R[q] = n, J[q] = l[q]
        PROVE  HangsLeft(T2, J, P, At, Lo, Hi, q) /\ HangsRight(T2, R, P, At, Lo, Hi, q)
    <3>1. hi[q] = k BY <2>5, <2>7 DEF HangsRight
    <3>2. Hi[q] = k + 1 /\ At[q] = k BY <1>2, <1>5, <2>5, <2>7, <3>1
    <3>3. Lo[n] = k + 1 /\ Hi[n] = k + 1 BY <1>2, <1>6, <2>7
    <3>4. HangsRight(T2, R, P, At, Lo, Hi, q)
      BY <1>2, <1>6, <2>5, <2>7, <3>2, <3>3, <1>1 DEF HangsRight
    <3>5. ASSUME l[q] = Null PROVE HangsLeft(T2, J, P, At, Lo, Hi, q)
      <4>1. lo[q] = k BY <2>5, <3>5 DEF HangsLeft
      <4>2. Lo[q] = k BY <1>2, <1>5, <4>1
      <4> QED BY <2>7, <3>2, <3>5, <4>2 DEF HangsLeft
    <3>6. ASSUME l[q] # Null PROVE HangsLeft(T2, J, P, At, Lo, Hi, q)
      <4>1. PICK y \in T : y = l[q] BY <2>5, <3>6
      <4>2. p[y] = q /\ hi[y] = k - 1 /\ lo[y] = lo[q]
        BY <2>5, <3>6, <4>1 DEF HangsLeft
      <4>3. Hi[y] = At[q] - 1 BY <1>2, <1>5, <3>2, <4>2
      <4>4. Lo[y] = Lo[q] /\ P[y] = q /\ y \in T2 BY <1>5, <4>2
      <4> QED BY <2>7, <3>6, <4>1, <4>3, <4>4 DEF HangsLeft
    <3> QED BY <3>4, <3>5, <3>6
  <2>8. HangsLeft(T2, J, P, At, Lo, Hi, q) /\ HangsRight(T2, R, P, At, Lo, Hi, q)
    BY <2>6, <2>7 DEF IsLeafOf
  <2>9. HangsBelow(T2, N + 1, J, R, P, Lo, Hi, x)
    <3>1. CASE p[x] = Header
      <4>1. p[Header] = x /\ lo[x] = 1 /\ hi[x] = N
        BY <1>4, <3>1 DEF HangsBelow
      <4>2. P[Header] = x /\ P[x] = Header
        BY <1>1, <1>5, <3>1, <4>1 DEF IsLeafOf
      <4>3. Lo[x] = 1 /\ Hi[x] = N + 1 BY <1>2, <1>5, <4>1
      <4> QED BY <4>2, <4>3 DEF HangsBelow
    <3>2. CASE p[x] # Header
      <4>1. PICK y \in T : y = p[x] /\ (l[y] = x \/ r[y] = x)
        BY <1>4, <3>2 DEF HangsBelow
      <4>2. P[x] = y /\ y \in T2 BY <1>5, <4>1
      <4>3. J[y] = x \/ R[y] = x
        <5>1. CASE y = q BY <1>4, <4>1, <5>1 DEF IsLeafOf, Related
        <5>2. CASE y # q
          <6>1. J[y] = l[y] /\ R[y] = r[y] BY <1>1, <5>2 DEF IsLeafOf
          <6> QED BY <4>1, <6>1
        <5> QED BY <5>1, <5>2
      <4>4. y # Header BY <3>2, <4>1
      <4> QED BY <4>2, <4>3, <4>4 DEF HangsBelow
    <3> QED BY <3>1, <3>2
  <2> QED BY <2>1, <2>2, <2>3, <2>4, <2>8, <2>9
<1>12. /\ HangsLeft(T2, J, P, At, Lo, Hi, n)
       /\ HangsRight(T2, R, P, At, Lo, Hi, n)
       /\ HangsBelow(T2, N + 1, J, R, P, Lo, Hi, n)
  <2>1. J[n] = Null /\ R[n] = Null /\ P[n] = q /\ (J[q] = n \/ R[q] = n)
    BY DEF IsLeafOf
  <2>2. q # Header /\ q \in T2 BY <1>1, PrintersAssumption
  <2> QED BY <1>6, <2>1, <2>2 DEF HangsLeft, HangsRight, HangsBelow
<1> QED BY <1>7, <1>8, <1>9, <1>10, <1>11, <1>12 DEF IsTree

DownAt(at, k, x) == IF at[x] < k THEN at[x] ELSE at[x] - 1
DownLo(lo, k, x) == IF lo[x] <= k THEN lo[x] ELSE lo[x] - 1
DownHi(hi, k, x) == IF hi[x] >= k THEN hi[x] - 1 ELSE hi[x]

IsShrunk(S, at, lo, hi, k, At, Lo, Hi) ==
  /\ At = [x \in S |-> DownAt(at, k, x)]
  /\ Lo = [x \in S |-> DownLo(lo, k, x)]
  /\ Hi = [x \in S |-> DownHi(hi, k, x)]

\* The node n with at most the child m leaves; m takes its place.
IsUnlinked(l, r, p, n, m, J, R, P) ==
  /\ (l[n] = Null /\ m = r[n]) \/ (r[n] = Null /\ m = l[n])
  /\ J[n] = Null /\ R[n] = Null /\ P[n] = Null
  /\ \A x \in TreeNodes \ {n} :
        /\ J[x] = IF x = p[n] /\ l[x] = n THEN m ELSE l[x]
        /\ R[x] = IF x = p[n] /\ r[x] = n THEN m ELSE r[x]
        /\ P[x] = IF x = m THEN p[n] ELSE p[x]
  /\ P[Header] = IF p[n] = Header THEN m ELSE p[Header]

LEMMA TreeShrinks ==
  ASSUME NEW T, NEW N, NEW l, NEW r, NEW p, NEW at, NEW lo, NEW hi,
         IsTree(T, N, l, r, p, at, lo, hi), NEW n \in T, NEW m,
         NEW k, k = at[n],
         NEW J, NEW R, NEW P, NEW T2, T2 = T \ {n},
         J \in TreeLinks,
         R \in TreeLinks,
         P \in TreeLinks,
         IsUnlinked(l, r, p, n, m, J, R, P),
         NEW At, NEW Lo, NEW Hi, IsShrunk(T2, at, lo, hi, k, At, Lo, Hi)
  PROVE  IsTree(T2, N - 1, J, R, P, At, Lo, Hi)
<1>1. /\ T \subseteq TreeNodes /\ N \in Nat /\ Null \notin T /\ Header \notin T
      /\ at \in [T -> 1 .. N] /\ lo \in [T -> 1 .. N] /\ hi \in [T -> 1 .. N]
      /\ Header # Null
  BY PrintersAssumption DEF IsTree, TreeTyped
<1>2. k \in 1 .. N BY <1>1
<1>3. /\ \A x, y \in T : at[x] = at[y] => x = y
      /\ \A x \in T : lo[x] <= at[x] /\ at[x] <= hi[x]
  BY DEF IsTree, TreeNumbered
<1>4. ASSUME NEW x \in T
      PROVE  /\ HangsLeft(T, l, p, at, lo, hi, x)
             /\ HangsRight(T, r, p, at, lo, hi, x)
             /\ HangsBelow(T, N, l, r, p, lo, hi, x)
             /\ Related(T, l, r, p, x)
  BY TreeRelated DEF IsTree
<1>5. ASSUME NEW x \in T2
      PROVE  /\ At[x] = IF at[x] < k THEN at[x] ELSE at[x] - 1
             /\ Lo[x] = IF lo[x] <= k THEN lo[x] ELSE lo[x] - 1
             /\ Hi[x] = IF hi[x] >= k THEN hi[x] - 1 ELSE hi[x]
             /\ at[x] \in 1 .. N /\ lo[x] \in 1 .. N /\ hi[x] \in 1 .. N
             /\ lo[x] <= at[x] /\ at[x] <= hi[x]
             /\ at[x] # k /\ x # n /\ x \in T
  BY <1>1, <1>3 DEF IsShrunk, DownAt, DownLo, DownHi
<1>6. ASSUME NEW x \in T2
      PROVE  /\ J[x] = IF l[x] = n THEN m ELSE l[x]
             /\ R[x] = IF r[x] = n THEN m ELSE r[x]
             /\ P[x] = IF x = m THEN p[n] ELSE p[x]
  <2>1. x \in TreeNodes \ {n} /\ x \in T BY <1>1, <1>5
  <2>2. l[x] = n => x = p[n] BY <1>1, <1>4, <2>1 DEF HangsLeft
  <2>3. r[x] = n => x = p[n] BY <1>1, <1>4, <2>1 DEF HangsRight
  <2> QED BY <2>1, <2>2, <2>3 DEF IsUnlinked
<1>7. lo[n] <= k /\ k <= hi[n] /\ lo[n] \in 1 .. N /\ hi[n] \in 1 .. N
  BY <1>1, <1>3
<1>8. ASSUME m # Null
      PROVE  /\ m \in T2 /\ p[m] = n
             /\ Lo[m] = lo[n] /\ Hi[m] = hi[n] - 1 /\ P[m] = p[n]
  <2>1. CASE l[n] = Null /\ m = r[n]
    <3>1. lo[n] = k BY <1>4, <2>1 DEF HangsLeft
    <3>2. m \in T /\ p[m] = n /\ lo[m] = k + 1 /\ hi[m] = hi[n]
      BY <1>4, <1>8, <2>1 DEF HangsRight
    <3>3. m \in T2 BY <1>4, <2>1, <3>2 DEF Related
    <3>4. Lo[m] = lo[n] /\ Hi[m] = hi[n] - 1
      BY <1>2, <1>5, <1>7, <3>1, <3>2, <3>3
    <3> QED BY <1>6, <3>2, <3>3, <3>4
  <2>2. CASE r[n] = Null /\ m = l[n]
    <3>1. hi[n] = k BY <1>4, <2>2 DEF HangsRight
    <3>2. m \in T /\ p[m] = n /\ lo[m] = lo[n] /\ hi[m] = k - 1
      BY <1>4, <1>8, <2>2 DEF HangsLeft
    <3>3. m \in T2 BY <1>4, <2>2, <3>2 DEF Related
    <3>4. Lo[m] = lo[n] /\ Hi[m] = hi[n] - 1
      BY <1>2, <1>5, <1>7, <3>1, <3>2, <3>3
    <3> QED BY <1>6, <3>2, <3>3, <3>4
  <2> QED BY <2>1, <2>2 DEF IsUnlinked
<1>9. ASSUME m = Null PROVE lo[n] = k /\ hi[n] = k
  <2>1. l[n] = Null /\ r[n] = Null BY <1>9 DEF IsUnlinked
  <2> QED BY <1>4, <2>1 DEF HangsLeft, HangsRight
<1>10. TreeNumbered(T2, At, Lo, Hi)
  <2>1. ASSUME NEW x \in T2, NEW y \in T2, At[x] = At[y] PROVE x = y
    <3>1. at[x] = at[y] BY <1>2, <1>5, <2>1
    <3> QED BY <1>3, <1>5, <3>1
  <2>2. ASSUME NEW x \in T2 PROVE Lo[x] <= At[x] /\ At[x] <= Hi[x]
    BY <1>2, <1>5
  <2> QED BY <2>1, <2>2 DEF TreeNumbered
<1>11. TreeTyped(T2, N - 1, J, R, P, At, Lo, Hi)
  <2>1. ASSUME NEW x \in T2
        PROVE  /\ DownAt(at, k, x) \in 1 .. N - 1
               /\ DownLo(lo, k, x) \in 1 .. N - 1
               /\ DownHi(hi, k, x) \in 1 .. N - 1
    BY <1>1, <1>2, <1>5 DEF DownAt, DownLo, DownHi
  <2>2. /\ At \in [T2 -> 1 .. N - 1] /\ Lo \in [T2 -> 1 .. N - 1]
        /\ Hi \in [T2 -> 1 .. N - 1]
    BY <2>1 DEF IsShrunk
  <2>3. T2 \subseteq TreeNodes /\ N - 1 \in Nat BY <1>1, <1>2
  <2> QED BY <2>2, <2>3 DEF TreeTyped
<1>12. TreeFree(T2, J, R, P)
  <2> SUFFICES ASSUME NEW x \in TreeNodes \ T2
               PROVE  J[x] = Null /\ R[x] = Null /\ P[x] = Null
    BY DEF TreeFree
  <2>1. CASE x = n BY <2>1 DEF IsUnlinked
  <2>2. CASE x # n
    <3>1. x \in TreeNodes \ T /\ x \in TreeNodes \ {n} BY <2>2
    <3>2. l[x] = Null /\ r[x] = Null /\ p[x] = Null
      BY <3>1 DEF IsTree, TreeFree
    <3>3. n # Null /\ x # m BY <1>1, <1>8, <3>1, PrintersAssumption
    <3> QED BY <3>1, <3>2, <3>3 DEF IsUnlinked
  <2> QED BY <2>1, <2>2
<1>13. TreeRooted(T2, P)
  <2>1. p[Header] \in T /\ p[p[Header]] = Header
    BY DEF IsTree, TreeRooted
  <2>2. CASE p[n] = Header
    <3>1. p[Header] = n /\ lo[n] = 1 /\ hi[n] = N /\ P[Header] = m
      BY <1>4, <2>2 DEF HangsBelow, IsUnlinked
    <3>2. CASE m = Null
      <4>1. N = 1 /\ k = 1 BY <1>9, <3>1, <3>2
      <4>2. ASSUME NEW x \in T2 PROVE FALSE BY <1>5, <4>1
      <4> QED BY <3>1, <3>2, <4>2 DEF TreeRooted
    <3>3. CASE m # Null BY <1>8, <2>2, <3>1, <3>3 DEF TreeRooted
    <3> QED BY <3>2, <3>3
  <2>3. CASE p[n] # Header
    <3>1. P[Header] = p[Header] /\ p[Header] # n BY <2>1, <2>3 DEF IsUnlinked
    <3>2. p[Header] \in T2 /\ p[Header] # m BY <1>1, <1>8, <2>1, <3>1
    <3> QED BY <1>6, <2>1, <3>1, <3>2 DEF TreeRooted
  <2> QED BY <2>2, <2>3
<1>14. ASSUME NEW x \in T2 PROVE HangsLeft(T2, J, P, At, Lo, Hi, x)
  <2>1. CASE l[x] = Null
    <3>1. J[x] = Null /\ lo[x] = at[x]
      BY <1>1, <1>4, <1>5, <1>6, <2>1 DEF HangsLeft
    <3>2. Lo[x] = At[x] BY <1>2, <1>5, <3>1
    <3> QED BY <3>1, <3>2 DEF HangsLeft
  <2>2. CASE l[x] = n
    <3>1. p[n] = x /\ lo[n] = lo[x] /\ hi[n] = at[x] - 1 /\ J[x] = m
      BY <1>1, <1>4, <1>5, <1>6, <2>2 DEF HangsLeft
    <3>2. Lo[x] = lo[n] /\ At[x] = hi[n] BY <1>2, <1>5, <1>7, <3>1
    <3>3. CASE m = Null BY <1>9, <3>1, <3>2, <3>3 DEF HangsLeft
    <3>4. CASE m # Null BY <1>8, <3>1, <3>2, <3>4 DEF HangsLeft
    <3> QED BY <3>3, <3>4
  <2>3. CASE l[x] # Null /\ l[x] # n
    <3>1. PICK y \in T : y = l[x] BY <1>4, <1>5, <2>3 DEF Related
    <3>2. p[y] = x /\ lo[y] = lo[x] /\ hi[y] = at[x] - 1
      BY <1>4, <1>5, <2>3, <3>1 DEF HangsLeft
    <3>3. y \in T2 /\ J[x] = y BY <1>6, <2>3, <3>1
    <3>4. y # m BY <1>1, <1>5, <1>8, <3>1, <3>2
    <3>5. P[y] = x BY <1>6, <3>2, <3>3, <3>4
    <3>6. Hi[y] = At[x] - 1 BY <1>2, <1>5, <3>2, <3>3
    <3>7. Lo[y] = Lo[x] BY <1>5, <3>2, <3>3
    <3> QED BY <2>3, <3>1, <3>3, <3>5, <3>6, <3>7 DEF HangsLeft
  <2> QED BY <2>1, <2>2, <2>3
<1>15. ASSUME NEW x \in T2 PROVE HangsRight(T2, R, P, At, Lo, Hi, x)
  <2>1. CASE r[x] = Null
    <3>1. R[x] = Null /\ hi[x] = at[x]
      BY <1>1, <1>4, <1>5, <1>6, <2>1 DEF HangsRight
    <3>2. Hi[x] = At[x] BY <1>2, <1>5, <3>1
    <3> QED BY <3>1, <3>2 DEF HangsRight
  <2>2. CASE r[x] = n
    <3>1. p[n] = x /\ lo[n] = at[x] + 1 /\ hi[n] = hi[x] /\ R[x] = m
      BY <1>1, <1>4, <1>5, <1>6, <2>2 DEF HangsRight
    <3>2. Hi[x] = hi[n] - 1 /\ At[x] + 1 = lo[n] BY <1>2, <1>5, <1>7, <3>1
    <3>3. CASE m = Null
      <4>1. Hi[x] = At[x] BY <1>2, <1>5, <1>9, <3>2, <3>3
      <4> QED BY <3>1, <3>3, <4>1 DEF HangsRight
    <3>4. CASE m # Null BY <1>8, <3>1, <3>2, <3>4 DEF HangsRight
    <3> QED BY <3>3, <3>4
  <2>3. CASE r[x] # Null /\ r[x] # n
    <3>1. PICK y \in T : y = r[x] BY <1>4, <1>5, <2>3 DEF Related
    <3>2. p[y] = x /\ lo[y] = at[x] + 1 /\ hi[y] = hi[x]
      BY <1>4, <1>5, <2>3, <3>1 DEF HangsRight
    <3>3. y \in T2 /\ R[x] = y BY <1>6, <2>3, <3>1
    <3>4. y # m BY <1>1, <1>5, <1>8, <3>1, <3>2
    <3>5. P[y] = x BY <1>6, <3>2, <3>3, <3>4
    <3>6. Lo[y] = At[x] + 1 BY <1>2, <1>5, <3>2, <3>3
    <3>7. Hi[y] = Hi[x] BY <1>5, <3>2, <3>3
    <3> QED BY <2>3, <3>1, <3>3, <3>5, <3>6, <3>7 DEF HangsRight
  <2> QED BY <2>1, <2>2, <2>3
<1>16. ASSUME NEW x \in T2 PROVE HangsBelow(T2, N - 1, J, R, P, Lo, Hi, x)
  <2>1. CASE x = m /\ p[n] = Header
    <3>1. P[Header] = m /\ P[x] = Header /\ lo[n] = 1 /\ hi[n] = N /\ m # Null
      BY <1>1, <1>4, <1>5, <1>6, <2>1 DEF HangsBelow, IsUnlinked
    <3> QED BY <1>8, <2>1, <3>1 DEF HangsBelow
  <2>2. CASE x = m /\ p[n] # Header
    <3>1. PICK y \in T : y = p[n] /\ (l[y] = n \/ r[y] = n)
      BY <1>4, <2>2 DEF HangsBelow
    <3>2. y \in T2 BY <1>4, <3>1 DEF Related
    <3>3. P[x] = y /\ (J[y] = x \/ R[y] = x) BY <1>6, <2>2, <3>1, <3>2
    <3> QED BY <2>2, <3>1, <3>2, <3>3 DEF HangsBelow
  <2>3. CASE x # m /\ p[x] = Header
    <3>1. p[Header] = x /\ lo[x] = 1 /\ hi[x] = N
      BY <1>4, <1>5, <2>3 DEF HangsBelow
    <3>2. p[n] # Header BY <1>4, <1>5, <3>1 DEF HangsBelow
    <3>3. P[Header] = x /\ P[x] = Header
      BY <1>6, <2>3, <3>1, <3>2 DEF IsUnlinked
    <3>4. Lo[x] = 1 /\ Hi[x] = N - 1 BY <1>2, <1>5, <3>1
    <3> QED BY <3>3, <3>4 DEF HangsBelow
  <2>4. CASE x # m /\ p[x] # Header
    <3>1. PICK y \in T : y = p[x] /\ (l[y] = x \/ r[y] = x)
      BY <1>4, <1>5, <2>4 DEF HangsBelow
    <3>2. x # Null /\ x # n BY <1>1, <1>5
    <3>3. y # n BY <2>4, <3>1, <3>2 DEF IsUnlinked
    <3>4. y \in T2 /\ P[x] = y BY <1>6, <2>4, <3>1, <3>3
    <3>5. J[y] = x \/ R[y] = x BY <1>6, <3>1, <3>2, <3>4
    <3> QED BY <2>4, <3>1, <3>4, <3>5 DEF HangsBelow
  <2> QED BY <2>1, <2>2, <2>3, <2>4
<1> QED BY <1>10, <1>11, <1>12, <1>13, <1>14, <1>15, <1>16 DEF IsTree

IsRespanned(T, at, lo, hi, n, m, Lo, Hi) ==
  /\ Lo = [x \in T |-> IF x = m THEN lo[n] ELSE lo[x]]
  /\ Hi = [x \in T |-> IF x = n THEN at[m] - 1 ELSE hi[x]]

\* The right child m of n takes its place, and n that of the left child c of m.
IsTurned(l, r, p, n, m, c, J, R, P) ==
  /\ m = r[n] /\ m # Null /\ c = l[m]
  /\ \A x \in TreeNodes :
        /\ J[x] = IF x = m THEN n ELSE IF x = p[n] /\ l[x] = n THEN m ELSE l[x]
        /\ R[x] = IF x = n THEN c ELSE IF x = p[n] /\ r[x] = n THEN m ELSE r[x]
        /\ P[x] = IF x = c THEN n ELSE IF x = n THEN m
                  ELSE IF x = m THEN p[n] ELSE p[x]
  /\ P[Header] = IF p[n] = Header THEN m ELSE p[Header]

LEMMA TreeTurns ==
  ASSUME NEW T, NEW N, NEW l, NEW r, NEW p, NEW at, NEW lo, NEW hi,
         IsTree(T, N, l, r, p, at, lo, hi), NEW n \in T, NEW m, NEW c,
         NEW J, NEW R, NEW P,
         J \in TreeLinks,
         R \in TreeLinks,
         P \in TreeLinks,
         IsTurned(l, r, p, n, m, c, J, R, P),
         NEW Lo, NEW Hi, IsRespanned(T, at, lo, hi, n, m, Lo, Hi)
  PROVE  IsTree(T, N, J, R, P, at, Lo, Hi)
<1>1. /\ T \subseteq TreeNodes /\ N \in Nat /\ Null \notin T /\ Header \notin T
      /\ at \in [T -> 1 .. N] /\ lo \in [T -> 1 .. N] /\ hi \in [T -> 1 .. N]
      /\ Header # Null
  BY PrintersAssumption DEF IsTree, TreeTyped
<1>2. /\ \A x, y \in T : at[x] = at[y] => x = y
      /\ \A x \in T : lo[x] <= at[x] /\ at[x] <= hi[x]
  BY DEF IsTree, TreeNumbered
<1>3. ASSUME NEW x \in T
      PROVE  /\ HangsLeft(T, l, p, at, lo, hi, x)
             /\ HangsRight(T, r, p, at, lo, hi, x)
             /\ HangsBelow(T, N, l, r, p, lo, hi, x)
             /\ Related(T, l, r, p, x)
             /\ at[x] \in 1 .. N /\ lo[x] \in 1 .. N /\ hi[x] \in 1 .. N
             /\ lo[x] <= at[x] /\ at[x] <= hi[x]
  BY <1>1, <1>2, TreeRelated DEF IsTree
<1>4. m \in T /\ p[m] = n /\ lo[m] = at[n] + 1 /\ hi[m] = hi[n] /\ m # n /\ m # Null
  <2>1. m = r[n] /\ m # Null
    BY DEF IsTurned
  <2>2. m \in T /\ p[m] = n /\ lo[m] = at[n] + 1 /\ hi[m] = hi[n]
    BY <1>3, <2>1 DEF HangsRight
  <2>3. m # n BY <1>3, <2>1 DEF Related
  <2> QED BY <2>1, <2>2, <2>3
<1>5. c = Null => lo[m] = at[m] BY <1>3, <1>4 DEF HangsLeft, IsTurned
<1>6. c # Null => c \in T /\ p[c] = m /\ lo[c] = at[n] + 1 /\ hi[c] = at[m] - 1
                  /\ c # n /\ c # m
  <2> SUFFICES ASSUME c # Null
               PROVE  c \in T /\ p[c] = m /\ lo[c] = at[n] + 1 /\ hi[c] = at[m] - 1
                      /\ c # n /\ c # m
    OBVIOUS
  <2>1. c \in T /\ p[c] = m /\ lo[c] = lo[m] /\ hi[c] = at[m] - 1
    BY <1>3, <1>4 DEF HangsLeft, IsTurned
  <2>2. c # m BY <1>3, <1>4 DEF Related, IsTurned
  <2>3. c # n BY <1>3, <1>4, <2>1
  <2> QED BY <1>4, <2>1, <2>2, <2>3
<1>7. p[n] # m /\ p[n] # n
  <2>1. p[n] # n BY <1>3 DEF Related
  <2>2. ASSUME p[n] = m PROVE FALSE
    <3>1. l[m] = n \/ r[m] = n BY <1>1, <1>3, <1>4, <2>2 DEF HangsBelow
    <3>2. l[m] # n BY <1>1, <1>6 DEF IsTurned
    <3>3. lo[n] = at[m] + 1 BY <1>1, <1>3, <1>4, <3>1, <3>2 DEF HangsRight
    <3>4. /\ lo[n] \in Int /\ at[n] \in Int /\ at[m] \in Int /\ lo[m] \in Int
          /\ lo[n] <= at[n] /\ lo[m] <= at[m]
      BY <1>3, <1>4
    <3> QED BY <1>4, <3>3, <3>4
  <2> QED BY <2>1, <2>2
<1>8. ASSUME NEW x \in T
      PROVE  /\ J[x] = IF x = m THEN n ELSE IF l[x] = n THEN m ELSE l[x]
             /\ R[x] = IF x = n THEN c ELSE IF r[x] = n THEN m ELSE r[x]
             /\ P[x] = IF x = c THEN n ELSE IF x = n THEN m
                       ELSE IF x = m THEN p[n] ELSE p[x]
             /\ x \in TreeNodes
  <2>1. x \in TreeNodes BY <1>1
  <2>2. l[x] = n => x = p[n] BY <1>1, <1>3 DEF HangsLeft
  <2>3. r[x] = n => x = p[n] BY <1>1, <1>3 DEF HangsRight
  <2> QED BY <2>1, <2>2, <2>3 DEF IsTurned
<1>9. ASSUME NEW x \in T
      PROVE  /\ Lo[x] = IF x = m THEN lo[n] ELSE lo[x]
             /\ Hi[x] = IF x = n THEN at[m] - 1 ELSE hi[x]
  BY DEF IsRespanned
<1>10. at[n] < at[m] BY <1>3, <1>4
<1>11. P[n] = m /\ P[m] = p[n] /\ J[m] = n /\ R[n] = c /\ (c # Null => P[c] = n)
  <2>1. c # n /\ c # m BY <1>1, <1>4, <1>6
  <2> QED BY <1>4, <1>6, <1>8, <2>1
<1>12. TreeNumbered(T, at, Lo, Hi)
  <2>1. ASSUME NEW x \in T PROVE Lo[x] <= at[x] /\ at[x] <= Hi[x]
    BY <1>3, <1>4, <1>9, <1>10
  <2> QED BY <1>2, <2>1 DEF TreeNumbered
<1>13. TreeTyped(T, N, J, R, P, at, Lo, Hi)
  <2>1. ASSUME NEW x \in T PROVE Lo[x] \in 1 .. N BY <1>3, <1>9
  <2>2. at[n] \in 1 .. N /\ at[m] \in 1 .. N BY <1>3, <1>4
  <2>3. ASSUME NEW x \in T PROVE Hi[x] \in 1 .. N
    <3>1. at[m] - 1 \in 1 .. N
      <4>1. N \in Nat BY <1>1
      <4> QED BY <1>10, <2>2, <4>1
    <3> QED BY <1>3, <1>9, <3>1
  <2>4. Lo \in [T -> 1 .. N] /\ Hi \in [T -> 1 .. N]
    BY <2>1, <2>3 DEF IsRespanned
  <2> QED BY <1>1, <2>4 DEF TreeTyped
<1>14. TreeFree(T, J, R, P)
  <2> SUFFICES ASSUME NEW x \in TreeNodes \ T
               PROVE  J[x] = Null /\ R[x] = Null /\ P[x] = Null
    BY DEF TreeFree
  <2>1. l[x] = Null /\ r[x] = Null /\ p[x] = Null
    BY DEF IsTree, TreeFree
  <2>2. x # m /\ x # n /\ x # c /\ n # Null
    BY <1>1, <1>4, <1>6, PrintersAssumption
  <2> QED BY <2>1, <2>2 DEF IsTurned
<1>15. TreeRooted(T, P)
  <2>1. p[Header] \in T /\ p[p[Header]] = Header
    BY DEF IsTree, TreeRooted
  <2>2. CASE p[n] = Header
    <3>1. P[Header] = m BY <2>2 DEF IsTurned
    <3> QED BY <1>4, <1>11, <2>2, <3>1 DEF TreeRooted
  <2>3. CASE p[n] # Header
    <3>1. P[Header] = p[Header] BY <2>3 DEF IsTurned
    <3>2. p[Header] # n /\ p[Header] # m /\ p[Header] # c
      BY <1>1, <1>4, <1>6, <2>1, <2>3
    <3> QED BY <1>8, <2>1, <3>1, <3>2 DEF TreeRooted
  <2> QED BY <2>2, <2>3
<1>16. ASSUME NEW x \in T PROVE HangsLeft(T, J, P, at, Lo, Hi, x)
  <2>1. CASE x = m
    <3>1. Lo[n] = Lo[x] /\ Hi[n] = at[x] - 1 BY <1>4, <1>9, <2>1
    <3>2. J[x] = n /\ P[n] = x /\ n # Null BY <1>1, <1>11, <2>1
    <3> QED BY <3>1, <3>2 DEF HangsLeft
  <2>2. CASE x # m /\ l[x] = Null
    <3>1. J[x] = Null /\ lo[x] = at[x] BY <1>1, <1>3, <1>8, <2>2 DEF HangsLeft
    <3> QED BY <1>9, <2>2, <3>1 DEF HangsLeft
  <2>3. CASE x # m /\ l[x] = n
    <3>1. p[n] = x /\ lo[n] = lo[x] /\ hi[n] = at[x] - 1 /\ J[x] = m
      BY <1>1, <1>3, <1>8, <2>3 DEF HangsLeft
    <3>2. Lo[m] = Lo[x] /\ Hi[m] = at[x] - 1 BY <1>4, <1>9, <2>3, <3>1
    <3> QED BY <1>4, <1>11, <3>1, <3>2 DEF HangsLeft
  <2>4. CASE x # m /\ l[x] # n /\ l[x] # Null
    <3>1. PICK y \in T : y = l[x] BY <1>3, <2>4 DEF Related
    <3>2. p[y] = x /\ lo[y] = lo[x] /\ hi[y] = at[x] - 1
      BY <1>3, <2>4, <3>1 DEF HangsLeft
    <3>3. y # n /\ J[x] = y BY <1>8, <2>4, <3>1
    <3>4. y # m
      <4>1. ASSUME y = m PROVE FALSE
        <5>1. x = n BY <1>4, <3>2, <4>1
        <5>2. l[n] = r[n] /\ l[n] # Null BY <2>4, <3>1, <4>1, <5>1 DEF IsTurned
        <5> QED BY <1>3, <5>2 DEF Related
      <4> QED BY <4>1
    <3>5. y # c BY <1>1, <1>6, <2>4, <3>1, <3>2
    <3>6. P[y] = x /\ Lo[y] = Lo[x] /\ Hi[y] = at[x] - 1
      BY <1>8, <1>9, <2>4, <3>2, <3>3, <3>4, <3>5
    <3> QED BY <2>4, <3>1, <3>3, <3>6 DEF HangsLeft
  <2> QED BY <2>1, <2>2, <2>3, <2>4
<1>17. ASSUME NEW x \in T PROVE HangsRight(T, R, P, at, Lo, Hi, x)
  <2>1. CASE x = n /\ c = Null
    <3>1. Hi[x] = at[x] BY <1>3, <1>4, <1>5, <1>9, <2>1
    <3> QED BY <1>11, <2>1, <3>1 DEF HangsRight
  <2>2. CASE x = n /\ c # Null
    <3>1. Lo[c] = at[x] + 1 /\ Hi[c] = Hi[x] BY <1>6, <1>9, <2>2
    <3> QED BY <1>6, <1>11, <2>2, <3>1 DEF HangsRight
  <2>3. CASE x # n /\ r[x] = Null
    <3>1. R[x] = Null /\ hi[x] = at[x] BY <1>1, <1>3, <1>8, <2>3 DEF HangsRight
    <3> QED BY <1>9, <2>3, <3>1 DEF HangsRight
  <2>4. CASE x # n /\ r[x] = n
    <3>1. p[n] = x /\ lo[n] = at[x] + 1 /\ hi[n] = hi[x] /\ R[x] = m
      BY <1>1, <1>3, <1>8, <2>4 DEF HangsRight
    <3>2. Lo[m] = at[x] + 1 /\ Hi[m] = Hi[x] BY <1>4, <1>9, <2>4, <3>1
    <3> QED BY <1>4, <1>11, <3>1, <3>2 DEF HangsRight
  <2>5. CASE x # n /\ r[x] # n /\ r[x] # Null
    <3>1. PICK y \in T : y = r[x] BY <1>3, <2>5 DEF Related
    <3>2. p[y] = x /\ lo[y] = at[x] + 1 /\ hi[y] = hi[x]
      BY <1>3, <2>5, <3>1 DEF HangsRight
    <3>3. y # n /\ R[x] = y BY <1>8, <2>5, <3>1
    <3>4. y # m BY <1>4, <2>5, <3>2
    <3>5. y # c
      <4>1. ASSUME y = c PROVE FALSE
        <5>1. x = m BY <1>1, <1>6, <3>2, <4>1
        <5>2. l[m] = r[m] /\ l[m] # Null BY <2>5, <3>1, <4>1, <5>1 DEF IsTurned
        <5> QED BY <1>3, <1>4, <5>2 DEF Related
      <4> QED BY <4>1
    <3>6. P[y] = x /\ Lo[y] = at[x] + 1 /\ Hi[y] = Hi[x]
      BY <1>8, <1>9, <2>5, <3>2, <3>3, <3>4, <3>5
    <3> QED BY <2>5, <3>1, <3>3, <3>6 DEF HangsRight
  <2> QED BY <2>1, <2>2, <2>3, <2>4, <2>5
<1>18. ASSUME NEW x \in T PROVE HangsBelow(T, N, J, R, P, Lo, Hi, x)
  <2>1. CASE x = n BY <1>1, <1>4, <1>11, <2>1 DEF HangsBelow
  <2>2. CASE x = m /\ p[n] = Header
    <3>1. lo[n] = 1 /\ hi[n] = N BY <1>3, <2>2 DEF HangsBelow
    <3>2. Lo[m] = 1 /\ Hi[m] = N BY <1>4, <1>9, <3>1
    <3>3. P[Header] = m BY <2>2 DEF IsTurned
    <3> QED BY <1>11, <2>2, <3>2, <3>3 DEF HangsBelow
  <2>3. CASE x = m /\ p[n] # Header
    <3>1. PICK y \in T : y = p[n] /\ (l[y] = n \/ r[y] = n)
      BY <1>3, <2>3 DEF HangsBelow
    <3>2. J[y] = m \/ R[y] = m BY <1>7, <1>8, <3>1
    <3> QED BY <1>1, <1>11, <2>3, <3>1, <3>2 DEF HangsBelow
  <2>4. CASE x # n /\ x # m /\ x = c
    <3>1. P[x] = n /\ R[n] = x BY <1>1, <1>11, <2>4
    <3> QED BY <1>1, <3>1 DEF HangsBelow
  <2>5. CASE x # n /\ x # m /\ x # c /\ p[x] = Header
    <3>1. p[Header] = x /\ lo[x] = 1 /\ hi[x] = N BY <1>3, <2>5 DEF HangsBelow
    <3>2. p[n] # Header BY <1>3, <2>5, <3>1 DEF HangsBelow
    <3>3. P[Header] = x /\ P[x] = Header /\ Lo[x] = 1 /\ Hi[x] = N
      BY <1>8, <1>9, <2>5, <3>1, <3>2 DEF IsTurned
    <3> QED BY <3>3 DEF HangsBelow
  <2>6. CASE x # n /\ x # m /\ x # c /\ p[x] # Header
    <3>1. PICK y \in T : y = p[x] /\ (l[y] = x \/ r[y] = x)
      BY <1>3, <2>6 DEF HangsBelow
    <3>2. P[x] = y BY <1>8, <2>6, <3>1
    <3>3. J[y] = x \/ R[y] = x
      <4>1. CASE l[y] = x
        <5>1. y # m BY <2>6, <4>1 DEF IsTurned
        <5> QED BY <1>8, <2>6, <4>1, <5>1
      <4>2. CASE r[y] = x
        <5>1. y # n BY <2>6, <4>2 DEF IsTurned
        <5> QED BY <1>8, <2>6, <4>2, <5>1
      <4> QED BY <3>1, <4>1, <4>2
    <3> QED BY <2>6, <3>1, <3>2, <3>3 DEF HangsBelow
  <2> QED BY <2>1, <2>2, <2>3, <2>4, <2>5, <2>6
<1> QED BY <1>12, <1>13, <1>14, <1>15, <1>16, <1>17, <1>18 DEF IsTree

\* The first node.
LEMMA TreeSeeds ==
  ASSUME NEW l, NEW r, NEW p, NEW n \in TreeNodes,
         l \in TreeLinks,
         r \in TreeLinks,
         p \in TreeLinks,
         \A x \in TreeNodes : /\ l[x] = Null /\ r[x] = Null
                              /\ p[x] = IF x = n THEN Header ELSE Null,
         p[Header] = n, NEW one, one = [x \in {n} |-> 1]
  PROVE  IsTree({n}, 1, l, r, p, one, one, one)
<1>1. one[n] = 1 /\ one \in [{n} -> 1 .. 1] OBVIOUS
<1>2. TreeTyped({n}, 1, l, r, p, one, one, one) BY <1>1 DEF TreeTyped
<1>3. TreeNumbered({n}, one, one, one) /\ TreeRooted({n}, p) /\ TreeFree({n}, l, r, p)
  BY <1>1 DEF TreeNumbered, TreeRooted, TreeFree
<1> QED BY <1>1, <1>2, <1>3 DEF IsTree, HangsLeft, HangsRight, HangsBelow

\* The list o has the nodes T in the order of their places, and the links l and
\* r of the header lead to its ends.
IsOrder(o, T, at) ==
  /\ o \in Seq(TreeNodes)
  /\ \A k \in 1 .. Len(o) : o[k] \in T /\ at[o[k]] = k
  /\ \A n \in T : at[n] \in 1 .. Len(o) /\ o[at[n]] = n

IsEnds(o, l, r) ==
  /\ l[Header] = IF Len(o) = 0 THEN Header ELSE o[1]
  /\ r[Header] = IF Len(o) = 0 THEN Header ELSE o[Len(o)]

IsRow(o, l, r, p, T, at, lo, hi) ==
  /\ IsTree(T, Len(o), l, r, p, at, lo, hi)
  /\ IsOrder(o, T, at)
  /\ IsEnds(o, l, r)

TreeAt(o, l, r, p) == \E T, at, lo, hi : IsRow(o, l, r, p, T, at, lo, hi)

LEMMA RowIs ==
  ASSUME NEW o, NEW l, NEW r, NEW p, NEW T, NEW at, NEW lo, NEW hi,
         IsRow(o, l, r, p, T, at, lo, hi)
  PROVE  /\ IsLinks(l) /\ IsLinks(r) /\ IsLinks(p)
         /\ o \in Seq(TreeNodes) /\ Len(o) \in Nat
         /\ T \subseteq TreeNodes /\ Range(o) = T
         /\ \A k \in 1 .. Len(o) : /\ o[k] \in T /\ at[o[k]] = k
                                   /\ o[k] \in TreeNodes
         /\ \A n \in T : at[n] \in 1 .. Len(o) /\ o[at[n]] = n
         /\ Distinct(o)
<1>1. /\ IsLinks(l) /\ IsLinks(r) /\ IsLinks(p) /\ T \subseteq TreeNodes
  BY DEF IsRow, IsTree, TreeTyped, IsLinks
<1>2. o \in Seq(TreeNodes)
  BY DEF IsRow, IsOrder
<1>3. Len(o) \in Nat /\ DOMAIN o = 1 .. Len(o) BY <1>2, LenProperties
<1>4. \A k \in 1 .. Len(o) : o[k] \in T /\ at[o[k]] = k
  BY DEF IsRow, IsOrder
<1>5. \A n \in T : at[n] \in 1 .. Len(o) /\ o[at[n]] = n
  BY DEF IsRow, IsOrder
<1>6. Range(o) = T
  <2>1. ASSUME NEW x \in Range(o) PROVE x \in T
    <3>1. PICK k \in 1 .. Len(o) : x = o[k] BY <1>3, <2>1 DEF Range
    <3> QED BY <1>4, <3>1
  <2>2. ASSUME NEW x \in T PROVE x \in Range(o) BY <1>3, <1>5 DEF Range
  <2> QED BY <2>1, <2>2
<1>7. Distinct(o) BY <1>4 DEF Distinct
<1> QED BY <1>1, <1>2, <1>3, <1>4, <1>5, <1>6, <1>7

LEMMA RowGrows ==
  ASSUME NEW o, NEW l, NEW r, NEW p, TreeAt(o, l, r, p),
         NEW k \in 1 .. Len(o), NEW a \in {k - 1, k},
         NEW n \in TreeNodes, n \notin Range(o),
         NEW J, NEW R, NEW P, IsLinks(J), IsLinks(R), IsLinks(P),
         IsLeafOf(l, r, p, k, a, n, o[k], J, R, P),
         NEW O, IsInserted(TreeNodes, o, a, n, O), IsEnds(O, J, R)
  PROVE  TreeAt(O, J, R, P)
<1>1. PICK T, at, lo, hi : IsRow(o, l, r, p, T, at, lo, hi)
  BY DEF TreeAt
<1>2. PICK N \in Nat : N = Len(o) BY <1>1, RowIs
<1>3. /\ T \subseteq TreeNodes /\ n \notin T
      /\ \A i \in 1 .. N : o[i] \in T /\ at[o[i]] = i
      /\ \A x \in T : at[x] \in 1 .. N /\ o[at[x]] = x
  BY <1>1, <1>2, RowIs
<1>4. PICK q \in T : q = o[k] /\ at[q] = k BY <1>2, <1>3
<1>5. IsTree(T, N, l, r, p, at, lo, hi) BY <1>1, <1>2 DEF IsRow
<1>6. IsLeafOf(l, r, p, k, a, n, q, J, R, P) BY <1>4
<1>7. PICK T2 : T2 = T \union {n} OBVIOUS
<1>8. PICK At, Lo, Hi : IsGrown(T, T2, at, lo, hi, k, a, n, At, Lo, Hi)
  BY <1>3, <1>7 DEF IsGrown
<1>12. HasLeaf(T, l, r, p, at, k, a, n, q, J, R, P) BY <1>4, <1>6 DEF HasLeaf
<1>13. IsTree(T2, N + 1, J, R, P, At, Lo, Hi)
  BY <1>5, <1>8, <1>12, TreeGrows, Zenon
<1>14. /\ O \in Seq(TreeNodes) /\ Len(O) = N + 1 /\ a \in 0 .. N
       /\ \A i \in 1 .. N + 1 :
             O[i] = IF i <= a THEN o[i] ELSE IF i = a + 1 THEN n ELSE o[i - 1]
  BY <1>2 DEF IsInserted
<1>15. /\ At[n] = a + 1 /\ n \in T2
       /\ \A x \in T : /\ x \in T2 /\ x # n
                       /\ At[x] = IF at[x] <= a THEN at[x] ELSE at[x] + 1
  BY <1>3, <1>7, <1>8 DEF IsGrown, UpAt
<1>16. ASSUME NEW i \in 1 .. N + 1 PROVE O[i] \in T2 /\ At[O[i]] = i
  <2>1. CASE i <= a
    <3>1. O[i] = o[i] /\ o[i] \in T /\ at[o[i]] = i BY <1>3, <1>14, <2>1
    <3> QED BY <1>15, <2>1, <3>1
  <2>2. CASE i = a + 1 BY <1>14, <1>15, <2>2
  <2>3. CASE i > a + 1
    <3>1. i - 1 \in 1 .. N BY <1>14, <2>3
    <3>4. o[i - 1] \in T /\ at[o[i - 1]] = i - 1 BY <1>3, <3>1
    <3>5. ~(i <= a) /\ i # a + 1 BY <1>14, <2>3
    <3>6. O[i] = o[i - 1] BY <1>14, <3>5
    <3>2. O[i] = o[i - 1] /\ o[i - 1] \in T /\ at[o[i - 1]] = i - 1
      BY <3>4, <3>6
    <3>3. At[o[i - 1]] = IF i - 1 <= a THEN i - 1 ELSE i - 1 + 1 BY <1>15, <3>2
    <3> QED BY <1>14, <1>15, <2>3, <3>2, <3>3
  <2> QED BY <1>14, <2>1, <2>2, <2>3
<1>17. ASSUME NEW x \in T2 PROVE At[x] \in 1 .. N + 1 /\ O[At[x]] = x
  <2>1. CASE x = n BY <1>14, <1>15, <2>1
  <2>2. CASE x \in T
    <3>1. at[x] \in 1 .. N /\ o[at[x]] = x BY <1>3, <2>2
    <3>2. CASE at[x] <= a BY <1>14, <1>15, <2>2, <3>1, <3>2
    <3>3. CASE at[x] > a
      <4>1. At[x] = at[x] + 1 /\ at[x] + 1 \in 1 .. N + 1
        BY <1>14, <1>15, <2>2, <3>1, <3>3
      <4>2. O[at[x] + 1] = o[at[x] + 1 - 1] BY <1>14, <3>1, <3>3, <4>1
      <4>3. at[x] + 1 - 1 = at[x] BY <3>1
      <4> QED BY <3>1, <4>1, <4>2, <4>3
    <3> QED BY <1>14, <3>1, <3>2, <3>3
  <2> QED BY <1>7, <2>1, <2>2
<1>18. IsOrder(O, T2, At) BY <1>14, <1>16, <1>17 DEF IsOrder
<1> QED BY <1>13, <1>14, <1>18 DEF TreeAt, IsRow

LEMMA RowShrinks ==
  ASSUME NEW o, NEW l, NEW r, NEW p, TreeAt(o, l, r, p),
         NEW k \in 1 .. Len(o), NEW m,
         NEW J, NEW R, NEW P, IsLinks(J), IsLinks(R), IsLinks(P),
         IsUnlinked(l, r, p, o[k], m, J, R, P),
         NEW O, IsRemoved(TreeNodes, o, k, O), IsEnds(O, J, R)
  PROVE  TreeAt(O, J, R, P)
<1>1. PICK T, at, lo, hi : IsRow(o, l, r, p, T, at, lo, hi)
  BY DEF TreeAt
<1>2. PICK N \in Nat : N = Len(o) BY <1>1, RowIs
<1>3. /\ T \subseteq TreeNodes
      /\ \A i \in 1 .. N : o[i] \in T /\ at[o[i]] = i
      /\ \A x \in T : at[x] \in 1 .. N /\ o[at[x]] = x
  BY <1>1, <1>2, RowIs
<1>4. PICK n \in T : n = o[k] /\ k = at[n] BY <1>2, <1>3
<1>5. IsTree(T, N, l, r, p, at, lo, hi) BY <1>1, <1>2 DEF IsRow
<1>6. IsUnlinked(l, r, p, n, m, J, R, P) BY <1>4
<1>7. PICK T2 : T2 = T \ {n} OBVIOUS
<1>8. PICK At, Lo, Hi : IsShrunk(T2, at, lo, hi, k, At, Lo, Hi)
  BY DEF IsShrunk
<1>11. /\ J \in TreeLinks
       /\ R \in TreeLinks
       /\ P \in TreeLinks
  BY DEF IsLinks
<1>12. k = at[n] /\ k \in 1 .. N BY <1>2, <1>4
<1>13. IsTree(T2, N - 1, J, R, P, At, Lo, Hi)
  BY <1>5, <1>6, <1>7, <1>8, <1>11, <1>12, TreeShrinks
<1>14. /\ O \in Seq(TreeNodes) /\ Len(O) = N - 1
       /\ \A i \in 1 .. N - 1 : O[i] = IF i < k THEN o[i] ELSE o[i + 1]
  BY <1>2 DEF IsRemoved
<1>15. \A x \in T2 : /\ x \in T /\ x # n
                     /\ At[x] = IF at[x] < k THEN at[x] ELSE at[x] - 1
  BY <1>7, <1>8 DEF IsShrunk, DownAt
<1>16. ASSUME NEW i \in 1 .. N - 1 PROVE O[i] \in T2 /\ At[O[i]] = i
  <2>1. CASE i < k
    <3>1. O[i] = o[i] /\ o[i] \in T /\ at[o[i]] = i BY <1>3, <1>12, <1>14, <2>1
    <3>2. o[i] # n BY <1>12, <2>1, <3>1
    <3> QED BY <1>7, <1>15, <2>1, <3>1, <3>2
  <2>2. CASE ~(i < k)
    <3>1. i + 1 \in 1 .. N /\ i + 1 # k BY <1>12, <2>2
    <3>2. O[i] = o[i + 1] /\ o[i + 1] \in T /\ at[o[i + 1]] = i + 1
      BY <1>3, <1>14, <2>2, <3>1
    <3>3. o[i + 1] \in T2 BY <1>7, <1>12, <3>1, <3>2
    <3>4. At[o[i + 1]] = IF i + 1 < k THEN i + 1 ELSE i + 1 - 1
      BY <1>15, <3>2, <3>3
    <3> QED BY <1>12, <2>2, <3>2, <3>3, <3>4
  <2> QED BY <2>1, <2>2
<1>17. ASSUME NEW x \in T2 PROVE At[x] \in 1 .. N - 1 /\ O[At[x]] = x
  <2>1. at[x] \in 1 .. N /\ o[at[x]] = x /\ at[x] # k
    <3>1. at[x] \in 1 .. N /\ o[at[x]] = x /\ x # n BY <1>3, <1>15
    <3> QED BY <1>4, <3>1
  <2>2. CASE at[x] < k BY <1>12, <1>14, <1>15, <2>1, <2>2
  <2>3. CASE ~(at[x] < k)
    <3>1. At[x] = at[x] - 1 /\ at[x] - 1 \in 1 .. N - 1 /\ ~(at[x] - 1 < k)
      BY <1>12, <1>15, <2>1, <2>3
    <3>2. O[at[x] - 1] = o[at[x] - 1 + 1] BY <1>14, <3>1
    <3>3. at[x] - 1 + 1 = at[x] BY <2>1
    <3> QED BY <2>1, <3>1, <3>2, <3>3
  <2> QED BY <2>2, <2>3
<1>18. IsOrder(O, T2, At) BY <1>14, <1>16, <1>17 DEF IsOrder
<1> QED BY <1>13, <1>14, <1>18 DEF TreeAt, IsRow

LEMMA RowTurns ==
  ASSUME NEW o, NEW l, NEW r, NEW p, TreeAt(o, l, r, p),
         NEW n \in Range(o), NEW m, NEW c,
         NEW J, NEW R, NEW P, IsLinks(J), IsLinks(R), IsLinks(P),
         IsTurned(l, r, p, n, m, c, J, R, P), IsEnds(o, J, R)
  PROVE  TreeAt(o, J, R, P)
<1>1. PICK T, at, lo, hi : IsRow(o, l, r, p, T, at, lo, hi)
  BY DEF TreeAt
<1>2. n \in T BY <1>1, RowIs
<1>3. PICK Lo, Hi : IsRespanned(T, at, lo, hi, n, m, Lo, Hi)
  BY DEF IsRespanned
<1>5. /\ J \in TreeLinks
      /\ R \in TreeLinks
      /\ P \in TreeLinks
  BY DEF IsLinks
<1>6. IsTree(T, Len(o), l, r, p, at, lo, hi) /\ IsOrder(o, T, at)
  BY <1>1 DEF IsRow
<1>7. IsTree(T, Len(o), J, R, P, at, Lo, Hi)
  BY <1>2, <1>3, <1>5, <1>6, TreeTurns
<1> QED BY <1>6, <1>7 DEF TreeAt, IsRow

LEMMA RowSeeds ==
  ASSUME NEW n \in TreeNodes, NEW l, NEW r, NEW p,
         IsLinks(l), IsLinks(r), IsLinks(p),
         \A x \in TreeNodes : /\ l[x] = Null /\ r[x] = Null
                              /\ p[x] = IF x = n THEN Header ELSE Null,
         p[Header] = n, NEW o, o = <<n>>, IsEnds(o, l, r)
  PROVE  TreeAt(o, l, r, p)
<1>1. PICK one : one = [x \in {n} |-> 1] OBVIOUS
<1>2. IsTree({n}, 1, l, r, p, one, one, one) BY <1>1, TreeSeeds DEF IsLinks
<1>3. o \in Seq(TreeNodes) /\ Len(o) = 1 /\ o[1] = n OBVIOUS
<1>4. IsOrder(o, {n}, one) BY <1>1, <1>3 DEF IsOrder
<1> QED BY <1>2, <1>3, <1>4 DEF TreeAt, IsRow

\* The places around that of a node.
LEMMA RowPlaces ==
  ASSUME NEW o, NEW l, NEW r, NEW p, NEW T, NEW at, NEW lo, NEW hi,
         IsRow(o, l, r, p, T, at, lo, hi), NEW N \in Nat, N = Len(o), NEW x \in T
  PROVE  /\ HangsLeft(T, l, p, at, lo, hi, x)
         /\ HangsRight(T, r, p, at, lo, hi, x)
         /\ HangsBelow(T, N, l, r, p, lo, hi, x)
         /\ Related(T, l, r, p, x)
         /\ at[x] \in 1 .. N /\ lo[x] \in 1 .. N /\ hi[x] \in 1 .. N
         /\ lo[x] <= at[x] /\ at[x] <= hi[x]
         /\ o[at[x]] = x
<1>1. IsTree(T, N, l, r, p, at, lo, hi) /\ IsOrder(o, T, at)
  BY DEF IsRow
<1>2. Related(T, l, r, p, x) BY <1>1, TreeRelated
<1>3. at[x] \in 1 .. N /\ o[at[x]] = x BY <1>1 DEF IsOrder
<1>4. lo[x] \in 1 .. N /\ hi[x] \in 1 .. N /\ lo[x] <= at[x] /\ at[x] <= hi[x]
  BY <1>1 DEF IsTree, TreeTyped, TreeNumbered
<1> QED BY <1>1, <1>2, <1>3, <1>4 DEF IsTree

\* The loop to the left.
FollowsLeft(l, g) ==
  g = [n \in TreeNodes |-> IF l[n] = Null THEN n ELSE g[l[n]]]

LEMMA LeftmostExists ==
  ASSUME NEW o, NEW l, NEW r, NEW p, NEW T, NEW at, NEW lo, NEW hi,
         IsRow(o, l, r, p, T, at, lo, hi)
  PROVE  \E g : FollowsLeft(l, g)
<1>1. PICK N \in Nat : N = Len(o)
  BY RowIs
<1>2. PICK g : g = [n \in TreeNodes |-> IF n \in T THEN o[lo[n]] ELSE n]
  OBVIOUS
<1>3. ASSUME NEW n \in TreeNodes
      PROVE  g[n] = IF l[n] = Null THEN n ELSE g[l[n]]
  <2>1. CASE n \notin T
    <3>1. IsTree(T, N, l, r, p, at, lo, hi) BY <1>1 DEF IsRow
    <3>2. l[n] = Null BY <2>1, <3>1 DEF IsTree, TreeFree
    <3> QED BY <1>2, <2>1, <3>2
  <2>2. CASE n \in T
    <3>1. /\ HangsLeft(T, l, p, at, lo, hi, n) /\ Related(T, l, r, p, n)
          /\ o[at[n]] = n
      BY <1>1, <2>2, RowPlaces
    <3>2. g[n] = o[lo[n]] BY <1>2, <2>2
    <3>3. CASE l[n] = Null BY <3>1, <3>2, <3>3 DEF HangsLeft
    <3>4. CASE l[n] # Null
      <4>1. PICK y \in T : y = l[n] BY <3>1, <3>4 DEF Related
      <4>2. lo[y] = lo[n] BY <3>1, <3>4, <4>1 DEF HangsLeft
      <4>3. y \in TreeNodes BY <1>1, RowIs
      <4>4. g[y] = o[lo[y]] BY <1>2, <4>3
      <4> QED BY <3>2, <3>4, <4>1, <4>2, <4>4
    <3> QED BY <3>3, <3>4
  <2> QED BY <2>1, <2>2
<1>4. g = [n \in TreeNodes |-> IF l[n] = Null THEN n ELSE g[l[n]]]
  BY <1>2, <1>3
<1> QED BY <1>4 DEF FollowsLeft

LEMMA LeftmostIs ==
  ASSUME NEW o, NEW l, NEW r, NEW p, NEW T, NEW at, NEW lo, NEW hi,
         IsRow(o, l, r, p, T, at, lo, hi), NEW g, FollowsLeft(l, g)
  PROVE  \A x \in T : g[x] = o[lo[x]]
<1>1. PICK N \in Nat : N = Len(o)
  BY RowIs
<1>2. T \subseteq TreeNodes
  BY RowIs
<1> DEFINE S == {i \in 0 .. N : \A x \in T : at[x] <= i => g[x] = o[lo[x]]}
<1>3. 0 \in S
  <2>1. \A x \in T : at[x] \in 1 .. N BY <1>1, RowPlaces
  <2> QED BY <1>1, <2>1
<1>4. ASSUME NEW i \in 0 .. N - 1, i \in S PROVE i + 1 \in S
  <2>1. ASSUME NEW x \in T, at[x] <= i + 1 PROVE g[x] = o[lo[x]]
    <3>1. /\ HangsLeft(T, l, p, at, lo, hi, x) /\ Related(T, l, r, p, x)
          /\ o[at[x]] = x /\ at[x] \in 1 .. N
      BY <1>1, RowPlaces
    <3>2. g[x] = IF l[x] = Null THEN x ELSE g[l[x]] BY <1>2 DEF FollowsLeft
    <3>3. CASE l[x] = Null BY <3>1, <3>2, <3>3 DEF HangsLeft
    <3>4. CASE l[x] # Null
      <4>1. PICK y \in T : y = l[x] BY <3>1, <3>4 DEF Related
      <4>2. lo[y] = lo[x] /\ hi[y] = at[x] - 1
        BY <3>1, <3>4, <4>1 DEF HangsLeft
      <4>3. at[y] \in 1 .. N /\ hi[y] \in 1 .. N /\ at[y] <= hi[y]
        BY <1>1, RowPlaces
      <4>4. at[y] <= i BY <2>1, <3>1, <4>2, <4>3
      <4>5. g[y] = o[lo[y]] BY <1>4, <4>4
      <4> QED BY <3>2, <3>4, <4>1, <4>2, <4>5
    <3> QED BY <3>3, <3>4
  <2>2. i + 1 \in 0 .. N BY <1>1
  <2> QED BY <2>1, <2>2
<1>5. N \in S
  <2> HIDE DEF S
  <2>1. \A i \in 0 .. N - 1 : i \in S => i + 1 \in S BY <1>4
  <2>2. 0 \in Int /\ N \in Int BY <1>1
  <2>3. 0 .. N \subseteq S BY <1>3, <2>1, <2>2, Induction, Zenon
  <2> QED BY <1>1, <2>3
<1> QED
  <2>1. \A x \in T : at[x] \in 1 .. N BY <1>1, RowPlaces
  <2> QED BY <1>1, <1>5, <2>1

\* The loop up.
FollowsUp(r, p, g) ==
  g = [n \in {x \in AnyTreeNode : p[x] # Null} |->
          IF n = r[p[n]] THEN g[p[n]] ELSE n]

\* The node next to x in the row, by way of the node m where the loop ends.
Nearby(o, hi, x) == IF hi[x] < Len(o) THEN o[hi[x] + 1] ELSE Header
Arrives(r, p, m) == IF r[m] # p[m] THEN p[m] ELSE m

LEMMA ClimbExists ==
  ASSUME NEW o, NEW l, NEW r, NEW p, NEW T, NEW at, NEW lo, NEW hi,
         IsRow(o, l, r, p, T, at, lo, hi)
  PROVE  \E g : FollowsUp(r, p, g)
<1>1. PICK N \in Nat : N = Len(o)
  BY RowIs
<1>2. IsTree(T, N, l, r, p, at, lo, hi) BY <1>1 DEF IsRow
<1>3. T \subseteq TreeNodes /\ Header \notin TreeNodes
  BY RowIs, PrintersAssumption
<1> DEFINE D == {x \in AnyTreeNode : p[x] # Null}
           top == IF r[Header] = p[Header] THEN Header ELSE p[Header]
           G == [x \in D |-> IF x = Header THEN Header
                             ELSE IF hi[x] < N THEN l[o[hi[x] + 1]] ELSE top]
<1>4. \A x \in D : x = Header \/ x \in T BY <1>2 DEF IsTree, TreeFree
<1>5. \A x \in T : x \in D /\ x # Header BY <1>1, <1>3, RowPlaces DEF Related
<1>6. ASSUME NEW x \in D PROVE G[x] = IF x = r[p[x]] THEN G[p[x]] ELSE x
  <2>1. CASE x = Header
    <3>1. T # {} /\ p[Header] \in T BY <1>2, <1>6, <2>1 DEF IsTree, TreeRooted
    <3>2. Related(T, l, r, p, p[Header]) BY <1>1, <3>1, RowPlaces
    <3>3. r[p[Header]] # Header BY <1>3, <3>2, PrintersAssumption DEF Related
    <3> QED BY <1>6, <2>1, <3>3
  <2>2. CASE x \in T /\ p[x] = Header
    <3>1. p[Header] = x /\ hi[x] = N BY <1>1, <2>2, RowPlaces DEF HangsBelow
    <3>2. G[x] = top BY <1>1, <1>5, <2>2, <3>1
    <3>3. Header \in D /\ G[Header] = Header
      BY <1>2, <1>3, <2>2, PrintersAssumption DEF IsTree, TreeRooted
    <3> QED BY <2>2, <3>1, <3>2, <3>3
  <2>3. CASE x \in T /\ p[x] # Header
    <3>1. PICK y \in T : y = p[x] /\ (l[y] = x \/ r[y] = x)
      BY <1>1, <2>3, RowPlaces DEF HangsBelow
    <3>2. /\ HangsLeft(T, l, p, at, lo, hi, y) /\ HangsRight(T, r, p, at, lo, hi, y)
          /\ at[y] \in 1 .. N /\ o[at[y]] = y /\ x # Null
      BY <1>1, <2>3, RowPlaces DEF Related
    <3>3. G[x] = (IF hi[x] < N THEN l[o[hi[x] + 1]] ELSE top) BY <1>5, <2>3
    <3>4. G[y] = (IF hi[y] < N THEN l[o[hi[y] + 1]] ELSE top) BY <1>5
    <3> HIDE DEF G, top
    <3>5. CASE r[y] = x
      <4>1. hi[x] = hi[y] BY <3>2, <3>5 DEF HangsRight
      <4> QED BY <3>1, <3>3, <3>4, <3>5, <4>1
    <3>6. CASE l[y] = x /\ r[y] # x
      <4>1. hi[x] = at[y] - 1 BY <3>2, <3>6 DEF HangsLeft
      <4>2. hi[x] < N /\ hi[x] + 1 = at[y] BY <1>1, <3>2, <4>1
      <4>3. G[x] = x BY <3>2, <3>3, <3>6, <4>2
      <4> QED BY <3>1, <3>6, <4>3
    <3> QED BY <3>1, <3>5, <3>6
  <2> QED BY <1>4, <1>6, <2>1, <2>2, <2>3
<1>7. G = [n \in D |-> IF n = r[p[n]] THEN G[p[n]] ELSE n] BY <1>6
<1> HIDE DEF G
<1> QED BY <1>7 DEF FollowsUp

LEMMA ClimbIs ==
  ASSUME NEW o, NEW l, NEW r, NEW p, NEW T, NEW at, NEW lo, NEW hi,
         IsRow(o, l, r, p, T, at, lo, hi), NEW g, FollowsUp(r, p, g)
  PROVE  \A x \in T : Arrives(r, p, g[x]) = Nearby(o, hi, x)
<1>1. PICK N \in Nat : N = Len(o)
  BY RowIs
<1>2. /\ IsTree(T, N, l, r, p, at, lo, hi) /\ IsEnds(o, l, r) BY <1>1 DEF IsRow
<1>3. T \subseteq TreeNodes /\ Header \notin TreeNodes /\ Null \notin TreeNodes
      /\ Header # Null
  BY RowIs, PrintersAssumption
<1>4. ASSUME NEW x \in AnyTreeNode, p[x] # Null
      PROVE  g[x] = IF x = r[p[x]] THEN g[p[x]] ELSE x
  BY <1>4 DEF FollowsUp
<1> DEFINE S == {i \in 0 .. N : \A x \in T :
                    at[x] <= i => Arrives(r, p, g[x]) = Nearby(o, hi, x)}
<1>5. 0 \in S
  <2>1. \A x \in T : at[x] \in 1 .. N BY <1>1, RowPlaces
  <2> QED BY <1>1, <2>1
<1>6. ASSUME NEW i \in 0 .. N - 1, i \in S PROVE i + 1 \in S
  <2>1. ASSUME NEW x \in T, at[x] <= i + 1
        PROVE  Arrives(r, p, g[x]) = Nearby(o, hi, x)
    <3>1. /\ HangsBelow(T, N, l, r, p, lo, hi, x) /\ Related(T, l, r, p, x)
          /\ HangsRight(T, r, p, at, lo, hi, x)
          /\ o[at[x]] = x /\ at[x] \in 1 .. N
          /\ lo[x] \in 1 .. N /\ hi[x] \in 1 .. N
          /\ lo[x] <= at[x] /\ at[x] <= hi[x]
      BY <1>1, RowPlaces
    <3>2. g[x] = IF x = r[p[x]] THEN g[p[x]] ELSE x
      BY <1>3, <1>4, <3>1 DEF Related
    <3>3. r[x] # Header /\ x \in TreeNodes /\ x # Header
      BY <1>3, <3>1 DEF Related
    <3>4. CASE p[x] = Header
      <4>1. p[Header] = x /\ hi[x] = N BY <3>1, <3>4 DEF HangsBelow
      <4>2. Nearby(o, hi, x) = Header BY <1>1, <4>1 DEF Nearby
      <4>3. CASE x = r[Header]
        <5>1. p[Header] # Null BY <1>3, <4>1
        <5>2. g[Header] = Header BY <1>4, <3>3, <4>1, <5>1
        <5>3. Arrives(r, p, Header) = Header BY <4>1, <4>3 DEF Arrives
        <5> QED BY <3>2, <3>4, <4>2, <4>3, <5>2, <5>3
      <4>4. CASE x # r[Header]
        <5>1. Arrives(r, p, x) = Header BY <3>3, <3>4 DEF Arrives
        <5> QED BY <3>2, <3>4, <4>2, <4>4, <5>1
      <4> QED BY <4>3, <4>4
    <3>5. CASE p[x] # Header
      <4>1. PICK y \in T : y = p[x] /\ (l[y] = x \/ r[y] = x)
        BY <3>1, <3>5 DEF HangsBelow
      <4>2. /\ HangsLeft(T, l, p, at, lo, hi, y) /\ HangsRight(T, r, p, at, lo, hi, y)
            /\ at[y] \in 1 .. N /\ o[at[y]] = y
            /\ lo[y] \in 1 .. N /\ lo[y] <= at[y]
        BY <1>1, RowPlaces
      <4>3. CASE r[y] = x
        <5>1. hi[x] = hi[y] /\ lo[x] = at[y] + 1
          BY <1>3, <3>3, <4>2, <4>3 DEF HangsRight
        <5>2. at[y] <= i BY <2>1, <3>1, <4>2, <5>1
        <5>3. Arrives(r, p, g[y]) = Nearby(o, hi, y) BY <1>6, <5>2
        <5>4. Nearby(o, hi, y) = Nearby(o, hi, x) BY <5>1 DEF Nearby
        <5> QED BY <3>2, <4>1, <4>3, <5>3, <5>4
      <4>4. CASE l[y] = x /\ r[y] # x
        <5>1. hi[x] = at[y] - 1 /\ lo[x] = lo[y]
          BY <1>3, <3>3, <4>2, <4>4 DEF HangsLeft
        <5>2. hi[x] < N /\ hi[x] + 1 = at[y] BY <1>1, <4>2, <5>1
        <5>3. Nearby(o, hi, x) = y BY <1>1, <4>2, <5>2 DEF Nearby
        <5>4. r[x] # y
          <6>1. ASSUME r[x] = y PROVE FALSE
            <7>1. lo[y] = at[x] + 1 BY <1>3, <3>1, <6>1 DEF HangsRight
            <7> QED BY <3>1, <5>1, <7>1
          <6> QED BY <6>1
        <5>5. g[x] = x BY <3>2, <4>1, <4>4
        <5> QED BY <4>1, <5>3, <5>4, <5>5 DEF Arrives
      <4> QED BY <4>1, <4>3, <4>4
    <3> QED BY <3>4, <3>5
  <2>2. i + 1 \in 0 .. N BY <1>1
  <2> QED BY <2>1, <2>2
<1>7. N \in S
  <2> HIDE DEF S
  <2>1. \A i \in 0 .. N - 1 : i \in S => i + 1 \in S BY <1>6
  <2>2. 0 \in Int /\ N \in Int BY <1>1
  <2>3. 0 .. N \subseteq S BY <1>5, <2>1, <2>2, Induction, Zenon
  <2> QED BY <1>1, <2>3
<1> QED
  <2>1. \A x \in T : at[x] \in 1 .. N BY <1>1, RowPlaces
  <2> QED BY <1>1, <1>7, <2>1

LEMMA TreeCardinality ==
  ASSUME NEW map
  PROVE  \A S : Tree(map)!Cardinality(S) = Cardinality(S)
BY DEF Tree!Cardinality, Cardinality

LEMMA TreeRange ==
  ASSUME NEW map
  PROVE  \A f : Tree(map)!Range(f) = Range(f)
BY DEF Tree!Range, Range

\* The node next to the k-th.
LEMMA TreeFollows ==
  ASSUME NEW map \in BOOLEAN, TreeAt(order, left, right, parent),
         NEW k \in 1 .. Len(order)
  PROVE  Tree(map)!successor(order[k])
            = IF k < Len(order) THEN order[k + 1] ELSE Header
<1>1. PICK T, at, lo, hi : IsRow(order, left, right, parent, T, at, lo, hi)
  BY DEF TreeAt
<1>2. PICK N \in Nat : N = Len(order) BY <1>1, RowIs
<1>3. PICK x \in T : x = order[k] /\ at[x] = k /\ x \in TreeNodes
  BY <1>1, <1>2, RowIs
<1>4. /\ HangsRight(T, right, parent, at, lo, hi, x) /\ Related(T, left, right, parent, x)
  BY <1>1, <1>2, RowPlaces
<1>5. FollowsLeft(left, Tree(map)!Leftmost)
  BY <1>1, LeftmostExists DEF FollowsLeft, Tree!Leftmost
<1>6. FollowsUp(right, parent, Tree(map)!Climb)
  <2> DEFINE D == {y \in AnyTreeNode : parent[y] # Null}
             climb == CHOOSE g : g = [n \in D |->
                          IF n = right[parent[n]] THEN g[parent[n]] ELSE n]
  <2>1. Tree(map)!Climb = climb
    BY Zenon DEF Tree!Climb, Tree!Links
  <2>4. PICK f : FollowsUp(right, parent, f) BY <1>1, ClimbExists
  <2>2. f = [n \in D |-> IF n = right[parent[n]] THEN f[parent[n]] ELSE n]
    BY <2>4 DEF FollowsUp
  <2>3. climb = [n \in D |-> IF n = right[parent[n]] THEN climb[parent[n]] ELSE n]
    BY <2>2
  <2> QED BY <2>1, <2>3 DEF FollowsUp
<1>7. CASE right[x] # Null
  <2>1. PICK y \in T : y = right[x] BY <1>4, <1>7 DEF Related
  <2>2. lo[y] = k + 1 BY <1>3, <1>4, <1>7, <2>1 DEF HangsRight
  <2>3. lo[y] \in 1 .. N BY <1>1, <1>2, RowPlaces
  <2>4. Tree(map)!Leftmost[y] = order[lo[y]] BY <1>1, <1>5, LeftmostIs
  <2>5. Tree(map)!successor(x) = Tree(map)!Leftmost[y]
    BY <1>7, <2>1 DEF Tree!successor
  <2>6. k < N BY <1>2, <2>2, <2>3
  <2> QED BY <1>2, <1>3, <2>2, <2>4, <2>5, <2>6
<1>8. CASE right[x] = Null
  <2>1. hi[x] = k BY <1>3, <1>4, <1>8 DEF HangsRight
  <2>2. PICK m : m = Tree(map)!Climb[x] OBVIOUS
  <2>3. Arrives(right, parent, m) = Nearby(order, hi, x)
    BY <1>1, <1>6, <2>2, ClimbIs
  <2>4. Tree(map)!successor(x) = Arrives(right, parent, m)
    BY <1>8, <2>2 DEF Tree!successor, Arrives
  <2> QED BY <1>3, <2>1, <2>3, <2>4 DEF Nearby
<1> QED BY <1>7, <1>8

\* The tree, and the iterator over what the count lets a reader see, which has
\* yielded the first p of the nodes s, and of the last one perhaps a half.
TreeTypeOK ==
  /\ IsLinks(left) /\ IsLinks(right) /\ IsLinks(parent)
  /\ node_count \in 0 .. Cardinality(TreeNodes)
  /\ order \in Seq(TreeNodes)
  /\ half \in {"none", "inserted", "erased"}
  /\ mode \in {"running", "listing", "listed"}
  /\ iter \in TreeIters
  /\ listed \in TreeListings

TreeCounts ==
  node_count = IF half = "none" THEN Len(order)
               ELSE IF half = "inserted" THEN Len(order) - 1
               ELSE Len(order) + 1

TreeAfter(map, s, p) ==
  /\ iter.count = p /\ iter.number = Len(listed)
  /\ p < node_count => iter.node = s[p + 1]
  /\ p >= 1 => iter.pair = s[p]
  /\ IF map THEN Len(listed) = 2 * p \/ (p >= 1 /\ Len(listed) = 2 * p - 1)
            ELSE Len(listed) = p

TreeIterates(map) ==
  /\ mode = "listing" =>
        \E p \in 0 .. node_count : TreeAfter(map, Tree(map)!counted, p)
  /\ mode = "listed" => Len(listed) = node_count * Halves(map)
  /\ mode # "listing" => iter = Tree(map)!NoIter
  /\ \A i \in 1 .. Len(listed) :
        /\ i \in 1 .. node_count * Halves(map)
        /\ listed[i][2] = Tree(map)!contents[i]

TreeInv(map) == /\ TreeTypeOK
                /\ TreeAt(order, left, right, parent)
                /\ TreeCounts
                /\ TreeIterates(map)
                /\ Idle

\* What the count lets a reader see.
IsCounted(s, n, o, h) ==
  /\ s \in [1 .. n -> AnyTreeNode]
  /\ n \in Nat /\ Len(o) \in Nat /\ n <= Len(o) + 1
  /\ \A i \in 1 .. n : s[i] = IF i <= Len(o) THEN o[i] ELSE Header
  /\ \A i \in 1 .. n : i <= Len(o) => o[i] \in TreeNodes /\ o[i] # Header
  /\ \A i, j \in 1 .. n : s[i] = s[j] => i = j
  /\ \A i \in 1 .. n : s[i] = Header => h = "erased"

LEMMA TreeCounted ==
  ASSUME NEW map \in BOOLEAN, TreeTypeOK, TreeAt(order, left, right, parent),
         TreeCounts
  PROVE  IsCounted(Tree(map)!counted, node_count, order, half)
<1>1. PICK T, at, lo, hi : IsRow(order, left, right, parent, T, at, lo, hi)
  BY DEF TreeAt
<1>2. PICK N \in Nat : N = Len(order) BY <1>1, RowIs
<1>3. PICK n \in Nat : n = node_count
  <2>1. node_count \in 0 .. Cardinality(TreeNodes)
    BY DEF TreeTypeOK
  <2> QED BY <2>1
<1>4. n = IF half = "none" THEN N ELSE IF half = "inserted" THEN N - 1 ELSE N + 1
  BY <1>2, <1>3 DEF TreeCounts
<1>5. half \in {"none", "inserted", "erased"}
  BY DEF TreeTypeOK
<1>6. /\ \A i \in 1 .. N : order[i] \in TreeNodes /\ order[i] # Header
      /\ \A i, j \in 1 .. N : order[i] = order[j] => i = j
  BY <1>1, <1>2, RowIs, PrintersAssumption DEF Distinct
<1>7. PICK s : s = Tree(map)!counted OBVIOUS
<1>8. s = [i \in 1 .. n |-> IF i <= N THEN order[i] ELSE Header]
  BY <1>2, <1>3, <1>7 DEF Tree!counted
<1>9. /\ s \in [1 .. n -> AnyTreeNode]
      /\ \A i \in 1 .. n : s[i] = IF i <= N THEN order[i] ELSE Header
  BY <1>6, <1>8
<1>10. ASSUME NEW i \in 1 .. n, s[i] = Header PROVE half = "erased" /\ i = N + 1
  <2>1. ~(i <= N) BY <1>6, <1>9, <1>10
  <2> QED BY <1>4, <1>5, <2>1
<1>11. ASSUME NEW i \in 1 .. n, NEW j \in 1 .. n, s[i] = s[j] PROVE i = j
  <2>1. CASE s[i] = Header BY <1>10, <1>11, <2>1
  <2>2. CASE s[i] # Header
    <3>1. i <= N /\ j <= N BY <1>9, <1>11, <2>2
    <3> QED BY <1>6, <1>9, <1>11, <3>1
  <2> QED BY <2>1, <2>2
<1>12. n <= N + 1 BY <1>4
<1>13. \A i \in 1 .. n : i <= N => order[i] \in TreeNodes /\ order[i] # Header
  BY <1>6
<1> QED BY <1>2, <1>3, <1>7, <1>9, <1>10, <1>11, <1>12, <1>13 DEF IsCounted

LEMMA TreeContents ==
  ASSUME NEW map \in BOOLEAN, node_count \in Nat,
         NEW s, s = Tree(map)!counted, NEW c, c = Tree(map)!contents
  PROVE  IsContents(map, s, node_count, c)
<1>1. c = Elements(map, s, node_count)
  BY Zenon DEF Tree!contents, Tree!first, Tree!second, Elements
<1> QED BY <1>1, ContentsAre, Zenon

\* No element is there twice, and each is of a node counted.
LEMMA ContentsDiffer ==
  ASSUME NEW map \in BOOLEAN, NEW n \in Nat, NEW s, NEW c,
         IsContents(map, s, n, c),
         \A i, j \in 1 .. n : s[i] = s[j] => i = j
  PROVE  /\ \A i \in 1 .. n * Halves(map) : \E j \in 1 .. n :
                c[i] = <<"first", s[j]>> \/ c[i] = <<"second", s[j]>>
         /\ \A i, j \in 1 .. n * Halves(map) : c[i] = c[j] => i = j
<1>1. CASE ~map
  <2>1. n * Halves(map) = n BY <1>1 DEF Halves
  <2>2. \A i \in 1 .. n : c[i] = <<"first", s[i]>> BY <1>1 DEF IsContents
  <2> QED BY <2>1, <2>2
<1>2. CASE map
  <2>1. n * Halves(map) = 2 * n BY <1>2 DEF Halves
  <2>2. \A k \in 1 .. n :
           c[2 * k - 1] = <<"first", s[k]>> /\ c[2 * k] = <<"second", s[k]>>
    BY <1>2 DEF IsContents
  <2>3. ASSUME NEW i \in 1 .. 2 * n
        PROVE  \E k \in 1 .. n : \/ i = 2 * k - 1 /\ c[i] = <<"first", s[k]>>
                                 \/ i = 2 * k /\ c[i] = <<"second", s[k]>>
    <3>1. CASE i % 2 = 1
      <4>1. PICK k \in 1 .. n : i = 2 * k - 1
        <5>1. (i + 1) \div 2 \in 1 .. n /\ i = 2 * ((i + 1) \div 2) - 1 BY <3>1
        <5> QED BY <5>1
      <4> QED BY <2>2, <4>1
    <3>2. CASE i % 2 # 1
      <4>1. PICK k \in 1 .. n : i = 2 * k
        <5>1. i \div 2 \in 1 .. n /\ i = 2 * (i \div 2) BY <3>2
        <5> QED BY <5>1
      <4> QED BY <2>2, <4>1
    <3> QED BY <3>1, <3>2
  <2>4. ASSUME NEW i \in 1 .. 2 * n, NEW j \in 1 .. 2 * n, c[i] = c[j]
        PROVE  i = j
    <3>1. PICK a \in 1 .. n : \/ i = 2 * a - 1 /\ c[i] = <<"first", s[a]>>
                              \/ i = 2 * a /\ c[i] = <<"second", s[a]>>
      BY <2>3
    <3>2. PICK b \in 1 .. n : \/ j = 2 * b - 1 /\ c[j] = <<"first", s[b]>>
                              \/ j = 2 * b /\ c[j] = <<"second", s[b]>>
      BY <2>3
    <3>3. s[a] = s[b] /\ (i = 2 * a <=> j = 2 * b)
      <4>1. "first" # "second" OBVIOUS
      <4>2. CASE i = 2 * a - 1 /\ c[i] = <<"first", s[a]>>
        <5>1. ~(j = 2 * b /\ c[j] = <<"second", s[b]>>) BY <2>4, <4>1, <4>2
        <5> QED BY <2>4, <3>2, <4>2, <5>1
      <4>3. CASE i = 2 * a /\ c[i] = <<"second", s[a]>>
        <5>1. ~(j = 2 * b - 1 /\ c[j] = <<"first", s[b]>>) BY <2>4, <4>1, <4>3
        <5> QED BY <2>4, <3>2, <4>3, <5>1
      <4> QED BY <3>1, <4>2, <4>3
    <3>4. a = b BY <3>3
    <3> QED BY <3>1, <3>2, <3>3, <3>4
  <2> QED BY <2>1, <2>3, <2>4
<1> QED BY <1>1, <1>2

\* A step of the program leaves a tree.
LEMMA TreeMoves ==
  ASSUME NEW map \in BOOLEAN, TreeInv(map), mode = "running",
         mode' = mode, iter' = iter, listed' = listed,
         TreeAt(order, left, right, parent)',
         node_count' \in 0 .. Cardinality(TreeNodes),
         half' \in {"none", "inserted", "erased"}, TreeCounts'
  PROVE  TreeInv(map)'
<1>1. PICK T, at, lo, hi : IsRow(order, left, right, parent, T, at, lo, hi)'
  BY DEF TreeAt
<1>2. PICK o, l, r, p : o = order' /\ l = left' /\ r = right' /\ p = parent'
  OBVIOUS
<1>3. IsRow(o, l, r, p, T, at, lo, hi)
  BY <1>1, <1>2 DEF IsRow, IsTree, IsOrder, IsEnds, TreeTyped, TreeNumbered,
                    TreeRooted, TreeFree, HangsLeft, HangsRight, HangsBelow
<1>4. IsLinks(l) /\ IsLinks(r) /\ IsLinks(p) /\ o \in Seq(TreeNodes)
  BY <1>3, RowIs
<1>5. listed = <<>> /\ iter = Tree(map)!NoIter
  BY DEF TreeInv, Idle, TreeIterates
<1>6. TreeTypeOK' BY <1>2, <1>4 DEF TreeInv, TreeTypeOK, IsLinks
<1>7. TreeIterates(map)'
  <2>1. \A i \in 1 .. Len(listed') : FALSE BY <1>5
  <2>2. Tree(map)!NoIter' = Tree(map)!NoIter
    BY DEF Tree!NoIter
  <2> QED BY <1>5, <2>1, <2>2 DEF TreeIterates
<1> QED BY <1>5, <1>6, <1>7 DEF TreeInv, Idle

\* The header of the tree that has the order o.
EndsOf(o, J, R) ==
  /\ J[Header] = IF o = <<>> THEN Header ELSE o[1]
  /\ R[Header] = IF o = <<>> THEN Header ELSE o[Len(o)]

LEMMA EndsAre ==
  ASSUME NEW o \in Seq(TreeNodes), NEW J, NEW R, EndsOf(o, J, R)
  PROVE  IsEnds(o, J, R)
<1>1. o = <<>> <=> Len(o) = 0
  BY EmptySeq, LenProperties
<1> QED BY <1>1 DEF EndsOf, IsEnds

LEMMA EndsLinked ==
  ASSUME NEW o \in Seq(TreeNodes), NEW map \in BOOLEAN
  PROVE  /\ Tree(map)!Ends(o)[1] = IF o = <<>> THEN Header ELSE o[1]
         /\ Tree(map)!Ends(o)[2] = IF o = <<>> THEN Header ELSE o[Len(o)]
         /\ Tree(map)!Ends(o)[1] \in AnyTreeNode
         /\ Tree(map)!Ends(o)[2] \in AnyTreeNode
<1>1. CASE o = <<>> BY <1>1 DEF Tree!Ends
<1>2. CASE o # <<>>
  <2>1. Len(o) \in Nat /\ Len(o) # 0 BY <1>2, EmptySeq, LenProperties
  <2>2. 1 \in 1 .. Len(o) /\ Len(o) \in 1 .. Len(o) BY <2>1
  <2>3. o[1] \in TreeNodes /\ o[Len(o)] \in TreeNodes BY <2>2, ElementOfSeq
  <2> QED BY <1>2, <2>3 DEF Tree!Ends
<1> QED BY <1>1, <1>2

LEMMA TreeSpace ==
  ASSUME NEW map \in BOOLEAN, TreeInv(map)
  PROVE  /\ IsLinks(left) /\ IsLinks(right) /\ IsLinks(parent)
         /\ order \in Seq(TreeNodes) /\ Len(order) \in 0 .. Cardinality(TreeNodes)
         /\ \A k \in 1 .. Len(order) : order[k] \in TreeNodes
         /\ \A n \in Range(order) :
               /\ n \in TreeNodes /\ parent[n] \in AnyTreeNode
               /\ left[n] # n /\ right[n] # n /\ parent[n] # n
               /\ left[n] # Null => left[n] # right[n]
               /\ left[n] \in TreeNodes \union {Null}
               /\ right[n] \in TreeNodes \union {Null}
         /\ node_count \in 0 .. Cardinality(TreeNodes)
         /\ DOMAIN order = 1 .. Len(order)
<1>1. PICK T, at, lo, hi : IsRow(order, left, right, parent, T, at, lo, hi)
  BY DEF TreeInv, TreeAt
<1>2. /\ IsLinks(left) /\ IsLinks(right) /\ IsLinks(parent)
      /\ order \in Seq(TreeNodes) /\ Len(order) \in Nat
      /\ \A k \in 1 .. Len(order) : order[k] \in TreeNodes
      /\ Range(order) = T /\ T \subseteq TreeNodes /\ Distinct(order)
  BY <1>1, RowIs
<1>3. IsFiniteSet(T) /\ Cardinality(T) = Len(order) BY <1>2, DistinctCount
<1>4. Cardinality(T) <= Cardinality(TreeNodes) /\ Cardinality(TreeNodes) \in Nat
  BY <1>2, PrintersAssumption, FS_Subset, FS_CardinalityType
<1>5. ASSUME NEW n \in T PROVE Related(T, left, right, parent, n)
  BY <1>1, <1>2, RowPlaces
<1>6. node_count \in 0 .. Cardinality(TreeNodes)
  BY DEF TreeInv, TreeTypeOK
<1>7. DOMAIN order = 1 .. Len(order) BY <1>2, LenProperties
<1>8. Len(order) \in 0 .. Cardinality(TreeNodes) BY <1>2, <1>3, <1>4
<1> QED BY <1>2, <1>5, <1>6, <1>7, <1>8 DEF Related

LEMMA TreeRoot ==
  ASSUME NEW map \in BOOLEAN, TreeInv(map), NEW n \in TreeNodes,
         Tree(map)!InsertRoot(n)
  PROVE  TreeInv(map)'
<1>1. PICK l, r, p : l = left /\ r = right /\ p = parent OBVIOUS
<1>2. PICK o : o = <<n>> OBVIOUS
<1>3. /\ mode = "running" /\ half = "none" /\ order = <<>> /\ half' = "inserted"
      /\ node_count' = node_count /\ mode' = mode /\ iter' = iter /\ listed' = listed
      /\ left' = [[l EXCEPT ![n] = Null] EXCEPT ![Header] = Tree(map)!Ends(o)[1]]
      /\ right' = [[r EXCEPT ![n] = Null] EXCEPT ![Header] = Tree(map)!Ends(o)[2]]
      /\ parent' = [p EXCEPT ![n] = Header, ![Header] = n]
      /\ order' = o
  BY <1>1, <1>2 DEF Tree!InsertRoot, Tree!Relink
<1>4. o \in Seq(TreeNodes) /\ Len(o) = 1 /\ o # <<>> /\ o[1] = n BY <1>2
<1>5. /\ Tree(map)!Ends(o)[1] = n /\ Tree(map)!Ends(o)[2] = n
  BY <1>4, EndsLinked
<1>6. IsLinks(l) /\ IsLinks(r) /\ IsLinks(p) /\ Header \notin TreeNodes
  BY <1>1, TreeSpace, PrintersAssumption
<1>7. \A x \in TreeNodes : l[x] = Null /\ r[x] = Null /\ p[x] = Null
  <2>1. PICK T, at, lo, hi : IsRow(order, l, r, p, T, at, lo, hi)
    BY <1>1 DEF TreeInv, TreeAt
  <2>2. Range(order) = {} BY <1>3 DEF Range
  <2>3. T = {} BY <2>1, <2>2, RowIs
  <2> QED BY <2>1, <2>3 DEF IsRow, IsTree, TreeFree
<1>8. PICK J, R, P : J = left' /\ R = right' /\ P = parent' OBVIOUS
<1>9. IsLinks(J) /\ IsLinks(R) /\ IsLinks(P)
  BY <1>3, <1>5, <1>6, <1>8 DEF IsLinks
<1>10. \A x \in TreeNodes : /\ J[x] = Null /\ R[x] = Null
                            /\ P[x] = IF x = n THEN Header ELSE Null
  BY <1>3, <1>6, <1>7, <1>8 DEF IsLinks
<1>11. P[Header] = n /\ J[Header] = n /\ R[Header] = n
  BY <1>3, <1>5, <1>6, <1>8 DEF IsLinks
<1>12. TreeAt(o, J, R, P)
  <2>1. IsEnds(o, J, R) BY <1>4, <1>11 DEF IsEnds
  <2> QED BY <1>2, <1>9, <1>10, <1>11, <2>1, RowSeeds
<1>13. TreeAt(order, left, right, parent)' BY <1>3, <1>8, <1>12
<1>14. TreeCounts'
  <2>1. node_count = 0 BY <1>3 DEF TreeInv, TreeCounts
  <2> QED BY <1>3, <1>4, <2>1 DEF TreeCounts
<1> QED BY <1>3, <1>13, <1>14, TreeSpace, TreeMoves

LEMMA TreeLeaf ==
  ASSUME NEW map \in BOOLEAN, TreeInv(map), NEW n \in TreeNodes,
         NEW k \in DOMAIN order, NEW onLeft \in BOOLEAN,
         Tree(map)!InsertLeaf(n, k, onLeft)
  PROVE  TreeInv(map)'
<1>1. PICK l, r, p, o : l = left /\ r = right /\ p = parent /\ o = order
  OBVIOUS
<1>2. PICK q : q = o[k] OBVIOUS
<1>3. PICK a : a = IF onLeft THEN k - 1 ELSE k OBVIOUS
<1>4. PICK O : O = SubSeq(o, 1, a) \o <<n>> \o SubSeq(o, a + 1, Len(o)) OBVIOUS
<1>5. /\ mode = "running" /\ half = "none" /\ half' = "inserted"
      /\ node_count' = node_count /\ mode' = mode /\ iter' = iter /\ listed' = listed
      /\ (IF onLeft THEN l[q] ELSE r[q]) = Null /\ n \notin Range(o)
      /\ left' = [[l EXCEPT ![n] = Null, ![q] = IF onLeft THEN n ELSE @]
                     EXCEPT ![Header] = Tree(map)!Ends(O)[1]]
      /\ right' = [[r EXCEPT ![n] = Null, ![q] = IF onLeft THEN @ ELSE n]
                     EXCEPT ![Header] = Tree(map)!Ends(O)[2]]
      /\ parent' = [p EXCEPT ![n] = q]
      /\ order' = O
  BY <1>1, <1>2, <1>3, <1>4, TreeRange DEF Tree!InsertLeaf, Tree!Relink
<1>6. /\ IsLinks(l) /\ IsLinks(r) /\ IsLinks(p) /\ o \in Seq(TreeNodes)
      /\ k \in 1 .. Len(o) /\ Len(o) \in Nat /\ q \in TreeNodes
      /\ TreeAt(o, l, r, p) /\ Header \notin TreeNodes
      /\ Len(o) \in 0 .. Cardinality(TreeNodes) /\ Null \notin TreeNodes
  <2>1. order \in Seq(TreeNodes) /\ k \in 1 .. Len(order) /\ Len(order) \in Nat
    BY TreeSpace
  <2>2. order[k] \in TreeNodes BY <2>1, ElementOfSeq
  <2> QED BY <1>1, <1>2, <2>1, <2>2, TreeSpace, PrintersAssumption DEF TreeInv
<1>7. q # n BY <1>2, <1>5, <1>6, LenProperties DEF Range
<1>8. a \in {k - 1, k} /\ a \in 0 .. Len(o) BY <1>3, <1>6
<1>9. IsInserted(TreeNodes, o, a, n, O) BY <1>4, <1>6, <1>8, Inserted
<1>10. O \in Seq(TreeNodes) /\ Len(O) = Len(o) + 1 BY <1>9 DEF IsInserted
<1>11. PICK x, y \in AnyTreeNode :
          x = Tree(map)!Ends(O)[1] /\ y = Tree(map)!Ends(O)[2]
  BY <1>10, EndsLinked
<1>12. PICK J, R, P : J = left' /\ R = right' /\ P = parent' OBVIOUS
<1>13. /\ J = [[l EXCEPT ![n] = Null, ![q] = IF onLeft THEN n ELSE @]
                  EXCEPT ![Header] = x]
       /\ R = [[r EXCEPT ![n] = Null, ![q] = IF onLeft THEN @ ELSE n]
                  EXCEPT ![Header] = y]
       /\ P = [p EXCEPT ![n] = q]
  BY <1>5, <1>11, <1>12
<1>14. IsLinks(J) /\ IsLinks(R) /\ IsLinks(P) BY <1>6, <1>7, <1>13 DEF IsLinks
<1>15. /\ \A z \in TreeNodes \ {n, q} : J[z] = l[z] /\ R[z] = r[z]
       /\ \A z \in AnyTreeNode \ {n} : P[z] = p[z]
       /\ J[n] = Null /\ R[n] = Null /\ P[n] = q
       /\ J[Header] = x /\ R[Header] = y
       /\ J[q] = (IF onLeft THEN n ELSE l[q])
       /\ R[q] = (IF onLeft THEN r[q] ELSE n)
  BY <1>6, <1>7, <1>13 DEF IsLinks
<1>16. IsLeafOf(l, r, p, k, a, n, q, J, R, P) BY <1>3, <1>5, <1>15 DEF IsLeafOf
<1>17. IsEnds(O, J, R)
  <2>1. EndsOf(O, J, R) BY <1>10, <1>11, <1>15, EndsLinked DEF EndsOf
  <2> QED BY <1>10, <2>1, EndsAre
<1>18. TreeAt(O, J, R, P)
  BY <1>2, <1>5, <1>6, <1>8, <1>9, <1>14, <1>16, <1>17, RowGrows
<1>19. TreeAt(order, left, right, parent)' BY <1>5, <1>12, <1>18
<1>20. TreeCounts'
  <2>1. node_count = Len(o) BY <1>1, <1>5 DEF TreeInv, TreeCounts
  <2> QED BY <1>5, <1>6, <1>10, <2>1 DEF TreeCounts
<1> QED BY <1>5, <1>19, <1>20, TreeSpace, TreeMoves

LEMMA TreeErase ==
  ASSUME NEW map \in BOOLEAN, TreeInv(map), NEW k \in DOMAIN order,
         Tree(map)!Erase(k)
  PROVE  TreeInv(map)'
<1>1. PICK l, r, p, o : l = left /\ r = right /\ p = parent /\ o = order
  OBVIOUS
<1>2. PICK n : n = o[k] OBVIOUS
<1>3. PICK m : m = IF l[n] # Null THEN l[n] ELSE r[n] OBVIOUS
<1>4. PICK O : O = SubSeq(o, 1, k - 1) \o SubSeq(o, k + 1, Len(o)) OBVIOUS
<1>5. PICK g : g = p[n] OBVIOUS
<1>6. PICK below : below = [x \in AnyTreeNode |->
                       IF x = n THEN Null ELSE IF x = m THEN g ELSE p[x]]
  OBVIOUS
<1>7. /\ mode = "running" /\ half = "none" /\ half' = "erased"
      /\ node_count' = node_count /\ mode' = mode /\ iter' = iter /\ listed' = listed
      /\ l[n] = Null \/ r[n] = Null
      /\ left' = [[[l EXCEPT ![g] = IF g # Header /\ @ = n THEN m ELSE @]
                      EXCEPT ![n] = Null] EXCEPT ![Header] = Tree(map)!Ends(O)[1]]
      /\ right' = [[[r EXCEPT ![g] = IF g # Header /\ @ = n THEN m ELSE @]
                      EXCEPT ![n] = Null] EXCEPT ![Header] = Tree(map)!Ends(O)[2]]
      /\ order' = O
  BY <1>1, <1>2, <1>3, <1>4, <1>5
     DEF Tree!Erase, Tree!Relink, Tree!Replace
<1>8. parent' = IF g = Header THEN [below EXCEPT ![Header] = m] ELSE below
  BY <1>1, <1>2, <1>3, <1>5, <1>6
     DEF Tree!Erase, Tree!Relink, Tree!Below, Tree!Links
<1>9. /\ IsLinks(l) /\ IsLinks(r) /\ IsLinks(p) /\ o \in Seq(TreeNodes)
      /\ k \in 1 .. Len(o) /\ Len(o) \in Nat /\ n \in TreeNodes
      /\ TreeAt(o, l, r, p) /\ Header \notin TreeNodes /\ Null # Header
      /\ Null \notin TreeNodes
  <2>1. order \in Seq(TreeNodes) /\ k \in 1 .. Len(order) /\ Len(order) \in Nat
    BY TreeSpace
  <2>2. order[k] \in TreeNodes BY <2>1, ElementOfSeq
  <2> QED BY <1>1, <1>2, <2>1, <2>2, TreeSpace, PrintersAssumption DEF TreeInv
<1>10. /\ g \in AnyTreeNode /\ g # n
       /\ m \in TreeNodes \union {Null} /\ m # n
       /\ (l[n] = Null /\ m = r[n]) \/ (r[n] = Null /\ m = l[n])
  <2>1. n \in Range(order) BY <1>1, <1>2 DEF Range
  <2>2. /\ g \in AnyTreeNode /\ g # n
        /\ l[n] \in TreeNodes \union {Null} /\ r[n] \in TreeNodes \union {Null}
        /\ l[n] # n /\ r[n] # n
    BY <1>1, <1>5, <2>1, TreeSpace
  <2>3. CASE l[n] = Null
    <3>1. m = r[n] BY <1>3, <2>3
    <3> QED BY <2>2, <2>3, <3>1
  <2>4. CASE l[n] # Null
    <3>1. m = l[n] /\ r[n] = Null BY <1>3, <1>7, <2>4
    <3> QED BY <2>2, <3>1
  <2> QED BY <2>3, <2>4
<1>11. IsRemoved(TreeNodes, o, k, O) BY <1>4, <1>9, Removed
<1>12. O \in Seq(TreeNodes) /\ Len(O) = Len(o) - 1 BY <1>11 DEF IsRemoved
<1>13. PICK x, y \in AnyTreeNode :
          x = Tree(map)!Ends(O)[1] /\ y = Tree(map)!Ends(O)[2]
  BY <1>12, EndsLinked
<1>14. PICK J, R, P : J = left' /\ R = right' /\ P = parent' OBVIOUS
<1>15. /\ IsLinks(J) /\ J[Header] = x
       /\ \A z \in TreeNodes : J[z] = IF z = n THEN Null
                        ELSE IF z = g /\ l[z] = n THEN m ELSE l[z]
  <2>1. J = [[[l EXCEPT ![g] = IF g # Header /\ @ = n THEN m ELSE @]
                 EXCEPT ![n] = Null] EXCEPT ![Header] = x]
    BY <1>7, <1>13, <1>14
  <2> QED BY <1>9, <1>10, <2>1 DEF IsLinks
<1>16. /\ IsLinks(R) /\ R[Header] = y
       /\ \A z \in TreeNodes : R[z] = IF z = n THEN Null
                        ELSE IF z = g /\ r[z] = n THEN m ELSE r[z]
  <2>1. R = [[[r EXCEPT ![g] = IF g # Header /\ @ = n THEN m ELSE @]
                 EXCEPT ![n] = Null] EXCEPT ![Header] = y]
    BY <1>7, <1>13, <1>14
  <2> QED BY <1>9, <1>10, <2>1 DEF IsLinks
<1>17. /\ IsLinks(P) /\ P[Header] = IF g = Header THEN m ELSE p[Header]
       /\ \A z \in TreeNodes :
             P[z] = IF z = n THEN Null ELSE IF z = m THEN g ELSE p[z]
  BY <1>6, <1>8, <1>9, <1>10, <1>14 DEF IsLinks
<1>18. IsUnlinked(l, r, p, n, m, J, R, P)
  BY <1>5, <1>9, <1>10, <1>15, <1>16, <1>17 DEF IsUnlinked
<1>19. IsEnds(O, J, R)
  <2>1. EndsOf(O, J, R) BY <1>12, <1>13, <1>15, <1>16, EndsLinked DEF EndsOf
  <2> QED BY <1>12, <2>1, EndsAre
<1>20. TreeAt(O, J, R, P)
  BY <1>2, <1>9, <1>11, <1>15, <1>16, <1>17, <1>18, <1>19, RowShrinks
<1>21. TreeAt(order, left, right, parent)' BY <1>7, <1>14, <1>20
<1>22. TreeCounts'
  <2>1. node_count = Len(o) BY <1>1, <1>7 DEF TreeInv, TreeCounts
  <2> QED BY <1>7, <1>9, <1>12, <2>1 DEF TreeCounts
<1> QED BY <1>7, <1>21, <1>22, TreeSpace, TreeMoves

LEMMA TreeRotate ==
  ASSUME NEW map \in BOOLEAN, TreeInv(map), NEW n \in TreeNodes,
         Tree(map)!RotateLeft(n)
  PROVE  TreeInv(map)'
<1>1. PICK l, r, p, o : l = left /\ r = right /\ p = parent /\ o = order
  OBVIOUS
<1>2. PICK m, g : m = r[n] /\ g = p[n] OBVIOUS
<1>3. PICK c : c = l[m] OBVIOUS
<1>4. PICK turned : turned = [p EXCEPT ![n] = m, ![m] = g] OBVIOUS
<1>5. PICK below : below = IF c = Null THEN turned ELSE [turned EXCEPT ![c] = n]
  OBVIOUS
<1>6. /\ mode = "running" /\ half = "none" /\ half' = half /\ order' = o
      /\ node_count' = node_count /\ mode' = mode /\ iter' = iter /\ listed' = listed
      /\ n \in Range(o) /\ m # Null
      /\ left' = [[[l EXCEPT ![g] = IF g # Header /\ @ = n THEN m ELSE @]
                      EXCEPT ![m] = n] EXCEPT ![Header] = Tree(map)!Ends(o)[1]]
      /\ right' = [[[r EXCEPT ![g] = IF g # Header /\ @ = n THEN m ELSE @]
                      EXCEPT ![n] = c] EXCEPT ![Header] = Tree(map)!Ends(o)[2]]
  BY <1>1, <1>2, <1>3, TreeRange
     DEF Tree!RotateLeft, Tree!Relink, Tree!Replace
<1>7. parent' = IF g = Header THEN [below EXCEPT ![Header] = m] ELSE below
  BY <1>1, <1>2, <1>3, <1>4, <1>5
     DEF Tree!RotateLeft, Tree!Relink, Tree!Below
<1>8. /\ IsLinks(l) /\ IsLinks(r) /\ IsLinks(p) /\ o \in Seq(TreeNodes)
      /\ TreeAt(o, l, r, p) /\ Header \notin TreeNodes /\ Null # Header
      /\ Null \notin TreeNodes
  BY <1>1, TreeSpace, PrintersAssumption DEF TreeInv
<1>9. /\ g \in AnyTreeNode /\ g # n
      /\ m \in TreeNodes /\ m # n
  BY <1>1, <1>2, <1>6, TreeSpace
<1>10. c \in TreeNodes \union {Null}
  <2>1. PICK T, at, lo, hi : IsRow(o, l, r, p, T, at, lo, hi)
    BY <1>8 DEF TreeAt
  <2>2. n \in T /\ T \subseteq TreeNodes /\ Len(o) \in Nat BY <1>6, <2>1, RowIs
  <2>3. m \in T BY <1>2, <1>6, <2>1, <2>2, RowPlaces DEF Related
  <2> QED BY <1>3, <2>1, <2>2, <2>3, RowPlaces DEF Related
<1>11. PICK x, y \in AnyTreeNode :
          x = Tree(map)!Ends(o)[1] /\ y = Tree(map)!Ends(o)[2]
  BY <1>8, EndsLinked
<1>12. PICK J, R, P : J = left' /\ R = right' /\ P = parent' OBVIOUS
<1>13. /\ IsLinks(J) /\ J[Header] = x
       /\ \A z \in TreeNodes : J[z] = IF z = m THEN n
                        ELSE IF z = g /\ l[z] = n THEN m ELSE l[z]
  <2>1. J = [[[l EXCEPT ![g] = IF g # Header /\ @ = n THEN m ELSE @]
                 EXCEPT ![m] = n] EXCEPT ![Header] = x]
    BY <1>6, <1>11, <1>12
  <2> QED BY <1>8, <1>9, <2>1 DEF IsLinks
<1>14. /\ IsLinks(R) /\ R[Header] = y
       /\ \A z \in TreeNodes : R[z] = IF z = n THEN c
                        ELSE IF z = g /\ r[z] = n THEN m ELSE r[z]
  <2>1. R = [[[r EXCEPT ![g] = IF g # Header /\ @ = n THEN m ELSE @]
                 EXCEPT ![n] = c] EXCEPT ![Header] = y]
    BY <1>6, <1>11, <1>12
  <2> QED BY <1>8, <1>9, <1>10, <2>1 DEF IsLinks
<1>15. /\ IsLinks(P) /\ P[Header] = IF g = Header THEN m ELSE p[Header]
       /\ \A z \in TreeNodes :
             P[z] = IF z = c THEN n ELSE IF z = n THEN m
                    ELSE IF z = m THEN g ELSE p[z]
  <2>1. /\ IsLinks(turned) /\ turned[Header] = p[Header]
        /\ \A z \in TreeNodes :
              turned[z] = IF z = n THEN m ELSE IF z = m THEN g ELSE p[z]
    BY <1>4, <1>8, <1>9 DEF IsLinks
  <2>2. /\ IsLinks(below) /\ below[Header] = p[Header]
        /\ \A z \in TreeNodes :
              below[z] = IF z = c THEN n ELSE IF z = n THEN m
                         ELSE IF z = m THEN g ELSE p[z]
    BY <1>5, <1>8, <1>9, <1>10, <2>1 DEF IsLinks
  <2> QED BY <1>7, <1>8, <1>9, <1>12, <2>2 DEF IsLinks
<1>16. IsTurned(l, r, p, n, m, c, J, R, P)
  BY <1>2, <1>3, <1>6, <1>13, <1>14, <1>15 DEF IsTurned
<1>17. IsEnds(o, J, R)
  <2>1. EndsOf(o, J, R) BY <1>8, <1>11, <1>13, <1>14, EndsLinked DEF EndsOf
  <2> QED BY <1>8, <2>1, EndsAre
<1>18. TreeAt(o, J, R, P)
  BY <1>6, <1>8, <1>13, <1>14, <1>15, <1>16, <1>17, RowTurns
<1>19. TreeAt(order, left, right, parent)' BY <1>6, <1>12, <1>18
<1>20. TreeCounts' BY <1>1, <1>6 DEF TreeInv, TreeCounts
<1>21. half' \in {"none", "inserted", "erased"} BY <1>6
<1> QED BY <1>6, <1>19, <1>20, <1>21, TreeSpace, TreeMoves

LEMMA TreeCount ==
  ASSUME NEW map \in BOOLEAN, TreeInv(map), Tree(map)!Count
  PROVE  TreeInv(map)'
<1>1. /\ mode = "running" /\ node_count' = Len(order) /\ half' = "none"
      /\ left' = left /\ right' = right /\ parent' = parent /\ order' = order
      /\ mode' = mode /\ iter' = iter /\ listed' = listed
  BY DEF Tree!Count
<1>2. TreeAt(order, left, right, parent)'
  <2>1. PICK l, r, p, o : l = left /\ r = right /\ p = parent /\ o = order
    OBVIOUS
  <2>2. TreeAt(o, l, r, p) BY <2>1 DEF TreeInv
  <2> QED BY <1>1, <2>1, <2>2
<1>3. TreeCounts' BY <1>1 DEF TreeCounts
<1> QED BY <1>1, <1>2, <1>3, TreeSpace, TreeMoves

LEMMA TreeInit ==
  ASSUME NEW map \in BOOLEAN, Tree(map)!Init
  PROVE  TreeInv(map)
<1>1. /\ left = [n \in AnyTreeNode |->
                    IF n = Header THEN Header ELSE Null]
      /\ right = [n \in AnyTreeNode |->
                    IF n = Header THEN Header ELSE Null]
      /\ parent = [n \in AnyTreeNode |-> Null]
      /\ node_count = 0 /\ order = <<>> /\ half = "none" /\ mode = "running"
      /\ iter = Tree(map)!NoIter /\ listed = <<>>
  BY DEF Tree!Init, Tree!Links
<1>2. Header \notin TreeNodes
  BY PrintersAssumption
<1>3. IsLinks(left) /\ IsLinks(right) /\ IsLinks(parent) BY <1>1 DEF IsLinks
<1>4. PICK f : f = [n \in {} |-> 1] OBVIOUS
<1>5. IsTree({}, 0, left, right, parent, f, f, f)
  <2>1. f \in [{} -> 1 .. 0] BY <1>4
  <2>2. TreeTyped({}, 0, left, right, parent, f, f, f)
    BY <1>3, <2>1 DEF TreeTyped, IsLinks
  <2> QED BY <1>1, <1>2, <2>2 DEF IsTree, TreeNumbered, TreeRooted, TreeFree
<1>6. order \in Seq(TreeNodes) /\ Len(order) = 0 BY <1>1
<1>7. TreeAt(order, left, right, parent)
  <2>1. IsOrder(order, {}, f) BY <1>6 DEF IsOrder
  <2>2. IsEnds(order, left, right) BY <1>1, <1>6 DEF IsEnds
  <2>3. IsRow(order, left, right, parent, {}, f, f, f)
    BY <1>5, <1>6, <2>1, <2>2 DEF IsRow
  <2> QED BY <2>3 DEF TreeAt
<1>8. TreeTypeOK
  <2>1. Cardinality(TreeNodes) \in Nat
    BY PrintersAssumption, FS_CardinalityType
  <2>2. iter \in TreeIters BY <1>1 DEF Tree!NoIter
  <2> QED BY <1>1, <1>3, <1>6, <2>1, <2>2 DEF TreeTypeOK
<1>9. TreeCounts /\ TreeIterates(map) /\ Idle
  BY <1>1, <1>6 DEF TreeCounts, TreeIterates, Idle
<1> QED BY <1>7, <1>8, <1>9 DEF TreeInv

\* What a listing leaves as it is.
TreeSame(map) ==
  /\ left' = left /\ right' = right /\ parent' = parent
  /\ node_count' = node_count /\ order' = order /\ half' = half
  /\ Tree(map)!counted' = Tree(map)!counted
  /\ Tree(map)!contents' = Tree(map)!contents
  /\ Tree(map)!NoIter' = Tree(map)!NoIter
  /\ TreeAt(order, left, right, parent)' /\ TreeCounts'

LEMMA TreeStays ==
  ASSUME NEW map \in BOOLEAN, TreeInv(map), UNCHANGED Tree(map)!container
  PROVE  TreeSame(map)
<1>1. /\ left' = left /\ right' = right /\ parent' = parent
      /\ node_count' = node_count /\ order' = order /\ half' = half
  BY DEF Tree!container
<1>2. Tree(map)!counted' = Tree(map)!counted BY <1>1 DEF Tree!counted
<1>3. Tree(map)!contents' = Tree(map)!contents
  BY <1>1, <1>2 DEF Tree!contents, Tree!first, Tree!second
<1>4. TreeAt(order, left, right, parent)'
  <2>1. PICK l, r, p, o : l = left /\ r = right /\ p = parent /\ o = order
    OBVIOUS
  <2>2. TreeAt(o, l, r, p) BY <2>1 DEF TreeInv
  <2> QED BY <1>1, <2>1, <2>2
<1>5. TreeCounts' BY <1>1 DEF TreeInv, TreeCounts
<1>6. Tree(map)!NoIter' = Tree(map)!NoIter
  BY DEF Tree!NoIter
<1> QED BY <1>1, <1>2, <1>3, <1>4, <1>5, <1>6 DEF TreeSame

LEMMA TreeKeeps ==
  ASSUME NEW map \in BOOLEAN, TreeInv(map), TreeSame(map),
         mode' \in {"running", "listing", "listed"},
         iter' \in TreeIters,
         listed' \in TreeListings,
         TreeIterates(map)', Idle'
  PROVE  TreeInv(map)'
<1>1. TreeTypeOK'
  BY DEF TreeInv, TreeTypeOK, TreeSame, IsLinks
<1> QED BY <1>1 DEF TreeInv, TreeSame

LEMMA TreeShape ==
  ASSUME NEW map \in BOOLEAN, TreeInv(map), NEW s, s = Tree(map)!counted,
         NEW c, c = Tree(map)!contents
  PROVE  /\ IsCounted(s, node_count, order, half)
         /\ IsContents(map, s, node_count, c)
         /\ node_count \in Nat
         /\ iter \in TreeIters
         /\ listed \in TreeListings
         /\ Len(listed) \in Nat
<1>1. IsCounted(s, node_count, order, half)
  BY TreeCounted DEF TreeInv
<1>2. node_count \in Nat BY <1>1 DEF IsCounted
<1>3. IsContents(map, s, node_count, c) BY <1>2, TreeContents
<1>4. /\ iter \in TreeIters
      /\ listed \in TreeListings
  BY DEF TreeInv, TreeTypeOK
<1>5. Len(listed) \in Nat BY <1>4, LenProperties
<1> QED BY <1>1, <1>2, <1>3, <1>4, <1>5

LEMMA TreeChildren ==
  ASSUME NEW map \in BOOLEAN, TreeInv(map), Tree(map)!Children
  PROVE  TreeInv(map)'
<1>1. TreeSame(map)
  BY TreeStays DEF Tree!Children
<1>2. PICK s : s = Tree(map)!counted OBVIOUS
<1>3. /\ mode = "running" /\ mode' = "listing" /\ listed' = listed
      /\ iter' = [Tree(map)!NoIter EXCEPT !.node = left[Header]]
  BY DEF Tree!Children
<1>4. listed = <<>> BY <1>3 DEF TreeInv, Idle
<1>5. left[Header] = IF Len(order) = 0 THEN Header ELSE order[1]
  <2>1. PICK T, at, lo, hi : IsRow(order, left, right, parent, T, at, lo, hi)
    BY DEF TreeInv, TreeAt
  <2> QED BY <2>1 DEF IsRow, IsEnds
<1>6. IsCounted(s, node_count, order, half) /\ node_count \in Nat
  BY <1>2, TreeShape
<1>7. 0 < node_count => left[Header] = s[1] BY <1>5, <1>6 DEF IsCounted
<1>8. left[Header] \in TreeNodes \union {Header, Null}
  BY TreeSpace DEF IsLinks
<1>9. iter' = [node |-> left[Header], count |-> 0, pair |-> Null, number |-> 0]
  BY <1>3 DEF Tree!NoIter
<1>10. iter' \in TreeIters BY <1>8, <1>9
<1>11. TreeAfter(map, s, 0)'
  BY <1>1, <1>3, <1>4, <1>7, <1>9 DEF TreeAfter, TreeSame
<1>12. TreeIterates(map)'
  <2>1. 0 \in 0 .. node_count' BY <1>1, <1>6 DEF TreeSame
  <2>2. s = Tree(map)!counted' BY <1>1, <1>2 DEF TreeSame
  <2>3. \A i \in 1 .. Len(listed') : FALSE BY <1>3, <1>4
  <2> QED BY <1>3, <1>11, <2>1, <2>2, <2>3 DEF TreeIterates
<1>13. listed' \in TreeListings BY <1>3, TreeShape
<1> QED BY <1>1, <1>3, <1>10, <1>12, <1>13, TreeKeeps DEF Idle

\* What a step of a listing shows is the next of the elements.
TreeEmits(map, s, c, e) ==
  /\ mode = "listing" /\ mode' = mode
  /\ Len(listed) < Len(c)
  /\ e = <<Len(listed), c[Len(listed) + 1]>>
  /\ e \in Nat \X ({"first", "second"} \X AnyTreeNode)
  /\ listed' = Append(listed, e)

LEMMA TreeEmitted ==
  ASSUME NEW map \in BOOLEAN, TreeInv(map), TreeSame(map),
         NEW s, s = Tree(map)!counted, NEW c, c = Tree(map)!contents,
         NEW e, TreeEmits(map, s, c, e), NEW q \in 0 .. node_count,
         iter' \in TreeIters,
         TreeAfter(map, s, q)'
  PROVE  TreeInv(map)'
<1>1. PICK S : S = Nat \X ({"first", "second"} \X AnyTreeNode) OBVIOUS
<1>2. /\ mode = "listing" /\ mode' = mode /\ Len(listed) < Len(c)
      /\ e = <<Len(listed), c[Len(listed) + 1]>> /\ e \in S
      /\ listed' = Append(listed, e)
  BY <1>1 DEF TreeEmits
<1>3. /\ IsContents(map, s, node_count, c) /\ node_count \in Nat
      /\ listed \in Seq(S) /\ Len(listed) \in Nat
  BY <1>1, TreeShape
<1>4. /\ listed' \in Seq(S) /\ Len(listed') = Len(listed) + 1
      /\ \A i \in 1 .. Len(listed) : listed'[i] = listed[i]
      /\ listed'[Len(listed) + 1] = e
  BY <1>2, <1>3, AppendProperties
<1>5. Len(c) = node_count * Halves(map) BY <1>3 DEF IsContents
<1>6. e[2] = c[Len(listed) + 1] BY <1>2
<1>7. \A i \in 1 .. Len(listed) :
         i \in 1 .. node_count * Halves(map) /\ listed[i][2] = c[i]
  BY DEF TreeInv, TreeIterates
<1>8. ASSUME NEW i \in 1 .. Len(listed')
      PROVE  i \in 1 .. node_count * Halves(map) /\ listed'[i][2] = c[i]
  <2>1. CASE i = Len(listed) + 1
    <3>1. PICK m \in Nat : m = Len(listed) /\ m < node_count * Halves(map)
      BY <1>2, <1>3, <1>5
    <3>2. node_count * Halves(map) \in Nat BY <1>3 DEF Halves
    <3> QED BY <1>4, <1>6, <2>1, <3>1, <3>2
  <2>2. CASE i # Len(listed) + 1
    <3>1. i \in 1 .. Len(listed) BY <1>3, <1>4, <2>2
    <3> QED BY <1>4, <1>7, <3>1
  <2> QED BY <2>1, <2>2
<1>9. TreeIterates(map)'
  <2>1. /\ Tree(map)!counted' = s /\ Tree(map)!contents' = c
        /\ node_count' = node_count
    BY DEF TreeSame
  <2>2. q \in 0 .. node_count' BY <2>1
  <2>3. \A i \in 1 .. Len(listed') :
           i \in 1 .. node_count' * Halves(map) /\ listed'[i][2] = c[i]
    BY <1>8, <2>1
  <2>4. mode' = "listing" BY <1>2
  <2> QED BY <2>1, <2>2, <2>3, <2>4 DEF TreeIterates
<1>10. listed' \in TreeListings BY <1>1, <1>4
<1> QED BY <1>2, <1>9, <1>10, TreeKeeps DEF Idle

\* The iterator has yielded p nodes.
LEMMA TreeElementIs ==
  ASSUME NEW map \in BOOLEAN, TreeInv(map), mode = "listing",
         NEW s, s = Tree(map)!counted
  PROVE  \E p \in 0 .. node_count : TreeAfter(map, s, p)
BY DEF TreeInv, TreeIterates

LEMMA TreeSecondIs ==
  ASSUME NEW map \in BOOLEAN, TreeInv(map), Tree(map)!Second,
         NEW s, s = Tree(map)!counted, NEW c, c = Tree(map)!contents
  PROVE  \E e, p : /\ p \in 0 .. node_count
                   /\ TreeEmits(map, s, c, e)
                   /\ map /\ p >= 1 /\ Len(listed) = 2 * p - 1
                   /\ TreeAfter(map, s, p)
<1>1. /\ mode = "listing" /\ mode' = mode /\ map /\ iter.number % 2 = 1
      /\ listed' = Append(listed, <<iter.number, <<"second", iter.pair>> >>)
  BY DEF Tree!Second, Tree!second
<1>2. PICK p \in 0 .. node_count : TreeAfter(map, s, p) BY <1>1, TreeElementIs
<1>3. /\ IsCounted(s, node_count, order, half) /\ IsContents(map, s, node_count, c)
      /\ node_count \in Nat /\ Len(listed) \in Nat
  BY TreeShape
<1>4. PICK n \in Nat : n = node_count BY <1>3
<1>5. /\ iter.number = Len(listed) /\ (p >= 1 => iter.pair = s[p])
      /\ Len(listed) = 2 * p \/ (p >= 1 /\ Len(listed) = 2 * p - 1)
  BY <1>1, <1>2 DEF TreeAfter
<1>6. p >= 1 /\ Len(listed) = 2 * p - 1
  <2>1. p \in Nat /\ (2 * p) % 2 = 0 BY <1>4
  <2> QED BY <1>1, <1>5, <2>1
<1>7. p \in 1 .. n /\ iter.pair = s[p] /\ s[p] \in AnyTreeNode
  BY <1>3, <1>4, <1>5, <1>6 DEF IsCounted
<1>8. Len(c) = n * 2 /\ c[2 * p] = <<"second", s[p]>>
  BY <1>1, <1>3, <1>4, <1>7 DEF IsContents, Halves
<1>9. PICK e : e = <<Len(listed), c[Len(listed) + 1]>> OBVIOUS
<1>10. Len(listed) + 1 = 2 * p /\ Len(listed) < Len(c)
  BY <1>4, <1>6, <1>7, <1>8
<1>11. e = <<iter.number, <<"second", iter.pair>> >>
  BY <1>5, <1>7, <1>8, <1>9, <1>10
<1>12. e \in Nat \X ({"first", "second"} \X AnyTreeNode)
  BY <1>3, <1>5, <1>7, <1>11
<1>13. TreeEmits(map, s, c, e) BY <1>1, <1>9, <1>10, <1>11, <1>12 DEF TreeEmits
<1> QED BY <1>1, <1>2, <1>6, <1>13

LEMMA TreeSecond ==
  ASSUME NEW map \in BOOLEAN, TreeInv(map), Tree(map)!Second
  PROVE  TreeInv(map)'
<1>1. TreeSame(map)
  BY TreeStays DEF Tree!Second
<1>2. PICK s, c : s = Tree(map)!counted /\ c = Tree(map)!contents OBVIOUS
<1>3. PICK e, p : /\ p \in 0 .. node_count
                  /\ TreeEmits(map, s, c, e)
                  /\ map /\ p >= 1 /\ Len(listed) = 2 * p - 1
                  /\ TreeAfter(map, s, p)
  BY <1>2, TreeSecondIs
<1>4. /\ iter \in TreeIters
      /\ listed \in TreeListings
      /\ Len(listed) \in Nat /\ node_count \in Nat
  BY <1>2, TreeShape
<1>5. iter' = [iter EXCEPT !.number = @ + 1]
  BY DEF Tree!Second
<1>6. /\ iter'.node = iter.node /\ iter'.count = iter.count
      /\ iter'.pair = iter.pair /\ iter'.number = iter.number + 1
      /\ iter' \in TreeIters
  <2>1. PICK m \in Nat : m = iter.number BY <1>4
  <2>2. iter' = [node |-> iter.node, count |-> iter.count, pair |-> iter.pair,
                 number |-> m + 1]
    BY <1>4, <1>5, <2>1
  <2>3. m + 1 \in Nat OBVIOUS
  <2> QED BY <1>4, <2>1, <2>2, <2>3
<1>7. Len(listed') = Len(listed) + 1
  <2>1. PICK S : S = Nat \X ({"first", "second"} \X AnyTreeNode) OBVIOUS
  <2>2. listed \in Seq(S) /\ e \in S /\ listed' = Append(listed, e)
    BY <1>3, <1>4, <2>1 DEF TreeEmits
  <2> QED BY <2>2, AppendProperties
<1>8. TreeAfter(map, s, p)'
  <2>1. Len(listed') = 2 * p BY <1>3, <1>4, <1>7
  <2>2. node_count' = node_count BY <1>1 DEF TreeSame
  <2> QED BY <1>3, <1>6, <1>7, <2>1, <2>2 DEF TreeAfter
<1> QED BY <1>1, <1>2, <1>3, <1>6, <1>8, TreeEmitted

LEMMA TreeElementShown ==
  ASSUME NEW map \in BOOLEAN, TreeInv(map), Tree(map)!Element,
         NEW s, s = Tree(map)!counted, NEW c, c = Tree(map)!contents
  PROVE  \E e, p : /\ p \in 0 .. node_count /\ p < node_count
                   /\ TreeEmits(map, s, c, e)
                   /\ Len(listed) = IF map THEN 2 * p ELSE p
                   /\ TreeAfter(map, s, p)
<1>1. /\ mode = "listing" /\ mode' = mode
      /\ (~map \/ iter.number % 2 = 0)
      /\ iter.count # node_count
      /\ listed' = Append(listed, <<iter.number, <<"first", iter.node>> >>)
  BY DEF Tree!Element, Tree!first, Tree!AtEnd
<1>2. PICK p \in 0 .. node_count : TreeAfter(map, s, p) BY <1>1, TreeElementIs
<1>3. /\ IsCounted(s, node_count, order, half) /\ IsContents(map, s, node_count, c)
      /\ node_count \in Nat /\ Len(listed) \in Nat
  BY TreeShape
<1>4. PICK n \in Nat : n = node_count BY <1>3
<1>5. p < n /\ p + 1 \in 1 .. n /\ p \in Nat BY <1>1, <1>2, <1>4 DEF TreeAfter
<1>6. iter.number = Len(listed) /\ iter.node = s[p + 1]
  BY <1>2, <1>4, <1>5 DEF TreeAfter
<1>7. s[p + 1] \in AnyTreeNode BY <1>3, <1>4, <1>5 DEF IsCounted
<1>8. Len(listed) = IF map THEN 2 * p ELSE p
  <2>1. CASE map
    <3>1. Len(listed) = 2 * p \/ Len(listed) = 2 * p - 1
      BY <1>2, <2>1 DEF TreeAfter
    <3>2. (2 * p - 1) % 2 = 1 BY <1>5
    <3> QED BY <1>1, <1>6, <2>1, <3>1, <3>2
  <2>2. CASE ~map BY <1>2, <2>2 DEF TreeAfter
  <2> QED BY <2>1, <2>2
<1>9. PICK e : e = <<Len(listed), c[Len(listed) + 1]>> OBVIOUS
<1>10. Len(listed) < Len(c) /\ c[Len(listed) + 1] = <<"first", s[p + 1]>>
  <2>1. CASE map
    <3>1. Len(c) = n * 2 /\ c[2 * (p + 1) - 1] = <<"first", s[p + 1]>>
      BY <1>3, <1>4, <1>5, <2>1 DEF IsContents, Halves
    <3>2. 2 * (p + 1) - 1 = Len(listed) + 1 /\ Len(listed) < n * 2
      BY <1>5, <1>8, <2>1
    <3> QED BY <3>1, <3>2
  <2>2. CASE ~map
    <3>1. Len(c) = n /\ c[p + 1] = <<"first", s[p + 1]>>
      BY <1>3, <1>4, <1>5, <2>2 DEF IsContents, Halves
    <3> QED BY <1>5, <1>8, <2>2, <3>1
  <2> QED BY <2>1, <2>2
<1>11. e = <<iter.number, <<"first", iter.node>> >> BY <1>6, <1>9, <1>10
<1>12. e \in Nat \X ({"first", "second"} \X AnyTreeNode)
  BY <1>3, <1>6, <1>7, <1>11
<1>13. TreeEmits(map, s, c, e) BY <1>1, <1>9, <1>10, <1>11, <1>12 DEF TreeEmits
<1> QED BY <1>2, <1>4, <1>5, <1>8, <1>13

LEMMA TreeElement ==
  ASSUME NEW map \in BOOLEAN, TreeInv(map), Tree(map)!Element
  PROVE  TreeInv(map)'
<1>1. TreeSame(map)
  BY TreeStays DEF Tree!Element
<1>2. PICK s, c : s = Tree(map)!counted /\ c = Tree(map)!contents OBVIOUS
<1>3. PICK e, p : /\ p \in 0 .. node_count /\ p < node_count
                  /\ TreeEmits(map, s, c, e)
                  /\ Len(listed) = IF map THEN 2 * p ELSE p
                  /\ TreeAfter(map, s, p)
  BY <1>2, TreeElementShown
<1>4. /\ IsCounted(s, node_count, order, half)
      /\ iter \in TreeIters
      /\ listed \in TreeListings
      /\ Len(listed) \in Nat
  BY <1>2, TreeShape
<1>5. PICK n \in Nat : n = node_count BY <1>4 DEF IsCounted
<1>6. p \in 0 .. n /\ p < n /\ iter.count = p /\ iter.number = Len(listed)
      /\ iter.node = s[p + 1]
  BY <1>3, <1>5 DEF TreeAfter
<1>7. PICK q \in 1 .. n : q = p + 1 BY <1>6
<1>8. PICK next_node : next_node = IF q < n THEN Tree(map)!successor(iter.node)
                                           ELSE iter.node
  OBVIOUS
<1>9. q < n => next_node = s[q + 1]
  <2> SUFFICES ASSUME q < n PROVE Tree(map)!successor(s[q]) = s[q + 1]
    BY <1>6, <1>7, <1>8
  <2>1. PICK N \in Nat : N = Len(order) BY <1>4 DEF IsCounted
  <2>2. q \in 1 .. N /\ s[q] = order[q]
        /\ s[q + 1] = IF q < N THEN order[q + 1] ELSE Header
    <3>1. q \in 1 .. n /\ q + 1 \in 1 .. n /\ n <= N + 1
      BY <1>4, <1>5, <2>1 DEF IsCounted
    <3>2. q <= N BY <3>1
    <3>3. \A i \in 1 .. n : s[i] = IF i <= N THEN order[i] ELSE Header
      BY <1>4, <1>5, <2>1 DEF IsCounted
    <3>4. s[q] = order[q] BY <3>2, <3>3
    <3>5. s[q + 1] = IF q + 1 <= N THEN order[q + 1] ELSE Header BY <3>1, <3>3
    <3> QED BY <3>1, <3>2, <3>4, <3>5
  <2>3. TreeAt(order, left, right, parent)
    BY DEF TreeInv
  <2>4. Tree(map)!successor(order[q]) = IF q < Len(order) THEN order[q + 1] ELSE Header
    BY <2>1, <2>2, <2>3, TreeFollows
  <2> QED BY <2>1, <2>2, <2>4
<1>10. next_node \in TreeNodes \union {Header, Null}
  <2>1. CASE q < n
    <3>1. q + 1 \in 1 .. n BY <2>1
    <3>2. s[q + 1] \in AnyTreeNode BY <1>4, <1>5, <3>1 DEF IsCounted
    <3> QED BY <1>9, <2>1, <3>2
  <2>2. CASE ~(q < n) BY <1>4, <1>8, <2>2
  <2> QED BY <2>1, <2>2
<1>11. iter' = [Tree(map)!Advance(iter) EXCEPT !.pair = iter.node,
                                               !.number = @ + 1]
  BY DEF Tree!Element
<1>12. PICK r : r = Tree(map)!Advance(iter) OBVIOUS
<1>13. r = [iter EXCEPT !.count = q, !.node = next_node]
  <2>1. r = [iter EXCEPT !.count = @ + 1,
                         !.node = IF iter.count + 1 < node_count
                                  THEN Tree(map)!successor(@) ELSE @]
    BY <1>12 DEF Tree!Advance
  <2> QED BY <1>4, <1>5, <1>6, <1>7, <1>8, <2>1
<1>14. /\ iter'.node = next_node /\ iter'.count = q /\ iter'.pair = iter.node
       /\ iter'.number = iter.number + 1
       /\ iter' \in TreeIters
  <2>1. PICK m \in Nat : m = iter.number BY <1>4
  <2>2. r = [node |-> next_node, count |-> q, pair |-> iter.pair, number |-> m]
    BY <1>4, <1>13, <2>1
  <2>3. iter' = [node |-> next_node, count |-> q, pair |-> iter.node,
                 number |-> m + 1]
    <3>1. PICK x : x = iter.node OBVIOUS
    <3>2. iter' = [r EXCEPT !.pair = x, !.number = @ + 1] BY <1>11, <1>12, <3>1
    <3> QED BY <2>2, <3>1, <3>2
  <2>4. m + 1 \in Nat /\ q \in Nat /\ iter.node \in TreeNodes \union {Header, Null}
    BY <1>4
  <2> QED BY <1>10, <2>1, <2>3, <2>4
<1>15. Len(listed') = Len(listed) + 1
  <2>1. PICK S : S = Nat \X ({"first", "second"} \X AnyTreeNode) OBVIOUS
  <2>2. listed \in Seq(S) /\ e \in S /\ listed' = Append(listed, e)
    BY <1>3, <1>4, <2>1 DEF TreeEmits
  <2> QED BY <2>2, AppendProperties
<1>16. TreeAfter(map, s, q)'
  <2>1. node_count' = n BY <1>1, <1>5 DEF TreeSame
  <2>2. IF map THEN Len(listed') = 2 * q - 1 ELSE Len(listed') = q
    BY <1>3, <1>6, <1>7, <1>15
  <2>3. iter'.pair = s[q] /\ iter'.number = Len(listed') /\ q >= 1
    BY <1>6, <1>7, <1>14, <1>15
  <2> QED BY <1>9, <1>14, <2>1, <2>2, <2>3 DEF TreeAfter
<1>17. q \in 0 .. node_count BY <1>5, <1>7
<1> QED BY <1>1, <1>2, <1>3, <1>14, <1>16, <1>17, TreeEmitted

\* A listing ends when all has been shown, or is given up.
LEMMA TreeAll ==
  ASSUME NEW map \in BOOLEAN, TreeInv(map), Tree(map)!StopIteration
  PROVE  Len(listed) = node_count * Halves(map)
<1>1. /\ mode = "listing"
      /\ (~map \/ iter.number % 2 = 0)
      /\ iter.count = node_count
  BY DEF Tree!StopIteration, Tree!AtEnd
<1>2. PICK s : s = Tree(map)!counted OBVIOUS
<1>3. PICK p \in 0 .. node_count : TreeAfter(map, s, p)
  BY <1>1, <1>2, TreeElementIs
<1>4. PICK n \in Nat : n = node_count
  BY TreeShape
<1>5. p = n /\ iter.number = Len(listed) BY <1>1, <1>3, <1>4 DEF TreeAfter
<1>6. CASE map
  <2>1. Len(listed) = 2 * n \/ Len(listed) = 2 * n - 1
    BY <1>3, <1>5, <1>6 DEF TreeAfter
  <2>2. (2 * n - 1) % 2 = 1 /\ 2 * n = n * 2 OBVIOUS
  <2> QED BY <1>1, <1>4, <1>5, <1>6, <2>1, <2>2 DEF Halves
<1>7. CASE ~map
  <2>1. Len(listed) = n BY <1>3, <1>5, <1>7 DEF TreeAfter
  <2> QED BY <1>4, <1>7, <2>1 DEF Halves
<1> QED BY <1>6, <1>7

LEMMA TreeEnds ==
  ASSUME NEW map \in BOOLEAN, TreeInv(map),
         Tree(map)!StopIteration \/ Tree(map)!Continue
  PROVE  TreeInv(map)'
<1>1. TreeSame(map)
  BY TreeStays DEF Tree!StopIteration, Tree!Continue
<1>2. /\ mode' \in {"running", "listed"} /\ iter' = Tree(map)!NoIter
      /\ listed' = listed \/ listed' = <<>>
      /\ mode' = "running" => listed' = <<>>
      /\ mode' = "listed" => Tree(map)!StopIteration /\ listed' = listed
  BY DEF Tree!StopIteration, Tree!Continue
<1>3. PICK S : S = Nat \X ({"first", "second"} \X AnyTreeNode) OBVIOUS
<1>4. listed' \in Seq(S)
  <2>1. listed \in Seq(S) /\ <<>> \in Seq(S) BY <1>3, TreeShape
  <2> QED BY <1>2, <2>1
<1>5. iter' \in TreeIters BY <1>2 DEF Tree!NoIter
<1>6. TreeIterates(map)'
  <2>1. /\ node_count' = node_count
        /\ Tree(map)!contents' = Tree(map)!contents
        /\ Tree(map)!NoIter' = Tree(map)!NoIter
    BY <1>1 DEF TreeSame
  <2>2. mode' # "listing" BY <1>2
  <2>3. mode' = "listed" => Len(listed') = node_count * Halves(map)
    BY <1>2, TreeAll
  <2>4. ASSUME NEW i \in 1 .. Len(listed')
        PROVE  /\ i \in 1 .. node_count * Halves(map)
               /\ listed'[i][2] = Tree(map)!contents[i]
    <3>1. listed' = listed BY <1>2, <2>4
    <3>2. i \in 1 .. Len(listed) BY <3>1
    <3>3. /\ i \in 1 .. node_count * Halves(map)
          /\ listed[i][2] = Tree(map)!contents[i]
      BY <3>2 DEF TreeInv, TreeIterates
    <3> QED BY <3>1, <3>3
  <2> QED BY <1>2, <2>1, <2>2, <2>3, <2>4 DEF TreeIterates
<1>7. Idle' BY <1>2 DEF Idle
<1> QED BY <1>1, <1>2, <1>3, <1>4, <1>5, <1>6, <1>7, TreeKeeps

LEMMA TreeStep ==
  ASSUME NEW map \in BOOLEAN, TreeInv(map), Tree(map)!Next
  PROVE  TreeInv(map)'
<1>1. ASSUME NEW n \in TreeNodes, Tree(map)!InsertRoot(n) PROVE TreeInv(map)'
  BY <1>1, TreeRoot
<1>2. ASSUME NEW n \in TreeNodes, Tree(map)!RotateLeft(n) PROVE TreeInv(map)'
  BY <1>2, TreeRotate
<1>3. ASSUME NEW n \in TreeNodes, NEW k \in DOMAIN order, NEW onLeft \in BOOLEAN,
             Tree(map)!InsertLeaf(n, k, onLeft)
      PROVE  TreeInv(map)'
  BY <1>3, TreeLeaf
<1>4. ASSUME NEW k \in DOMAIN order, Tree(map)!Erase(k) PROVE TreeInv(map)'
  BY <1>4, TreeErase
<1>5. CASE Tree(map)!Count BY <1>5, TreeCount
<1>6. CASE Tree(map)!Children BY <1>6, TreeChildren
<1>7. CASE Tree(map)!Second BY <1>7, TreeSecond
<1>8. CASE Tree(map)!Element BY <1>8, TreeElement
<1>9. CASE Tree(map)!StopIteration \/ Tree(map)!Continue BY <1>9, TreeEnds
<1> QED BY <1>1, <1>2, <1>3, <1>4, <1>5, <1>6, <1>7, <1>8, <1>9 DEF Tree!Next

\* What the printers of a tree show of it.
LEMMA TreeShows ==
  ASSUME NEW map \in BOOLEAN, TreeInv(map)
  PROVE  /\ Tree(map)!TypeOK
         /\ Tree(map)!HeaderOnlyWhenErased
         /\ Tree(map)!AnnouncedIsListed
<1>1. Tree(map)!TypeOK
  <2>1. Tree(map)!Cardinality(TreeNodes) = Cardinality(TreeNodes)
    BY TreeCardinality
  <2>2. AnyTreeNode \union {Null} = TreeNodes \union {Header, Null} OBVIOUS
  <2>3. TreeTypeOK
    BY DEF TreeInv
  <2> QED BY <2>1, <2>2, <2>3 DEF TreeTypeOK, IsLinks, Tree!TypeOK, Tree!Links
<1>2. PICK s, c : s = Tree(map)!counted /\ c = Tree(map)!contents OBVIOUS
<1>3. /\ IsCounted(s, node_count, order, half)
      /\ IsContents(map, s, node_count, c)
      /\ node_count \in Nat /\ Len(listed) \in Nat
      /\ listed \in TreeListings
  BY <1>2, TreeShape
<1>4. /\ \A i, j \in 1 .. node_count : s[i] = s[j] => i = j
      /\ \A i \in 1 .. node_count : s[i] = Header => half = "erased"
  BY <1>3 DEF IsCounted
<1>5. /\ \A i \in 1 .. node_count * Halves(map) : \E j \in 1 .. node_count :
            c[i] = <<"first", s[j]>> \/ c[i] = <<"second", s[j]>>
      /\ \A i, j \in 1 .. node_count * Halves(map) : c[i] = c[j] => i = j
  BY <1>3, <1>4, ContentsDiffer
<1>6. DOMAIN listed = 1 .. Len(listed) BY <1>3, LenProperties
<1>7. \A i \in DOMAIN listed :
         i \in 1 .. node_count * Halves(map) /\ listed[i][2] = c[i]
  BY <1>2, <1>6 DEF TreeInv, TreeIterates
<1>8. ASSUME NEW i \in DOMAIN listed, listed[i][2][2] = Header
      PROVE  half = "erased"
  <2>1. PICK j \in 1 .. node_count :
           c[i] = <<"first", s[j]>> \/ c[i] = <<"second", s[j]>>
    BY <1>5, <1>7
  <2>2. PICK e : e = listed[i][2] /\ e[2] = Header BY <1>8
  <2>3. e = <<"first", s[j]>> \/ e = <<"second", s[j]>> BY <1>7, <2>1, <2>2
  <2>4. s[j] = Header BY <2>2, <2>3
  <2> QED BY <1>4, <2>4
<1>9. Tree(map)!HeaderOnlyWhenErased BY <1>8 DEF Tree!HeaderOnlyWhenErased
<1>10. ASSUME NEW i \in DOMAIN listed, NEW j \in DOMAIN listed,
              listed[i][2] = listed[j][2]
       PROVE  i = j
  BY <1>5, <1>7, <1>10
<1>11. mode = "listed" =>
          Len(listed) = Tree(map)!to_string * (IF map THEN 2 ELSE 1)
  BY DEF TreeInv, TreeIterates, Tree!to_string, Halves
<1>12. Tree(map)!AnnouncedIsListed BY <1>10, <1>11 DEF Tree!AnnouncedIsListed
<1> QED BY <1>1, <1>9, <1>12

LEMMA TreeLists ==
  ASSUME NEW map \in BOOLEAN, TreeInv(map), Tree(map)!Next
  PROVE  Allowed(Tree(map)!contents, Tree(map)!contents', listed, listed')
<1>1. PICK s, c : s = Tree(map)!counted /\ c = Tree(map)!contents OBVIOUS
<1>2. PICK d : d = Tree(map)!contents' OBVIOUS
<1>3. ASSUME UNCHANGED Tree(map)!container PROVE d = c
  BY <1>1, <1>2, <1>3, TreeStays DEF TreeSame
<1>4. ASSUME NEW e, TreeEmits(map, s, c, e), d = c PROVE Emits(c, d, listed, listed')
  BY <1>4 DEF TreeEmits, Emits
<1> SUFFICES Allowed(c, d, listed, listed')
  BY <1>1, <1>2
<1>5. CASE \E n \in TreeNodes : Tree(map)!InsertRoot(n) \/ Tree(map)!RotateLeft(n)
  BY <1>5 DEF Tree!InsertRoot, Tree!RotateLeft, Allowed, Changes
<1>6. CASE \E n \in TreeNodes, k \in DOMAIN order, onLeft \in BOOLEAN :
              Tree(map)!InsertLeaf(n, k, onLeft)
  BY <1>6 DEF Tree!InsertLeaf, Allowed, Changes
<1>7. CASE \E k \in DOMAIN order : Tree(map)!Erase(k)
  BY <1>7 DEF Tree!Erase, Allowed, Changes
<1>8. CASE Tree(map)!Count BY <1>8 DEF Tree!Count, Allowed, Changes
<1>9. CASE Tree(map)!Children BY <1>3, <1>9 DEF Tree!Children, Allowed, Starts
<1>10. CASE Tree(map)!Second
  <2>1. UNCHANGED Tree(map)!container BY <1>10 DEF Tree!Second
  <2>2. \E e : TreeEmits(map, s, c, e) BY <1>1, <1>10, TreeSecondIs
  <2> QED BY <1>3, <1>4, <2>1, <2>2 DEF Allowed
<1>11. CASE Tree(map)!Element
  <2>1. UNCHANGED Tree(map)!container BY <1>11 DEF Tree!Element
  <2>2. \E e : TreeEmits(map, s, c, e) BY <1>1, <1>11, TreeElementShown
  <2> QED BY <1>3, <1>4, <2>1, <2>2 DEF Allowed
<1>12. CASE Tree(map)!StopIteration
  <2>1. /\ mode = "listing" /\ mode' = "listed" /\ listed' = listed
        /\ UNCHANGED Tree(map)!container
    BY <1>12 DEF Tree!StopIteration
  <2>2. Len(listed) = node_count * Halves(map) BY <1>12, TreeAll
  <2>3. Len(c) = node_count * Halves(map) BY <1>1, TreeShape DEF IsContents
  <2> QED BY <1>3, <2>1, <2>2, <2>3 DEF Allowed, Finishes
<1>13. CASE Tree(map)!Continue
  BY <1>3, <1>13 DEF Tree!Continue, Allowed, Resumes
<1> QED
  BY <1>5, <1>6, <1>7, <1>8, <1>9, <1>10, <1>11, <1>12, <1>13 DEF Tree!Next

\* A table and a tree that nothing happens to.
LEMMA HashStutters ==
  ASSUME NEW tr1 \in BOOLEAN, NEW map \in BOOLEAN, HashInv(tr1, map),
         UNCHANGED Table(tr1, map)!vars
  PROVE  /\ HashInv(tr1, map)'
         /\ Table(tr1, map)!contents' = Table(tr1, map)!contents
<1>1. /\ HashSame(tr1, map)
      /\ mode' = mode /\ iter' = iter /\ listed' = listed
  <2>1. UNCHANGED Table(tr1, map)!container
    BY DEF Table!vars, Table!container
  <2> QED BY <2>1, HashStays DEF Table!vars
<1>2. /\ mode \in {"running", "listing", "listed"}
      /\ iter \in HashIters
      /\ listed \in HashListings
  BY HashTyped DEF HashInv, Table!TypeOK
<1>3. Table(tr1, map)!TypeOK' BY <1>1, <1>2, HashKeeps
<1>4. HashIterates(tr1, map)'
  <2>1. PICK s : s = Table(tr1, map)!keys OBVIOUS
  <2>2. Table(tr1, map)!keys' = s BY <1>1, <2>1 DEF HashSame
  <2>3. \A p : HashAfter(tr1, map, s, p) => HashAfter(tr1, map, s, p)'
    BY <1>1 DEF HashAfter, HashAt, HashSame
  <2>4. Table(tr1, map)!NoIter' = Table(tr1, map)!NoIter BY <1>1 DEF HashSame
  <2>5. /\ mode = "listing" => \E p \in 0 .. Len(s) : HashAfter(tr1, map, s, p)
        /\ mode = "listed" => Len(listed) = Len(s) * (IF map THEN 2 ELSE 1)
        /\ mode # "listing" => iter = Table(tr1, map)!NoIter
    BY <2>1 DEF HashInv, HashIterates
  <2>6. mode' = "listing" => \E p \in 0 .. Len(s) : HashAfter(tr1, map, s, p)'
    BY <1>1, <2>3, <2>5
  <2> QED BY <1>1, <2>2, <2>4, <2>5, <2>6 DEF HashIterates
<1>5. Idle' BY <1>1 DEF HashInv, Idle
<1>6. Table(tr1, map)!contents' = Table(tr1, map)!contents
  BY <1>1 DEF HashSame, Table!contents, Table!first, Table!second
<1> QED BY <1>1, <1>3, <1>4, <1>5, <1>6 DEF HashInv, HashSame

LEMMA TreeStutters ==
  ASSUME NEW map \in BOOLEAN, TreeInv(map), UNCHANGED Tree(map)!vars
  PROVE  /\ TreeInv(map)'
         /\ Tree(map)!contents' = Tree(map)!contents
<1>1. TreeSame(map) /\ mode' = mode /\ iter' = iter /\ listed' = listed
  <2>1. UNCHANGED Tree(map)!container
    BY DEF Tree!vars, Tree!container
  <2> QED BY <2>1, TreeStays DEF Tree!vars
<1>2. /\ mode \in {"running", "listing", "listed"}
      /\ iter \in TreeIters
      /\ listed \in TreeListings
  BY DEF TreeInv, TreeTypeOK
<1>3. TreeIterates(map)'
  <2>1. PICK s, c, i : /\ s = Tree(map)!counted /\ c = Tree(map)!contents
                       /\ i = Tree(map)!NoIter
    OBVIOUS
  <2>2. /\ Tree(map)!counted' = s /\ Tree(map)!contents' = c
        /\ Tree(map)!NoIter' = i /\ node_count' = node_count
    BY <1>1, <2>1 DEF TreeSame
  <2>3. \A p : TreeAfter(map, s, p) => TreeAfter(map, s, p)'
    BY <1>1 DEF TreeAfter, TreeSame
  <2>4. /\ mode = "listing" => \E p \in 0 .. node_count : TreeAfter(map, s, p)
        /\ mode = "listed" => Len(listed) = node_count * Halves(map)
        /\ mode # "listing" => iter = i
        /\ \A k \in 1 .. Len(listed) :
              k \in 1 .. node_count * Halves(map) /\ listed[k][2] = c[k]
    BY <2>1 DEF TreeInv, TreeIterates
  <2>5. mode' = "listing" => \E p \in 0 .. node_count' : TreeAfter(map, s, p)'
    BY <1>1, <2>2, <2>3, <2>4
  <2> QED BY <1>1, <2>2, <2>4, <2>5 DEF TreeIterates
<1>4. Idle' BY <1>1 DEF TreeInv, Idle
<1>5. TreeInv(map)' BY <1>1, <1>2, <1>3, <1>4, TreeKeeps
<1> QED BY <1>1, <1>5 DEF TreeSame
-----------------------------------------------------------------------------
(* The registry knows one printer for a template, whatever the namespaces. *)

PrinterOf(t) ==
  IF t \in DOMAIN Lookup!Containers THEN Lookup!Containers[t]
  ELSE IF t \in DOMAIN Lookup!Adaptors THEN Lookup!Adaptors[t]
  ELSE IF t \in DOMAIN Lookup!Shared THEN Lookup!Shared[t]
  ELSE IF t \in DOMAIN Lookup!Experimental THEN Lookup!Experimental[t]
  ELSE IF t \in DOMAIN Lookup!Iterators THEN Lookup!Iterators[t]
  ELSE IF t \in DOMAIN Lookup!TreeIterators THEN Lookup!TreeIterators[t]
  ELSE IF t \in DOMAIN Lookup!Extensions THEN Lookup!Extensions[t]
  ELSE IF t = "tuple" THEN "Tuple"
  ELSE IF t = "basic_string" THEN "String"
  ELSE IF t = "path" THEN "Path"
  ELSE "DebugIterator"

\* The rows that have a template agree about its printer.
AgreesOn(printers) == \A t \in DOMAIN printers : printers[t] = PrinterOf(t)
LocalTo(row, t, spaces) == t \in DOMAIN row.printers => row.namespaces \in spaces

LEMMA TablesAgree ==
  /\ AgreesOn(Lookup!Containers) /\ AgreesOn(Lookup!Adaptors)
  /\ AgreesOn(Lookup!Shared) /\ AgreesOn(Lookup!Experimental)
  /\ AgreesOn(Lookup!Iterators) /\ AgreesOn(Lookup!TreeIterators)
  /\ AgreesOn(Lookup!Extensions)
  /\ AgreesOn(Lookup!Restrict(Lookup!Containers, Lookup!Unordered))
  /\ AgreesOn([tuple |-> "Tuple", basic_string |-> "String"])
  /\ AgreesOn([basic_string |-> "String"]) /\ AgreesOn([path |-> "Path"])
  /\ AgreesOn([_Safe_iterator |-> "DebugIterator"])
<1> USE DEF AgreesOn, PrinterOf, Lookup!Containers, Lookup!Adaptors,
            Lookup!Shared, Lookup!Experimental, Lookup!Iterators,
            Lookup!TreeIterators, Lookup!Extensions
<1>1. AgreesOn(Lookup!Containers) /\ AgreesOn(Lookup!Adaptors) OBVIOUS
<1>2. AgreesOn(Lookup!Shared) /\ AgreesOn(Lookup!Experimental) OBVIOUS
<1>3. AgreesOn(Lookup!Iterators) /\ AgreesOn(Lookup!TreeIterators) OBVIOUS
<1>4. AgreesOn(Lookup!Extensions) OBVIOUS
<1>5. AgreesOn(Lookup!Restrict(Lookup!Containers, Lookup!Unordered))
  BY DEF Lookup!Restrict, Lookup!Unordered
<1>6. /\ AgreesOn([tuple |-> "Tuple", basic_string |-> "String"])
      /\ AgreesOn([basic_string |-> "String"]) /\ AgreesOn([path |-> "Path"])
      /\ AgreesOn([_Safe_iterator |-> "DebugIterator"])
  OBVIOUS
<1> QED BY <1>1, <1>2, <1>3, <1>4, <1>5, <1>6, Zenon

LEMMA OnePrinter ==
  ASSUME NEW type
  PROVE  Lookup!places(type) \subseteq {PrinterOf(type[2])}
<1>1. \A row \in Lookup!build_libstdcxx_dictionary : AgreesOn(row.printers)
  BY TablesAgree DEF Lookup!build_libstdcxx_dictionary
<1> QED BY <1>1 DEF Lookup!places, AgreesOn

\* Every form of a name has a printer, but for the list of the new ABI and
\* array.
Lists11 == {<<"std", "__cxx11">>, <<"std", "__7", "__cxx11">>} \X {"list"}

LEMMA Known ==
  ASSUME NEW type \in Types, type \notin Lists11,
         type # <<<<"std">>, "array">>
  PROVE  Lookup!places(type) # {}
<1> DEFINE dictionary == Lookup!build_libstdcxx_dictionary
           row(spaces, printers) == [namespaces |-> spaces, printers |-> printers]
<1>1. ASSUME NEW r \in dictionary, type[1] \in r.namespaces,
             type[2] \in DOMAIN r.printers
      PROVE  Lookup!places(type) # {}
  BY <1>1 DEF Lookup!places
<1>2. /\ row(Lookup!add_container(Lookup!std), Lookup!Containers) \in dictionary
      /\ row({<<"std", "__debug">>}, Lookup!Containers) \in dictionary
      /\ row(Lookup!add_version(Lookup!std), Lookup!Adaptors) \in dictionary
      /\ row(Lookup!add_version(Lookup!std),
             [tuple |-> "Tuple", basic_string |-> "String"]) \in dictionary
      /\ row({Lookup!cxx11} \union {<<"std", "__7", "__cxx11">>},
             [basic_string |-> "String"]) \in dictionary
      /\ row(Lookup!add_version(<<"std", "tr1">>), Lookup!Shared) \in dictionary
      /\ row(Lookup!add_version(<<"std", "tr1">>),
             Lookup!Restrict(Lookup!Containers, Lookup!Unordered)) \in dictionary
      /\ row(Lookup!add_version(Lookup!fundamentals), Lookup!Experimental)
           \in dictionary
  BY DEF Lookup!build_libstdcxx_dictionary, Lookup!add
<1>3. /\ Lookup!add_version(Lookup!std) = {<<"std">>, <<"std", "__7">>}
      /\ Lookup!add_container(Lookup!std) \union {<<"std", "__debug">>} = Modes
      /\ Lookup!add_version(<<"std", "tr1">>)
           = {<<"std", "tr1">>, <<"std", "tr1", "__7">>}
      /\ FundamentalsTS \in Lookup!add_version(Lookup!fundamentals)
  BY DEF Lookup!add_version, Lookup!add_container, Lookup!add, Lookup!std,
         Lookup!fundamentals, FundamentalsTS, Modes
<1> HIDE DEF dictionary
<1>4. CASE type \in Modes \X {"vector", "list", "map", "multiset",
                              "unordered_map", "unordered_set", "forward_list",
                              "deque", "bitset"}
  BY <1>1, <1>2, <1>3, <1>4 DEF Lookup!Containers
<1>5. CASE type \in {<<"std">>, <<"std", "__7">>} \X {"tuple", "unique_ptr"}
  BY <1>1, <1>2, <1>3, <1>5 DEF Lookup!Adaptors
<1>6. CASE type \in {<<"std", "tr1">>, <<"std", "tr1", "__7">>}
                      \X {"shared_ptr", "unordered_map", "unordered_set"}
  BY <1>1, <1>2, <1>3, <1>6
     DEF Lookup!Shared, Lookup!Containers, Lookup!Restrict, Lookup!Unordered
<1>7. CASE type \in {<<"std", "__cxx11">>, <<"std", "__7", "__cxx11">>}
                      \X {"basic_string"}
  BY <1>1, <1>2, <1>7 DEF Lookup!cxx11
<1>8. CASE type = <<<<"std">>, "stack">>
  BY <1>1, <1>2, <1>3, <1>8 DEF Lookup!Adaptors
<1>9. CASE type \in {<<FundamentalsTS, "any">>, <<FundamentalsTS, "optional">>}
  BY <1>1, <1>2, <1>3, <1>9 DEF Lookup!Experimental
<1> QED BY <1>4, <1>5, <1>6, <1>7, <1>8, <1>9 DEF Types, Names, Lists11

LEMMA Unknown ==
  /\ \A type \in Lists11 : Lookup!places(type) = {}
  /\ \A t \in {"any", "optional"} : Lookup!places(<<<<"std">>, t>>) = {}
<1>1. ASSUME NEW row \in Lookup!build_libstdcxx_dictionary
      PROVE  /\ "list" \in DOMAIN row.printers =>
                   /\ <<"std", "__cxx11">> \notin row.namespaces
                   /\ <<"std", "__7", "__cxx11">> \notin row.namespaces
             /\ \A t \in {"any", "optional"} :
                   t \in DOMAIN row.printers => <<"std">> \notin row.namespaces
  BY DEF Lookup!build_libstdcxx_dictionary, Lookup!add, Lookup!add_version,
         Lookup!add_container, Lookup!std, Lookup!cxx11, Lookup!fundamentals,
         Lookup!filesystem, Lookup!Containers, Lookup!Adaptors, Lookup!Shared,
         Lookup!Experimental, Lookup!Iterators, Lookup!TreeIterators,
         Lookup!Extensions, Lookup!Restrict, Lookup!Unordered
<1> QED BY <1>1 DEF Lookup!places, Lists11

LEMMA LookupCardinality == \A S : Lookup!Cardinality(S) = Cardinality(S)
BY DEF Lookup!Cardinality, Cardinality

LEMMA FormsAreKnown ==
  ASSUME NEW type \in Types
  PROVE  LET plain == <<Lookup!std, type[2]>>
         IN  /\ Lookup!Cardinality(Lookup!places(type)) <= 1
             /\ Lookup!places(plain) # {} /\ type \notin disabled =>
                  Lookup!called(type) = IF /\ type[2] = "list"
                                           /\ "__cxx11" \in Lookup!Range(type[1])
                                        THEN "none" ELSE Lookup!lookup(plain)
             /\ Lookup!match(type) # {} =>
                  /\ type[2] # "array" => Lookup!places(type) # {}
                  /\ type[2] \in Lookup!Ordered \union Lookup!Unordered =>
                       Lookup!node_count(type[2]) = Lookup!hashtable(type)
<1> DEFINE plain == <<Lookup!std, type[2]>>
<1>1. Lookup!Cardinality(Lookup!places(type)) <= 1
  <2>1. CASE Lookup!places(type) = {} BY <2>1, LookupCardinality, FS_EmptySet
  <2>2. CASE Lookup!places(type) # {}
    <3>1. Lookup!places(type) = {PrinterOf(type[2])} BY <2>2, OnePrinter
    <3>2. Cardinality({PrinterOf(type[2])}) = 1
      BY FS_Singleton, Zenon
    <3> QED BY <3>1, <3>2, LookupCardinality
  <2> QED BY <2>1, <2>2
<1>2. type = <<type[1], type[2]>>
  BY DEF Types, Names
<1>3. ASSUME Lookup!places(plain) # {}, type \notin Lists11
      PROVE  Lookup!places(type) # {}
  <2>1. type # <<<<"std">>, "array">> => Lookup!places(type) # {}
    BY <1>3, Known
  <2> QED BY <1>3, <2>1 DEF Lookup!std
<1>4. \A t : Lookup!places(t) # {} => Lookup!lookup(t) = PrinterOf(t[2])
  BY OnePrinter DEF Lookup!lookup
<1>5. ASSUME Lookup!places(plain) # {}, type \notin disabled
      PROVE  Lookup!called(type) = IF /\ type[2] = "list"
                                      /\ "__cxx11" \in Lookup!Range(type[1])
                                   THEN "none" ELSE Lookup!lookup(plain)
  <2>1. type \in Lists11 <=> type[2] = "list" /\ "__cxx11" \in Lookup!Range(type[1])
    BY <1>2 DEF Types, Names, Modes, Lists11, FundamentalsTS, Lookup!Range
  <2>2. CASE type \in Lists11 BY <2>1, <2>2, Unknown DEF Lookup!called
  <2>3. CASE type \notin Lists11
    BY <1>3, <1>4, <1>5, <2>1, <2>3 DEF Lookup!called
  <2> QED BY <2>2, <2>3
<1>6. ASSUME Lookup!match(type) # {}
      PROVE  /\ type[1] = <<"std">>
             /\ type[2] # "array" => Lookup!places(type) # {}
  <2>1. type[1] = <<"std">> BY <1>6 DEF Lookup!match, Lookup!std
  <2>2. type \notin Lists11 BY <2>1 DEF Lists11
  <2> QED BY <2>1, <2>2, Known
<1>7. ASSUME type[1] = <<"std">>
      PROVE  type[2] \in Lookup!Ordered \union Lookup!Unordered =>
               Lookup!node_count(type[2]) = Lookup!hashtable(type)
  <2>1. "tr1" \notin Lookup!Range(type[1]) BY <1>7 DEF Lookup!Range
  <2> QED BY <2>1 DEF Lookup!node_count, Lookup!hashtable
<1> QED BY <1>1, <1>5, <1>6, <1>7

LEMMA Widths == /\ TRUE \in BOOLEAN /\ FALSE \in BOOLEAN
                /\ 64 \in Nat \ {0} /\ 3 \in Nat \ {0}
                /\ 4 \in Nat /\ 2 \in Nat
OBVIOUS

Kinds == {"deque", "vector", "vector<bool>", "list", "forward_list",
          "tr1::unordered_map", "unordered_set", "map", "set", "tuple",
          "shared_ptr", "dispatch"}

\* The inductive invariant of the behaviours of all kinds.
AnyInv ==
  /\ which \in Kinds
  /\ which = "deque" => DequeInv
  /\ which = "vector" => VectorInv(FALSE, 64, Values, 4)
  /\ which = "vector<bool>" => VectorInv(TRUE, 3, {0, 1}, 2)
  /\ which = "list" => NodesInv(TRUE)
  /\ which = "forward_list" => NodesInv(FALSE)
  /\ which = "tr1::unordered_map" => HashInv(TRUE, TRUE)
  /\ which = "unordered_set" => HashInv(FALSE, FALSE)
  /\ which = "map" => TreeInv(TRUE)
  /\ which = "set" => TreeInv(FALSE)
  /\ which = "shared_ptr" => PointerInv
  /\ which = "tuple" => TupleInv
  /\ which = "dispatch" => LookupInv
  /\ which \in {"shared_ptr", "dispatch"} => mode = "running" /\ listed = <<>>

LEMMA AnyBegins ==
  ASSUME AnyInit
  PROVE  AnyInv
<1>1. /\ which \in Kinds
      /\ which \in {"shared_ptr", "dispatch"} => mode = "running" /\ listed = <<>>
  BY DEF AnyInit, Kinds
<1>2. /\ which = "deque" => Init
      /\ which = "vector" => Vec(FALSE, 64, Values, 4)!Init
      /\ which = "vector<bool>" => Vec(TRUE, 3, {0, 1}, 2)!Init
      /\ which = "list" => Linked(TRUE)!Init
      /\ which = "forward_list" => Linked(FALSE)!Init
      /\ which = "tr1::unordered_map" => Table(TRUE, TRUE)!Init
      /\ which = "unordered_set" => Table(FALSE, FALSE)!Init
      /\ which = "map" => Tree(TRUE)!Init
      /\ which = "set" => Tree(FALSE)!Init
      /\ which = "tuple" => Tower!Init
      /\ which = "shared_ptr" => Pointer!Init
      /\ which = "dispatch" => Lookup!Init
  BY DEF AnyInit
<1>3. which = "deque" => DequeInv BY <1>2, DequeInit, Widths, Zenon
<1>4. which = "vector" => VectorInv(FALSE, 64, Values, 4)
  BY <1>2, VectorInit, Widths, Zenon
<1>5. which = "vector<bool>" => VectorInv(TRUE, 3, {0, 1}, 2)
  BY <1>2, VectorInit, Widths, Zenon
<1>6. which = "list" => NodesInv(TRUE) BY <1>2, NodesInit, Widths, Zenon
<1>7. which = "forward_list" => NodesInv(FALSE)
  BY <1>2, NodesInit, Widths, Zenon
<1>8. which = "tr1::unordered_map" => HashInv(TRUE, TRUE)
  BY <1>2, HashInit, Widths, Zenon
<1>9. which = "unordered_set" => HashInv(FALSE, FALSE)
  BY <1>2, HashInit, Widths, Zenon
<1>10. which = "map" => TreeInv(TRUE) BY <1>2, TreeInit, Widths, Zenon
<1>11. which = "set" => TreeInv(FALSE) BY <1>2, TreeInit, Widths, Zenon
<1>12. which = "tuple" => TupleInv BY <1>2, TupleInit, Widths, Zenon
<1>13. which = "shared_ptr" => PointerInv BY <1>2, PointerInit, Widths, Zenon
<1>14. which = "dispatch" => LookupInv BY <1>2, LookupInit, Widths, Zenon
<1> QED
  BY <1>1, <1>3, <1>4, <1>5, <1>6, <1>7, <1>8, <1>9, <1>10, <1>11, <1>12, <1>13, <1>14
     DEF AnyInv

\* A step of an object is one of its kind.
LEMMA AnyMoves ==
  ASSUME AnyNext
  PROVE  /\ which' = which
         /\ which = "deque" => Next
         /\ which = "vector" => Vec(FALSE, 64, Values, 4)!Next
         /\ which = "vector<bool>" => Vec(TRUE, 3, {0, 1}, 2)!Next
         /\ which = "list" => Linked(TRUE)!Next
         /\ which = "forward_list" => Linked(FALSE)!Next
         /\ which = "tr1::unordered_map" => Table(TRUE, TRUE)!Next
         /\ which = "unordered_set" => Table(FALSE, FALSE)!Next
         /\ which = "map" => Tree(TRUE)!Next
         /\ which = "set" => Tree(FALSE)!Next
         /\ which = "tuple" => Tower!Next
         /\ which = "shared_ptr" => Pointer!Next
         /\ which = "dispatch" => Lookup!Next
         /\ which \in {"shared_ptr", "dispatch"} => mode' = mode /\ listed' = listed
<1>1. which' = which /\ ChosenNext
  BY DEF AnyNext
<1> QED BY <1>1 DEF ChosenNext, stops

LEMMA AnySteps ==
  ASSUME AnyInv, AnyNext
  PROVE  AnyInv'
<1>1. /\ which' = which /\ which \in Kinds
      /\ which \in {"shared_ptr", "dispatch"} => mode' = "running" /\ listed' = <<>>
  BY AnyMoves DEF AnyInv
<1>2. which = "deque" => DequeInv'
  BY AnyMoves, DequeStep, Widths, Zenon DEF AnyInv
<1>3. which = "vector" => VectorInv(FALSE, 64, Values, 4)'
  BY AnyMoves, VectorStep, Widths, Zenon DEF AnyInv
<1>4. which = "vector<bool>" => VectorInv(TRUE, 3, {0, 1}, 2)'
  BY AnyMoves, VectorStep, Widths, Zenon DEF AnyInv
<1>5. which = "list" => NodesInv(TRUE)'
  BY AnyMoves, NodesStep, Widths, Zenon DEF AnyInv
<1>6. which = "forward_list" => NodesInv(FALSE)'
  BY AnyMoves, NodesStep, Widths, Zenon DEF AnyInv
<1>7. which = "tr1::unordered_map" => HashInv(TRUE, TRUE)'
  BY AnyMoves, HashStep, Widths, Zenon DEF AnyInv
<1>8. which = "unordered_set" => HashInv(FALSE, FALSE)'
  BY AnyMoves, HashStep, Widths, Zenon DEF AnyInv
<1>9. which = "map" => TreeInv(TRUE)'
  BY AnyMoves, TreeStep, Widths, Zenon DEF AnyInv
<1>10. which = "set" => TreeInv(FALSE)'
  BY AnyMoves, TreeStep, Widths, Zenon DEF AnyInv
<1>11. which = "tuple" => TupleInv'
  BY AnyMoves, TupleStep, Widths, Zenon DEF AnyInv
<1>12. which = "shared_ptr" => PointerInv'
  BY AnyMoves, PointerStep, Widths, Zenon DEF AnyInv
<1>13. which = "dispatch" => LookupInv'
  BY AnyMoves, LookupStep, Widths, Zenon DEF AnyInv
<1> QED
  BY <1>1, <1>2, <1>3, <1>4, <1>5, <1>6, <1>7, <1>8, <1>9, <1>10, <1>11, <1>12, <1>13
     DEF AnyInv

LEMMA AnyStutters ==
  ASSUME AnyInv, UNCHANGED everything
  PROVE  AnyInv'
<1>1. which' = which
  BY DEF everything
<1>2. mode' = mode /\ iter' = iter /\ listed' = listed
  BY DEF everything, stops
<1>3. finish' = finish /\ cells' = cells /\ contents' = contents
  BY DEF everything, blocks
<1>4. ASSUME DequeInv PROVE DequeInv'
  <2>1. start' = start
    BY DEF everything, dequeOnly
  <2> QED
    BY <1>2, <1>3, <1>4, <2>1
       DEF DequeInv, TypeOK, DequeRow, DequeFirst, DequeLast, DequeIterates,
           Idle, Cur
<1>5. ASSUME NEW bv, NEW sz, NEW vs, NEW mx, VectorInv(bv, sz, vs, mx)
      PROVE  VectorInv(bv, sz, vs, mx)'
  <2>1. storage' = storage
    BY DEF everything, vecOnly
  <2> QED
    BY <1>2, <1>3, <1>5, <2>1
       DEF VectorInv, Vec!TypeOK, Vec!Slots, Vec!Width, VectorRow,
           VectorIterates, Idle
<1>6. ASSUME NEW ring, NodesInv(ring) PROVE NodesInv(ring)'
  <2>1. /\ next' = next /\ prev' = prev /\ data' = data
        /\ order' = order /\ half' = half
    BY DEF everything, chained, nodesOnly
  <2> QED
    BY <1>2, <1>6, <2>1
       DEF NodesInv, Linked!TypeOK, Linked!Links, Linked!Done, Linked!End,
           NodesRow, Leads, BackLeads, NodesIterates, Node, After, Idle
<1>7. ASSUME PointerInv PROVE PointerInv'
  <2>1. kind' = kind /\ block' = block /\ use' = use /\ weak' = weak
    BY DEF everything, ptrOnly
  <2> QED
    BY <1>7, <2>1
       DEF PointerInv, Pointer!IInv, Pointer!TypeOK, Pointer!CountersCount,
           Pointer!Owners, Pointer!Observers, Pointer!Leaving, Pointer!Of
<1>8. ASSUME TupleInv PROVE TupleInv'
  <2>1. gcc' = gcc /\ derived' = derived /\ head' = head /\ count' = count
    BY DEF everything, tupleOnly
  <2> QED
    BY <1>2, <1>3, <1>8, <2>1
       DEF TupleInv, Tower!TypeOK, TupleIterates, TupleLevel, Tower!Level,
           Tower!Top, Tower!None, Idle
<1>9. ASSUME LookupInv PROVE LookupInv'
  <2>1. /\ value' = value /\ disabled' = disabled
        /\ disabledMethods' = disabledMethods
    BY DEF everything, valueOnly
  <2> QED BY <1>9, <2>1 DEF LookupInv, Lookup!TypeOK, Layered
<1>10. ASSUME NEW tr1 \in BOOLEAN, NEW map \in BOOLEAN, HashInv(tr1, map)
       PROVE  HashInv(tr1, map)'
  <2>1. UNCHANGED Table(tr1, map)!vars
    BY <1>2 DEF Table!vars, everything, hashOnly
  <2> QED BY <1>10, <2>1, HashStutters
<1>11. ASSUME NEW map \in BOOLEAN, TreeInv(map) PROVE TreeInv(map)'
  <2>1. UNCHANGED Tree(map)!vars
    BY <1>2 DEF Tree!vars, everything, treeOnly, chained
  <2> QED BY <1>11, <2>1, TreeStutters
<1>12. /\ which' = "tr1::unordered_map" => HashInv(TRUE, TRUE)'
       /\ which' = "unordered_set" => HashInv(FALSE, FALSE)'
       /\ which' = "map" => TreeInv(TRUE)'
       /\ which' = "set" => TreeInv(FALSE)'
  BY <1>1, <1>10, <1>11, Widths DEF AnyInv
<1> QED BY <1>1, <1>2, <1>4, <1>5, <1>6, <1>7, <1>8, <1>9, <1>12 DEF AnyInv

\* An object of each kind, in whatever state the program is stopped, is as
\* the library and the iterators of the printers keep it.
THEOREM AnyInductive == AnySpec => []AnyInv
<1>1. AnyInv /\ [AnyNext]_everything => AnyInv'
  BY AnySteps, AnyStutters
<1> QED BY AnyBegins, <1>1, PTL DEF AnySpec

\* The xmethods return what the object contains, at every stop, whatever the
\* program has done before: size, empty, front, back, at and operator[] of
\* deque, vector, vector<bool>, list and forward_list, except back() of a list
\* that is half linked, and size() and the indices of a deque whose first
\* element is not the first of its node (xmethods.py:170-226, 285-369, 399-481).
THEOREM XMethodsAgree == AnySpec => []MethodsAgree
<1>1. ASSUME AnyInv PROVE MethodsAgree
  <2>1. which = "deque" => EndsAgree /\ CountsFromStart
    BY <1>1, DequeShows DEF AnyInv
  <2>2. which = "vector" => Vec(FALSE, 64, Values, 4)!WorkersAgree
    <3> SUFFICES ASSUME which = "vector" PROVE Vec(FALSE, 64, Values, 4)!WorkersAgree
      OBVIOUS
    <3>1. VectorInv(FALSE, 64, Values, 4) BY <1>1 DEF AnyInv
    <3> QED BY <3>1, VectorShows, Widths, Zenon
  <2>3. which = "vector<bool>" => Vec(TRUE, 3, {0, 1}, 2)!WorkersAgree
    <3> SUFFICES ASSUME which = "vector<bool>" PROVE Vec(TRUE, 3, {0, 1}, 2)!WorkersAgree
      OBVIOUS
    <3>1. VectorInv(TRUE, 3, {0, 1}, 2) BY <1>1 DEF AnyInv
    <3> QED BY <3>1, VectorShows, Widths, Zenon
  <2>4. which = "list" => Linked(TRUE)!WorkersAgree /\ Linked(TRUE)!BackUnlessHalf
    BY <1>1, NodesShow DEF AnyInv
  <2>5. which = "forward_list" => Linked(FALSE)!WorkersAgree
    BY <1>1, NodesShow DEF AnyInv
  <2> QED BY <2>1, <2>2, <2>3, <2>4, <2>5, Zenon DEF MethodsAgree
<1> QED BY AnyInductive, <1>1, PTL

\* A stack, a queue, an any or an optional shows what it contains through any
\* number of layers of whatever types, whatever printers the user has switched
\* off, but for the cases that RaisesOnly names (printers.py:384-401, 861-967).
THEOREM NestedShow ==
  ASSUME Len(value) \in Nat, DOMAIN value = 1 .. Len(value)
  PROVE  NestedShown
BY ShownOnly, HintsFit DEF NestedShown

\* In every state, that is, of a value of the run that the user prints again and
\* again.
THEOREM NestedAreShown == AnySpec => []NestedShown
<1>1. ASSUME AnyInv PROVE NestedShown
  <2> SUFFICES ASSUME which = "dispatch"
               PROVE  NestedShown
    BY DEF NestedShown
  <2>1. PICK S : value \in Seq(S) BY <1>1 DEF AnyInv, LookupInv, Layered
  <2>2. Len(value) \in Nat /\ DOMAIN value = 1 .. Len(value) BY <2>1
  <2> QED BY <2>2, NestedShow
<1> QED BY AnyInductive, <1>1, PTL

\* Every form of the name of a class that Names lists, but for the list of the
\* new ABI, which has none, gets the printer of the plain form, and its xmethods,
\* if it has any, read what that printer reads (printers.py:1066-1117,
\* xmethods.py:535-554).
THEOREM FormsAreShown == AnySpec => []FormsAgree
<1>1. ASSUME AnyInv PROVE FormsAgree
  <2> SUFFICES ASSUME which = "dispatch"
               PROVE  Lookup!FormsShown /\ Lookup!MethodsFit
    BY DEF FormsAgree
  <2>1. PICK S : value \in Seq(S) /\ \A x \in S : IsLayer(x)
    BY <1>1 DEF AnyInv, LookupInv, Layered
  <2>2. \A i \in DOMAIN value : value[i].type \in Types
    <3>1. \A i \in DOMAIN value : value[i] \in S BY <2>1
    <3> QED BY <2>1, <3>1 DEF IsLayer
  <2> QED BY <2>2, FormsAreKnown DEF Lookup!FormsShown, Lookup!MethodsFit
<1> QED BY AnyInductive, <1>1, PTL

LEMMA VectorWidths ==
  /\ VectorInv(FALSE, 64, Values, 4) =>
        /\ Vec(FALSE, 64, Values, 4)!LengthAgrees
        /\ Vec(FALSE, 64, Values, 4)!WorkersAgree
  /\ VectorInv(TRUE, 3, {0, 1}, 2) =>
        /\ Vec(TRUE, 3, {0, 1}, 2)!LengthAgrees
        /\ Vec(TRUE, 3, {0, 1}, 2)!WorkersAgree
BY VectorShows, Widths, Zenon

LEMMA TablesAndTrees ==
  /\ HashInv(TRUE, TRUE) =>
        /\ Table(TRUE, TRUE)!AnnouncedIsListed
        /\ Table(TRUE, TRUE)!StaysInTable
  /\ HashInv(FALSE, FALSE) => Table(FALSE, FALSE)!AnnouncedIsListed
  /\ TreeInv(TRUE) =>
        /\ Tree(TRUE)!TypeOK
        /\ Tree(TRUE)!HeaderOnlyWhenErased
        /\ Tree(TRUE)!AnnouncedIsListed
  /\ TreeInv(FALSE) =>
        /\ Tree(FALSE)!TypeOK
        /\ Tree(FALSE)!HeaderOnlyWhenErased
        /\ Tree(FALSE)!AnnouncedIsListed
BY HashShows, TreeShows, Widths, Zenon

\* Every variable of every kind keeps its type, for any elements, addresses and
\* threads: the iterators stay within the memory of their object and take
\* nothing for an element that is none, the mark behind the last bucket of a tr1
\* table never, the header of a tree only when a node has gone that is still
\* counted (printers.py:133-860).
THEOREM AnyTyped == AnySpec => []AnyTypeOK
<1>1. ASSUME AnyInv PROVE AnyTypeOK
  <2>1. which = "deque" => TypeOK BY <1>1 DEF AnyInv, DequeInv
  <2>2. which = "vector" => Vec(FALSE, 64, Values, 4)!TypeOK
    BY <1>1 DEF AnyInv, VectorInv
  <2>3. which = "vector<bool>" => Vec(TRUE, 3, {0, 1}, 2)!TypeOK
    BY <1>1 DEF AnyInv, VectorInv
  <2>4. which = "list" => Linked(TRUE)!TypeOK BY <1>1 DEF AnyInv, NodesInv
  <2>5. which = "forward_list" => Linked(FALSE)!TypeOK
    BY <1>1 DEF AnyInv, NodesInv
  <2>6. which = "tuple" => Tower!TypeOK BY <1>1 DEF AnyInv, TupleInv
  <2>7. which = "shared_ptr" => Pointer!TypeOK
    BY <1>1 DEF AnyInv, PointerInv, Pointer!IInv
  <2>8. which = "dispatch" => Lookup!TypeOK BY <1>1 DEF AnyInv, LookupInv
  <2>9. which = "tr1::unordered_map" => /\ Table(TRUE, TRUE)!TypeOK
                                        /\ Table(TRUE, TRUE)!StaysInTable
    BY <1>1, TablesAndTrees, Zenon DEF AnyInv, HashInv
  <2>10. which = "unordered_set" => Table(FALSE, FALSE)!TypeOK
    BY <1>1 DEF AnyInv, HashInv
  <2>11. which = "map" => /\ Tree(TRUE)!TypeOK
                          /\ Tree(TRUE)!HeaderOnlyWhenErased
    BY <1>1, TablesAndTrees, Zenon DEF AnyInv
  <2>12. which = "set" => /\ Tree(FALSE)!TypeOK
                          /\ Tree(FALSE)!HeaderOnlyWhenErased
    BY <1>1, TablesAndTrees, Zenon DEF AnyInv
  <2>13. which \in Kinds BY <1>1 DEF AnyInv
  <2>14. which \in {"deque", "vector", "vector<bool>", "list", "forward_list",
                    "tuple"} => AnyTypeOK
    BY <2>1, <2>2, <2>3, <2>4, <2>5, <2>6, Zenon DEF AnyTypeOK
  <2>15. which \in {"shared_ptr", "dispatch", "tr1::unordered_map",
                    "unordered_set", "map", "set"} => AnyTypeOK
    BY <2>7, <2>8, <2>9, <2>10, <2>11, <2>12, Zenon DEF AnyTypeOK
  <2> QED BY <2>13, <2>14, <2>15 DEF Kinds
<1> QED BY AnyInductive, <1>1, PTL

\* What a printer announces is what is then listed, by deques and vectors of any
\* history, by rehashed tables, by trees that are relinked and not yet counted;
\* and the owners and observers of a pointer are those there are, wherever the
\* threads have been stopped (printers.py:110-120, 280-297, 511, 644, 767).
THEOREM Announced == AnySpec => []AnnouncedIsThere
<1>1. ASSUME AnyInv PROVE AnnouncedIsThere
  <2>1. which = "deque" => CountsElements BY <1>1, DequeShows DEF AnyInv
  <2>2. which = "vector" => Vec(FALSE, 64, Values, 4)!LengthAgrees
    BY <1>1, VectorWidths, Zenon DEF AnyInv
  <2>3. which = "vector<bool>" => Vec(TRUE, 3, {0, 1}, 2)!LengthAgrees
    BY <1>1, VectorWidths, Zenon DEF AnyInv
  <2>4. which = "shared_ptr" => /\ Pointer!ShowsOwners
                                /\ Pointer!ShowsObservers
                                /\ Pointer!CountersCount
    BY <1>1, PointerShows DEF AnyInv
  <2>5. which = "tr1::unordered_map" => Table(TRUE, TRUE)!AnnouncedIsListed
    BY <1>1, TablesAndTrees, Zenon DEF AnyInv
  <2>6. which = "unordered_set" => Table(FALSE, FALSE)!AnnouncedIsListed
    BY <1>1, TablesAndTrees, Zenon DEF AnyInv
  <2>7. which = "map" => Tree(TRUE)!AnnouncedIsListed
    BY <1>1, TablesAndTrees, Zenon DEF AnyInv
  <2>8. which = "set" => Tree(FALSE)!AnnouncedIsListed
    BY <1>1, TablesAndTrees, Zenon DEF AnyInv
  <2> QED
    BY <2>1, <2>2, <2>3, <2>4, <2>5, <2>6, <2>7, <2>8, Zenon
       DEF AnnouncedIsThere
<1> QED BY AnyInductive, <1>1, PTL

\* The elements of an object and the numbers of those that are listed.
HeldAt ==
  /\ which \in {"deque", "vector", "vector<bool>", "tuple"} => held = contents
  /\ which = "list" => held = Linked(TRUE)!contents
  /\ which = "forward_list" => held = Linked(FALSE)!contents
  /\ which = "tr1::unordered_map" => held = Table(TRUE, TRUE)!contents
  /\ which = "unordered_set" => held = Table(FALSE, FALSE)!contents
  /\ which = "map" => held = Tree(TRUE)!contents
  /\ which = "set" => held = Tree(FALSE)!contents
  /\ which \in {"shared_ptr", "dispatch"} => held = <<>>
  /\ which = "tuple" => numbered = Renumbered(listed)
  /\ which # "tuple" => numbered = listed

LEMMA HeldIs == HeldAt
<1>1. which \in {"deque", "vector", "vector<bool>", "tuple"} => held = contents
  BY Zenon DEF held
<1>2. which = "list" => held = Linked(TRUE)!contents
  BY Zenon DEF held
<1>3. which = "forward_list" => held = Linked(FALSE)!contents
  BY Zenon DEF held
<1>4. which \in {"shared_ptr", "dispatch"} => held = <<>>
  BY Zenon DEF held
<1>5. /\ which = "tuple" => numbered = Renumbered(listed)
      /\ which # "tuple" => numbered = listed
  BY DEF numbered, Renumbered
<1>6. which = "tr1::unordered_map" => held = Table(TRUE, TRUE)!contents
  BY Zenon DEF held
<1>7. which = "unordered_set" => held = Table(FALSE, FALSE)!contents
  BY Zenon DEF held
<1>8. which = "map" => held = Tree(TRUE)!contents
  BY Zenon DEF held
<1>9. which = "set" => held = Tree(FALSE)!contents
  BY Zenon DEF held
<1> QED BY <1>1, <1>2, <1>3, <1>4, <1>5, <1>6, <1>7, <1>8, <1>9 DEF HeldAt

LEMMA ListsBegins ==
  ASSUME AnyInit
  PROVE  L!Init
<1>1. mode = "running" /\ listed = <<>>
  BY DEF AnyInit, Init, Vec!Init, Linked!Init, Table!Init, Tree!Init, Tower!Init
<1>2. numbered = <<>> BY <1>1 DEF numbered
<1> QED BY <1>1, <1>2 DEF L!Init

LEMMA ListsSteps ==
  ASSUME AnyInv, AnyNext
  PROVE  L!Next
<1>1. HeldAt /\ HeldAt'
  BY HeldIs, PTL
<1>2. which' = which /\ which \in Kinds
  BY AnyMoves DEF AnyInv
<1> SUFFICES Allowed(held, held', numbered, numbered')
  BY AllowedIsNext
<1>3. CASE which = "deque"
  <2>1. Allowed(contents, contents', listed, listed')
    BY <1>3, AnyMoves, DequeLists, Widths, Zenon DEF AnyInv
  <2> QED BY <1>1, <1>2, <1>3, <2>1 DEF HeldAt
<1>4. CASE which = "vector"
  <2>1. Allowed(contents, contents', listed, listed')
    BY <1>4, AnyMoves, VectorLists, Widths, Zenon DEF AnyInv
  <2> QED BY <1>1, <1>2, <1>4, <2>1 DEF HeldAt
<1>5. CASE which = "vector<bool>"
  <2>1. Allowed(contents, contents', listed, listed')
    BY <1>5, AnyMoves, VectorLists, Widths, Zenon DEF AnyInv
  <2> QED BY <1>1, <1>2, <1>5, <2>1 DEF HeldAt
<1>6. CASE which = "list"
  <2>1. Allowed(Linked(TRUE)!contents, Linked(TRUE)!contents',
               listed, listed')
    BY <1>6, AnyMoves, NodesLists, Widths, Zenon DEF AnyInv
  <2> QED BY <1>1, <1>2, <1>6, <2>1 DEF HeldAt
<1>7. CASE which = "forward_list"
  <2>1. Allowed(Linked(FALSE)!contents, Linked(FALSE)!contents',
               listed, listed')
    BY <1>7, AnyMoves, NodesLists, Widths, Zenon DEF AnyInv
  <2> QED BY <1>1, <1>2, <1>7, <2>1 DEF HeldAt
<1>8. CASE which = "tr1::unordered_map"
  <2>1. Allowed(Table(TRUE, TRUE)!contents, Table(TRUE, TRUE)!contents',
               listed, listed')
    BY <1>8, AnyMoves, HashLists, Widths, Zenon DEF AnyInv
  <2> QED BY <1>1, <1>2, <1>8, <2>1 DEF HeldAt
<1>9. CASE which = "unordered_set"
  <2>1. Allowed(Table(FALSE, FALSE)!contents, Table(FALSE, FALSE)!contents',
               listed, listed')
    BY <1>9, AnyMoves, HashLists, Widths, Zenon DEF AnyInv
  <2> QED BY <1>1, <1>2, <1>9, <2>1 DEF HeldAt
<1>10. CASE which = "map"
  <2>1. Allowed(Tree(TRUE)!contents, Tree(TRUE)!contents',
               listed, listed')
    BY <1>10, AnyMoves, TreeLists, Widths, Zenon DEF AnyInv
  <2> QED BY <1>1, <1>2, <1>10, <2>1 DEF HeldAt
<1>11. CASE which = "set"
  <2>1. Allowed(Tree(FALSE)!contents, Tree(FALSE)!contents',
               listed, listed')
    BY <1>11, AnyMoves, TreeLists, Widths, Zenon DEF AnyInv
  <2> QED BY <1>1, <1>2, <1>11, <2>1 DEF HeldAt
<1>12. CASE which = "tuple"
  <2>1. Allowed(contents, contents', numbered, numbered')
    BY <1>1, <1>2, <1>12, AnyMoves, TupleLists DEF AnyInv, HeldAt
  <2> QED BY <1>1, <1>2, <1>12, <2>1 DEF HeldAt
<1>13. CASE which \in {"shared_ptr", "dispatch"}
  BY <1>1, <1>2, <1>13, AnyMoves DEF AnyInv, HeldAt, Allowed, Changes
<1> QED
  BY <1>2, <1>3, <1>4, <1>5, <1>6, <1>7, <1>8, <1>9, <1>10, <1>11, <1>12, <1>13
     DEF Kinds

LEMMA ListsStutters ==
  ASSUME AnyInv, UNCHANGED everything
  PROVE  UNCHANGED L!vars
<1>1. /\ which' = which /\ mode' = mode /\ listed' = listed
      /\ contents' = contents /\ data' = data /\ order' = order
  BY DEF everything, stops, blocks, chained, nodesOnly
<1>2. Linked(TRUE)!contents' = Linked(TRUE)!contents
  BY <1>1 DEF Linked!contents
<1>3. Linked(FALSE)!contents' = Linked(FALSE)!contents
  BY <1>1 DEF Linked!contents
<1>4. ASSUME NEW tr1 \in BOOLEAN, NEW map \in BOOLEAN, HashInv(tr1, map)
      PROVE  Table(tr1, map)!contents' = Table(tr1, map)!contents
  <2>1. UNCHANGED Table(tr1, map)!vars
    BY DEF Table!vars, everything, stops, hashOnly
  <2> QED BY <1>4, <2>1, HashStutters
<1>5. ASSUME NEW map \in BOOLEAN, TreeInv(map)
      PROVE  Tree(map)!contents' = Tree(map)!contents
  <2>1. UNCHANGED Tree(map)!vars
    BY DEF Tree!vars, everything, stops, treeOnly, chained
  <2> QED BY <1>5, <2>1, TreeStutters
<1>6. /\ which = "tr1::unordered_map" =>
            Table(TRUE, TRUE)!contents' = Table(TRUE, TRUE)!contents
      /\ which = "unordered_set" =>
            Table(FALSE, FALSE)!contents' = Table(FALSE, FALSE)!contents
      /\ which = "map" => Tree(TRUE)!contents' = Tree(TRUE)!contents
      /\ which = "set" => Tree(FALSE)!contents' = Tree(FALSE)!contents
  BY <1>4, <1>5, Widths DEF AnyInv
<1>7. numbered' = numbered BY <1>1 DEF numbered
<1>8. HeldAt /\ HeldAt'
  BY HeldIs, PTL
<1>9. which \in Kinds
  BY DEF AnyInv
<1>10. held' = held BY <1>1, <1>2, <1>3, <1>6, <1>8, <1>9 DEF HeldAt, Kinds
<1> QED BY <1>1, <1>7, <1>10 DEF L!vars

\* The printers implement Listing: wherever the program has been stopped, each
\* element is listed once and in order, across the nodes of a deque, the words
\* of a vector<bool>, half made links, empty buckets, a tree of any shape and a
\* tower of either library (printers.py:146-153, 247-268, 331-370, 415-435,
\* 494-505, 616-632, 714-753, 795-818).
THEOREM ListsInOrder == AnySpec => Lists
<1>1. AnyInv /\ [AnyNext]_everything => [L!Next]_L!vars
  BY ListsSteps, ListsStutters
<1> QED BY AnyInductive, ListsBegins, <1>1, PTL DEF AnySpec, Lists, L!Spec
=============================================================================
