---------------------------- MODULE DebconfProofs ----------------------------
(***************************************************************************)
(* Proofs about Debconf, for any bounds and parameters: every value comes  *)
(* back from escape() and unescape as it was; a command takes its own      *)
(* answer, or one that is older by a number that is known; and shutdown()  *)
(* leaves no child behind.                                                 *)
(*                                                                         *)
(* The loops of escape() and unescape are recursive functions.  That the   *)
(* functions exist, and what they compute, is proved by induction over a   *)
(* range of integers (Induction, Descent).                                 *)
(***************************************************************************)
EXTENDS Debconf, TLAPS, SequenceTheorems, WellFoundedInduction

\* The characters of a value that matter.
Chars == {"\\", "n", "newline"}

\* Induction, without an operator for what is proved.
LEMMA Induction ==
  ASSUME NEW m \in Int, NEW n \in Int, NEW T, m \in T,
         \A k \in m .. n - 1 : k \in T => k + 1 \in T
  PROVE  m .. n \subseteq T
<1> DEFINE U == {k \in Nat : m + k \in m .. n /\ m + k \notin T}
<1> SUFFICES ASSUME U # {} PROVE FALSE
  <2>1. ASSUME NEW i \in m .. n, i \notin T PROVE i - m \in U
    BY <2>1
  <2> QED
    BY <2>1
<1> HIDE DEF U
<1>1. U \subseteq Nat
  BY DEF U
<1>2. \E x \in U : \A y \in U : ~(<<y, x>> \in OpToRel(<, Nat))
  BY <1>1, NatLessThanWellFounded, WFMin
<1>3. \A a, b \in Nat : a < b => <<a, b>> \in OpToRel(<, Nat)
  BY DEF OpToRel
<1>4. PICK x \in U : \A y \in U : ~(y < x)
  BY <1>1, <1>2, <1>3, Zenon
<1>5. x \in Nat /\ m + x \in m .. n /\ m + x \notin T
  BY DEF U
<1>6. x # 0
  BY <1>5
<1>7. x - 1 \in Nat /\ x - 1 < x /\ m + (x - 1) \in m .. n - 1
  BY <1>5, <1>6
<1>8. m + (x - 1) \in T
  BY <1>4, <1>7 DEF U
<1>9. m + (x - 1) + 1 = m + x
  BY <1>5
<1> QED
  BY <1>5, <1>7, <1>8, <1>9

\* The same from the last number down.
LEMMA Descent ==
  ASSUME NEW m \in Int, NEW n \in Int, NEW T, n \in T,
         \A k \in m .. n - 1 : k + 1 \in T => k \in T
  PROVE  m .. n \subseteq T
<1> DEFINE U == {k \in m .. n : m + n - k \in T}
<1>1. CASE m > n
  BY <1>1
<1>2. CASE m <= n
  <2>1. m \in U
    BY <1>2
  <2>2. \A k \in m .. n - 1 : k \in U => k + 1 \in U
    <3>1. SUFFICES ASSUME NEW k \in m .. n - 1, k \in U PROVE k + 1 \in U
      OBVIOUS
    <3>2. PICK j \in Int : j = m + n - (k + 1)
      OBVIOUS
    <3>3. j \in m .. n - 1 /\ j + 1 = m + n - k
      BY <3>2
    <3>4. j \in T
      BY <3>1, <3>3
    <3> QED
      BY <3>2, <3>4
  <2> HIDE DEF U
  <2>3. m .. n \subseteq U
    BY <2>1, <2>2, Induction, Zenon
  <2>4. ASSUME NEW k \in m .. n PROVE k \in T
    <3>1. PICK j \in Int : j = m + n - k
      OBVIOUS
    <3>2. j \in m .. n /\ k = m + n - j
      BY <3>1
    <3>3. m + n - j \in T
      BY <2>3, <3>2 DEF U
    <3> QED
      BY <3>2, <3>3
  <2> QED
    BY <2>4
<1> QED
  BY <1>1, <1>2

\* The turn of unescape at i, when those behind it have made g.
Chunk(data, g, i) ==
  IF i > Len(data) THEN <<>>
  ELSE IF data[i] = "\\" /\ i < Len(data)
       THEN <<IF data[i + 1] = "n" THEN "newline" ELSE data[i + 1]>>
                \o g[i + 2]
       ELSE <<data[i]>> \o g[i + 1]

\* unescape(data) is what its turns make of data, from the last to the first.
LEMMA ChunksExist ==
  ASSUME NEW data \in Seq(Chars)
  PROVE  \E g : /\ g = [i \in 1 .. Len(data) + 2 |-> Chunk(data, g, i)]
                /\ unescape(data) = g[1]
<1> DEFINE N == Len(data)
           T == {k \in Nat : \E g :
                   g = [i \in N + 3 - k .. N + 2 |-> Chunk(data, g, i)]}
<1>0. N \in Nat
  BY LenProperties
<1>1. 0 \in T
  <2> DEFINE h == [i \in N + 3 .. N + 2 |-> <<>>]
  <2>1. h = [i \in N + 3 - 0 .. N + 2 |-> Chunk(data, h, i)]
    BY <1>0
  <2> QED
    BY <2>1
<1>2. ASSUME NEW k \in 0 .. (N + 2) - 1, k \in T PROVE k + 1 \in T
  <2> DEFINE lo == N + 3 - k
  <2>1. PICK g : g = [i \in lo .. N + 2 |-> Chunk(data, g, i)]
    BY <1>2
  <2> DEFINE h == [i \in lo - 1 .. N + 2 |->
                     IF i = lo - 1 THEN Chunk(data, g, i) ELSE g[i]]
  <2>2. ASSUME NEW i \in lo - 1 .. N + 2
        PROVE  h[i] = Chunk(data, h, i)
    <3>1. i <= N => h[i + 1] = g[i + 1] /\ h[i + 2] = g[i + 2]
      BY <1>0
    <3>2. Chunk(data, h, i) = Chunk(data, g, i)
      BY <1>0, <3>1 DEF Chunk
    <3> HIDE DEF Chunk
    <3>3. CASE i = lo - 1
      BY <3>2, <3>3
    <3>4. CASE i # lo - 1
      <4>1. h[i] = g[i] /\ i \in lo .. N + 2
        BY <1>0, <3>4
      <4> HIDE DEF h, lo
      <4>2. g[i] = Chunk(data, g, i)
        BY <2>1, <4>1
      <4> QED
        BY <3>2, <4>1, <4>2
    <3> QED
      BY <3>3, <3>4
  <2>3. h = [i \in lo - 1 .. N + 2 |-> Chunk(data, h, i)]
    BY <2>2
  <2>4. lo - 1 = N + 3 - (k + 1)
    BY <1>0
  <2> HIDE DEF h, lo
  <2> QED
    BY <2>3, <2>4
<1> HIDE DEF T
<1>3. N + 2 \in T
  <2>1. \A k \in 0 .. (N + 2) - 1 : k \in T => k + 1 \in T
    BY <1>2
  <2>2. 0 \in Int /\ N + 2 \in Int
    BY <1>0
  <2>3. 0 .. N + 2 \subseteq T
    BY <1>1, <2>1, <2>2, Induction, Zenon
  <2> QED
    BY <1>0, <2>3
<1>4. \E g : g = [i \in 1 .. N + 2 |-> Chunk(data, g, i)]
  BY <1>0, <1>3 DEF T
<1> DEFINE c == CHOOSE g : g = [i \in 1 .. N + 2 |-> Chunk(data, g, i)]
<1>5. c = [i \in 1 .. N + 2 |-> Chunk(data, c, i)]
  BY <1>4
<1>6. unescape(data) = c[1]
  BY DEF unescape, Chunk
<1> QED
  BY <1>5, <1>6

\* The turn of FlattenSeq at i, when those before it have made f.
Joined(seqs, f, i) == IF i = 1 THEN seqs[i] ELSE f[i - 1] \o seqs[i]

\* FlattenSeq(seqs) joins the sequences from the first to the last.
LEMMA FlattenExists ==
  ASSUME NEW S, NEW seqs \in Seq(Seq(S)), seqs # <<>>
  PROVE  \E f : /\ f = [i \in 1 .. Len(seqs) |-> Joined(seqs, f, i)]
                /\ FlattenSeq(seqs) = f[Len(seqs)]
<1> DEFINE N == Len(seqs)
           T == {k \in Nat : \E f : f = [i \in 1 .. k |-> Joined(seqs, f, i)]}
<1>0. N \in Nat \ {0}
  BY EmptySeq
<1>1. 0 \in T
  <2> DEFINE h == [i \in 1 .. 0 |-> <<>>]
  <2>1. h = [i \in 1 .. 0 |-> Joined(seqs, h, i)]
    OBVIOUS
  <2> QED
    BY <2>1
<1>2. ASSUME NEW k \in 0 .. N - 1, k \in T PROVE k + 1 \in T
  <2>1. PICK f : f = [i \in 1 .. k |-> Joined(seqs, f, i)]
    BY <1>2
  <2> DEFINE h == [i \in 1 .. k + 1 |-> Joined(seqs, f, i)]
  <2>5. \A i \in 1 .. k : f[i] = Joined(seqs, f, i)
    BY <2>1, Zenon
  <2>2. \A i \in 1 .. k : h[i] = f[i]
    BY <2>5
  <2>3. ASSUME NEW i \in 1 .. k + 1
        PROVE  h[i] = Joined(seqs, h, i)
    <3>1. i # 1 => h[i - 1] = f[i - 1]
      <4>1. i # 1 => i - 1 \in 1 .. k
        OBVIOUS
      <4> HIDE DEF h
      <4> QED
        BY <2>2, <4>1
    <3>2. Joined(seqs, h, i) = Joined(seqs, f, i)
      BY <3>1 DEF Joined
    <3> QED
      BY <3>2
  <2>4. h = [i \in 1 .. k + 1 |-> Joined(seqs, h, i)]
    BY <2>3
  <2> HIDE DEF h
  <2> QED
    BY <2>4
<1> HIDE DEF T
<1>3. N \in T
  <2>1. \A k \in 0 .. N - 1 : k \in T => k + 1 \in T
    BY <1>2
  <2>2. 0 \in Int /\ N \in Int
    BY <1>0
  <2>3. 0 .. N \subseteq T
    BY <1>1, <2>1, <2>2, Induction, Zenon
  <2> QED
    BY <1>0, <2>3
<1> DEFINE c == CHOOSE f : f = [i \in 1 .. N |-> Joined(seqs, f, i)]
<1>4. c = [i \in 1 .. N |-> Joined(seqs, c, i)]
  BY <1>3 DEF T
<1>5. FlattenSeq(seqs) = c[N]
  <2>1. Len(seqs) # 0
    BY <1>0
  <2> QED
    BY <2>1, Zenon DEF FlattenSeq, Joined
<1> QED
  BY <1>4, <1>5

\* The three forms that escape() gives a character.
LEMMA EscapedChars ==
  ASSUME NEW c \in Chars
  PROVE  /\ Escaped(c) \in Seq(Chars)
         /\ \/ c = "n" /\ Escaped(c) = <<"n">> /\ Len(Escaped(c)) = 1
            \/ /\ c = "\\" /\ Len(Escaped(c)) = 2
               /\ Escaped(c)[1] = "\\" /\ Escaped(c)[2] = "\\"
            \/ /\ c = "newline" /\ Len(Escaped(c)) = 2
               /\ Escaped(c)[1] = "\\" /\ Escaped(c)[2] = "n"
<1>1. CASE c = "\\"
  <2>1. Escaped(c) = <<"\\", "\\">>
    BY <1>1 DEF Escaped
  <2>2. "\\" \in Chars
    BY DEF Chars
  <2>3. /\ <<"\\", "\\">> \in Seq(Chars) /\ Len(<<"\\", "\\">>) = 2
        /\ <<"\\", "\\">>[1] = "\\" /\ <<"\\", "\\">>[2] = "\\"
    BY <2>2
  <2> QED
    BY <1>1, <2>1, <2>3
<1>2. CASE c = "newline"
  <2>1. Escaped(c) = <<"\\", "n">>
    BY <1>2 DEF Escaped
  <2>2. "\\" \in Chars /\ "n" \in Chars
    BY DEF Chars
  <2>3. /\ <<"\\", "n">> \in Seq(Chars) /\ Len(<<"\\", "n">>) = 2
        /\ <<"\\", "n">>[1] = "\\" /\ <<"\\", "n">>[2] = "n"
    BY <2>2
  <2> QED
    BY <1>2, <2>1, <2>3
<1>3. CASE c = "n"
  <2>1. Escaped(c) = <<"n">>
    BY <1>3 DEF Escaped
  <2>2. "n" \in Chars
    BY DEF Chars
  <2>3. <<"n">> \in Seq(Chars) /\ Len(<<"n">>) = 1
    BY <2>2
  <2> QED
    BY <1>3, <2>1, <2>3
<1> QED
  BY <1>1, <1>2, <1>3 DEF Chars

\* escape(v) joins the escaped forms of the characters of v.
LEMMA EscapeJoins ==
  ASSUME NEW v \in Seq(Chars), v # <<>>
  PROVE  \E f :
           /\ escape(v) = f[Len(v)]
           /\ \A i \in 1 .. Len(v) : f[i] \in Seq(Chars)
           /\ f[1] = Escaped(v[1])
           /\ \A i \in 1 .. Len(v) - 1 : f[i + 1] = f[i] \o Escaped(v[i + 1])
<1> DEFINE seqs == [i \in 1 .. Len(v) |-> Escaped(v[i])]
<1>0. /\ Len(v) \in Nat \ {0} /\ DOMAIN v = 1 .. Len(v)
      /\ \A i \in 1 .. Len(v) : v[i] \in Chars
  BY EmptySeq, LenProperties, ElementOfSeq
<1>1. \A i \in 1 .. Len(v) : Escaped(v[i]) \in Seq(Chars)
  BY <1>0, EscapedChars
<1>2. seqs \in Seq(Seq(Chars)) /\ Len(seqs) = Len(v) /\ seqs # <<>>
  BY <1>0, <1>1
<1>3. escape(v) = FlattenSeq(seqs)
  BY <1>0 DEF escape
<1>4. \A i \in 1 .. Len(v) : seqs[i] = Escaped(v[i])
  OBVIOUS
<1> HIDE DEF seqs
<1>5. PICK f : /\ f = [i \in 1 .. Len(seqs) |-> Joined(seqs, f, i)]
               /\ FlattenSeq(seqs) = f[Len(seqs)]
  BY <1>2, FlattenExists
<1>9. \A i \in 1 .. Len(seqs) : f[i] = Joined(seqs, f, i)
  BY <1>5, Zenon
<1>6. f[1] = Escaped(v[1])
  <2>1. f[1] = Joined(seqs, f, 1)
    BY <1>0, <1>2, <1>9
  <2> QED
    BY <1>0, <1>4, <2>1 DEF Joined
<1>7. ASSUME NEW i \in 1 .. Len(v) - 1
      PROVE  f[i + 1] = f[i] \o Escaped(v[i + 1])
  <2>1. PICK j \in Int : j = i + 1
    BY <1>0
  <2>2. j \in 1 .. Len(v) /\ j # 1 /\ j - 1 = i
    BY <1>0, <2>1
  <2>3. f[j] = Joined(seqs, f, j) /\ seqs[j] = Escaped(v[j])
    BY <1>2, <1>4, <1>9, <2>2
  <2>4. Joined(seqs, f, j) = f[j - 1] \o seqs[j]
    BY <2>2, Zenon DEF Joined
  <2>5. f[j] = f[i] \o Escaped(v[j])
    BY <2>2, <2>3, <2>4, Zenon
  <2> QED
    BY <2>1, <2>5, Zenon
<1>8. 1 .. Len(v) \subseteq {i \in 1 .. Len(v) : f[i] \in Seq(Chars)}
  <2> DEFINE T == {i \in 1 .. Len(v) : f[i] \in Seq(Chars)}
  <2>1. 1 \in T
    BY <1>0, <1>1, <1>6
  <2>2. ASSUME NEW k \in 1 .. Len(v) - 1, k \in T PROVE k + 1 \in T
    <3>4. k + 1 \in 1 .. Len(v) /\ k \in 1 .. Len(v)
      BY <1>0
    <3>1. f[k + 1] = f[k] \o Escaped(v[k + 1])
      BY <1>7, Zenon
    <3>2. f[k] \in Seq(Chars) /\ Escaped(v[k + 1]) \in Seq(Chars)
      BY <1>1, <2>2, <3>4
    <3>3. f[k] \o Escaped(v[k + 1]) \in Seq(Chars)
      BY <3>2, ConcatProperties
    <3> QED
      <4>1. f[k + 1] \in Seq(Chars)
        BY <3>1, <3>3, Zenon
      <4> QED
        BY <1>0, <4>1
  <2> HIDE DEF T
  <2>3. \A k \in 1 .. Len(v) - 1 : k \in T => k + 1 \in T
    BY <2>2
  <2>4. 1 \in Int /\ Len(v) \in Int
    BY <1>0
  <2>5. 1 .. Len(v) \subseteq T
    BY <2>1, <2>3, <2>4, Induction, Zenon
  <2> QED
    BY <2>5 DEF T
<1> QED
  BY <1>2, <1>3, <1>5, <1>6, <1>7, <1>8

\* pos says where the escaped form of each character of v begins.
LEMMA EscapePlaces ==
  ASSUME NEW v \in Seq(Chars), v # <<>>
  PROVE  \E pos :
           /\ escape(v) \in Seq(Chars)
           /\ pos[1] = 1
           /\ pos[Len(v) + 1] = Len(escape(v)) + 1
           /\ \A i \in 1 .. Len(v) :
                /\ pos[i] \in 1 .. Len(escape(v))
                /\ pos[i + 1] <= Len(escape(v)) + 1
                /\ pos[i + 1] = pos[i] + Len(Escaped(v[i]))
                /\ \A k \in 1 .. Len(Escaped(v[i])) :
                      escape(v)[pos[i] + k - 1] = Escaped(v[i])[k]
<1> DEFINE e == escape(v)
           n == Len(v)
<1>1. PICK f : /\ e = f[n]
               /\ \A i \in 1 .. n : f[i] \in Seq(Chars)
               /\ f[1] = Escaped(v[1])
               /\ \A i \in 1 .. n - 1 : f[i + 1] = f[i] \o Escaped(v[i + 1])
  BY EscapeJoins
<1> HIDE DEF e
<1>2. n \in Nat \ {0} /\ \A i \in 1 .. n : v[i] \in Chars
  BY EmptySeq, LenProperties, ElementOfSeq
<1>3. \A i \in 1 .. n : /\ Escaped(v[i]) \in Seq(Chars)
                         /\ Len(Escaped(v[i])) \in {1, 2}
  BY <1>2, EscapedChars
<1>4. \A i \in 1 .. n : Len(f[i]) \in Nat
  BY <1>1, LenProperties
<1>5. ASSUME NEW i \in 1 .. n - 1
      PROVE  /\ Len(f[i + 1]) = Len(f[i]) + Len(Escaped(v[i + 1]))
             /\ \A p \in 1 .. Len(f[i]) : f[i + 1][p] = f[i][p]
             /\ \A k \in 1 .. Len(Escaped(v[i + 1])) :
                   f[i + 1][Len(f[i]) + k] = Escaped(v[i + 1])[k]
  <2>1. PICK j \in Int : j = i + 1
    BY <1>2
  <2>2. j \in 1 .. n /\ i \in 1 .. n
    BY <1>2, <2>1
  <2> DEFINE x == Escaped(v[j])
             y == f[i]
             z == f[j]
  <2>3. x \in Seq(Chars) /\ y \in Seq(Chars) /\ z = y \o x
    BY <1>1, <1>3, <2>1, <2>2, Zenon
  <2> HIDE DEF x, y, z
  <2>4. /\ Len(z) = Len(y) + Len(x)
        /\ \A p \in 1 .. Len(y) : z[p] = y[p]
        /\ \A k \in 1 .. Len(x) : z[Len(y) + k] = x[k]
    BY <2>3, ConcatProperties, LenProperties
  <2> QED
    BY <2>1, <2>4, Zenon DEF x, y, z
<1> DEFINE Prefix(i) == /\ Len(f[i]) <= Len(e)
                        /\ \A p \in 1 .. Len(f[i]) : e[p] = f[i][p]
           T == {i \in 1 .. n : Prefix(i)}
<1>6. 1 .. n \subseteq T
  <2>1. n \in T
    BY <1>1, <1>2, <1>4
  <2>2. ASSUME NEW k \in 1 .. n - 1, k + 1 \in T PROVE k \in T
    <3>1. PICK j \in Int : j = k + 1
      BY <1>2
    <3>2. j \in 1 .. n /\ k \in 1 .. n
      BY <1>2, <3>1
    <3>3. Prefix(j)
      BY <2>2, <3>1
    <3>4. /\ Len(f[j]) = Len(f[k]) + Len(Escaped(v[j]))
          /\ \A p \in 1 .. Len(f[k]) : f[j][p] = f[k][p]
      BY <1>5, <3>1, Zenon
    <3>5. /\ Len(f[k]) \in Nat /\ Len(f[j]) \in Nat
          /\ Len(Escaped(v[j])) \in {1, 2}
      BY <1>3, <1>4, <3>2, Zenon
    <3>6. Len(e) \in Nat
      BY <1>1, <1>2, <1>4
    <3> DEFINE a == Len(f[k])
               b == Len(f[j])
               c == Len(Escaped(v[j]))
               d == Len(e)
    <3>7. a \in Nat /\ b = a + c /\ c \in {1, 2} /\ d \in Nat /\ b <= d
      BY <3>3, <3>4, <3>5, <3>6, Zenon
    <3>8. \A p \in 1 .. b : e[p] = f[j][p]
      BY <3>3
    <3>9. \A p \in 1 .. a : f[j][p] = f[k][p]
      BY <3>4
    <3> HIDE DEF a, b, c, d
    <3>10. a <= d /\ \A p \in 1 .. a : e[p] = f[k][p]
      BY <3>7, <3>8, <3>9
    <3>11. Prefix(k)
      BY <3>10 DEF a, d
    <3> QED
      BY <3>2, <3>11
  <2>3. \A k \in 1 .. n - 1 : k + 1 \in T => k \in T
    BY <2>2
  <2>4. 1 \in Int /\ n \in Int
    BY <1>2
  <2> HIDE DEF T
  <2> QED
    BY <2>1, <2>3, <2>4, Descent, Zenon
<1> DEFINE pos == [i \in 1 .. n + 1 |-> IF i = 1 THEN 1
                                        ELSE Len(f[i - 1]) + 1]
<1>7. pos[1] = 1 /\ \A i \in 1 .. n : pos[i + 1] = Len(f[i]) + 1
  <2>1. ASSUME NEW i \in 1 .. n, NEW j \in Int, j = i + 1
        PROVE  pos[j] = Len(f[i]) + 1
    <3>1. j \in 1 .. n + 1 /\ j # 1 /\ j - 1 = i
      BY <1>2, <2>1
    <3> QED
      BY <3>1
  <2> HIDE DEF pos
  <2>2. ASSUME NEW i \in 1 .. n PROVE pos[i + 1] = Len(f[i]) + 1
    BY <1>2, <2>1
  <2>3. pos[1] = 1
    BY <1>2 DEF pos
  <2> QED
    BY <2>2, <2>3
<1> HIDE DEF pos
<1>8. Len(e) \in Nat /\ e \in Seq(Chars)
  BY <1>1, <1>2, <1>4
<1>9. pos[n + 1] = Len(e) + 1
  BY <1>1, <1>2, <1>7
<1>10. ASSUME NEW i \in 1 .. n
       PROVE  /\ pos[i] \in 1 .. Len(e)
              /\ pos[i + 1] <= Len(e) + 1
              /\ pos[i + 1] = pos[i] + Len(Escaped(v[i]))
              /\ \A k \in 1 .. Len(Escaped(v[i])) :
                    e[pos[i] + k - 1] = Escaped(v[i])[k]
  <2> DEFINE x == Escaped(v[i])
  <2>1. Len(x) \in {1, 2}
    BY <1>3
  <2>2. /\ Len(f[i]) \in Nat /\ Len(f[i]) <= Len(e)
        /\ \A p \in 1 .. Len(f[i]) : e[p] = f[i][p]
    BY <1>4, <1>6
  <2> HIDE DEF T, Prefix
  <2>3. pos[i] \in Nat \ {0} /\ Len(f[i]) + 1 = pos[i] + Len(x)
        /\ \A k \in 1 .. Len(x) : f[i][pos[i] + k - 1] = x[k]
    <3>1. CASE i = 1
      BY <1>1, <1>7, <2>1, <3>1
    <3>2. CASE i # 1
      <4>1. PICK j \in Int : i = j + 1
        BY <1>2
      <4>2. j \in 1 .. n - 1 /\ j \in 1 .. n
        BY <1>2, <3>2, <4>1
      <4>3. pos[i] = Len(f[j]) + 1 /\ Len(f[j]) \in Nat
        BY <1>4, <1>7, <4>1, <4>2, Zenon
      <4>4. /\ Len(f[i]) = Len(f[j]) + Len(x)
            /\ \A k \in 1 .. Len(x) : f[i][Len(f[j]) + k] = x[k]
        BY <1>5, <4>1, <4>2, Zenon
      <4> HIDE DEF x
      <4>5. pos[i] \in Nat \ {0} /\ Len(f[i]) + 1 = pos[i] + Len(x)
        BY <2>1, <4>3, <4>4
      <4>6. ASSUME NEW k \in 1 .. Len(x)
            PROVE  f[i][pos[i] + k - 1] = x[k]
        <5>1. pos[i] + k - 1 = Len(f[j]) + k
          BY <2>1, <4>3
        <5> QED
          BY <4>4, <5>1
      <4> QED
        BY <4>5, <4>6
    <3> QED
      BY <3>1, <3>2
  <2> HIDE DEF x
  <2>4. pos[i + 1] = pos[i] + Len(x) /\ pos[i + 1] <= Len(e) + 1
    BY <1>7, <1>8, <2>1, <2>2, <2>3
  <2>7. Len(e) \in Nat
    BY <1>8
  <2>5. pos[i] \in 1 .. Len(e)
    <3> DEFINE a == Len(e)
               b == pos[i]
               c == Len(x)
               d == Len(f[i])
    <3>1. a \in Nat /\ b \in Nat \ {0} /\ c \in {1, 2} /\ d \in Nat
      BY <2>1, <2>2, <2>3, <2>7
    <3>2. d <= a /\ d + 1 = b + c
      BY <2>2, <2>3, Zenon
    <3> HIDE DEF a, b, c, d
    <3>3. b \in 1 .. a
      BY <3>1, <3>2
    <3> QED
      BY <3>3 DEF a, b
  <2>6. ASSUME NEW k \in 1 .. Len(x) PROVE e[pos[i] + k - 1] = x[k]
    <3>1. PICK p \in Int : p = pos[i] + k - 1
      BY <2>1, <2>3
    <3>2. p \in 1 .. Len(f[i])
      BY <2>1, <2>2, <2>3, <3>1
    <3>3. f[i][p] = x[k]
      BY <2>3, <3>1
    <3> QED
      BY <2>2, <3>1, <3>2, <3>3
  <2> QED
    BY <2>4, <2>5, <2>6 DEF x
<1> QED
  BY <1>7, <1>8, <1>9, <1>10 DEF e

\* What escape makes of a value, of whatever backslashes and newlines,
\* unescape turns back into it (Debconf/ConfModule.pm's escape(), the inner
\* function unescape of debconf.py:86-96).
THEOREM RoundTrip ==
  ASSUME NEW v \in Seq(Chars)
  PROVE  unescape(escape(v)) = v
<1>1. CASE v = <<>>
  <2>1. escape(v) = <<>>
    <3>1. [i \in DOMAIN v |-> Escaped(v[i])] = <<>>
      BY <1>1
    <3>2. Len(<<>>) = 0
      OBVIOUS
    <3>3. FlattenSeq(<<>>) = <<>>
      BY <3>2, Zenon DEF FlattenSeq
    <3> QED
      BY <3>1, <3>3 DEF escape
  <2>2. PICK g : /\ g = [i \in 1 .. Len(<<>>) + 2 |-> Chunk(<<>>, g, i)]
                 /\ unescape(<<>>) = g[1]
    <3>1. <<>> \in Seq(Chars)
      OBVIOUS
    <3> QED
      BY <3>1, ChunksExist
  <2>3. g[1] = Chunk(<<>>, g, 1)
    <3>1. 1 \in 1 .. Len(<<>>) + 2
      OBVIOUS
    <3> QED
      BY <2>2, <3>1, Zenon
  <2>4. 1 > Len(<<>>)
    OBVIOUS
  <2>5. Chunk(<<>>, g, 1) = <<>>
    BY <2>4, Zenon DEF Chunk
  <2> QED
    BY <1>1, <2>1, <2>2, <2>3, <2>5, Zenon
<1>2. CASE v # <<>>
  <2> DEFINE e == escape(v)
             n == Len(v)
  <2>1. PICK pos :
           /\ e \in Seq(Chars)
           /\ pos[1] = 1
           /\ pos[n + 1] = Len(e) + 1
           /\ \A i \in 1 .. n :
                /\ pos[i] \in 1 .. Len(e)
                /\ pos[i + 1] <= Len(e) + 1
                /\ pos[i + 1] = pos[i] + Len(Escaped(v[i]))
                /\ \A k \in 1 .. Len(Escaped(v[i])) :
                      e[pos[i] + k - 1] = Escaped(v[i])[k]
    BY <1>2, EscapePlaces
  <2>2. PICK g : /\ g = [i \in 1 .. Len(e) + 2 |-> Chunk(e, g, i)]
                 /\ unescape(e) = g[1]
    BY <2>1, ChunksExist
  <2> HIDE DEF e
  <2>3. \A i \in 1 .. Len(e) + 2 : g[i] = Chunk(e, g, i)
    BY <2>2, Zenon
  <2>4. n \in Nat \ {0} /\ Len(e) \in Nat
    BY <1>2, <2>1, EmptySeq, LenProperties
  <2> DEFINE T == {i \in 1 .. n + 1 : g[pos[i]] = SubSeq(v, i, n)}
  <2>5. n + 1 \in T
    <3>1. Len(e) + 1 \in 1 .. Len(e) + 2 /\ Len(e) + 1 > Len(e)
      BY <2>4
    <3>2. Chunk(e, g, Len(e) + 1) = <<>>
      BY <3>1, Zenon DEF Chunk
    <3>3. g[pos[n + 1]] = <<>>
      BY <2>1, <2>3, <3>1, <3>2, Zenon
    <3>4. SubSeq(v, n + 1, n) = <<>>
      BY <2>4, SubSeqEmpty
    <3>5. g[pos[n + 1]] = SubSeq(v, n + 1, n)
      BY <3>3, <3>4, Zenon
    <3>6. n + 1 \in 1 .. n + 1
      BY <2>4
    <3> QED
      BY <3>5, <3>6, Zenon
  <2>6. ASSUME NEW i \in 1 .. n, i + 1 \in T PROVE i \in T
    <3>1. PICK j \in Int : j = i + 1
      BY <2>4
    <3> DEFINE p == pos[i]
               q == pos[j]
               x == Escaped(v[i])
    <3>2. /\ p \in 1 .. Len(e) /\ q <= Len(e) + 1 /\ q = p + Len(x)
          /\ \A k \in 1 .. Len(x) : e[p + k - 1] = x[k]
      BY <2>1, <3>1, Zenon
    <3>3. g[q] = SubSeq(v, j, n)
      BY <2>6, <3>1
    <3>4. v[i] \in Chars
      BY ElementOfSeq
    <3>5. \/ v[i] = "n" /\ x = <<"n">> /\ Len(x) = 1
          \/ v[i] = "\\" /\ Len(x) = 2 /\ x[1] = "\\" /\ x[2] = "\\"
          \/ v[i] = "newline" /\ Len(x) = 2 /\ x[1] = "\\" /\ x[2] = "n"
      BY <3>4, EscapedChars
    <3>6. g[p] = Chunk(e, g, p)
      BY <2>3, <2>4, <3>2
    <3> HIDE DEF p, q, x
    <3>7. g[p] = <<v[i]>> \o g[q]
      <4>1. p + 1 - 1 = p /\ p + 2 - 1 = p + 1 /\ p \in Int
        BY <2>4, <3>2
      <4>2. ~(p > Len(e))
        BY <2>4, <3>2
      <4>3. CASE v[i] = "n" /\ x = <<"n">> /\ Len(x) = 1
        <5>1. 1 \in 1 .. Len(x) /\ x[1] = "n"
          BY <4>3
        <5>2. e[p] = "n"
          BY <3>2, <4>1, <5>1
        <5>3. q = p + 1
          BY <3>2, <4>3
        <5>4. "n" # "\\"
          OBVIOUS
        <5>5. Chunk(e, g, p) = <<e[p]>> \o g[p + 1]
          BY <4>2, <5>2, <5>4, Zenon DEF Chunk
        <5> QED
          BY <3>6, <4>3, <5>2, <5>3, <5>5, Zenon
      <4>4. ASSUME Len(x) = 2, x[1] = "\\"
            PROVE  /\ q = p + 2 /\ e[p + 1] = x[2]
                   /\ Chunk(e, g, p) =
                        <<IF e[p + 1] = "n" THEN "newline" ELSE e[p + 1]>>
                          \o g[p + 2]
        <5>1. 1 \in 1 .. Len(x) /\ 2 \in 1 .. Len(x)
          BY <4>4
        <5>2. e[p] = "\\" /\ e[p + 1] = x[2]
          BY <3>2, <4>1, <4>4, <5>1
        <5>3. q = p + 2
          BY <3>2, <4>4
        <5>4. p < Len(e)
          BY <2>4, <3>2, <4>1, <5>3
        <5> QED
          BY <4>2, <5>2, <5>3, <5>4, Zenon DEF Chunk
      <4>5. CASE v[i] = "\\" /\ Len(x) = 2 /\ x[1] = "\\" /\ x[2] = "\\"
        <5>1. "n" # "\\"
          OBVIOUS
        <5> QED
          BY <3>6, <4>4, <4>5, <5>1, Zenon
      <4>6. CASE v[i] = "newline" /\ Len(x) = 2 /\ x[1] = "\\" /\ x[2] = "n"
        BY <3>6, <4>4, <4>6, Zenon
      <4> QED
        BY <3>5, <4>3, <4>5, <4>6
    <3>8. SubSeq(v, i, n) = <<v[i]>> \o SubSeq(v, j, n)
      <4>1. i <= n /\ j = i + 1
        BY <2>4, <3>1
      <4>2. SubSeq(v, i, n) = <<v[i]>> \o SubSeq(v, i + 1, n)
        BY <2>4, SubSeqRecursiveFirst
      <4> QED
        BY <4>1, <4>2, Zenon
    <3>9. g[p] = SubSeq(v, i, n)
      BY <3>3, <3>7, <3>8, Zenon
    <3> QED
      BY <2>4, <3>9 DEF p
  <2>7. 1 .. n + 1 \subseteq T
    <3>1. \A i \in 1 .. (n + 1) - 1 : i + 1 \in T => i \in T
      BY <2>4, <2>6
    <3>2. 1 \in Int /\ n + 1 \in Int
      BY <2>4
    <3> HIDE DEF T
    <3> QED
      BY <2>5, <3>1, <3>2, Descent, Zenon
  <2>8. g[1] = SubSeq(v, 1, n)
    <3>1. 1 \in 1 .. n + 1
      BY <2>4
    <3>2. g[pos[1]] = SubSeq(v, 1, n)
      BY <2>7, <3>1, Zenon
    <3> QED
      BY <2>1, <3>2, Zenon
  <2>9. SubSeq(v, 1, n) = v
    BY SubSeqFull
  <2> QED
    BY <2>2, <2>8, <2>9, Zenon DEF e
<1> QED
  BY <1>1, <1>2
-----------------------------------------------------------------------------
(* The inductive invariant.                                                *)

Writing == pc \in {"idle", "reading", "interrupted", "deleting"}
InCommand == pc \in {"reading", "interrupted"}
InClient == pc \in {"idle", "reading", "interrupted"}

\* What the client makes of an answer, and what it should make of it.
Made(a) == IF a.status = "escaped" THEN unescape(a.text) ELSE a.text
Whole(a) == IF a.asked THEN a.value ELSE FirstLine(a.value)
GoodAnswers == {a \in Answers : Made(a) = Whole(a)}

\* Whether a capb, up to and with this line, has asked for escape.
After(l) == IF l.kind \in {"capb", "escape"} THEN l.kind = "escape"
            ELSE l.asked

\* The line that the other end works on.
Works == /\ server = "answering" =>
              /\ line.number \in 1 .. MaxLines
              /\ line.kind \in Kinds \cup {"stop"}
              /\ line.kind = "get" => capb = line.asked
         /\ server = "reading" => line = NoLine
         /\ sigpipe => communicator

\* The other end has escape on for a line as the client had when it wrote it.
Before(n) == IF n = 1 THEN capb ELSE After(commands[n - 1])
Turns == /\ \A n \in 1 .. Len(commands) : commands[n].asked = Before(n)
         /\ asked = Before(Len(commands) + 1)

\* A line that stops the other end has been sent by stop().
StopsSent == \A n \in 1 .. Len(commands) :
                commands[n].kind = "stop" => stops > 0

\* The answers in the pipe are what the client makes the value of.
Says == answers \in Seq(GoodAnswers)

\* As long as the client can write, the other end works for it, or has been
\* killed, or has been told to stop.
ServerServes ==
  Writing => \/ server \in {"reading", "answering"}
             \/ server = "killed" /\ crashed
             \/ server = "finish" /\ stops > 0 /\ ~communicator

\* Only a communicator shuts down, and only after a crash does it fail.
Closings == /\ pc \in {"closing", "waiting", "failed", "shut", "lost"}
                 => communicator
            /\ unflushed => crashed
            /\ pc = "lost" => crashed

\* How the other end came to its end.
ServerEnds ==
  /\ server = "exited" => saved
  /\ server = "killed" => crashed \/ late > 0 \/ pc = "ended"
  /\ pc = "shut" => server = "reaped" /\ (saved \/ crashed \/ late > 0)

\* Lines and answers are numbered one after the other.
Order ==
  InClient =>
    /\ \A n \in 1 .. Len(answers) : answers[n].number = sent - OnTheirWay + n
    /\ line # NoLine => line.number = sent - Len(commands)
    /\ \A n \in 1 .. Len(commands) :
          commands[n].number = sent - Len(commands) + n

\* What is on its way, between commands and in one.
Pending ==
  /\ pc = "idle" /\ Alive => OnTheirWay = late + stops
  /\ InCommand => /\ OnTheirWay = late + stops + 1
                  /\ sent - (late + stops) = got.own - got.late

Owned == got.line # 0 => got.own - got.line = got.late

\* While SIGPIPE kills it, nothing but what begins with a STOP can be left for
\* the other end by a client that has read its answers.
Undisturbed == sigpipe /\ late = 0 /\ ~crashed /\ pc # "ended"
Stopping == Undisturbed /\ stops > 0 =>
              /\ commands # <<>> /\ commands[1].kind = "stop"
              /\ server = "reading" /\ answers = <<>>
Quiet == Undisturbed /\ stops = 0 /\ ~InCommand =>
              commands = <<>> /\ server # "answering"

IInv == /\ TypeOK
        /\ Works
        /\ Turns
        /\ Says
        /\ StopsSent
        /\ ServerServes
        /\ Closings
        /\ ServerEnds
        /\ Order
        /\ Pending
        /\ Owned
        /\ Stopping
        /\ Quiet
        /\ ValuesComeBack
-----------------------------------------------------------------------------
(* Values and what is printed of them.                                     *)

\* The values of the model are among the sequences of the lemmas above.
LEMMA TextsAreSequences == Texts \subseteq Seq(Chars) /\ <<>> \in Texts
<1>1. ASSUME NEW t \in Texts PROVE t \in Seq(Chars)
  <2>1. PICK n \in 0 .. MaxText : t \in [1 .. n -> Chars]
    BY DEF Texts, Chars
  <2> QED
    BY <2>1, DebconfAssumption
<1>2. <<>> \in [1 .. 0 -> Chars] /\ 0 \in 0 .. MaxText
  BY DebconfAssumption
<1>3. <<>> \in Texts
  BY <1>2 DEF Texts, Chars
<1> QED
  BY <1>1, <1>3

\* A text has a first line, which is one of its beginnings.
LEMMA FirstLines ==
  ASSUME NEW v \in Seq(Chars)
  PROVE  \E n \in 0 .. Len(v) : FirstLine(v) = SubSeq(v, 1, n)
<1> DEFINE T == {n \in 0 .. Len(v) : \A i \in 1 .. n : v[i] # "newline"}
           Ends(n) == /\ \A i \in 1 .. n : v[i] # "newline"
                      /\ n < Len(v) => v[n + 1] = "newline"
<1>0. Len(v) \in Nat
  BY LenProperties
<1>1. \E n \in 0 .. Len(v) : Ends(n)
  <2> SUFFICES ASSUME \A n \in 0 .. Len(v) : ~Ends(n) PROVE FALSE
    OBVIOUS
  <2>1. 0 \in T
    BY <1>0
  <2>2. ASSUME NEW k \in 0 .. Len(v) - 1, k \in T PROVE k + 1 \in T
    <3>1. k \in 0 .. Len(v) /\ k + 1 \in 0 .. Len(v) /\ k < Len(v)
      BY <1>0
    <3>2. v[k + 1] # "newline"
      BY <2>2, <3>1
    <3>3. \A i \in 1 .. k + 1 : i \in 1 .. k \/ i = k + 1
      OBVIOUS
    <3> QED
      BY <2>2, <3>1, <3>2, <3>3
  <2>3. \A k \in 0 .. Len(v) - 1 : k \in T => k + 1 \in T
    BY <2>2
  <2>4. 0 \in Int /\ Len(v) \in Int
    BY <1>0
  <2> HIDE DEF T
  <2>5. 0 .. Len(v) \subseteq T
    BY <2>1, <2>3, <2>4, Induction, Zenon
  <2>6. Len(v) \in T
    BY <1>0, <2>5
  <2>7. Len(v) \in 0 .. Len(v) /\ ~(Len(v) < Len(v))
    BY <1>0
  <2>8. Ends(Len(v))
    BY <2>6, <2>7 DEF T
  <2> QED
    BY <2>7, <2>8
<1>2. (CHOOSE n \in 0 .. Len(v) : Ends(n)) \in 0 .. Len(v)
  BY <1>1, Zenon
<1> QED
  BY <1>2 DEF FirstLine

\* The first line of a value is a value.
LEMMA FirstLineTyped ==
  ASSUME NEW v \in Texts
  PROVE  FirstLine(v) \in Texts
<1>1. PICK m \in 0 .. MaxText : v \in [1 .. m -> Chars]
  BY DEF Texts, Chars
<1>2. v \in Seq(Chars) /\ Len(v) = m /\ m \in Nat
  BY <1>1, DebconfAssumption, TextsAreSequences
<1>3. PICK n \in 0 .. Len(v) : FirstLine(v) = SubSeq(v, 1, n)
  BY <1>2, FirstLines
<1>4. n \in 0 .. MaxText
  BY <1>2, DebconfAssumption
<1>5. SubSeq(v, 1, n) \in [1 .. n -> Chars]
  <2>1. n \in Int /\ \A i \in 1 .. n : v[i] \in Chars
    BY <1>1, <1>2
  <2>2. /\ SubSeq(v, 1, n) \in Seq(Chars)
        /\ Len(SubSeq(v, 1, n)) = IF 1 <= n THEN n - 1 + 1 ELSE 0
    BY <2>1, SubSeqProperties
  <2>3. Len(SubSeq(v, 1, n)) = n
    BY <1>2, <2>2
  <2> HIDE DEF Texts
  <2> QED
    BY <2>2, <2>3, LenProperties
<1> QED
  BY <1>3, <1>4, <1>5 DEF Texts, Chars

\* Of nothing there is nothing to print.
LEMMA FirstLineOfNone == FirstLine(<<>>) = <<>>
<1>1. <<>> \in Seq(Chars) /\ Len(<<>>) = 0
  OBVIOUS
<1>2. PICK n \in 0 .. Len(<<>>) : FirstLine(<<>>) = SubSeq(<<>>, 1, n)
  BY <1>1, FirstLines
<1>3. n = 0
  BY <1>1
<1>4. SubSeq(<<>>, 1, 0) = <<>>
  BY SubSeqEmpty
<1> QED
  BY <1>2, <1>3, <1>4

\* An escaped value is a text.
LEMMA EscapeTyped ==
  ASSUME NEW v \in Seq(Chars)
  PROVE  escape(v) \in Seq(Chars)
<1>1. CASE v = <<>>
  <2>1. [i \in DOMAIN v |-> Escaped(v[i])] = <<>>
    BY <1>1
  <2>2. Len(<<>>) = 0 /\ <<>> \in Seq(Chars)
    OBVIOUS
  <2>3. FlattenSeq(<<>>) = <<>>
    BY <2>2, Zenon DEF FlattenSeq
  <2> QED
    BY <2>1, <2>2, <2>3 DEF escape
<1>2. CASE v # <<>>
  BY <1>2, EscapePlaces
<1> QED
  BY <1>1, <1>2

\* Every answer of the other end is what the client makes its value of.
LEMMA AnswerIsGood ==
  ASSUME TypeOK, Works, Says, server = "answering", Answer
  PROVE  /\ \E a \in GoodAnswers : answers' = Append(answers, a)
                                   /\ a.number = line.number
<1> DEFINE A(s, v, t) == [number |-> line.number, asked |-> line.asked,
                          status |-> s, value |-> v, text |-> t]
<1>0. /\ line.number \in 1 .. MaxLines /\ line.asked \in BOOLEAN
      /\ Texts \subseteq Seq(Chars) /\ <<>> \in Texts
      /\ line.kind = "get" => capb = line.asked
  BY TextsAreSequences DEF TypeOK, Works, Worked
<1>1. ASSUME NEW s \in {"data", "escaped", "old", "error", "empty"},
             NEW v \in Texts, NEW t \in Seq(Chars),
             (IF s = "escaped" THEN unescape(t) ELSE t)
                = (IF line.asked THEN v ELSE FirstLine(v)),
             answers' = Append(answers, A(s, v, t))
      PROVE  \E a \in GoodAnswers : answers' = Append(answers, a)
                                    /\ a.number = line.number
  <2>1. A(s, v, t) \in Answers
    BY <1>0 DEF Answers, Chars
  <2>2. Made(A(s, v, t)) = Whole(A(s, v, t))
    BY <1>1 DEF Made, Whole
  <2>3. A(s, v, t).number = line.number
    OBVIOUS
  <2> QED
    BY <1>1, <2>1, <2>2, <2>3 DEF GoodAnswers
<1>2. ASSUME NEW s \in {"data", "old", "error", "empty"},
             answers' = Append(answers, A(s, <<>>, <<>>))
      PROVE  \E a \in GoodAnswers : answers' = Append(answers, a)
                                    /\ a.number = line.number
  <2>1. <<>> \in Seq(Chars) /\ s # "escaped"
        /\ s \in {"data", "escaped", "old", "error", "empty"}
    OBVIOUS
  <2> HIDE DEF A
  <2> QED
    BY <1>0, <1>1, <1>2, <2>1, FirstLineOfNone
<1>3. ASSUME NEW v \in Texts, line.kind = "get", capb,
             answers' = Append(answers, A("escaped", v, escape(v)))
      PROVE  \E a \in GoodAnswers : answers' = Append(answers, a)
                                    /\ a.number = line.number
  <2>1. escape(v) \in Seq(Chars) /\ unescape(escape(v)) = v
    BY <1>0, EscapeTyped, RoundTrip
  <2> HIDE DEF A
  <2> QED
    BY <1>0, <1>1, <1>3, <2>1
<1>4. ASSUME NEW v \in Texts, line.kind = "get", ~capb,
             answers' = Append(answers, A("data", v, FirstLine(v)))
      PROVE  \E a \in GoodAnswers : answers' = Append(answers, a)
                                    /\ a.number = line.number
  <2>1. FirstLine(v) \in Seq(Chars)
    BY <1>0, FirstLineTyped
  <2> HIDE DEF A
  <2> QED
    BY <1>0, <1>1, <1>4, <2>1
<1> HIDE DEF A
<1>5. \/ \E s \in {"data", "old", "error", "empty"} :
            answers' = Append(answers, A(s, <<>>, <<>>))
      \/ /\ line.kind = "get"
         /\ \E v \in Texts : IF capb
               THEN answers' = Append(answers, A("escaped", v, escape(v)))
               ELSE answers' = Append(answers, A("data", v, FirstLine(v)))
  <2>1. \/ Replies("empty", <<>>, <<>>) \/ Replies("data", <<>>, <<>>)
        \/ Replies("old", <<>>, <<>>) \/ Replies("error", <<>>, <<>>)
        \/ /\ line.kind = "get"
           /\ \E value \in Texts :
                 IF capb THEN Replies("escaped", value, escape(value))
                 ELSE Replies("data", value, FirstLine(value))
    BY Zenon DEF Answer
  <2> QED
    BY <2>1, Zenon DEF Replies, A
<1> QED
  BY <1>2, <1>3, <1>4, <1>5
-----------------------------------------------------------------------------
(* The first state, and names for the steps.                               *)

\* The answer there is before the first one has its type.
LEMMA NothingTyped == Nothing \in Answered
<1>1. 0 \in 0 .. MaxLines /\ <<>> \in Texts
  BY DebconfAssumption, TextsAreSequences
<1> QED
  BY <1>1 DEF Nothing, Answered

\* The invariant holds before the first command.
LEMMA InitInv == Init => IInv
<1> SUFFICES ASSUME Init PROVE IInv
  OBVIOUS
<1>0. /\ commands = <<>> /\ answers = <<>> /\ Len(commands) = 0
      /\ Len(answers) = 0 /\ line = NoLine /\ got = Nothing
  BY DEF Init
<1>1. TypeOK
  <2>1. 0 \in 0 .. MaxLines /\ got \in Answered
    BY <1>0, DebconfAssumption, NothingTyped
  <2>2. commands \in Seq(Lines) /\ answers \in Seq(Answers)
    BY <1>0
  <2>3. line \in Worked
    BY <1>0, <2>1 DEF NoLine, Line, Worked
  <2>4. /\ communicator \in BOOLEAN /\ asked \in BOOLEAN
        /\ unflushed \in BOOLEAN /\ capb \in BOOLEAN /\ sigpipe \in BOOLEAN
        /\ saved \in BOOLEAN /\ early \in BOOLEAN /\ crashed \in BOOLEAN
    BY Zenon DEF Init
  <2>5. /\ python \in {2, 3} /\ setup \in {0, 1, 2, Ready}
        /\ sent \in 0 .. MaxLines /\ stops \in 0 .. sent /\ late \in Nat
        /\ pc = "idle" /\ server = "reading" /\ helper = "none"
    BY <2>1 DEF Init
  <2> QED
    BY <2>1, <2>2, <2>3, <2>4, <2>5, Zenon DEF TypeOK
<1>2. Turns
  <2>1. 1 .. Len(commands) = {} /\ Len(commands) + 1 = 1
    BY <1>0
  <2>2. asked = capb
    BY DEF Init
  <2> QED
    BY <2>1, <2>2, Zenon DEF Turns, Before
<1>3. Says /\ StopsSent
  BY <1>0 DEF Says, StopsSent
<1>4. Order /\ Pending /\ Owned
  BY <1>0 DEF Init, Order, Pending, Owned, OnTheirWay, InCommand, Nothing
<1>5. ValuesComeBack
  BY <1>0, FirstLineOfNone, Zenon DEF ValuesComeBack, Nothing
<1> QED
  BY <1>0, <1>1, <1>2, <1>3, <1>4, <1>5
     DEF Init, IInv, Works, ServerServes, Closings, ServerEnds, Stopping,
         Quiet, Undisturbed, InCommand, Writing

\* Steps that touch neither the pipes nor the counters.
Alone == \/ WriteFails \/ Interrupt \/ Retry \/ ReadEof \/ CloseStdin
         \/ CloseFails \/ CloseStdout \/ Wait \/ Exit \/ Kill
         \/ HelperForks \/ HelperExecs \/ HelperEnds
ServerAlone == ServerEof \/ ServerFinishes \/ ServerSaves \/ ServerCrashes

\* What they leave as it is.
LEMMA AloneKeeps ==
  ASSUME Alone
  PROVE  UNCHANGED <<mode, setup, sent, asked, got, commands, answers, line,
                     capb, sigpipe, saved, late, stops, crashed>>
BY DEF Alone, WriteFails, Interrupt, Retry, ReadEof, CloseStdin, CloseFails,
       CloseStdout, Wait, Exit, Kill, HelperForks, HelperExecs, HelperEnds,
       pipes, other, helpers, history

LEMMA ServerAloneKeeps ==
  ASSUME ServerAlone
  PROVE  /\ UNCHANGED <<client, commands, answers, line, capb, sigpipe, late,
                        stops>>
         /\ \/ server = "reading" /\ ~WriterOpen /\ commands = <<>>
               /\ server' = (IF communicator THEN "saving" ELSE "finish")
               /\ UNCHANGED <<saved, crashed>>
            \/ server = "finish" /\ pc = "ended" /\ server' = "saving"
               /\ UNCHANGED <<saved, crashed>>
            \/ server = "saving" /\ server' = "exited" /\ saved' = TRUE
               /\ UNCHANGED crashed
            \/ Alive /\ server' = "killed" /\ crashed' = TRUE
               /\ UNCHANGED saved
BY DEF ServerAlone, ServerEof, ServerFinishes, ServerSaves, ServerCrashes,
       pipes, history

\* The kinds of step there are.
LEMMA Steps ==
  ASSUME [Next]_vars
  PROVE  \/ \E kind \in Kinds, lines \in 1 .. 2 : Write(kind, lines)
         \/ Alone \/ ReadFails \/ ReadAnswer \/ Stop
         \/ ServerReads \/ ServerAnswers \/ ServerAlone
         \/ UNCHANGED vars
BY Zenon DEF Next, Command, shutdown, Server, Alone, ServerAlone

\* What Write does: more are its lines.
Written(kind, lines, more) ==
  /\ more \in Seq(Lines) /\ Len(more) = lines
  /\ commands' = commands \o more
  /\ \A n \in 1 .. lines :
       more[n] = Line(sent + n, IF n = 1 THEN kind ELSE "get", asked)
  /\ sent' = sent + lines /\ sent' \in 0 .. MaxLines
  /\ asked' = IF kind \in {"capb", "escape"} THEN kind = "escape" ELSE asked
  /\ lines > 1 => kind \in {"get", "title"}
  /\ late' = late + lines - 1
  /\ got' = [own |-> sent + 1, late |-> late + stops, line |-> 0,
             asked |-> FALSE, value |-> <<>>, data |-> <<>>]
  /\ pc = "idle" /\ pc' = "reading" /\ Alive
  /\ UNCHANGED <<mode, setup, unflushed, answers, other, helpers, stops,
                 crashed>>

LEMMA WriteDoes ==
  ASSUME TypeOK, NEW kind \in Kinds, NEW lines \in 1 .. 2, Write(kind, lines)
  PROVE  \E more : Written(kind, lines, more)
<1> DEFINE more == [n \in 1 .. lines |->
                      Line(sent + n, IF n = 1 THEN kind ELSE "get", asked)]
<1>1. /\ sent \in Nat /\ MaxLines \in Nat /\ asked \in BOOLEAN
      /\ sent + lines <= MaxLines
  BY DebconfAssumption DEF TypeOK, Write
<1>2. ASSUME NEW n \in 1 .. lines
      PROVE  Line(sent + n, IF n = 1 THEN kind ELSE "get", asked) \in Lines
  <2>1. sent + n \in 1 .. MaxLines
    BY <1>1
  <2>2. (IF n = 1 THEN kind ELSE "get") \in Kinds \cup {"stop"}
    BY DEF Kinds
  <2> QED
    BY <1>1, <2>1, <2>2 DEF Line, Lines
<1>3. more \in Seq(Lines) /\ Len(more) = lines
  BY <1>2
<1>4. got' = [own |-> sent + 1, late |-> late + stops, line |-> 0,
              asked |-> FALSE, value |-> <<>>, data |-> <<>>]
  BY DEF Write, Nothing
<1>5. commands' = commands \o more
  BY DEF Write
<1>6. \A n \in 1 .. lines :
         more[n] = Line(sent + n, IF n = 1 THEN kind ELSE "get", asked)
  OBVIOUS
<1>7. /\ sent' = sent + lines
      /\ asked' = IF kind \in {"capb", "escape"} THEN kind = "escape"
                  ELSE asked
      /\ lines > 1 => kind \in {"get", "title"}
      /\ late' = late + lines - 1
      /\ pc = "idle" /\ pc' = "reading" /\ Alive
      /\ UNCHANGED <<mode, setup, unflushed, answers, other, helpers,
                     stops, crashed>>
  BY DEF Write
<1>8. sent' \in 0 .. MaxLines
  BY <1>1, <1>7
<1> HIDE DEF more
<1> QED
  BY <1>3, <1>4, <1>5, <1>6, <1>7, <1>8, Zenon DEF Written
-----------------------------------------------------------------------------
(* Types.                                                                  *)

\* Types, and what the other end works on, are kept by every step.
LEMMA NextTyped ==
  ASSUME TypeOK, Works, Turns, Says, [Next]_vars
  PROVE  TypeOK' /\ Works' /\ Says'
<1>0. /\ MaxLines \in Nat /\ sent \in 0 .. MaxLines /\ late \in Nat
      /\ stops \in 0 .. sent
      /\ commands \in Seq(Lines) /\ answers \in Seq(GoodAnswers)
      /\ got \in Answered
  BY DebconfAssumption DEF TypeOK, Says
<1>7. GoodAnswers \subseteq Answers
  BY DEF GoodAnswers
<1>8. answers' \in Seq(GoodAnswers) => answers' \in Seq(Answers)
  BY <1>7, SeqMonotonic
<1>9. \A a \in Answers : /\ a.number \in 1 .. MaxLines /\ a.asked \in BOOLEAN
                         /\ a.value \in Texts /\ Whole(a) \in Texts
  BY FirstLineTyped DEF Answers, Whole
<1> USE <1>0
<1>1. ASSUME NEW kind \in Kinds, NEW lines \in 1 .. 2, Write(kind, lines)
      PROVE  TypeOK' /\ Works' /\ Says'
  <2>0. PICK more : Written(kind, lines, more)
    BY <1>1, WriteDoes, Zenon
  <2>1. /\ more \in Seq(Lines)
        /\ commands' = commands \o more
        /\ sent' = sent + lines /\ sent' \in 0 .. MaxLines
        /\ asked' = IF kind \in {"capb", "escape"} THEN kind = "escape"
                    ELSE asked
        /\ late' = late + lines - 1
        /\ got' = [own |-> sent + 1, late |-> late + stops, line |-> 0,
                   asked |-> FALSE, value |-> <<>>, data |-> <<>>]
        /\ pc = "idle" /\ pc' = "reading"
        /\ UNCHANGED <<mode, setup, unflushed, answers, other, helpers, stops,
                       crashed>>
    BY <2>0, Zenon DEF Written
  <2>2. commands' \in Seq(Lines)
    BY <2>1, ConcatProperties
  <2>3. got' \in Answered
    <3>1. /\ sent + 1 \in 0 .. MaxLines /\ late + stops \in Nat
          /\ 0 \in 0 .. MaxLines /\ <<>> \in Texts
      BY <2>1, TextsAreSequences
    <3> QED
      BY <2>1, <3>1 DEF Answered
  <2>4. late' \in Nat /\ stops' \in 0 .. sent'
    BY <2>1
  <2>5. asked' \in BOOLEAN
    BY <2>1, Zenon DEF TypeOK
  <2> QED
    BY <2>1, <2>2, <2>3, <2>4, <2>5
       DEF TypeOK, Works, Says, mode, other, helpers
<1>2. CASE Alone
  <2>1. UNCHANGED <<mode, setup, sent, asked, got, commands, answers, line,
                    capb, sigpipe, saved, late, stops, crashed>>
    BY <1>2, AloneKeeps
  <2>2. /\ unflushed' \in BOOLEAN
        /\ pc' \in {"idle", "reading", "interrupted", "deleting", "closing",
                    "waiting", "failed", "shut", "lost", "ended"}
        /\ helper' \in {"none", "forked", "execed", "ended"}
        /\ early' \in BOOLEAN
        /\ server' = server \/ server' = "reaped"
    BY <1>2 DEF Alone, WriteFails, Interrupt, Retry, ReadEof, CloseStdin,
                CloseFails, CloseStdout, Wait, Exit, Kill, HelperForks,
                HelperExecs, HelperEnds, pipes, other, helpers, history, Raise,
                TypeOK
  <2> QED
    BY <2>1, <2>2 DEF TypeOK, Works, Says, mode
<1>3. CASE ReadFails
  <2>1. late' \in Nat /\ pc' \in {"idle", "deleting"}
    BY <1>3 DEF ReadFails, Raise
  <2> QED
    BY <1>3, <2>1 DEF ReadFails, TypeOK, Works, Says, mode, other, helpers,
                      pipes
<1>4. CASE ReadAnswer
  <2>1. Head(answers) \in GoodAnswers /\ answers' \in Seq(GoodAnswers)
    BY <1>4, HeadTailProperties DEF ReadAnswer
  <2> DEFINE a == Head(answers)
  <2>2. a \in Answers /\ Made(a) = Whole(a)
    BY <2>1 DEF GoodAnswers
  <2>3. got' = [own |-> got.own, late |-> got.late, line |-> a.number,
                asked |-> a.asked, value |-> a.value, data |-> Made(a)]
    BY <1>4 DEF ReadAnswer, Made
  <2>5. setup' \in {0, 1, 2, Ready} /\ pc' \in {"idle", "deleting"}
    BY <1>4 DEF ReadAnswer, NextSetup, Ready, Raise, TypeOK
  <2>6. UNCHANGED <<mode, sent, asked, unflushed, commands, other, helpers,
                    history>>
    BY <1>4 DEF ReadAnswer
  <2> HIDE DEF a
  <2>4. got' \in Answered
    BY <1>9, <2>2, <2>3 DEF Answered
  <2> QED
    BY <1>8, <2>1, <2>4, <2>5, <2>6
       DEF TypeOK, Works, Says, mode, other, helpers, history
<1>5. CASE Stop
  <2>1. /\ sent' \in 0 .. MaxLines /\ commands' \in Seq(Lines)
        /\ stops' \in 0 .. sent'
    <3>1. sent + 1 \in 1 .. MaxLines /\ asked \in BOOLEAN
      BY <1>5 DEF Stop, TypeOK
    <3>2. Line(sent + 1, "stop", asked) \in Lines
      BY <3>1 DEF Line, Lines
    <3> QED
      BY <1>5, <3>1, <3>2, AppendProperties DEF Stop
  <2> QED
    BY <1>5, <2>1 DEF Stop, TypeOK, Works, Says, mode, other, helpers
<1>6. CASE ServerReads
  <2>1. Head(commands) \in Lines /\ commands' \in Seq(Lines)
    BY <1>6, HeadTailProperties DEF ServerReads
  <2>2. /\ line' \in Lines /\ server' \in {"finish", "answering"}
        /\ UNCHANGED <<client, answers, saved, history>>
        /\ line'.kind = "get" => capb' = capb
        /\ sigpipe' = (sigpipe /\ line'.kind # "stop")
        /\ capb' = IF line'.kind \in {"capb", "escape"}
                   THEN line'.kind = "escape" ELSE capb
    BY <1>6, <2>1 DEF ServerReads
  <2>3. /\ line'.number \in 1 .. MaxLines /\ line'.asked \in BOOLEAN
        /\ line'.kind \in Kinds \cup {"stop"}
        /\ line' \in Worked
    <3>1. Lines \subseteq Worked
      <4>1. 1 .. MaxLines \subseteq 0 .. MaxLines
        OBVIOUS
      <4> QED
        BY <4>1, Zenon DEF Lines, Worked
    <3> QED
      BY <2>2, <3>1 DEF Lines
  <2>4. capb' \in BOOLEAN /\ sigpipe' \in BOOLEAN
    BY <2>2 DEF TypeOK
  <2>5. line'.kind = "get" => capb' = line'.asked
    <3>1. 1 \in 1 .. Len(commands) /\ line' = commands[1]
      BY <1>6, EmptySeq, LenProperties DEF ServerReads
    <3> QED
      BY <2>2, <3>1 DEF Turns, Before
  <2> QED
    BY <2>1, <2>2, <2>3, <2>4, <2>5
       DEF TypeOK, Works, Says, client, mode, helpers, history
<1>10. CASE ServerAnswers
  <2>1. answers' \in Seq(GoodAnswers)
    <3>1. CASE ReaderOpen
      BY <1>10, <3>1, AnswerIsGood, AppendProperties DEF ServerAnswers
    <3>2. CASE ~ReaderOpen
      BY <1>10, <3>2 DEF ServerAnswers
    <3> QED
      BY <3>1, <3>2
  <2>2. /\ server' \in {"reading", "killed"} /\ line' = NoLine
        /\ UNCHANGED <<client, commands, capb, sigpipe, saved, history>>
    BY <1>10 DEF ServerAnswers
  <2>3. NoLine \in Worked
    BY DEF NoLine, Line, Worked
  <2> QED
    BY <1>8, <2>1, <2>2, <2>3
       DEF TypeOK, Works, Says, client, mode, helpers, history
<1>11. CASE ServerAlone
  <2>1. /\ UNCHANGED <<client, commands, answers, line, capb, sigpipe, late,
                       stops>>
        /\ server' \in {"saving", "finish", "exited", "killed"}
        /\ saved' \in BOOLEAN /\ crashed' \in BOOLEAN
    BY <1>11, ServerAloneKeeps DEF TypeOK
  <2> QED
    BY <2>1 DEF TypeOK, Works, Says, client, mode, helpers
<1>12. CASE UNCHANGED vars
  BY <1>12 DEF vars, mode, pipes, other, helpers, history, TypeOK, Works, Says
<1> QED
  BY <1>1, <1>2, <1>3, <1>4, <1>5, <1>6, <1>10, <1>11, <1>12, Steps
-----------------------------------------------------------------------------
(* capb: the other end has escape on for the lines the client wrote so.    *)

LEMMA BeforeNext ==
  ASSUME NEW n, NEW k, k # 1, k - 1 = n
  PROVE  Before(k) = After(commands[n]) /\ Before(k)' = After(commands'[n])
BY Zenon DEF Before

LEMMA TurnsAppended ==
  ASSUME commands \in Seq(Lines), NEW more \in Seq(Lines), Len(more) >= 1,
         Turns, commands' = commands \o more, capb' = capb,
         \A n \in 1 .. Len(more) :
            more[n].asked = IF n = 1 THEN asked ELSE After(more[n - 1]),
         asked' = After(more[Len(more)])
  PROVE  Turns'
<1>0. PICK c \in Nat, m \in Nat : c = Len(commands) /\ m = Len(more)
  BY LenProperties
<1>1. c \in Nat /\ m \in Nat \ {0}
  BY <1>0
<1>2. /\ Len(commands') = c + m
      /\ \A n \in 1 .. c : commands'[n] = commands[n]
      /\ \A n \in 1 .. m : commands'[c + n] = more[n]
  BY <1>0, <1>1, ConcatProperties
<1>3. ASSUME NEW n \in 1 .. c + 1 PROVE Before(n)' = Before(n)
  <2>1. CASE n = 1
    BY <2>1, Zenon DEF Before
  <2>2. CASE n # 1
    <3>1. n - 1 \in 1 .. c
      BY <1>1, <2>2
    <3> QED
      BY <1>2, <2>2, <3>1, Zenon DEF Before
  <2> QED
    BY <2>1, <2>2
<1>4. \A n \in 1 .. c : commands[n].asked = Before(n)
  BY <1>0, Zenon DEF Turns
<1>5. asked = Before(c + 1)
  BY <1>0, Zenon DEF Turns
<1>6. ASSUME NEW n \in 1 .. c + m PROVE commands'[n].asked = Before(n)'
  <2>1. CASE n \in 1 .. c
    <3>1. n \in 1 .. c + 1
      BY <1>1, <2>1
    <3> QED
      BY <1>2, <1>3, <1>4, <2>1, <3>1, Zenon
  <2>2. CASE n \notin 1 .. c
    <3>1. PICK k \in 1 .. m : n = c + k
      <4>1. n - c \in 1 .. m /\ n = c + (n - c)
        BY <1>1, <2>2
      <4> QED
        BY <4>1
    <3>2. commands'[n] = more[k]
      BY <1>2, <3>1
    <3>3. CASE k = 1
      <4>1. n = c + 1 /\ n \in 1 .. c + 1
        BY <1>1, <3>1, <3>3
      <4>2. more[k].asked = asked
        BY <1>0, <3>1, <3>3
      <4> QED
        BY <1>3, <1>5, <3>2, <4>1, <4>2, Zenon
    <3>4. CASE k # 1
      <4>1. /\ n # 1 /\ n - 1 = c + (k - 1) /\ k - 1 \in 1 .. m
            /\ k \in 1 .. Len(more)
        BY <1>0, <1>1, <3>1, <3>4
      <4>2. commands'[n - 1] = more[k - 1]
        BY <1>2, <4>1, Zenon
      <4>3. more[k].asked = After(more[k - 1])
        BY <3>4, <4>1, Zenon
      <4>4. Before(n)' = After(commands'[n - 1])
        BY <4>1, Zenon DEF Before
      <4> QED
        BY <3>2, <4>2, <4>3, <4>4, Zenon
    <3> QED
      BY <3>3, <3>4
  <2> QED
    BY <2>1, <2>2
<1>7. asked' = Before(c + m + 1)'
  <2>1. c + m + 1 # 1 /\ c + m + 1 - 1 = c + m /\ m \in 1 .. m
    BY <1>1
  <2>2. commands'[c + m] = more[m]
    BY <1>2, <2>1
  <2>3. Before(c + m + 1)' = After(commands'[c + m])
    <3>1. PICK k \in Int : k = c + m + 1
      BY <1>1
    <3>2. k # 1 /\ k - 1 = c + m
      BY <1>1, <3>1
    <3>3. Before(k)' = After(commands'[c + m])
      BY <3>2, BeforeNext, Zenon
    <3> QED
      BY <3>1, <3>3, Zenon
  <2> QED
    BY <1>0, <2>2, <2>3, Zenon
<1> QED
  BY <1>2, <1>6, <1>7, Zenon DEF Turns

\* A line is written after the capb that the other end will have done by then.
LEMMA NextTurns ==
  ASSUME TypeOK, Turns, [Next]_vars
  PROVE  Turns'
<1>0. commands \in Seq(Lines) /\ sent \in 0 .. MaxLines /\ MaxLines \in Nat
  BY DebconfAssumption DEF TypeOK
<1>1. ASSUME NEW kind \in Kinds, NEW lines \in 1 .. 2, Write(kind, lines)
      PROVE  Turns'
  <2>0. PICK more : Written(kind, lines, more)
    BY <1>1, WriteDoes, Zenon
  <2>1. /\ more \in Seq(Lines) /\ Len(more) = lines
        /\ commands' = commands \o more
        /\ \A n \in 1 .. lines :
             more[n] = Line(sent + n, IF n = 1 THEN kind ELSE "get", asked)
        /\ asked' = IF kind \in {"capb", "escape"} THEN kind = "escape"
                    ELSE asked
        /\ lines > 1 => kind \in {"get", "title"}
        /\ UNCHANGED other
    BY <2>0, Zenon DEF Written
  <2>2. capb' = capb
    BY <2>1 DEF other
  <2>3. /\ \A k, a : Line(k, a, asked).kind = a
        /\ \A k, a : Line(k, a, asked).asked = asked
    BY DEF Line
  <2>4. more[1] = Line(sent + 1, kind, asked)
    <3>1. 1 \in 1 .. lines
      OBVIOUS
    <3> QED
      BY <2>1, <3>1, Zenon
  <2>5. more[1].kind = kind /\ more[1].asked = asked
    BY <2>3, <2>4, Zenon
  <2>6. After(more[1]) = asked'
    BY <2>1, <2>5, Zenon DEF After
  <2>7. lines = 2 => After(more[2]) = asked' /\ more[2].asked = After(more[1])
    <3> SUFFICES ASSUME lines = 2
                 PROVE  /\ After(more[2]) = asked'
                        /\ more[2].asked = After(more[1])
      OBVIOUS
    <3>1. 2 \in 1 .. lines /\ 2 # 1 /\ lines > 1
      OBVIOUS
    <3>5. more[2] = Line(sent + 2, "get", asked)
      BY <2>1, <3>1, Zenon
    <3>2. more[2].kind = "get" /\ more[2].asked = asked
      BY <2>3, <3>5, Zenon
    <3>3. kind \notin {"capb", "escape"} /\ "get" \notin {"capb", "escape"}
      BY <2>1, <3>1
    <3>4. asked' = asked
      BY <2>1, <3>3, Zenon
    <3> QED
      BY <2>6, <3>2, <3>3, <3>4, Zenon DEF After
  <2>8. asked' = After(more[Len(more)]) /\ Len(more) >= 1
    <3>1. lines = 1 \/ lines = 2
      OBVIOUS
    <3> QED
      BY <2>1, <2>6, <2>7, <3>1
  <2>9. \A n \in 1 .. Len(more) :
           more[n].asked = IF n = 1 THEN asked ELSE After(more[n - 1])
    <3>1. \A n \in 1 .. lines : n = 1 \/ (n = 2 /\ lines = 2 /\ n - 1 = 1)
      OBVIOUS
    <3> QED
      BY <2>1, <2>5, <2>7, <3>1, Zenon
  <2> QED
    BY <1>0, <2>1, <2>2, <2>8, <2>9, TurnsAppended
<1>2. CASE Stop
  <2> DEFINE l == Line(sent + 1, "stop", asked)
  <2>1. l \in Lines /\ l.asked = asked /\ l.kind = "stop"
    BY <1>0, <1>2 DEF Line, Lines, Stop, TypeOK
  <2>2. commands' = Append(commands, l) /\ asked' = asked /\ capb' = capb
    BY <1>2 DEF Stop, other
  <2> HIDE DEF l
  <2>3. After(l) = asked
    <3>1. "stop" \notin {"capb", "escape"}
      OBVIOUS
    <3> QED
      BY <2>1, <3>1, Zenon DEF After
  <2>4. commands' = commands \o <<l>>
    BY <1>0, <2>1, <2>2, AppendIsConcat
  <2>5. <<l>> \in Seq(Lines) /\ Len(<<l>>) = 1 /\ <<l>>[1] = l
    BY <2>1
  <2>6. \A n \in 1 .. Len(<<l>>) : n = 1
    BY <2>5
  <2> QED
    <3>1. \A n \in 1 .. Len(<<l>>) :
             <<l>>[n].asked = IF n = 1 THEN asked ELSE After(<<l>>[n - 1])
      BY <2>1, <2>5, <2>6, Zenon
    <3>2. asked' = After(<<l>>[Len(<<l>>)])
      BY <2>2, <2>3, <2>5, Zenon
    <3>3. Len(<<l>>) >= 1
      BY <2>5
    <3> QED
      BY <1>0, <2>2, <2>4, <2>5, <3>1, <3>2, <3>3, TurnsAppended
<1>3. CASE ServerReads
  <2>0. PICK c \in Nat : c = Len(commands)
    BY <1>0, LenProperties
  <2>1. /\ commands # <<>> /\ commands' = Tail(commands) /\ asked' = asked
        /\ line' = Head(commands)
        /\ capb' = IF line'.kind \in {"capb", "escape"}
                   THEN line'.kind = "escape" ELSE capb
    BY <1>3 DEF ServerReads, client
  <2>2. /\ c \in Nat \ {0} /\ Len(commands') = c - 1 /\ line' = commands[1]
        /\ \A n \in 1 .. c - 1 : commands'[n] = commands[n + 1]
    BY <1>0, <2>0, <2>1, HeadTailProperties, EmptySeq, LenProperties
  <2>3. /\ \A n \in 1 .. c : commands[n].asked = Before(n)
        /\ asked = Before(c + 1)
    BY <2>0, Zenon DEF Turns
  <2>4. capb' = After(commands[1])
    <3>1. 1 \in 1 .. c
      BY <2>2
    <3>2. commands[1].asked = capb
      BY <2>3, <3>1, Zenon DEF Before
    <3> QED
      BY <2>1, <2>2, <3>2, Zenon DEF After
  <2>5. ASSUME NEW n \in 1 .. c PROVE Before(n)' = Before(n + 1)
    <3>1. PICK k \in Int : k = n + 1
      OBVIOUS
    <3>5. k # 1 /\ k - 1 = n
      BY <3>1
    <3>6. Before(k) = After(commands[n])
      BY <3>5, BeforeNext, Zenon
    <3>2. Before(n + 1) = After(commands[n])
      BY <3>1, <3>6, Zenon
    <3>3. CASE n = 1
      BY <2>4, <3>2, <3>3, Zenon DEF Before
    <3>4. CASE n # 1
      <4>1. n - 1 \in 1 .. c - 1 /\ n - 1 + 1 = n
        BY <2>2, <3>4
      <4>2. commands'[n - 1] = commands[n]
        BY <2>2, <4>1, Zenon
      <4>3. Before(n)' = After(commands'[n - 1])
        BY <3>4, BeforeNext, Zenon
      <4> QED
        BY <3>2, <4>2, <4>3, Zenon
    <3> QED
      BY <3>3, <3>4
  <2>6. ASSUME NEW n \in 1 .. c - 1 PROVE commands'[n].asked = Before(n)'
    <3>1. n \in 1 .. c /\ n + 1 \in 1 .. c
      BY <2>2
    <3> QED
      BY <2>2, <2>3, <2>5, <3>1, Zenon
  <2>7. asked' = Before(c - 1 + 1)'
    <3>1. c - 1 + 1 = c /\ c \in 1 .. c
      BY <2>2
    <3> QED
      BY <2>1, <2>3, <2>5, <3>1, Zenon
  <2> QED
    BY <2>2, <2>6, <2>7, Zenon DEF Turns
<1>4. CASE UNCHANGED <<commands, capb, asked>>
  <2>1. \A n : Before(n)' = Before(n)
    BY <1>4, Zenon DEF Before
  <2>2. commands' = commands /\ asked' = asked
    BY <1>4
  <2> QED
    BY <2>1, <2>2, Zenon DEF Turns
<1>5. CASE Alone
  BY <1>4, <1>5, AloneKeeps
<1>6. CASE ReadFails \/ ReadAnswer \/ ServerAnswers \/ ServerAlone
           \/ UNCHANGED vars
  <2>1. UNCHANGED <<commands, capb, asked>>
    BY <1>6, ServerAloneKeeps DEF ReadFails, ReadAnswer, ServerAnswers, vars,
       pipes, other, client
  <2> QED
    BY <1>4, <2>1
<1> QED
  BY <1>1, <1>2, <1>3, <1>5, <1>6, Steps
-----------------------------------------------------------------------------
(* The client and the other end, step by step.                             *)

\* Where the client is after the steps that touch no pipe.
LEMMA AloneMoves ==
  ASSUME Alone
  PROVE  \/ UNCHANGED <<pc, unflushed, server>>
         \/ UNCHANGED <<pc, server>> /\ ~Alive /\ pc = "idle"
         \/ /\ ~Alive /\ pc \in {"idle", "reading"}
            /\ pc' \in {"idle", "deleting"} /\ UNCHANGED server
         \/ InCommand /\ InCommand' /\ UNCHANGED <<unflushed, server>>
         \/ /\ communicator /\ ~unflushed /\ UNCHANGED <<unflushed, server>>
            /\ pc \in {"idle", "deleting", "failed"} /\ pc' = "closing"
         \/ /\ communicator /\ unflushed /\ ~unflushed' /\ UNCHANGED server
            /\ pc \in {"idle", "deleting"} /\ pc' \in {"failed", "lost"}
         \/ /\ pc = "closing" /\ pc' = "waiting"
            /\ UNCHANGED <<unflushed, server>>
         \/ /\ pc = "waiting" /\ pc' = "shut" /\ server' = "reaped"
            /\ server \in {"exited", "killed"} /\ UNCHANGED unflushed
         \/ /\ pc \notin {"shut", "lost", "ended"} /\ pc' = "ended"
            /\ UNCHANGED <<unflushed, server>>
BY DEF Alone, WriteFails, Interrupt, Retry, ReadEof, CloseStdin, CloseFails,
       CloseStdout, Wait, Exit, Kill, HelperForks, HelperExecs, HelperEnds,
       pipes, other, helpers, history, Raise, InCommand

\* Only stop() puts a line into the pipe that stops the other end.
LEMMA NextStops ==
  ASSUME TypeOK, StopsSent, [Next]_vars
  PROVE  StopsSent'
<1>0. /\ commands \in Seq(Lines) /\ Len(commands) \in Nat
      /\ stops \in Nat /\ sent \in 0 .. MaxLines
  BY LenProperties, DebconfAssumption DEF TypeOK
<1>1. ASSUME NEW kind \in Kinds, NEW lines \in 1 .. 2, Write(kind, lines)
      PROVE  StopsSent'
  <2>0. PICK more : Written(kind, lines, more)
    BY <1>1, WriteDoes, Zenon
  <2>1. /\ more \in Seq(Lines) /\ Len(more) = lines /\ stops' = stops
        /\ commands' = commands \o more
        /\ \A n \in 1 .. lines :
             more[n] = Line(sent + n, IF n = 1 THEN kind ELSE "get", asked)
    BY <2>0, Zenon DEF Written
  <2>2. \A n \in 1 .. lines : more[n].kind # "stop"
    BY <2>1 DEF Line, Kinds
  <2>4. \A n \in 1 .. Len(commands') :
           \/ n \in 1 .. Len(commands) /\ commands'[n] = commands[n]
           \/ /\ n - Len(commands) \in 1 .. Len(more)
              /\ commands'[n] = more[n - Len(commands)]
    BY <1>0, <2>1, ConcatProperties, LenProperties
  <2> QED
    BY <2>1, <2>2, <2>4 DEF StopsSent
<1>2. CASE Stop
  <2>1. stops' = stops + 1
    BY <1>2 DEF Stop
  <2> QED
    BY <1>0, <2>1 DEF StopsSent
<1>3. CASE ServerReads
  <2>1. commands # <<>> /\ commands' = Tail(commands) /\ stops' = stops
    BY <1>3 DEF ServerReads, history
  <2>2. \A n \in 1 .. Len(commands') :
           n + 1 \in 1 .. Len(commands) /\ commands'[n] = commands[n + 1]
    BY <1>0, <2>1, HeadTailProperties
  <2> QED
    BY <2>1, <2>2 DEF StopsSent
<1>4. CASE UNCHANGED <<commands, stops>>
  BY <1>4 DEF StopsSent
<1>5. CASE Alone
  BY <1>4, <1>5, AloneKeeps
<1>6. CASE ReadFails \/ ReadAnswer \/ ServerAnswers \/ ServerAlone
           \/ UNCHANGED vars
  <2>1. UNCHANGED <<commands, stops>>
    BY <1>6, ServerAloneKeeps DEF ReadFails, ReadAnswer, ServerAnswers, vars,
       pipes, history
  <2> QED
    BY <1>4, <2>1
<1> QED
  BY <1>1, <1>2, <1>3, <1>5, <1>6, Steps

\* The other end serves a client that can write, and ends for a reason.
LEMMA NextEnds ==
  ASSUME TypeOK, Works, StopsSent, ServerServes, Closings, ServerEnds,
         Stopping, Quiet, Pending, [Next]_vars
  PROVE  ServerServes' /\ Closings' /\ ServerEnds'
<1> USE DEF ServerServes, Closings, ServerEnds, Writing, Alive
<1>0. stops \in Nat /\ late \in Nat
  BY DebconfAssumption DEF TypeOK
<1>1. ASSUME NEW kind \in Kinds, NEW lines \in 1 .. 2, Write(kind, lines)
      PROVE  ServerServes' /\ Closings' /\ ServerEnds'
  <2>0. PICK more : Written(kind, lines, more)
    BY <1>1, WriteDoes, Zenon
  <2>1. /\ pc = "idle" /\ pc' = "reading" /\ Alive /\ late' = late + lines - 1
        /\ UNCHANGED <<mode, unflushed, other, stops, crashed>>
    BY <2>0, Zenon DEF Written
  <2> QED
    BY <1>0, <2>1 DEF mode, other
<1>2. CASE Alone
  <2>1. UNCHANGED <<mode, saved, late, stops, crashed>>
    BY <1>2, AloneKeeps
  <2>2. unflushed' => unflushed \/ crashed
    BY <1>2 DEF Alone, WriteFails, Interrupt, Retry, ReadEof, CloseStdin,
       CloseFails, CloseStdout, Wait, Exit, Kill, HelperForks, HelperExecs,
       HelperEnds
  <2> QED
    BY <1>2, <2>1, <2>2, AloneMoves DEF mode, InCommand
<1>3. CASE ReadFails \/ ReadAnswer \/ Stop
  <2>1. /\ UNCHANGED <<communicator, unflushed, server, saved, crashed>>
        /\ \/ pc' = pc
           \/ pc = "reading" /\ pc' \in {"idle", "deleting"}
        /\ late > 0 => late' > 0
        /\ stops > 0 => stops' > 0
        /\ pc \in {"idle", "reading"}
    <3>1. Raise => pc' \in {"idle", "deleting"}
      BY DEF Raise
    <3>2. CASE ReadFails
      BY <1>0, <3>1, <3>2 DEF ReadFails, mode, other
    <3>3. CASE ReadAnswer
      BY <1>0, <3>1, <3>3 DEF ReadAnswer, mode, other, history
    <3>4. CASE Stop
      BY <1>0, <3>4 DEF Stop, mode, other
    <3> QED
      BY <1>3, <3>2, <3>3, <3>4
  <2> QED
    BY <1>0, <2>1
<1>4. CASE ServerReads
  <2>1. commands \in Seq(Lines) /\ commands # <<>> /\ line' = Head(commands)
    BY <1>4 DEF TypeOK, ServerReads
  <2>2. /\ server = "reading" /\ UNCHANGED <<client, saved, history>>
        /\ \/ server' = "answering"
           \/ server' = "finish" /\ line'.kind = "stop" /\ ~communicator
    BY <1>4 DEF ServerReads
  <2>3. line'.kind = "stop" => stops > 0
    <3>1. line' = commands[1] /\ 1 \in 1 .. Len(commands)
      BY <2>1, EmptySeq, LenProperties
    <3> QED
      BY <3>1 DEF StopsSent
  <2> QED
    BY <2>2, <2>3 DEF client, mode, history
<1>5. CASE ServerAnswers
  <2>1. /\ server = "answering" /\ UNCHANGED <<client, saved, history>>
        /\ \/ server' = "reading"
           \/ server' = "killed" /\ sigpipe /\ ~ReaderOpen
    BY <1>5 DEF ServerAnswers
  <2>2. server' = "killed" => crashed \/ late > 0 \/ pc = "ended"
    <3> SUFFICES ASSUME server' = "killed", ~crashed, ~(late > 0), pc # "ended"
                 PROVE  FALSE
      OBVIOUS
    <3>1. Undisturbed
      BY <1>0, <2>1 DEF Undisturbed
    <3>2. stops = 0
      BY <1>0, <2>1, <3>1 DEF Stopping
    <3>3. InCommand
      BY <2>1, <3>1, <3>2 DEF Quiet
    <3> QED
      BY <2>1, <3>3 DEF InCommand, ReaderOpen, WriterOpen
  <2>3. server' = "killed" => ~Writing
    BY <2>1 DEF ReaderOpen, WriterOpen
  <2> QED
    BY <2>1, <2>2, <2>3 DEF client, mode, history
<1>6. CASE ServerAlone
  <2>1. /\ UNCHANGED <<client, late, stops>>
        /\ \/ server = "reading" /\ ~WriterOpen
              /\ server' = (IF communicator THEN "saving" ELSE "finish")
              /\ UNCHANGED <<saved, crashed>>
           \/ server = "finish" /\ pc = "ended" /\ server' = "saving"
              /\ UNCHANGED <<saved, crashed>>
           \/ server = "saving" /\ server' = "exited" /\ saved' = TRUE
              /\ UNCHANGED crashed
           \/ Alive /\ server' = "killed" /\ crashed' = TRUE
              /\ UNCHANGED saved
    BY <1>6, ServerAloneKeeps, Zenon
  <2> QED
    BY <2>1 DEF client, mode, WriterOpen
<1>7. CASE UNCHANGED vars
  BY <1>7 DEF vars, mode, pipes, other, helpers, history
<1> QED
  BY <1>1, <1>2, <1>3, <1>4, <1>5, <1>6, <1>7, Steps

\* A client that reads its answers leaves only a STOP for the other end.
LEMMA NextQuiet ==
  ASSUME TypeOK, Works, ServerServes, Stopping, Quiet, Pending, [Next]_vars
  PROVE  Stopping' /\ Quiet'
<1> USE DEF Stopping, Quiet, Undisturbed
<1>0. /\ stops \in Nat /\ late \in Nat /\ sent \in 0 .. MaxLines
      /\ commands \in Seq(Lines) /\ answers \in Seq(Answers)
  BY DebconfAssumption DEF TypeOK
<1>1. ASSUME NEW kind \in Kinds, NEW lines \in 1 .. 2, Write(kind, lines)
      PROVE  Stopping' /\ Quiet'
  <2>0. PICK more : Written(kind, lines, more)
    BY <1>1, WriteDoes, Zenon
  <2>1. /\ more \in Seq(Lines) /\ commands' = commands \o more
        /\ late' = late + lines - 1 /\ pc = "idle" /\ pc' = "reading"
        /\ UNCHANGED <<answers, other, stops, crashed>>
    BY <2>0, Zenon DEF Written
  <2>2. commands # <<>> => commands' # <<>> /\ commands'[1] = commands[1]
    BY <1>0, <2>1, ConcatProperties, EmptySeq
  <2>3. late' = 0 => late = 0
    BY <1>0, <2>1
  <2> QED
    BY <2>1, <2>2, <2>3 DEF other, InCommand
<1>2. CASE Alone
  <2>1. UNCHANGED <<commands, answers, sigpipe, late, stops, crashed>>
    BY <1>2, AloneKeeps
  <2>2. pc' # "ended" => pc # "ended"
    BY <1>2, AloneMoves DEF InCommand
  <2>3. \/ server' = server
        \/ server \in {"exited", "killed"} /\ server' = "reaped"
    BY <1>2, AloneMoves, Zenon
  <2>4. InCommand /\ ~InCommand' => pc' = "ended" \/ ~Alive
    BY <1>2, AloneMoves DEF InCommand
  <2>5. InCommand /\ ~Alive => crashed
    BY DEF InCommand, ServerServes, Writing, Alive
  <2> QED
    BY <2>1, <2>2, <2>3, <2>4, <2>5
<1>3. CASE ReadFails
  <2>1. late' > 0
    BY <1>0, <1>3 DEF ReadFails
  <2> QED
    BY <2>1
<1>4. CASE ReadAnswer
  <2>1. /\ pc = "reading" /\ answers # <<>> /\ pc' \in {"idle", "deleting"}
        /\ UNCHANGED <<commands, server, sigpipe, late, stops, crashed>>
    BY <1>4 DEF ReadAnswer, Raise, other, history
  <2> SUFFICES ASSUME Undisturbed' PROVE Stopping' /\ Quiet'
    OBVIOUS
  <2>2. Undisturbed /\ stops = 0
    BY <1>0, <2>1
  <2>3. Len(commands) + Len(answers) + (IF line = NoLine THEN 0 ELSE 1) = 1
    BY <2>1, <2>2 DEF Pending, OnTheirWay, InCommand
  <2>4. Len(commands) \in Nat /\ Len(answers) \in Nat \ {0}
    BY <1>0, <2>1, EmptySeq, LenProperties
  <2>5. Len(commands) = 0 /\ line = NoLine
    <3> DEFINE w == IF line = NoLine THEN 0 ELSE 1
    <3>1. w \in {0, 1} /\ (w = 0 => line = NoLine)
      OBVIOUS
    <3>2. Len(commands) + Len(answers) + w = 1
      BY <2>3
    <3> HIDE DEF w
    <3> QED
      BY <2>4, <3>1, <3>2
  <2>6. commands = <<>>
    BY <1>0, <2>5, EmptySeq
  <2>7. NoLine.number = 0
    BY DEF NoLine, Line
  <2>8. server # "answering"
    BY <2>5, <2>7 DEF Works
  <2> QED
    BY <2>1, <2>2, <2>6, <2>8
<1>5. CASE Stop
  <2>1. /\ pc = "idle" /\ pc' = pc /\ stops' = stops + 1 /\ Alive
        /\ commands' = Append(commands, Line(sent + 1, "stop", asked))
        /\ UNCHANGED <<answers, server, sigpipe, late, crashed>>
    BY <1>5 DEF Stop, other, history
  <2> SUFFICES ASSUME Undisturbed' PROVE Stopping' /\ Quiet'
    OBVIOUS
  <2>2. Undisturbed
    BY <2>1
  <2>3. stops' # 0
    BY <1>0, <2>1
  <2> DEFINE l == Line(sent + 1, "stop", asked)
  <2>4. l \in Lines /\ l.kind = "stop"
    BY <1>0, <1>5, DebconfAssumption DEF Stop, TypeOK, Line, Lines
  <2> HIDE DEF l
  <2>5. commands' = Append(commands, l)
    BY <2>1 DEF l
  <2>6. CASE stops > 0
    <3>1. commands # <<>> /\ commands[1].kind = "stop"
      BY <2>2, <2>6
    <3>2. commands' # <<>> /\ commands'[1] = commands[1]
      BY <1>0, <2>4, <2>5, <3>1, AppendProperties, EmptySeq
    <3> QED
      BY <2>1, <2>2, <2>3, <2>6, <3>1, <3>2
  <2>7. CASE stops = 0
    <3>1. Len(commands) + Len(answers) + (IF line = NoLine THEN 0 ELSE 1) = 0
      BY <2>1, <2>2, <2>7 DEF Pending, OnTheirWay
    <3>2. Len(commands) \in Nat /\ Len(answers) \in Nat
      BY <1>0, LenProperties
    <3>3. Len(commands) = 0 /\ Len(answers) = 0 /\ line = NoLine
      BY <3>1, <3>2
    <3>4. commands = <<>> /\ answers = <<>>
      BY <1>0, <3>3, EmptySeq
    <3>7. NoLine.number = 0
      BY DEF NoLine, Line
    <3>8. server # "answering"
      BY <3>3, <3>7 DEF Works
    <3>9. server # "finish"
      BY <2>1, <2>7 DEF ServerServes, Writing
    <3>10. ~crashed
      BY <2>2
    <3>5. server = "reading"
      BY <2>1, <3>8, <3>9, <3>10 DEF ServerServes, Writing
    <3>6. commands' # <<>> /\ commands'[1] = l
      BY <2>4, <2>5, <3>4
    <3> QED
      BY <2>1, <2>3, <2>4, <3>4, <3>5, <3>6
  <2> QED
    BY <1>0, <2>6, <2>7
<1>6. CASE ServerReads
  <2>1. /\ server = "reading" /\ commands # <<>> /\ line' = Head(commands)
        /\ sigpipe' = (sigpipe /\ line'.kind # "stop")
        /\ UNCHANGED <<client, history>>
    BY <1>6 DEF ServerReads
  <2>2. line' = commands[1]
    BY <1>0, <2>1
  <2> SUFFICES ASSUME Undisturbed' PROVE Stopping' /\ Quiet'
    OBVIOUS
  <2>3. Undisturbed /\ commands[1].kind # "stop"
    BY <2>1, <2>2 DEF client, history
  <2>4. stops = 0 /\ InCommand
    BY <1>0, <2>1, <2>3
  <2> QED
    BY <2>1, <2>4 DEF client, history, InCommand
<1>7. CASE ServerAnswers
  <2>1. server = "answering" /\ UNCHANGED <<client, sigpipe, history>>
    BY <1>7 DEF ServerAnswers
  <2> SUFFICES ASSUME Undisturbed' PROVE Stopping' /\ Quiet'
    OBVIOUS
  <2>2. Undisturbed
    BY <2>1 DEF client, history
  <2>3. stops = 0 /\ InCommand
    BY <1>0, <2>1, <2>2
  <2> QED
    BY <2>1, <2>3 DEF client, history, InCommand
<1>8. CASE ServerAlone
  <2>1. /\ UNCHANGED <<client, commands, answers, sigpipe, late, stops>>
        /\ \/ server = "reading" /\ commands = <<>> /\ crashed' = crashed
              /\ server' = (IF communicator THEN "saving" ELSE "finish")
           \/ server = "finish" /\ server' = "saving" /\ crashed' = crashed
           \/ server = "saving" /\ server' = "exited" /\ crashed' = crashed
           \/ crashed' = TRUE
    BY <1>8, ServerAloneKeeps
  <2> QED
    BY <2>1 DEF client, InCommand
<1>9. CASE UNCHANGED vars
  BY <1>9 DEF vars, mode, pipes, other, helpers, history, InCommand
<1> QED
  BY <1>1, <1>2, <1>3, <1>4, <1>5, <1>6, <1>7, <1>8, <1>9, Steps
-----------------------------------------------------------------------------
(* Whose answer a command takes.                                           *)

\* How many lines are on their way.
LEMMA LineCounts ==
  ASSUME NEW c \in Seq(Lines), NEW a \in Seq(Answers), NEW l, NEW o,
         o = Len(c) + Len(a) + (IF l = NoLine THEN 0 ELSE 1)
  PROVE  /\ Len(c) \in Nat /\ Len(a) \in Nat /\ o \in Nat
         /\ l = NoLine => o = Len(c) + Len(a)
         /\ l # NoLine => o = Len(c) + Len(a) + 1
<1>1. Len(c) \in Nat /\ Len(a) \in Nat
  BY LenProperties
<1> QED
  BY <1>1

\* Sums that come up below.
LEMMA Sums ==
  ASSUME NEW s \in Int, NEW k \in Int, NEW d \in Int, NEW n \in Int
  PROVE  /\ s - k + n = (s + d) - (k + d) + n
         /\ s - k + (n + 1) = s - (k - 1) + n
         /\ s - k + 1 = s - (k - 1)
         /\ s + n = (s + d) - (k + d) + (k + n)
OBVIOUS

\* What is on its way keeps its order, and a command takes the oldest answer.
LEMMA NextOrder ==
  ASSUME TypeOK, TypeOK', Works, Works', Says, ServerServes, Order, Pending,
         Owned, [Next]_vars
  PROVE  Order' /\ Pending' /\ Owned'
<1>0. /\ commands \in Seq(Lines) /\ answers \in Seq(Answers)
      /\ commands' \in Seq(Lines) /\ answers' \in Seq(Answers)
      /\ sent \in Nat /\ late \in Nat /\ stops \in Nat
      /\ got.own \in Nat /\ got.line \in Nat /\ got.late \in Nat
  <2>1. MaxLines \in Nat /\ got \in Answered
    BY DebconfAssumption DEF TypeOK
  <2> QED
    BY <2>1 DEF TypeOK, Answered
<1>1. NoLine.number = 0
  BY DEF NoLine, Line
<1>2. /\ OnTheirWay = Len(commands) + Len(answers)
                         + (IF line = NoLine THEN 0 ELSE 1)
      /\ OnTheirWay' = Len(commands') + Len(answers')
                         + (IF line' = NoLine THEN 0 ELSE 1)
  BY DEF OnTheirWay, NoLine, Line
<1>3. PICK C, A, O, C1, A1, O1 :
        /\ C = Len(commands) /\ A = Len(answers) /\ O = OnTheirWay
        /\ C1 = Len(commands') /\ A1 = Len(answers') /\ O1 = OnTheirWay'
  OBVIOUS
<1>4. /\ C \in Nat /\ A \in Nat /\ O \in Nat
      /\ line = NoLine => O = C + A
      /\ line # NoLine => O = C + A + 1
      /\ C1 \in Nat /\ A1 \in Nat /\ O1 \in Nat
      /\ line' = NoLine => O1 = C1 + A1
      /\ line' # NoLine => O1 = C1 + A1 + 1
  BY <1>0, <1>2, <1>3, LineCounts
<1>5. InClient =>
        /\ \A n \in 1 .. A : answers[n].number = sent - O + n
        /\ line # NoLine => line.number = sent - C
        /\ \A n \in 1 .. C : commands[n].number = sent - C + n
  BY <1>3, Zenon DEF Order
<1>6. /\ pc = "idle" /\ Alive => O = late + stops
      /\ InCommand => /\ O = late + stops + 1
                      /\ sent - (late + stops) = got.own - got.late
  BY <1>3, Zenon DEF Pending
<1>7. ASSUME InClient' =>
               /\ \A n \in 1 .. A1 : answers'[n].number = sent' - O1 + n
               /\ line' # NoLine => line'.number = sent' - C1
               /\ \A n \in 1 .. C1 : commands'[n].number = sent' - C1 + n
      PROVE  Order'
  BY <1>3, <1>7 DEF Order, NoLine, Line
<1>8. ASSUME pc' = "idle" /\ Alive' => O1 = late' + stops',
             InCommand' => /\ O1 = late' + stops' + 1
                           /\ sent' - (late' + stops') = got'.own - got'.late
      PROVE  Pending'
  BY <1>3, <1>8, Zenon DEF Pending
<1> USE DEF InClient, InCommand
<1>9. ASSUME NEW kind \in Kinds, NEW lines \in 1 .. 2, Write(kind, lines)
      PROVE  Order' /\ Pending' /\ Owned'
  <2>0. PICK more : Written(kind, lines, more)
    BY <1>9, WriteDoes, Zenon
  <2>1. /\ more \in Seq(Lines) /\ Len(more) = lines
        /\ commands' = commands \o more
        /\ \A n \in 1 .. lines :
             more[n] = Line(sent + n, IF n = 1 THEN kind ELSE "get", asked)
        /\ sent' = sent + lines
        /\ late' = late + lines - 1
        /\ got' = [own |-> sent + 1, late |-> late + stops, line |-> 0,
                   asked |-> FALSE, value |-> <<>>, data |-> <<>>]
        /\ pc = "idle" /\ pc' = "reading" /\ Alive
        /\ UNCHANGED <<answers, other, stops>>
    BY <2>0, Zenon DEF Written
  <2>2. /\ line' = line /\ answers' = answers /\ stops' = stops
        /\ C1 = C + lines /\ A1 = A /\ O1 = O + lines
        /\ \A n \in 1 .. C : commands'[n] = commands[n]
        /\ \A n \in 1 .. lines : commands'[C + n] = more[n]
    <3>1. line' = line /\ answers' = answers /\ stops' = stops
      BY <2>1 DEF other
    <3>2. /\ Len(commands') = Len(commands) + Len(more)
          /\ \A n \in 1 .. Len(commands) : commands'[n] = commands[n]
          /\ \A n \in 1 .. Len(more) :
                commands'[Len(commands) + n] = more[n]
      BY <1>0, <2>1, ConcatProperties
    <3>3. C1 = C + lines /\ A1 = A
      BY <1>3, <2>1, <3>1, <3>2
    <3> QED
      BY <1>3, <1>4, <2>1, <3>1, <3>2, <3>3
  <2>3. \A n \in 1 .. lines : more[n].number = sent + n
    BY <2>1 DEF Line
  <2>4. \A n \in 1 .. C1 : commands'[n].number = sent' - C1 + n
    <3> SUFFICES ASSUME NEW n \in 1 .. C1
                 PROVE  commands'[n].number = sent' - C1 + n
      OBVIOUS
    <3>1. CASE n \in 1 .. C
      <4>1. commands'[n].number = sent - C + n
        BY <1>5, <2>1, <2>2, <3>1
      <4>2. sent - C + n = (sent + lines) - (C + lines) + n
        BY <1>0, <1>4, Sums
      <4> QED
        BY <2>1, <2>2, <4>1, <4>2, Zenon
    <3>2. CASE n \notin 1 .. C
      <4>1. PICK k \in 1 .. lines : n = C + k
        <5>1. n - C \in 1 .. lines /\ n = C + (n - C)
          BY <1>4, <2>2, <3>2
        <5> QED
          BY <5>1
      <4>2. commands'[n].number = sent + k
        BY <2>2, <2>3, <4>1
      <4>3. sent + k = (sent + lines) - (C + lines) + (C + k)
        BY <1>0, <1>4, Sums
      <4> QED
        BY <2>1, <2>2, <4>1, <4>2, <4>3, Zenon
    <3> QED
      BY <3>1, <3>2
  <2>5. \A n \in 1 .. A1 : answers'[n].number = sent' - O1 + n
    BY <1>0, <1>4, <1>5, <2>1, <2>2
  <2>6. line' # NoLine => line'.number = sent' - C1
    BY <1>0, <1>4, <1>5, <2>1, <2>2
  <2>7. Order'
    BY <1>7, <2>4, <2>5, <2>6
  <2>8. O1 = late' + stops' + 1
    BY <1>0, <1>4, <1>6, <2>1, <2>2
  <2>9. got'.own = sent + 1 /\ got'.late = late + stops /\ got'.line = 0
    BY <2>1
  <2>10. sent' - (late' + stops') = got'.own - got'.late
    BY <1>0, <2>1, <2>2, <2>9
  <2>11. Pending'
    BY <1>8, <2>1, <2>8, <2>10
  <2> QED
    BY <2>7, <2>9, <2>11 DEF Owned
<1>10. ASSUME UNCHANGED <<commands, answers, line, sent, late, stops, got>>,
              InClient' => InClient, InCommand' => InCommand,
              pc' = "idle" /\ Alive' => pc = "idle" /\ Alive
       PROVE  Order' /\ Pending' /\ Owned'
  <2>1. C1 = C /\ A1 = A /\ O1 = O
    BY <1>2, <1>3, <1>10
  <2>2. Order'
    BY <1>5, <1>7, <1>10, <2>1
  <2>3. Pending'
    BY <1>6, <1>8, <1>10, <2>1
  <2> QED
    BY <1>10, <2>2, <2>3 DEF Owned
<1>11. CASE Alone
  <2>1. UNCHANGED <<commands, answers, line, sent, late, stops, got>>
    BY <1>11, AloneKeeps
  <2>2. (InClient' => InClient) /\ (InCommand' => InCommand)
    BY <1>11, AloneMoves
  <2>3. pc' = "idle" /\ Alive' => pc = "idle" /\ Alive
    BY <1>11, AloneMoves DEF Alive
  <2> QED
    BY <1>10, <2>1, <2>2, <2>3
<1>12. CASE ReadFails
  <2>1. /\ pc = "reading" /\ pc' \in {"idle", "deleting"}
        /\ late' = late + 1
        /\ UNCHANGED <<commands, answers, line, sent, stops, got>>
    BY <1>12 DEF ReadFails, Raise, pipes, other
  <2>2. C1 = C /\ A1 = A /\ O1 = O
    BY <1>2, <1>3, <2>1
  <2>3. Order'
    BY <1>5, <1>7, <2>1, <2>2
  <2>4. Pending'
    BY <1>0, <1>4, <1>6, <1>8, <2>1, <2>2
  <2> QED
    BY <2>1, <2>3, <2>4 DEF Owned
<1>13. CASE ReadAnswer
  <2>1. /\ pc = "reading" /\ pc' \in {"idle", "deleting"}
        /\ answers # <<>> /\ answers' = Tail(answers)
        /\ got'.own = got.own /\ got'.late = got.late
        /\ got'.line = Head(answers).number
        /\ UNCHANGED <<commands, line, sent, late, stops>>
    BY <1>13 DEF ReadAnswer, Raise, other, history
  <2>2. /\ A >= 1 /\ C1 = C /\ A1 = A - 1 /\ Head(answers) = answers[1]
        /\ \A n \in 1 .. A1 : answers'[n] = answers[n + 1]
    BY <1>0, <1>3, <1>4, <2>1, HeadTailProperties, EmptySeq
  <2>3. O1 = O - 1
    BY <1>4, <2>1, <2>2
  <2>4. Order'
    <3>1. \A n \in 1 .. A1 : n + 1 \in 1 .. A
      BY <1>4, <2>2
    <3>2. \A n \in 1 .. A1 : answers'[n].number = sent - O + (n + 1)
      BY <1>5, <2>1, <2>2, <3>1
    <3>3. \A n \in 1 .. A1 : answers'[n].number = sent' - O1 + n
      <4>1. \A n \in 1 .. A1 : sent - O + (n + 1) = sent - (O - 1) + n
        BY <1>0, <1>4, Sums
      <4> QED
        BY <2>1, <2>3, <3>2, <4>1
    <3> QED
      BY <1>5, <1>7, <2>1, <2>2, <3>3
  <2>5. Pending'
    BY <1>0, <1>4, <1>6, <1>8, <2>1, <2>3
  <2>6. answers[1].number = sent - O + 1
    BY <1>4, <1>5, <2>1, <2>2
  <2>7. got'.own - got'.line = got'.late
    BY <1>0, <1>4, <1>6, <2>1, <2>2, <2>6
  <2> QED
    BY <2>4, <2>5, <2>7 DEF Owned
<1>14. CASE Stop
  <2> DEFINE l == Line(sent + 1, "stop", asked)
  <2>1. /\ pc = "idle" /\ pc' = pc /\ Alive
        /\ commands' = Append(commands, l)
        /\ sent' = sent + 1 /\ stops' = stops + 1
        /\ UNCHANGED <<answers, line, late, got>>
    BY <1>14 DEF Stop, other
  <2>2. l.number = sent + 1
    BY DEF Line
  <2>7. l \in Lines
    BY <1>14, DebconfAssumption DEF Stop, TypeOK, Line, Lines
  <2> HIDE DEF l
  <2>3. /\ C1 = C + 1 /\ A1 = A /\ O1 = O + 1
        /\ \A n \in 1 .. C : commands'[n] = commands[n]
        /\ commands'[C + 1] = l
    <3>1. /\ Len(commands') = Len(commands) + 1
          /\ \A n \in 1 .. Len(commands) : commands'[n] = commands[n]
          /\ commands'[Len(commands) + 1] = l
      BY <1>0, <2>1, <2>7, AppendProperties
    <3>2. C1 = C + 1 /\ A1 = A
      BY <1>3, <2>1, <3>1
    <3> QED
      BY <1>3, <1>4, <2>1, <3>1, <3>2
  <2>8. \A n \in Nat : sent - C + n = sent' - C1 + n
    <3>1. \A n \in Nat : sent - C + n = (sent + 1) - (C + 1) + n
      BY <1>0, <1>4, Sums
    <3> QED
      BY <2>1, <2>3, <3>1, Zenon
  <2>9. \A n \in Nat : sent - O + n = sent' - O1 + n
    <3>1. \A n \in Nat : sent - O + n = (sent + 1) - (O + 1) + n
      BY <1>0, <1>4, Sums
    <3> QED
      BY <2>1, <2>3, <3>1, Zenon
  <2>10. sent - C = sent' - C1
    BY <1>0, <1>4, <2>1, <2>3
  <2>4. \A n \in 1 .. C1 : commands'[n].number = sent' - C1 + n
    <3> SUFFICES ASSUME NEW n \in 1 .. C1
                 PROVE  commands'[n].number = sent' - C1 + n
      OBVIOUS
    <3>1. CASE n \in 1 .. C
      <4>1. commands'[n].number = sent - C + n
        BY <1>5, <2>1, <2>3, <3>1
      <4> QED
        BY <2>8, <4>1
    <3>2. CASE n = C + 1
      <4>1. sent - C + (C + 1) = sent + 1 /\ C + 1 \in Nat
        BY <1>0, <1>4
      <4>2. sent - C + (C + 1) = sent' - C1 + (C + 1)
        BY <2>8, <4>1, Zenon
      <4> QED
        BY <2>2, <2>3, <3>2, <4>1, <4>2
    <3> QED
      BY <1>4, <2>3, <3>1, <3>2
  <2>11. \A n \in 1 .. A1 : answers'[n].number = sent' - O1 + n
    BY <1>5, <2>1, <2>3, <2>9
  <2>12. line' # NoLine => line'.number = sent' - C1
    BY <1>5, <2>1, <2>10
  <2>5. Order'
    BY <1>7, <2>4, <2>11, <2>12
  <2>6. Pending'
    BY <1>0, <1>4, <1>6, <1>8, <2>1, <2>3
  <2> QED
    BY <2>1, <2>5, <2>6 DEF Owned
<1>15. CASE ServerReads
  <2>1. /\ server = "reading" /\ line = NoLine /\ commands # <<>>
        /\ line' = Head(commands) /\ commands' = Tail(commands)
        /\ UNCHANGED <<pc, sent, answers, late, stops, got>>
    BY <1>15 DEF ServerReads, Works, client, history
  <2>2. /\ C >= 1 /\ A1 = A /\ C1 = C - 1 /\ line' = commands[1]
        /\ commands[1] \in Lines
        /\ \A n \in 1 .. C1 : commands'[n] = commands[n + 1]
    BY <1>0, <1>3, <1>4, <2>1, HeadTailProperties, EmptySeq
  <2>3. line' # NoLine
    BY <1>1, <2>2, DebconfAssumption DEF Lines
  <2>4. O1 = O
    BY <1>4, <2>1, <2>2, <2>3
  <2>5. Order'
    <3> SUFFICES ASSUME InClient PROVE Order'
      BY <1>7, <2>1
    <3>1. line'.number = sent' - C1
      BY <1>0, <1>4, <1>5, <2>1, <2>2
    <3>2. \A n \in 1 .. C1 : n + 1 \in 1 .. C
      BY <1>4, <2>2
    <3>3. \A n \in 1 .. C1 : commands'[n].number = sent - C + (n + 1)
      BY <1>5, <2>2, <3>2
    <3>4. \A n \in 1 .. C1 : commands'[n].number = sent' - C1 + n
      <4>1. \A n \in 1 .. C1 : sent - C + (n + 1) = sent - (C - 1) + n
        BY <1>0, <1>4, Sums
      <4> QED
        BY <2>1, <2>2, <3>3, <4>1
    <3> QED
      BY <1>5, <1>7, <2>1, <2>2, <2>4, <3>1, <3>4
  <2>6. Pending'
    BY <1>6, <1>8, <2>1, <2>4 DEF Alive
  <2> QED
    BY <2>1, <2>5, <2>6 DEF Owned
<1>16. CASE ServerAnswers
  <2>1. /\ server = "answering" /\ line' = NoLine
        /\ UNCHANGED <<pc, sent, commands, late, stops, got>>
    BY <1>16 DEF ServerAnswers, client, history
  <2>2. line # NoLine
    BY <1>1, <2>1, DebconfAssumption DEF Works
  <2>3. CASE ReaderOpen
    <3>1. PICK a \in GoodAnswers : /\ answers' = Append(answers, a)
                                   /\ a.number = line.number
      BY <1>16, <2>1, <2>3, AnswerIsGood DEF ServerAnswers
    <3>6. a \in Answers
      BY DEF GoodAnswers
    <3>2. /\ C1 = C /\ A1 = A + 1 /\ O1 = O
          /\ \A n \in 1 .. A : answers'[n] = answers[n]
          /\ answers'[A + 1] = a
      BY <1>0, <1>3, <1>4, <2>1, <2>2, <3>1, <3>6, AppendProperties
    <3>3. Order'
      <4> SUFFICES ASSUME InClient PROVE Order'
        BY <1>7, <2>1
      <4>1. a.number = sent - O + (A + 1)
        BY <1>0, <1>4, <1>5, <2>2, <3>1
      <4>2. \A n \in 1 .. A1 : n \in 1 .. A \/ n = A + 1
        BY <1>4, <3>2
      <4>3. \A n \in 1 .. A1 : answers'[n].number = sent - O + n
        BY <1>5, <3>2, <4>1, <4>2
      <4> QED
        BY <1>5, <1>7, <2>1, <3>2, <4>3
    <3>4. Pending'
      BY <1>6, <1>8, <2>1, <3>2 DEF Alive
    <3> QED
      BY <2>1, <3>3, <3>4 DEF Owned
  <2>4. CASE ~ReaderOpen
    <3>1. ~InClient'
      BY <2>1, <2>4 DEF ReaderOpen, WriterOpen
    <3> QED
      BY <1>7, <1>8, <2>1, <3>1 DEF Owned
  <2> QED
    BY <2>3, <2>4
<1>17. CASE ServerAlone
  <2>1. /\ UNCHANGED <<pc, sent, commands, answers, line, late, stops, got>>
        /\ Alive' => Alive
    BY <1>17, ServerAloneKeeps DEF client, Alive
  <2> QED
    BY <1>10, <2>1
<1>18. CASE UNCHANGED vars
  BY <1>10, <1>18 DEF vars, pipes, other, history, Alive
<1> QED
  BY <1>9, <1>11, <1>12, <1>13, <1>14, <1>15, <1>16, <1>17, <1>18, Steps

\* What a command takes is what the other end was asked for.
LEMMA NextValues ==
  ASSUME TypeOK, Says, ValuesComeBack, [Next]_vars
  PROVE  ValuesComeBack'
<1>1. ASSUME got' = got PROVE ValuesComeBack'
  BY <1>1 DEF ValuesComeBack
<1>2. ASSUME NEW kind \in Kinds, NEW lines \in 1 .. 2, Write(kind, lines)
      PROVE  ValuesComeBack'
  <2>1. PICK more : Written(kind, lines, more)
    BY <1>2, WriteDoes, Zenon
  <2>2. got' = [own |-> sent + 1, late |-> late + stops, line |-> 0,
                asked |-> FALSE, value |-> <<>>, data |-> <<>>]
    BY <2>1, Zenon DEF Written
  <2>3. got'.asked = FALSE /\ got'.value = <<>> /\ got'.data = <<>>
    BY <2>2
  <2> QED
    BY <2>3, FirstLineOfNone, Zenon DEF ValuesComeBack
<1>3. CASE ReadAnswer
  <2>1. Head(answers) \in GoodAnswers
    BY <1>3, HeadTailProperties DEF ReadAnswer, Says
  <2>2. PICK a \in GoodAnswers : a = Head(answers)
    BY <2>1
  <2>3. got' = [own |-> got.own, late |-> got.late, line |-> a.number,
                asked |-> a.asked, value |-> a.value, data |-> Made(a)]
    BY <1>3, <2>2 DEF ReadAnswer, Made
  <2>4. got'.asked = a.asked /\ got'.value = a.value /\ got'.data = Made(a)
    BY <2>3
  <2>5. Made(a) = IF a.asked THEN a.value ELSE FirstLine(a.value)
    <3>1. Made(a) = Whole(a)
      BY DEF GoodAnswers
    <3> QED
      BY <3>1, Zenon DEF Whole
  <2> QED
    BY <2>4, <2>5, Zenon DEF ValuesComeBack
<1>4. CASE Alone \/ ReadFails \/ Stop \/ ServerReads \/ ServerAnswers
           \/ ServerAlone \/ UNCHANGED vars
  <2>1. got' = got
    BY <1>4, AloneKeeps, ServerAloneKeeps
       DEF ReadFails, Stop, ServerReads, ServerAnswers, client, vars
  <2> QED
    BY <1>1, <2>1
<1> QED
  BY <1>2, <1>3, <1>4, Steps
-----------------------------------------------------------------------------
(* The theorems.                                                           *)

\* The invariant is inductive.
THEOREM Inductive == Spec => []IInv
<1>1. IInv /\ [Next]_vars => IInv'
  <2> SUFFICES ASSUME IInv, [Next]_vars PROVE IInv'
    OBVIOUS
  <2>0. /\ TypeOK /\ Works /\ Turns /\ Says /\ StopsSent /\ ServerServes
        /\ Closings /\ ServerEnds /\ Order /\ Pending /\ Owned /\ Stopping
        /\ Quiet /\ ValuesComeBack
    BY Zenon DEF IInv
  <2>1. TypeOK' /\ Works' /\ Says'
    BY <2>0, NextTyped, Zenon
  <2>2. Turns' /\ StopsSent'
    BY <2>0, NextTurns, NextStops, Zenon
  <2>3. ServerServes' /\ Closings' /\ ServerEnds'
    BY <2>0, NextEnds, Zenon
  <2>4. Stopping' /\ Quiet'
    BY <2>0, NextQuiet, Zenon
  <2>5. Order' /\ Pending' /\ Owned'
    BY <2>0, <2>1, NextOrder, Zenon
  <2>6. ValuesComeBack'
    BY <2>0, NextValues, Zenon
  <2> QED
    BY <2>1, <2>2, <2>3, <2>4, <2>5, <2>6, Zenon DEF IInv
<1> QED
  BY <1>1, InitInv, PTL DEF Spec

\* The variables keep their types, for any number of lines and any values.
THEOREM TypeCorrect == Spec => []TypeOK
<1>1. IInv => TypeOK
  BY Zenon DEF IInv
<1> QED
  BY <1>1, Inductive, PTL

\* The answer a command takes is older than its own by exactly the lines that
\* newlines in parameters and stop() have added before it and the answers that
\* earlier commands have left unread, when readline() raised anything but
\* EINTR; between two commands just these are on their way.  Where nothing of
\* the kind has happened the answer is the command's own, whatever signals,
\* errors and bad answers there were (debconf.py:64-102).
THEOREM OwnAnswers == Spec => []AnswersAreOwn
<1>1. IInv => AnswersAreOwn
  <2> SUFFICES ASSUME IInv PROVE AnswersAreOwn
    OBVIOUS
  <2>1. Owned /\ Pending /\ ServerServes
    BY Zenon DEF IInv
  <2>2. pc = "idle" /\ ~crashed => Alive
    BY <2>1 DEF ServerServes, Writing, Alive
  <2> QED
    BY <2>1, <2>2 DEF AnswersAreOwn, Owned, Pending
<1> QED
  BY <1>1, Inductive, PTL

\* A value of any length comes back whole, through the other end's escape()
\* and the client's unescape, if the last capb line before the command asked
\* for escape, however many commands are on their way; otherwise what comes
\* back is its first line (debconf.py:51-57, 78-98, ConfModule.pm:82-87,
\* 137-141, 326-344).
THEOREM ValuesReturned == Spec => []ValuesComeBack
<1>1. IInv => ValuesComeBack
  BY Zenon DEF IInv
<1> QED
  BY <1>1, Inductive, PTL

\* shutdown() returns only with the child reaped, and that one has saved the
\* answers, unless somebody killed it, a parameter had a newline, or an answer
\* was left unread; __del__ gives up on a child only if that one had been
\* killed before (debconf.py:134-146).
THEOREM ChildReaped == Spec => []ChildIsReaped
<1>1. IInv => ChildIsReaped
  <2>1. IInv => Closings /\ ServerEnds
    BY Zenon DEF IInv
  <2> QED
    BY <2>1 DEF Closings, ServerEnds, ChildIsReaped
<1> QED
  BY <1>1, Inductive, PTL
=============================================================================
