----------------------------- MODULE BundleProofs -----------------------------
(***************************************************************************)
(* The layout of bundles, for any number of files of any size, and what    *)
(* its writer and its reader make of it.                                   *)
(***************************************************************************)
EXTENDS Bundle, SequenceTheorems, FiniteSetTheorems, WellFoundedInduction, TLAPS

-----------------------------------------------------------------------------
(***************************************************************************)
(* Induction and recursion over the numbers, for sets and functions.       *)
(***************************************************************************)
LEMMA Induction ==
  ASSUME NEW S, 0 \in S, \A n \in Nat \cap S : n + 1 \in S
  PROVE  Nat \subseteq S
<1> DEFINE R == OpToRel(<, Nat)  T == Nat \ S
<1> SUFFICES ASSUME T # {} PROVE FALSE
  OBVIOUS
<1>1. PICK m \in T : \A y \in T : <<y, m>> \notin R
  <2>1. IsWellFoundedOn(R, Nat)
    BY NatLessThanWellFounded
  <2>2. T \subseteq Nat /\ T # {}
    OBVIOUS
  <2> HIDE DEF R, T
  <2> QED BY <2>1, <2>2, WFMin
<1>2. m \in Nat /\ m # 0 /\ m - 1 \in Nat
  OBVIOUS
<1>3. <<m - 1, m>> \in R
  BY <1>2 DEF OpToRel
<1>4. m - 1 \in S
  BY <1>1, <1>2, <1>3
<1> QED BY <1>2, <1>4

\* A function can be built step by step up to any number.
LEMMA Recursion ==
  ASSUME NEW a \in Nat, NEW g \in [Nat \X Nat -> Nat]
  PROVE  \A n \in Nat : \E f \in [0 .. n -> Nat] : f[0] = a /\ \A i \in 0 .. n - 1 : f[i + 1] = g[<<i, f[i]>>]
<1> DEFINE Built(n) == \E f \in [0 .. n -> Nat] : f[0] = a /\ \A i \in 0 .. n - 1 : f[i + 1] = g[<<i, f[i]>>]
           N == {n \in Nat : Built(n)}
<1>1. Built(0)
  <2> DEFINE f == [i \in 0 .. 0 |-> a]
  <2>1. f \in [0 .. 0 -> Nat] /\ f[0] = a
    OBVIOUS
  <2>2. \A i \in 0 .. 0 - 1 : FALSE
    OBVIOUS
  <2> HIDE DEF f
  <2> QED BY <2>1, <2>2
<1>2. ASSUME NEW n \in Nat, Built(n)
      PROVE  Built(n + 1)
  <2>1. PICK f \in [0 .. n -> Nat] : f[0] = a /\ \A i \in 0 .. n - 1 : f[i + 1] = g[<<i, f[i]>>]
    BY <1>2
  <2> DEFINE h == [i \in 0 .. n + 1 |-> IF i = n + 1 THEN g[<<n, f[n]>>] ELSE f[i]]
  <2>2. h \in [0 .. n + 1 -> Nat]
    <3>1. g[<<n, f[n]>>] \in Nat
      OBVIOUS
    <3>2. \A i \in 0 .. n + 1 : i # n + 1 => f[i] \in Nat
      OBVIOUS
    <3> QED BY <3>1, <3>2
  <2>3. h[0] = a /\ \A i \in 0 .. n : h[i + 1] = g[<<i, h[i]>>]
    <3>1. h[0] = a
      BY <2>1
    <3>2. ASSUME NEW i \in 0 .. n PROVE h[i + 1] = g[<<i, h[i]>>]
      <4>1. h[i] = f[i]
        OBVIOUS
      <4>2. CASE i = n
        <5>1. h[n + 1] = g[<<n, f[n]>>]
          OBVIOUS
        <5> HIDE DEF h
        <5> QED BY <4>1, <4>2, <5>1
      <4>3. CASE i # n
        BY <2>1, <4>1, <4>3, SMTT(60)
      <4> QED BY <4>2, <4>3
    <3> QED BY <3>1, <3>2
  <2> HIDE DEF h
  <2>4. \A i \in 0 .. (n + 1) - 1 : h[i + 1] = g[<<i, h[i]>>]
    BY <2>3
  <2>5. h[0] = a
    BY <2>3
  <2>6. \E k \in [0 .. n + 1 -> Nat] : k[0] = a /\ \A i \in 0 .. (n + 1) - 1 : k[i + 1] = g[<<i, k[i]>>]
    BY <2>2, <2>4, <2>5
  <2> QED BY <2>6
<1> HIDE DEF Built
<1>3. 0 \in N /\ \A n \in Nat \cap N : n + 1 \in N
  BY <1>1, <1>2
<1>4. Nat \subseteq N
  BY <1>3, Induction
<1> QED BY <1>4 DEF Built

-----------------------------------------------------------------------------
(***************************************************************************)
(* Rounding up to the alignment.                                           *)
(***************************************************************************)
LEMMA AlignUpFacts ==
  ASSUME NEW x \in Nat
  PROVE  /\ AlignUp(x) \in Nat
         /\ x <= AlignUp(x) /\ AlignUp(x) < x + Align
         /\ AlignUp(x) % Align = 0
  BY BundleAssumption DEF AlignUp

LEMMA AlignUpMonotonic ==
  ASSUME NEW x \in Nat, NEW y \in Nat, x <= y
  PROVE  AlignUp(x) <= AlignUp(y)
  BY BundleAssumption DEF AlignUp

-----------------------------------------------------------------------------
(***************************************************************************)
(* The layout, as the recursive definitions compute it.                    *)
(***************************************************************************)
Entry == [path : Paths, n : Nat, sum : Seq(Nat), at : Nat, pathAt : Nat, pn : Nat]

LEMMA EntryFacts ==
  ASSUME NEW es \in Seq(Entry)
  PROVE  /\ Len(es) \in Nat
         /\ DOMAIN es = 1 .. Len(es)
         /\ \A i \in 1 .. Len(es) : /\ es[i] \in Entry
                                    /\ es[i].path \in Paths /\ es[i].sum \in Seq(Nat)
                                    /\ es[i].n \in Nat /\ es[i].pn \in Nat
                                    /\ es[i].at \in Nat /\ es[i].pathAt \in Nat
<1>1. Len(es) \in Nat /\ DOMAIN es = 1 .. Len(es) /\ \A i \in 1 .. Len(es) : es[i] \in Entry
  BY ElementOfSeq, LenProperties
<1>2. ASSUME NEW e \in Entry
      PROVE  /\ e.path \in Paths /\ e.sum \in Seq(Nat) /\ e.n \in Nat
             /\ e.pn \in Nat /\ e.at \in Nat /\ e.pathAt \in Nat
  BY DEF Entry
<1> QED BY <1>1, <1>2

LEMMA PathEnds ==
  ASSUME NEW es \in Seq(Entry)
  PROVE  /\ \A k \in 0 .. Len(es) : PathEnd(es, k) \in Nat
         /\ PathEnd(es, 0) = PathTable(Len(es))
         /\ \A k \in 1 .. Len(es) : PathEnd(es, k) = PathEnd(es, k - 1) + es[k].pn
<1> DEFINE n == Len(es)  a == PathTable(n)
           g == [p \in Nat \X Nat |-> IF p[1] < n THEN p[2] + es[p[1] + 1].pn ELSE 0]
<1>1. n \in Nat /\ a \in Nat /\ \A i \in 1 .. n : es[i].pn \in Nat
  <2>1. n \in Nat /\ \A i \in 1 .. n : es[i].pn \in Nat
    BY EntryFacts
  <2>2. n * EntrySize \in Nat
    BY <2>1, BundleAssumption
  <2> QED BY <2>1, <2>2, BundleAssumption, SMTT(60) DEF PathTable
<1>2. g \in [Nat \X Nat -> Nat]
  BY <1>1, SMTT(60)
<1>3. PICK f \in [0 .. n -> Nat] : f[0] = a /\ \A i \in 0 .. n - 1 : f[i + 1] = g[<<i, f[i]>>]
  <2> HIDE DEF a, g
  <2>1. \A m \in Nat : \E f \in [0 .. m -> Nat] : f[0] = a /\ \A i \in 0 .. m - 1 : f[i + 1] = g[<<i, f[i]>>]
    BY <1>1, <1>2, Recursion
  <2> HIDE DEF n
  <2> QED BY <1>1, <2>1
<1>4. f[0] = a /\ \A i \in 1 .. n : f[i] = f[i - 1] + es[i].pn
  <2>1. ASSUME NEW i \in 1 .. n PROVE f[i] = f[i - 1] + es[i].pn
    <3>1. i - 1 \in 0 .. n - 1 /\ f[i - 1] \in Nat /\ i - 1 + 1 = i
      BY <1>1, SMTT(60)
    <3>2. f[i] = g[<<i - 1, f[i - 1]>>]
      BY <1>3, <3>1
    <3> QED BY <3>1, <3>2
  <2> QED BY <1>3, <2>1
<1> HIDE DEF g, a
<1>5. ASSUME NEW k \in 0 .. n
      PROVE  PathEnd(es, k) = f[k]
  <2> DEFINE Rec(h) == h = [i \in 0 .. k |-> IF i = 0 THEN PathTable(Len(es)) ELSE h[i - 1] + es[i].pn]
             to == CHOOSE h : Rec(h)
  <2>1. Rec([i \in 0 .. k |-> f[i]])
    BY <1>1, <1>4 DEF a
  <2>2. Rec(to)
    <3> HIDE DEF Rec
    <3> QED BY <2>1
  <2>3. PathEnd(es, k) = to[k]
    BY DEF PathEnd
  <2> HIDE DEF to
  <2>4. to[0] = f[0] /\ \A i \in 1 .. k : to[i] = to[i - 1] + es[i].pn
    BY <1>4, <2>2 DEF a
  <2> HIDE DEF Rec
  <2> DEFINE S == {i \in Nat : i <= k => to[i] = f[i]}
  <2>5. 0 \in S /\ \A i \in Nat \cap S : i + 1 \in S
    <3>1. ASSUME NEW i \in Nat \cap S, i + 1 <= k PROVE to[i + 1] = f[i + 1]
      <4>1. i + 1 \in 1 .. k /\ i + 1 \in 1 .. n /\ i + 1 - 1 = i /\ to[i] = f[i]
        BY <1>1, <3>1
      <4> QED BY <4>1, <1>4, <2>4, SMTT(60)
    <3> QED BY <2>4, <3>1
  <2>6. Nat \subseteq S
    <3> HIDE DEF S
    <3> QED BY <2>5, Induction
  <2>7. k \in Nat /\ k <= k
    BY <1>1
  <2> QED BY <2>3, <2>6, <2>7
<1>6. \A k \in 1 .. n : k \in 0 .. n /\ k - 1 \in 0 .. n
  BY <1>1
<1>7. 0 \in 0 .. n
  BY <1>1
<1>8. \A k \in 0 .. n : PathEnd(es, k) \in Nat
  BY <1>5
<1>9. \A k \in 1 .. n : PathEnd(es, k) = PathEnd(es, k - 1) + es[k].pn
  BY <1>4, <1>5, <1>6
<1> QED BY <1>4, <1>5, <1>7, <1>8, <1>9 DEF a

LEMMA DataOffsets ==
  ASSUME NEW es \in Seq(Entry)
  PROVE  /\ \A k \in 1 .. Len(es) + 1 : DataOffset(es, k) \in Nat
         /\ DataOffset(es, 1) = AlignUp(PathEnd(es, Len(es)))
         /\ \A k \in 1 .. Len(es) : DataOffset(es, k + 1) = AlignUp(DataOffset(es, k) + es[k].n)
<1> DEFINE n == Len(es)  a == AlignUp(PathEnd(es, n))
           g == [p \in Nat \X Nat |-> IF p[1] < n THEN AlignUp(p[2] + es[p[1] + 1].n) ELSE 0]
<1>1. n \in Nat /\ a \in Nat /\ \A i \in 1 .. n : es[i].n \in Nat
  <2>1. n \in Nat /\ \A i \in 1 .. n : es[i].n \in Nat
    BY EntryFacts
  <2>2. PathEnd(es, n) \in Nat
    BY <2>1, PathEnds
  <2> QED BY <2>1, <2>2, AlignUpFacts
<1>2. g \in [Nat \X Nat -> Nat]
  <2>1. ASSUME NEW i \in Nat, NEW x \in Nat, i < n PROVE AlignUp(x + es[i + 1].n) \in Nat
    <3>1. es[i + 1].n \in Nat
      BY <1>1, <2>1
    <3>2. x + es[i + 1].n \in Nat
      BY <3>1
    <3> QED BY <3>2, AlignUpFacts
  <2> QED BY <2>1
<1>3. PICK f \in [0 .. n -> Nat] : f[0] = a /\ \A i \in 0 .. n - 1 : f[i + 1] = g[<<i, f[i]>>]
  <2> HIDE DEF a, g
  <2>1. \A m \in Nat : \E f \in [0 .. m -> Nat] : f[0] = a /\ \A i \in 0 .. m - 1 : f[i + 1] = g[<<i, f[i]>>]
    BY <1>1, <1>2, Recursion
  <2> HIDE DEF n
  <2> QED BY <1>1, <2>1
<1>4. f[0] = a /\ \A i \in 1 .. n : f[i] = AlignUp(f[i - 1] + es[i].n)
  <2>1. ASSUME NEW i \in 1 .. n PROVE f[i] = AlignUp(f[i - 1] + es[i].n)
    <3>1. i - 1 \in 0 .. n - 1 /\ f[i - 1] \in Nat /\ i - 1 + 1 = i
      BY <1>1, SMTT(60)
    <3>2. f[i] = g[<<i - 1, f[i - 1]>>]
      BY <1>3, <3>1
    <3> QED BY <3>1, <3>2
  <2> QED BY <1>3, <2>1
<1> HIDE DEF g, a
<1>5. ASSUME NEW k \in 1 .. n + 1
      PROVE  DataOffset(es, k) = f[k - 1]
  <2> DEFINE Rec(h) == h = [i \in 1 .. k |-> IF i = 1 THEN AlignUp(PathEnd(es, Len(es))) ELSE AlignUp(h[i - 1] + es[i - 1].n)]
             to == CHOOSE h : Rec(h)
  <2>1. Rec([i \in 1 .. k |-> f[i - 1]])
    <3> DEFINE h == [i \in 1 .. k |-> f[i - 1]]
    <3>1. \A i \in 1 .. k : h[i] = IF i = 1 THEN AlignUp(PathEnd(es, Len(es))) ELSE AlignUp(h[i - 1] + es[i - 1].n)
      <4> TAKE i \in 1 .. k
      <4>1. CASE i = 1
        BY <1>1, <1>4, <4>1 DEF a
      <4>2. CASE i # 1
        <5>1. i - 1 \in 1 .. n /\ i - 1 \in 1 .. k
          BY <1>1, <4>2
        <5>2. h[i] = f[i - 1] /\ h[i - 1] = f[i - 1 - 1]
          BY <5>1
        <5> QED BY <1>4, <4>2, <5>1, <5>2
      <4> QED BY <4>1, <4>2
    <3>2. h = [i \in 1 .. k |-> h[i]]
      OBVIOUS
    <3> HIDE DEF h
    <3> QED BY <3>1, <3>2, SMTT(60)
  <2>2. Rec(to)
    <3> HIDE DEF Rec
    <3> QED BY <2>1
  <2>3. DataOffset(es, k) = to[k]
    BY DEF DataOffset
  <2> HIDE DEF to
  <2>4. to[1] = f[0] /\ \A i \in 2 .. k : to[i] = AlignUp(to[i - 1] + es[i - 1].n)
    BY <1>1, <1>4, <2>2 DEF a
  <2> HIDE DEF Rec
  <2> DEFINE S == {i \in Nat : i + 1 <= k => to[i + 1] = f[i]}
  <2>5. 0 \in S /\ \A i \in Nat \cap S : i + 1 \in S
    <3>1. ASSUME NEW i \in Nat \cap S, i + 2 <= k PROVE to[i + 2] = f[i + 1]
      <4>1. i + 2 \in 2 .. k /\ i + 1 \in 1 .. n /\ to[i + 1] = f[i]
        BY <1>1, <3>1
      <4>2. i + 2 - 1 = i + 1 /\ i + 1 - 1 = i
        OBVIOUS
      <4>3. to[i + 2] = AlignUp(to[i + 1] + es[i + 1].n)
        BY <2>4, <4>1, <4>2
      <4>4. f[i + 1] = AlignUp(f[i] + es[i + 1].n)
        BY <1>4, <4>1, <4>2
      <4> QED BY <4>1, <4>3, <4>4
    <3> QED BY <2>4, <3>1
  <2>6. Nat \subseteq S
    <3> HIDE DEF S
    <3> QED BY <2>5, Induction
  <2>7. k - 1 \in Nat /\ k - 1 + 1 = k /\ k <= k
    BY <1>1
  <2> QED BY <2>3, <2>6, <2>7
<1>6. DataOffset(es, 1) = a
  <2>1. 1 \in 1 .. n + 1 /\ 1 - 1 = 0
    BY <1>1
  <2> QED BY <1>4, <1>5, <2>1
<1>7. ASSUME NEW k \in 1 .. n
      PROVE  DataOffset(es, k + 1) = AlignUp(DataOffset(es, k) + es[k].n)
  <2>1. k \in 1 .. n + 1 /\ k + 1 \in 1 .. n + 1 /\ k + 1 - 1 = k
    BY <1>1
  <2> QED BY <1>4, <1>5, <2>1
<1>8. ASSUME NEW k \in 1 .. n + 1 PROVE DataOffset(es, k) \in Nat
  BY <1>1, <1>5
<1> QED BY <1>6, <1>7, <1>8 DEF a

-----------------------------------------------------------------------------
(***************************************************************************)
(* Types.  An object that another program made is typed as it is read.     *)
(***************************************************************************)
HeadRecord == [count : Nat, data : Nat, size : Nat]

Typed ==
  /\ files \in [Paths -> Seq(Nat)]
  /\ request \in Seq(Paths)
  /\ source \in Seq(Entry)
  /\ (rpc # "none" /\ object # Foreign) =>
       /\ object.count \in Nat /\ object.data \in Nat /\ object.size \in Nat
       /\ object.dir \in Seq(Entry) /\ Len(object.dir) = object.count
  /\ rpc = "none" => object = None
  /\ head \in HeadRecord
  /\ dir \in Seq(Entry)

LEMMA InitTyped ==
  ASSUME Init
  PROVE  Typed
<1>1. files \in [Paths -> Seq(Nat)] /\ request \in Seq(Paths)
  BY BundleAssumption, EmptySeq DEF Init
<1>2. <<>> \in Seq(Entry)
  BY EmptySeq
<1>3. NoHead \in HeadRecord
  BY DEF NoHead, HeadRecord
<1> QED BY <1>1, <1>2, <1>3 DEF Init, NothingFound, Typed

\* A permutation of entries.
LEMMA OrderingFacts ==
  ASSUME NEW es \in Seq(Entry), NEW s \in Orderings(es)
  PROVE  /\ s \in Seq(Entry) /\ Len(s) = Len(es)
         /\ \A i, j \in 1 .. Len(es) : i < j => s[i].path <= s[j].path
         /\ \E p \in Bijection(1 .. Len(es), 1 .. Len(es)) : \A i \in 1 .. Len(es) : s[i] = es[p[i]]
<1>1. Len(es) \in Nat /\ DOMAIN es = 1 .. Len(es) /\ \A i \in 1 .. Len(es) : es[i] \in Entry
  BY EntryFacts
<1>2. PICK p \in Bijection(1 .. Len(es), 1 .. Len(es)) : s = [i \in 1 .. Len(es) |-> es[p[i]]]
  BY <1>1 DEF Orderings
<1>3. p \in [1 .. Len(es) -> 1 .. Len(es)]
  BY DEF Bijection, Injection
<1>4. s \in [1 .. Len(es) -> Entry]
  BY <1>1, <1>2, <1>3
<1>5. s \in Seq(Entry) /\ Len(s) = Len(es)
  BY <1>1, <1>4
<1>6. \A i, j \in 1 .. Len(es) : i < j => s[i].path <= s[j].path
  BY <1>1 DEF Orderings
<1> QED BY <1>2, <1>5, <1>6

LEMMA PlacedFacts ==
  ASSUME NEW es \in Seq(Entry)
  PROVE  /\ Placed(es) \in Seq(Entry) /\ Len(Placed(es)) = Len(es)
         /\ \A i \in 1 .. Len(es) :
              Placed(es)[i] = [es[i] EXCEPT !.at = DataOffset(es, i), !.pathAt = PathEnd(es, i - 1)]
<1> DEFINE n == Len(es)
<1>1. n \in Nat /\ \A i \in 1 .. n : es[i] \in Entry
  BY EntryFacts
<1>2. \A i \in 1 .. n : DataOffset(es, i) \in Nat /\ PathEnd(es, i - 1) \in Nat
  <2> TAKE i \in 1 .. n
  <2>1. i \in 1 .. n + 1 /\ i - 1 \in 0 .. n
    BY <1>1
  <2> QED BY <2>1, PathEnds, DataOffsets
<1>3. ASSUME NEW e \in Entry, NEW a \in Nat, NEW b \in Nat
      PROVE  [e EXCEPT !.at = a, !.pathAt = b] \in Entry
  BY DEF Entry
<1>4. \A i \in 1 .. n : [es[i] EXCEPT !.at = DataOffset(es, i), !.pathAt = PathEnd(es, i - 1)] \in Entry
  BY <1>1, <1>2, <1>3
<1>5. Placed(es) \in [1 .. n -> Entry]
  BY <1>4 DEF Placed
<1>6. Placed(es) \in Seq(Entry) /\ Len(Placed(es)) = n
  BY <1>1, <1>5
<1> QED BY <1>6 DEF Placed

LEMMA WriterTyped ==
  ASSUME Typed, OpenFile \/ Checksum \/ Layout \/ Change
  PROVE  Typed'
<1>1. CASE OpenFile
  <2> DEFINE p == request[Len(source) + 1]
             e == [path |-> p, n |-> Len(files[p]), sum |-> <<>>, at |-> 0, pathAt |-> 0, pn |-> PathSize[p]]
  <2>1. p \in Paths
    BY <1>1 DEF OpenFile, Typed
  <2>2. Len(files[p]) \in Nat /\ PathSize[p] \in Nat /\ <<>> \in Seq(Nat)
    <3>1. files[p] \in Seq(Nat)
      BY <2>1 DEF Typed
    <3>2. PathSize[p] \in 1 .. MaxPath /\ MaxPath \in Nat
      BY <2>1, BundleAssumption
    <3> QED BY <3>1, <3>2, EmptySeq, LenProperties
  <2>3. e \in Entry
    BY <2>1, <2>2 DEF Entry
  <2>4. source' = Append(source, e)
    BY <1>1 DEF OpenFile
  <2> HIDE DEF e
  <2>5. source' \in Seq(Entry)
    BY <2>3, <2>4 DEF Typed
  <2> QED BY <1>1, <2>5 DEF OpenFile, Typed, found
<1>2. CASE Checksum
  <2> DEFINE k == Len(source)  e == source[k]
  <2>1. CASE Readable(e, 0, e.n)
    <3>1. k \in 1 .. Len(source) \/ k = 0
      BY EntryFacts DEF Typed
    <3>2. CASE k \in 1 .. Len(source)
      <4>1. e \in Entry /\ e.n \in Nat /\ e.path \in Paths
        BY <3>2, EntryFacts DEF Typed
      <4>2. SubSeq(files[e.path], 1, e.n) \in Seq(Nat)
        <5>1. files[e.path] \in Seq(Nat)
          BY <4>1 DEF Typed
        <5>2. e.n <= Len(files[e.path])
          BY <2>1, <4>1 DEF Readable
        <5> HIDE DEF e
        <5> QED BY <4>1, <5>1, <5>2
      <4>3. FileBytes(e, 0, e.n) \in Seq(Nat)
        BY <4>1, <4>2 DEF FileBytes
      <4>4. [e EXCEPT !.sum = FileBytes(e, 0, e.n)] \in Entry
        BY <4>1, <4>3 DEF Entry
      <4>5. source' = [source EXCEPT ![k] = [e EXCEPT !.sum = FileBytes(e, 0, e.n)]]
        BY <1>2, <2>1 DEF Checksum
      <4>6. source' \in Seq(Entry)
        BY <3>2, <4>4, <4>5, ExceptSeq DEF Typed
      <4> QED BY <1>2, <2>1, <4>6 DEF Checksum, Typed, found
    <3>3. CASE k = 0
      <4>1. source' = source
        BY <1>2, <2>1, <3>3, EntryFacts DEF Checksum, Typed
      <4> QED BY <1>2, <2>1, <4>1 DEF Checksum, Typed, found
    <3> QED BY <3>1, <3>2, <3>3
  <2>2. CASE ~Readable(e, 0, e.n)
    BY <1>2, <2>2 DEF Checksum, GiveUp, writer, found, Typed
  <2> QED BY <2>1, <2>2
<1>3. CASE Layout
  <2>1. PICK sorted \in Orderings(source) :
          \/ source' = Placed(sorted) /\ UNCHANGED <<files, request, object, rpc, found>>
          \/ UNCHANGED <<files, request, source, object, rpc, found>>
    BY <1>3 DEF Layout, GiveUp, writer
  <2>2. source' \in Seq(Entry) /\ UNCHANGED <<files, request, object, rpc, found>>
    <3>1. sorted \in Seq(Entry)
      BY OrderingFacts DEF Typed
    <3>2. Placed(sorted) \in Seq(Entry)
      BY <3>1, PlacedFacts
    <3> QED BY <1>3, <2>1, <3>2 DEF Layout, Typed, GiveUp, writer, found
  <2> QED BY <2>2 DEF Typed, found
<1>4. CASE Change
  <2>1. files' \in [Paths -> Seq(Nat)]
    BY <1>4, BundleAssumption DEF Change, Typed
  <2> QED BY <1>4, <2>1 DEF Change, Typed, writer, found
<1> QED BY <1>1, <1>2, <1>3, <1>4

LEMMA SizesTyped ==
  ASSUME Typed
  PROVE  PrefixSize \in Nat /\ BundleSize \in Nat
<1>1. source \in Seq(Entry) /\ Len(source) \in Nat
  BY EntryFacts DEF Typed
<1>2. PathEnd(source, Len(source)) \in Nat /\ DataOffset(source, Len(source) + 1) \in Nat
  BY <1>1, PathEnds, DataOffsets
<1> QED BY <1>2, AlignUpFacts DEF PrefixSize, BundleSize

LEMMA CommitTyped ==
  ASSUME Typed, Commit
  PROVE  Typed'
<1> DEFINE o == [count |-> Len(source), data |-> PrefixSize, size |-> BundleSize, dir |-> source, bytes |-> second]
<1>1. CASE object' = o /\ rpc' = "header" /\ UNCHANGED <<files, request, source, head, dir>>
  <2>1. /\ o.count \in Nat /\ o.data \in Nat /\ o.size \in Nat
        /\ o.dir \in Seq(Entry) /\ Len(o.dir) = o.count
    BY SizesTyped, EntryFacts DEF Typed
  <2> HIDE DEF o
  <2> QED BY <1>1, <2>1 DEF Typed
<1>2. CASE UNCHANGED <<files, request, source, object, rpc, head, dir>>
  BY <1>2 DEF Typed
<1> QED BY <1>1, <1>2 DEF Commit, GiveUp, writer, found

\* The cursors of the reader, for any entry it has read.
LEMMA CursorsTyped ==
  ASSUME Typed, NEW k \in 1 .. Len(dir) + 1
  PROVE  PathCursor(k) \in Nat /\ DataCursor(k) \in Nat
<1>1. /\ Len(dir) \in Nat /\ head.count \in Nat /\ head.data \in Nat
      /\ \A i \in 1 .. Len(dir) : dir[i].pathAt \in Nat /\ dir[i].pn \in Nat /\ dir[i].at \in Nat /\ dir[i].n \in Nat
  BY EntryFacts DEF Typed, HeadRecord
<1>2. CASE k = 1
  <2>1. head.count * EntrySize \in Nat
    BY <1>1, BundleAssumption
  <2> QED BY <1>1, <1>2, <2>1, BundleAssumption DEF PathCursor, DataCursor, PathTable
<1>3. CASE k # 1
  <2>1. k - 1 \in 1 .. Len(dir)
    BY <1>1, <1>3
  <2>2. dir[k - 1].at + dir[k - 1].n \in Nat /\ dir[k - 1].pathAt + dir[k - 1].pn \in Nat
    <3> DEFINE d == dir[k - 1]
    <3>1. d.pathAt \in Nat /\ d.pn \in Nat /\ d.at \in Nat /\ d.n \in Nat
      BY <1>1, <2>1
    <3> HIDE DEF d
    <3>2. d.at + d.n \in Nat /\ d.pathAt + d.pn \in Nat
      BY <3>1, SMTT(60)
    <3> QED BY <3>2 DEF d
  <2> QED BY <1>3, <2>2, AlignUpFacts DEF PathCursor, DataCursor
<1> QED BY <1>2, <1>3

\* The entry that is read next, wherever it comes from.
LEMMA NextEntryTyped ==
  ASSUME Typed, rpc = "entries", Len(dir) < head.count, head.count = object.count \/ object = Foreign,
         NEW e \in Found(object.dir[Len(dir) + 1], ForeignEntries(Len(dir) + 1))
  PROVE  e \in Entry
<1> DEFINE k == Len(dir) + 1
<1>1. Len(dir) \in Nat /\ k \in 1 .. Len(dir) + 1
  BY EntryFacts DEF Typed
<1>2. CASE object = Foreign
  <2>1. PathCursor(k) \in Nat /\ DataCursor(k) \in Nat
    BY <1>1, CursorsTyped
  <2>2. Claims(PathCursor(k)) \subseteq Nat /\ Claims(DataCursor(k)) \subseteq Nat
    BY <2>1, BundleAssumption DEF Claims
  <2>3. 0 .. MaxPath \subseteq Nat /\ 0 .. Align + 1 \subseteq Nat /\ <<>> \in Seq(Nat)
    BY BundleAssumption, EmptySeq
  <2>4. e \in ForeignEntries(k)
    BY <1>2 DEF Found
  <2>5. e \in [path : Paths, pn : 0 .. MaxPath, pathAt : Claims(PathCursor(k)),
               at : Claims(DataCursor(k)), n : 0 .. Align + 1, sum : {<<>>}]
    BY <2>4 DEF ForeignEntries
  <2> HIDE DEF k
  <2> QED BY <2>2, <2>3, <2>5 DEF Entry
<1>3. CASE object # Foreign
  <2>1. k \in 1 .. Len(object.dir) /\ object.dir \in Seq(Entry)
    BY <1>1, <1>3 DEF Typed
  <2>2. e = object.dir[k]
    BY <1>3 DEF Found
  <2> QED BY <2>1, <2>2, EntryFacts
<1> QED BY <1>2, <1>3

-----------------------------------------------------------------------------
(***************************************************************************)
(* The reader.  The files it has read follow each other from the end of    *)
(* the directory on, and nothing is left out between them.                 *)
(***************************************************************************)
EndOf(e) == AlignUp(e.at + e.n)

LEMMA EndOfFacts ==
  ASSUME NEW e \in Entry
  PROVE  e.at \in Nat /\ e.n \in Nat /\ EndOf(e) \in Nat /\ e.at + e.n <= EndOf(e)
<1>1. e.at \in Nat /\ e.n \in Nat
  BY DEF Entry
<1>2. e.at + e.n \in Nat
  BY <1>1
<1> QED BY <1>1, <1>2, AlignUpFacts DEF EndOf

Headed ==
  rpc \in {"entries", "check", "ready"} =>
    /\ head.size <= MaxBundle
    /\ object # Foreign => head = [count |-> object.count, data |-> object.data, size |-> object.size]

Fresh ==
  /\ rpc # "none" => wpc \in {"none", "done"}
  /\ rpc \in {"none", "header", "entries"} => checked = 0 /\ zero = {}
  /\ rpc \in {"none", "header"} => dir = <<>>

Tiled ==
  rpc \in {"entries", "check", "ready"} =>
    /\ Len(dir) <= head.count
    /\ \A i \in 1 .. Len(dir) : head.data <= dir[i].at /\ EndOf(dir[i]) <= DataCursor(Len(dir) + 1)
    /\ \A i, j \in 1 .. Len(dir) : i < j => dir[i].path < dir[j].path /\ EndOf(dir[i]) <= dir[j].at
    /\ \A q \in Nat : head.data <= q /\ q < DataCursor(Len(dir) + 1) =>
         \E i \in 1 .. Len(dir) : dir[i].at <= q /\ q < EndOf(dir[i])

\* An offset was seen to be zero before the files, or behind one that was checked.
SeenZero(q) ==
  \/ PathCursor(head.count + 1) <= q /\ q < head.data
  \/ \E i \in 1 .. checked : dir[i].at + dir[i].n <= q /\ q < EndOf(dir[i])

Checks ==
  rpc \in {"check", "ready"} =>
    /\ Len(dir) = head.count
    /\ PortableUnique(PathsOf(dir))
    /\ AlignUp(PathCursor(head.count + 1)) = head.data
    /\ EndsThere
    /\ checked \in 0 .. head.count
    /\ rpc = "ready" => checked = head.count
    /\ zero = {q \in Offsets : SeenZero(q)}

RInv == Typed /\ Headed /\ Fresh /\ Tiled /\ Checks

LEMMA InitReader ==
  ASSUME Init
  PROVE  RInv
  BY InitTyped DEF Init, NothingFound, RInv, Headed, Fresh, Tiled, Checks

\* Whatever is refused leaves nothing behind.
LEMMA RefuseReader ==
  ASSUME RInv, rpc # "none", NEW why \in {"refused", "failed"}, Refuse(why)
  PROVE  RInv'
<1>1. NoHead \in HeadRecord /\ <<>> \in Seq(Entry)
  BY EmptySeq DEF NoHead, HeadRecord
<1>2. Typed'
  BY <1>1 DEF Refuse, RInv, Typed, writer
<1> QED BY <1>2 DEF Refuse, RInv, Headed, Fresh, Tiled, Checks

LEMMA HeaderReader ==
  ASSUME RInv, ReadHeader
  PROVE  RInv'
<1>1. PICK n \in Found(object.count, 0 .. MaxEntries), d \in Found(object.data, Offsets), z \in Found(object.size, Offsets) :
        LET h == [count |-> n, data |-> d, size |-> z] IN
        IF HeaderOk(h) /\ ~Garbled
        THEN rpc' = "entries" /\ head' = h /\ UNCHANGED <<files, changes, wpc, writer, object, dir, checked, zero>>
        ELSE Refuse("refused")
  BY DEF ReadHeader
<1> DEFINE h == [count |-> n, data |-> d, size |-> z]
<1>2. CASE Refuse("refused")
  BY <1>2, RefuseReader DEF ReadHeader
<1>3. CASE HeaderOk(h) /\ rpc' = "entries" /\ head' = h /\ UNCHANGED <<files, changes, wpc, writer, object, dir, checked, zero>>
  <2>1. rpc = "header" /\ dir = <<>> /\ checked = 0 /\ zero = {}
    BY DEF ReadHeader, RInv, Fresh
  <2>2. h \in HeadRecord
    <3>1. CASE object = Foreign
      BY <3>1, BundleAssumption DEF Found, Offsets, HeadRecord
    <3>2. CASE object # Foreign
      BY <2>1, <3>2 DEF Found, RInv, Typed, HeadRecord
    <3> QED BY <3>1, <3>2
  <2>3. Typed'
    BY <1>3, <2>1, <2>2 DEF RInv, Typed, writer
  <2>4. Headed'
    <3>1. h.size <= MaxBundle
      BY <1>3 DEF HeaderOk
    <3>2. object # Foreign => h = [count |-> object.count, data |-> object.data, size |-> object.size]
      BY DEF Found
    <3> HIDE DEF h
    <3> QED BY <1>3, <3>1, <3>2 DEF Headed
  <2>5. Tiled'
    <3>1. h.count \in Nat /\ h.data \in Nat
      BY <2>2 DEF HeadRecord
    <3>2. DataCursor(1)' = h.data /\ Len(dir') = 0
      BY <1>3, <2>1 DEF DataCursor
    <3> HIDE DEF h
    <3>3. \A q \in Nat : ~(h.data <= q /\ q < h.data)
      BY <3>1
    <3> QED BY <1>3, <3>1, <3>2, <3>3 DEF Tiled
  <2> QED BY <1>3, <2>1, <2>3, <2>4, <2>5 DEF RInv, Fresh, Checks
<1> QED BY <1>1, <1>2, <1>3

LEMMA EntryReader ==
  ASSUME RInv, ReadEntryHeader
  PROVE  RInv'
<1> DEFINE n == Len(dir)  k == n + 1
<1>1. rpc = "entries" /\ n < head.count /\ n \in Nat /\ head.count \in Nat /\ head.data \in Nat
  BY EntryFacts DEF ReadEntryHeader, RInv, Typed, HeadRecord
<1>2. PICK e \in Found(object.dir[k], ForeignEntries(k)) :
        IF EntryOk(k, e)
        THEN dir' = Append(dir, e) /\ UNCHANGED <<files, changes, wpc, writer, object, rpc, head, checked, zero>>
        ELSE Refuse("refused")
  BY DEF ReadEntryHeader
<1>3. CASE Refuse("refused")
  BY <1>1, <1>3, RefuseReader
<1>4. CASE EntryOk(k, e) /\ dir' = Append(dir, e) /\ UNCHANGED <<files, changes, wpc, writer, object, rpc, head, checked, zero>>
  <2>1. e \in Entry
    BY <1>1, NextEntryTyped DEF RInv, Headed, Typed, HeadRecord
  <2>2. /\ dir' \in Seq(Entry) /\ Len(dir') = k /\ dir'[k] = e
        /\ \A i \in 1 .. n : dir'[i] = dir[i] /\ dir[i] \in Entry
    BY <1>4, <2>1, EntryFacts DEF RInv, Typed
  <2>3. Typed'
    BY <1>4, <2>2 DEF RInv, Typed, writer
  <2>4. e.at \in Nat /\ e.n \in Nat /\ EndOf(e) \in Nat /\ e.at + e.n <= EndOf(e)
    BY <2>1, EndOfFacts
  <2>5. e.at = DataCursor(k) /\ (k > 1 => dir[k - 1].path < e.path)
    BY <1>4 DEF EntryOk
  <2>6. DataCursor(Len(dir) + 1)' = EndOf(e)
    <3>1. Len(dir') + 1 # 1 /\ (Len(dir') + 1) - 1 = k
      BY <1>1, <2>2
    <3> HIDE DEF k
    <3>2. DataCursor(Len(dir) + 1)' = AlignUp(dir'[k].at + dir'[k].n)
      BY <3>1 DEF DataCursor
    <3> QED BY <2>2, <3>2 DEF EndOf
  <2>7. \A i \in 1 .. n : /\ dir[i].path \in Nat /\ dir[i].at \in Nat /\ dir[i].n \in Nat
                          /\ EndOf(dir[i]) \in Nat
    <3> TAKE i \in 1 .. n
    <3>1. dir[i].path \in Nat
      BY <2>2, BundleAssumption DEF Entry
    <3> QED BY <2>2, <3>1, EndOfFacts
  <2>8. \A i \in 1 .. n : /\ head.data <= dir[i].at /\ EndOf(dir[i]) <= e.at
                          /\ \A j \in 1 .. n : i < j => dir[i].path < dir[j].path /\ EndOf(dir[i]) <= dir[j].at
    BY <1>1, <2>5 DEF RInv, Tiled
  <2>9. head.data <= e.at
    <3>1. CASE n = 0
      BY <1>1, <2>5, <3>1 DEF DataCursor
    <3>2. CASE n # 0
      <4>1. n \in 1 .. n
        BY <1>1, <3>2
      <4>2. dir[n].at + dir[n].n <= EndOf(dir[n])
        BY <2>2, <4>1, EndOfFacts
      <4> QED BY <1>1, <2>4, <2>7, <2>8, <4>1, <4>2, SMTT(60)
    <3> QED BY <3>1, <3>2
  <2>10. \A i \in 1 .. n : dir[i].path < e.path
    <3> TAKE i \in 1 .. n
    <3>1. n \in 1 .. n /\ k > 1 /\ k - 1 = n
      BY <1>1
    <3>2. dir[n].path < e.path /\ e.path \in Nat
      BY <2>1, <2>5, <3>1, BundleAssumption DEF Entry
    <3> QED BY <2>7, <2>8, <3>1, <3>2
  <2>11. Tiled'
    <3>1. \A i \in 1 .. k : i \in 1 .. n \/ i = k
      BY <1>1
    <3>2. \A i \in 1 .. k : /\ head.data <= dir'[i].at /\ EndOf(dir'[i]) <= EndOf(e)
      <4> TAKE i \in 1 .. k
      <4>1. CASE i = k
        BY <2>2, <2>4, <2>9, <4>1
      <4>2. CASE i \in 1 .. n
        BY <2>2, <2>4, <2>7, <2>8, <4>2
      <4> QED BY <3>1, <4>1, <4>2
    <3>3. \A i, j \in 1 .. k : i < j => dir'[i].path < dir'[j].path /\ EndOf(dir'[i]) <= dir'[j].at
      <4> TAKE i, j \in 1 .. k
      <4> HAVE i < j
      <4>1. i \in 1 .. n
        BY <1>1
      <4>2. CASE j = k
        BY <2>2, <2>8, <2>10, <4>1, <4>2
      <4>3. CASE j \in 1 .. n
        BY <2>2, <2>8, <4>1, <4>3
      <4> QED BY <3>1, <4>2, <4>3
    <3>4. ASSUME NEW q \in Nat, head.data <= q, q < EndOf(e)
          PROVE  \E i \in 1 .. k : dir'[i].at <= q /\ q < EndOf(dir'[i])
      <4>1. CASE q < e.at
        <5>1. PICK i \in 1 .. n : dir[i].at <= q /\ q < EndOf(dir[i])
          BY <1>1, <2>5, <3>4, <4>1 DEF RInv, Tiled
        <5>2. i \in 1 .. k /\ dir'[i] = dir[i]
          BY <1>1, <2>2
        <5> QED BY <5>1, <5>2
      <4>2. CASE ~(q < e.at)
        <5>1. k \in 1 .. k
          BY <1>1
        <5> QED BY <2>2, <2>4, <3>4, <4>2, <5>1
      <4> QED BY <4>1, <4>2
    <3>5. k <= head.count
      BY <1>1
    <3> HIDE DEF k
    <3>6. UNCHANGED <<head, rpc>>
      BY <1>4
    <3>7. \A i \in 1 .. k : EndOf(dir[i])' = EndOf(dir'[i])
      BY DEF EndOf
    <3> QED BY <2>2, <2>6, <3>2, <3>3, <3>4, <3>5, <3>6, <3>7 DEF Tiled
  <2>12. Headed' /\ Fresh' /\ Checks'
    BY <1>1, <1>4 DEF RInv, Headed, Fresh, Checks, writer
  <2> QED BY <2>3, <2>11, <2>12 DEF RInv
<1> QED BY <1>2, <1>3, <1>4

LEMMA CanonicalReader ==
  ASSUME RInv, Canonical
  PROVE  RInv'
<1>1. rpc = "entries" /\ Len(dir) = head.count /\ checked = 0 /\ zero = {} /\ head.count \in Nat
  BY DEF Canonical, RInv, Fresh, Typed, HeadRecord
<1>2. CASE Refuse("refused")
  BY <1>1, <1>2, RefuseReader
<1>3. CASE /\ PortableUnique(PathsOf(dir))
           /\ AlignUp(PathCursor(head.count + 1)) = head.data
           /\ EndsThere
           /\ rpc' = "check" /\ zero' = zero \cup Span(PathCursor(head.count + 1), head.data)
           /\ UNCHANGED <<files, changes, wpc, writer, object, head, dir, checked>>
  <2>1. Typed' /\ Headed' /\ Fresh' /\ Tiled'
    BY <1>1, <1>3 DEF RInv, Typed, Headed, Fresh, Tiled, EndOf, DataCursor, writer
  <2>2. zero' = {q \in Offsets : SeenZero(q)'}
    BY <1>1, <1>3 DEF SeenZero, Span, PathCursor
  <2>3. PortableUnique(PathsOf(dir))' /\ EndsThere' /\ (AlignUp(PathCursor(head.count + 1)) = head.data)'
    BY <1>3 DEF EndsThere, DataCursor, PathCursor
  <2>4. Checks'
    BY <1>1, <1>3, <2>2, <2>3 DEF Checks
  <2> QED BY <2>1, <2>4 DEF RInv
<1> QED BY <1>2, <1>3 DEF Canonical

LEMMA CheckReader ==
  ASSUME RInv, CheckEntry
  PROVE  RInv'
<1>1. /\ rpc = "check" /\ checked \in Nat /\ checked < head.count /\ head.count \in Nat
      /\ zero = {q \in Offsets : SeenZero(q)}
  BY DEF CheckEntry, RInv, Checks, Typed, HeadRecord
<1> DEFINE e == dir[checked + 1]
<1>2. CASE Refuse("refused")
  BY <1>1, <1>2, RefuseReader
<1>3. CASE /\ checked' = checked + 1
           /\ zero' = zero \cup Span(e.at + e.n, AlignUp(e.at + e.n))
           /\ UNCHANGED <<files, changes, wpc, writer, object, rpc, head, dir>>
  <2>1. Typed' /\ Headed' /\ Fresh' /\ Tiled'
    BY <1>1, <1>3 DEF RInv, Typed, Headed, Fresh, Tiled, EndOf, DataCursor, writer
  <2>2. ASSUME NEW q \in Offsets
        PROVE  SeenZero(q)' <=> SeenZero(q) \/ q \in Span(e.at + e.n, AlignUp(e.at + e.n))
    <3>1. \A i : i \in 1 .. checked + 1 <=> i \in 1 .. checked \/ i = checked + 1
      BY <1>1
    <3> QED BY <1>3, <3>1 DEF SeenZero, Span, PathCursor, EndOf
  <2>3. zero' = {q \in Offsets : SeenZero(q)'}
    BY <1>1, <1>3, <2>2 DEF Span
  <2>4. (PortableUnique(PathsOf(dir)) /\ EndsThere /\ AlignUp(PathCursor(head.count + 1)) = head.data)'
    BY <1>1, <1>3 DEF RInv, Checks, EndsThere, DataCursor, PathCursor
  <2>5. Checks'
    <3>1. Len(dir) = head.count /\ checked + 1 \in 0 .. head.count
      BY <1>1 DEF RInv, Checks
    <3> QED BY <1>1, <1>3, <2>3, <2>4, <3>1 DEF Checks
  <2> QED BY <2>1, <2>5 DEF RInv
<1> QED BY <1>2, <1>3 DEF CheckEntry

LEMMA OpenedReader ==
  ASSUME RInv, Opened
  PROVE  RInv'
<1>1. /\ rpc = "check" /\ rpc' = "ready" /\ checked = head.count
      /\ UNCHANGED <<files, changes, wpc, request, source, position, first, second, object,
                     head, dir, checked, zero>>
  BY DEF Opened, writer, found
<1>2. Typed' /\ Headed' /\ Fresh'
  BY <1>1 DEF RInv, Typed, Headed, Fresh
<1>3. Tiled'
  BY <1>1 DEF RInv, Tiled, EndOf, DataCursor
<1>4. Checks'
  <2>1. EndsThere' <=> EndsThere
    BY <1>1 DEF EndsThere, DataCursor
  <2>2. PathCursor(head.count + 1)' = PathCursor(head.count + 1)
    BY <1>1 DEF PathCursor
  <2>3. \A q : SeenZero(q)' <=> SeenZero(q)
    BY <1>1, <2>2 DEF SeenZero, EndOf
  <2> QED BY <1>1, <2>1, <2>2, <2>3 DEF RInv, Checks
<1> QED BY <1>2, <1>3, <1>4 DEF RInv

\* The writer does not touch what the reader has found.
LEMMA WriterReader ==
  ASSUME RInv, Typed', rpc = "none" \/ UNCHANGED wpc, UNCHANGED <<object, rpc, found>>
  PROVE  RInv'
  BY DEF RInv, Headed, Fresh, Tiled, Checks, SeenZero, EndOf, DataCursor, PathCursor, EndsThere, found


LEMMA NextReader ==
  ASSUME RInv, [Next]_vars
  PROVE  RInv'
<1>1. CASE OpenFile \/ Checksum \/ Layout \/ Change
  <2>1. Typed' /\ UNCHANGED <<object, rpc, found>>
    BY <1>1, WriterTyped DEF RInv, OpenFile, Checksum, Layout, Change, GiveUp
  <2>2. rpc = "none"
    BY <1>1 DEF RInv, Fresh, OpenFile, Checksum, Layout, Change
  <2> QED BY <2>1, <2>2, WriterReader
<1>2. CASE WriterFails \/ ReadChunk \/ FirstPassDone \/ UNCHANGED vars
  <2>1. rpc = "none" \/ UNCHANGED wpc
    BY <1>2 DEF RInv, Fresh, WriterFails, ReadChunk, FirstPassDone, vars
  <2>2. UNCHANGED <<files, request, source, object, rpc, found>>
    BY <1>2 DEF WriterFails, ReadChunk, FirstPassDone, GiveUp, vars, writer, found
  <2>3. Typed'
    BY <2>2 DEF RInv, Typed, found
  <2> QED BY <2>1, <2>2, <2>3, WriterReader
<1>3. CASE Commit
  <2>1. rpc = "none" /\ dir = <<>> /\ checked = 0 /\ zero = {}
    BY <1>3 DEF RInv, Fresh, Commit
  <2>2. Typed' /\ (GiveUp \/ (rpc' = "header" /\ wpc' = "done" /\ UNCHANGED found))
    BY <1>3, CommitTyped DEF RInv, Commit
  <2>3. CASE GiveUp
    BY <2>1, <2>2, <2>3, WriterReader DEF GiveUp
  <2>4. CASE rpc' = "header" /\ wpc' = "done" /\ UNCHANGED found
    BY <2>1, <2>2, <2>4 DEF RInv, Headed, Fresh, Tiled, Checks, found
  <2> QED BY <2>2, <2>3, <2>4
<1>4. CASE Unsound \/ ReaderFails
  BY <1>4, RefuseReader DEF Unsound, ReaderFails, Reading
<1> QED BY <1>1, <1>2, <1>3, <1>4, HeaderReader, EntryReader, CanonicalReader, CheckReader, OpenedReader DEF Next

LEMMA ReaderHolds == Spec => []RInv
<1>1. Init => RInv
  BY InitReader
<1>2. RInv /\ [Next]_vars => RInv'
  BY NextReader
<1> QED BY <1>1, <1>2, PTL DEF Spec

\* What opens can be restored on a file system that ignores case: whoever made
\* the object, its paths are in order and no two differ only in case.
THEOREM NamesArePortable == Spec => []PortableNames
<1>1. RInv => PortableNames
  <2> SUFFICES ASSUME RInv, rpc = "ready", NEW i \in 1 .. Len(dir), NEW j \in 1 .. Len(dir), i < j
               PROVE  dir[i].path < dir[j].path /\ Fold[dir[i].path] # Fold[dir[j].path]
    BY DEF PortableNames
  <2>1. dir[i].path < dir[j].path
    BY DEF RInv, Tiled
  <2>2. Len(PathsOf(dir)) = Len(dir) /\ PathsOf(dir)[i] = dir[i].path /\ PathsOf(dir)[j] = dir[j].path /\ i # j
    BY EntryFacts DEF RInv, Typed, PathsOf
  <2>3. PortableUnique(PathsOf(dir))
    BY DEF RInv, Checks
  <2> QED BY <2>1, <2>2, <2>3 DEF PortableUnique
<1> QED BY <1>1, ReaderHolds, PTL

\* Every byte of an object that opens is directory, part of exactly one file, or
\* was seen to be zero; and a read of a file takes bytes of that file only.
THEOREM BytesAreAccounted == Spec => []BundleAccounted
<1>1. RInv => BundleAccounted
  <2> SUFFICES ASSUME RInv, rpc = "ready"
               PROVE  BundleAccounted
    BY DEF BundleAccounted
  <2> DEFINE Files(q) == {i \in 1 .. Len(dir) : dir[i].at <= q /\ q < dir[i].at + dir[i].n}
             n == Len(dir)
             pathEnd == PathCursor(head.count + 1)
  <2>1. /\ n \in Nat /\ n = head.count /\ checked = n
        /\ head.data \in Nat /\ head.size \in Nat /\ head.size <= MaxBundle
        /\ head.data = AlignUp(pathEnd) /\ head.size = DataCursor(n + 1)
        /\ zero = {q \in Offsets : SeenZero(q)}
    BY EntryFacts DEF RInv, Typed, HeadRecord, Headed, Checks, EndsThere
  <2>2. pathEnd \in Nat /\ pathEnd <= head.data
    <3>1. head.count + 1 \in 1 .. Len(dir) + 1
      BY <2>1
    <3>2. pathEnd \in Nat
      BY <3>1, CursorsTyped DEF RInv
    <3> HIDE DEF pathEnd
    <3> QED BY <2>1, <3>2, AlignUpFacts
  <2>3. \A i \in 1 .. n : /\ dir[i].at \in Nat /\ dir[i].n \in Nat /\ EndOf(dir[i]) \in Nat
                          /\ dir[i].at + dir[i].n <= EndOf(dir[i])
                          /\ head.data <= dir[i].at /\ EndOf(dir[i]) <= head.size
    BY <2>1, EntryFacts, EndOfFacts DEF RInv, Typed, Tiled
  <2>4. \A i, j \in 1 .. n : i # j => EndOf(dir[i]) <= dir[j].at \/ EndOf(dir[j]) <= dir[i].at
    BY <2>1 DEF RInv, Tiled
  <2>5. ASSUME NEW q \in Nat, NEW i \in 1 .. n, dir[i].at <= q, q < EndOf(dir[i])
        PROVE  \A j \in 1 .. n : dir[j].at <= q /\ q < EndOf(dir[j]) => j = i
    BY <2>3, <2>4, <2>5
  <2>6. \A q \in Nat : \A i \in Files(q) : i \in 1 .. n /\ dir[i].at <= q /\ q < EndOf(dir[i])
    BY <2>3
  <2>7. ASSUME NEW q \in Nat, NEW i \in 1 .. n, dir[i].at <= q, q < dir[i].at + dir[i].n
        PROVE  Files(q) = {i}
    <3>1. q < EndOf(dir[i])
      BY <2>3, <2>7
    <3>2. \A j \in Files(q) : j = i
      BY <2>5, <2>6, <2>7, <3>1
    <3> QED BY <2>7, <3>2
  <2>8. ASSUME NEW q \in Span(0, head.size)
        PROVE  IF q < pathEnd THEN Files(q) = {} /\ q \notin zero
               ELSE IF q \in zero THEN Files(q) = {} ELSE Cardinality(Files(q)) = 1
    <3>1. q \in Nat /\ q \in Offsets /\ q < head.size
      BY BundleAssumption DEF Span, Offsets
    <3>2. CASE q < head.data
      <4>1. Files(q) = {}
        BY <2>1, <2>3, <3>1, <3>2
      <4>2. q \in zero <=> pathEnd <= q
        BY <2>1, <2>3, <3>1, <3>2, SMTT(60) DEF SeenZero
      <4> QED BY <2>2, <3>1, <4>1, <4>2
    <3>3. CASE ~(q < head.data)
      <4>1. PICK i \in 1 .. n : dir[i].at <= q /\ q < EndOf(dir[i])
        BY <2>1, <3>1, <3>3 DEF RInv, Tiled
      <4>2. \A j \in 1 .. n : dir[j].at <= q /\ q < EndOf(dir[j]) => j = i
        BY <2>5, <3>1, <4>1
      <4>3. CASE q < dir[i].at + dir[i].n
        <5>1. Files(q) = {i}
          BY <2>7, <3>1, <4>1, <4>3
        <5>2. Cardinality(Files(q)) = 1
          BY <5>1, FS_Singleton
        <5>3. ~SeenZero(q)
          BY <2>1, <2>3, <3>1, <3>3, <4>2, <4>3, SMTT(60) DEF SeenZero
        <5> QED BY <2>1, <2>2, <3>1, <3>3, <5>2, <5>3
      <4>4. CASE ~(q < dir[i].at + dir[i].n)
        <5>1. SeenZero(q)
          BY <2>1, <2>3, <3>1, <4>1, <4>4 DEF SeenZero
        <5>2. Files(q) = {}
          BY <2>3, <2>6, <3>1, <4>2, <4>4
        <5> QED BY <2>1, <2>2, <3>1, <3>3, <5>1, <5>2
      <4> QED BY <4>3, <4>4
    <3> QED BY <3>2, <3>3
  <2>9. ASSUME NEW i \in 1 .. n, NEW from \in 0 .. dir[i].n, NEW m \in 0 .. MaxBundle, NEW q \in EntrySpan(dir[i], from, m)
        PROVE  Files(q) = {i}
    <3>1. q \in Nat /\ dir[i].at + from <= q /\ q < dir[i].at + from + Least(m, dir[i].n - from)
      BY BundleAssumption DEF EntrySpan, Span, Offsets
    <3>2. dir[i].at <= q /\ q < dir[i].at + dir[i].n
      BY <2>3, <3>1, BundleAssumption, SMTT(60) DEF Least
    <3> QED BY <2>7, <3>1, <3>2
  <2> QED BY <2>8, <2>9 DEF BundleAccounted
<1> QED BY <1>1, ReaderHolds, PTL

-----------------------------------------------------------------------------
(***************************************************************************)
(* The order of the layout.                                                *)
(***************************************************************************)
LEMMA Monotonic ==
  ASSUME NEW n \in Nat, NEW f \in [0 .. n -> Nat], \A k \in 0 .. n - 1 : f[k] <= f[k + 1]
  PROVE  \A i, j \in 0 .. n : i <= j => f[i] <= f[j]
<1> DEFINE S == {d \in Nat : \A i \in 0 .. n : i + d <= n => f[i] <= f[i + d]}
<1>1. 0 \in S
  <2> SUFFICES \A i \in 0 .. n : f[i] <= f[i + 0]
    OBVIOUS
  <2>1. \A i \in 0 .. n : i + 0 = i /\ f[i] \in Nat
    OBVIOUS
  <2> QED BY <2>1
<1>2. ASSUME NEW d \in Nat \cap S
      PROVE  d + 1 \in S
  <2> SUFFICES ASSUME NEW i \in 0 .. n, i + (d + 1) <= n
               PROVE  f[i] <= f[i + (d + 1)]
    OBVIOUS
  <2>1. i + d \in 0 .. n - 1 /\ i + d \in 0 .. n /\ i + d <= n /\ i + (d + 1) \in 0 .. n /\ i + (d + 1) = (i + d) + 1
    OBVIOUS
  <2>2. f[i] <= f[i + d] /\ f[i + d] <= f[(i + d) + 1]
    BY <2>1
  <2>3. f[i] \in Nat /\ f[i + d] \in Nat /\ f[(i + d) + 1] \in Nat
    BY <2>1
  <2> QED BY <2>1, <2>2, <2>3
<1>3. Nat \subseteq S
  <2> HIDE DEF S
  <2> QED BY <1>1, <1>2, Induction
<1> TAKE i, j \in 0 .. n
<1> HAVE i <= j
<1>4. j - i \in Nat /\ i + (j - i) = j /\ j <= n
  OBVIOUS
<1>5. j - i \in S
  <2> HIDE DEF S
  <2> QED BY <1>3, <1>4
<1>6. i + (j - i) <= n => f[i] <= f[i + (j - i)]
  BY <1>5
<1> QED BY <1>4, <1>6

LEMMA PathsOrdered ==
  ASSUME NEW es \in Seq(Entry)
  PROVE  \A i, j \in 0 .. Len(es) : i <= j => PathEnd(es, i) <= PathEnd(es, j)
<1> DEFINE n == Len(es)  f == [i \in 0 .. n |-> PathEnd(es, i)]
<1>1. n \in Nat /\ f \in [0 .. n -> Nat]
  BY EntryFacts, PathEnds
<1>2. ASSUME NEW k \in 0 .. n - 1 PROVE f[k] <= f[k + 1]
  <2>1. k + 1 \in 1 .. n /\ (k + 1) - 1 = k /\ k \in 0 .. n /\ k + 1 \in 0 .. n
    BY <1>1
  <2>2. PathEnd(es, k + 1) = PathEnd(es, k) + es[k + 1].pn
    BY <2>1, PathEnds
  <2>3. es[k + 1].pn \in Nat /\ PathEnd(es, k) \in Nat
    BY <2>1, EntryFacts, PathEnds
  <2> QED BY <2>1, <2>2, <2>3
<1>3. \A i, j \in 0 .. n : i <= j => f[i] <= f[j]
  <2> HIDE DEF f
  <2> QED BY <1>1, <1>2, Monotonic
<1> QED BY <1>3

LEMMA DataOrdered ==
  ASSUME NEW es \in Seq(Entry)
  PROVE  /\ \A i, j \in 1 .. Len(es) + 1 : i <= j => DataOffset(es, i) <= DataOffset(es, j)
         /\ \A i \in 1 .. Len(es) : DataOffset(es, i) + es[i].n <= DataOffset(es, i + 1)
<1> DEFINE n == Len(es)  f == [i \in 0 .. n |-> DataOffset(es, i + 1)]
<1>1. n \in Nat /\ \A i \in 1 .. n : es[i].n \in Nat
  BY EntryFacts
<1>2. \A i \in 0 .. n : i + 1 \in 1 .. n + 1
  BY <1>1
<1>3. f \in [0 .. n -> Nat]
  BY <1>2, DataOffsets
<1>4. ASSUME NEW i \in 1 .. n
      PROVE  DataOffset(es, i) + es[i].n <= DataOffset(es, i + 1) /\ DataOffset(es, i) <= DataOffset(es, i + 1)
  <2>1. i \in 1 .. n + 1 /\ i + 1 \in 1 .. n + 1
    BY <1>1
  <2>2. DataOffset(es, i) \in Nat /\ es[i].n \in Nat /\ DataOffset(es, i + 1) = AlignUp(DataOffset(es, i) + es[i].n)
    BY <1>1, <2>1, DataOffsets
  <2> DEFINE x == DataOffset(es, i) + es[i].n
  <2>3. x \in Nat /\ DataOffset(es, i) <= x
    BY <2>2
  <2>4. x <= AlignUp(x) /\ AlignUp(x) \in Nat
    BY <2>3, AlignUpFacts
  <2> QED BY <2>2, <2>3, <2>4
<1>5. ASSUME NEW k \in 0 .. n - 1 PROVE f[k] <= f[k + 1]
  <2>1. k + 1 \in 1 .. n /\ k \in 0 .. n /\ k + 1 \in 0 .. n
    BY <1>1
  <2> QED BY <1>4, <2>1
<1>6. \A i, j \in 0 .. n : i <= j => f[i] <= f[j]
  <2> HIDE DEF f
  <2> QED BY <1>1, <1>3, <1>5, Monotonic
<1>7. ASSUME NEW i \in 1 .. n + 1, NEW j \in 1 .. n + 1, i <= j
      PROVE  DataOffset(es, i) <= DataOffset(es, j)
  <2>1. i - 1 \in 0 .. n /\ j - 1 \in 0 .. n /\ i - 1 <= j - 1 /\ (i - 1) + 1 = i /\ (j - 1) + 1 = j
    BY <1>1, <1>7
  <2>2. f[i - 1] <= f[j - 1]
    BY <1>6, <2>1
  <2> QED BY <2>1, <2>2
<1> QED BY <1>4, <1>7

\* The layout depends on the sizes of paths and files only.
LEMMA PlacedLayout ==
  ASSUME NEW es \in Seq(Entry)
  PROVE  /\ \A k \in 0 .. Len(es) : PathEnd(Placed(es), k) = PathEnd(es, k)
         /\ \A k \in 1 .. Len(es) + 1 : DataOffset(Placed(es), k) = DataOffset(es, k)
<1> DEFINE n == Len(es)  ps == Placed(es)
<1>1. n \in Nat /\ ps \in Seq(Entry) /\ Len(ps) = n /\ \A i \in 1 .. n : ps[i].n = es[i].n /\ ps[i].pn = es[i].pn
  <2>1. ASSUME NEW e \in Entry, NEW a, NEW b PROVE [e EXCEPT !.at = a, !.pathAt = b].n = e.n /\ [e EXCEPT !.at = a, !.pathAt = b].pn = e.pn
    BY DEF Entry
  <2>2. ASSUME NEW i \in 1 .. n PROVE ps[i].n = es[i].n /\ ps[i].pn = es[i].pn
    <3>1. es[i] \in Entry
      BY <2>2, EntryFacts
    <3>2. ps[i] = [es[i] EXCEPT !.at = DataOffset(es, i), !.pathAt = PathEnd(es, i - 1)]
      BY <2>2 DEF Placed
    <3> QED BY <3>1, <3>2, <2>1
  <2> QED BY <2>2, PlacedFacts, EntryFacts
<1> HIDE DEF ps
<1>2. ASSUME NEW k \in 0 .. n PROVE PathEnd(ps, k) = PathEnd(es, k)
  <2> DEFINE S == {i \in Nat : i <= n => PathEnd(ps, i) = PathEnd(es, i)}
  <2>1. 0 \in S
    BY <1>1, PathEnds
  <2>2. ASSUME NEW i \in Nat \cap S, i + 1 <= n PROVE PathEnd(ps, i + 1) = PathEnd(es, i + 1)
    <3>1. i + 1 \in 1 .. n /\ (i + 1) - 1 = i /\ PathEnd(ps, i) = PathEnd(es, i)
      BY <1>1, <2>2
    <3> QED BY <1>1, <3>1, PathEnds
  <2>3. Nat \subseteq S
    <3>1. ASSUME NEW i \in Nat \cap S PROVE i + 1 \in S
      <4>1. i + 1 <= n => PathEnd(ps, i + 1) = PathEnd(es, i + 1)
        BY <2>2
      <4> QED BY <4>1
    <3> HIDE DEF S
    <3> QED BY <2>1, <3>1, Induction
  <2> QED BY <1>1, <2>3
<1>3. ASSUME NEW k \in 1 .. n + 1 PROVE DataOffset(ps, k) = DataOffset(es, k)
  <2> DEFINE S == {i \in Nat : i <= n => DataOffset(ps, i + 1) = DataOffset(es, i + 1)}
  <2>1. 0 \in S
    <3>1. PathEnd(ps, n) = PathEnd(es, n)
      BY <1>1, <1>2
    <3> QED BY <1>1, <3>1, DataOffsets
  <2>2. ASSUME NEW i \in Nat \cap S, i + 1 <= n PROVE DataOffset(ps, (i + 1) + 1) = DataOffset(es, (i + 1) + 1)
    <3>1. i + 1 \in 1 .. n /\ DataOffset(ps, i + 1) = DataOffset(es, i + 1)
      BY <1>1, <2>2
    <3> QED BY <1>1, <3>1, DataOffsets
  <2>3. Nat \subseteq S
    <3>1. ASSUME NEW i \in Nat \cap S PROVE i + 1 \in S
      <4>1. i + 1 <= n => DataOffset(ps, (i + 1) + 1) = DataOffset(es, (i + 1) + 1)
        BY <2>2
      <4> QED BY <4>1
    <3> HIDE DEF S
    <3> QED BY <2>1, <3>1, Induction
  <2>4. k - 1 \in Nat /\ k - 1 <= n /\ (k - 1) + 1 = k
    BY <1>1
  <2> QED BY <2>3, <2>4
<1> QED BY <1>2, <1>3 DEF ps

-----------------------------------------------------------------------------
(***************************************************************************)
(* The writer.  The entries are what was asked for, in the order of their  *)
(* paths; as long as nobody touches the files an entry has the size and    *)
(* the checksum of its file, and what is stored is the layout.             *)
(***************************************************************************)
Asked ==
  /\ changes \in Nat
  /\ Len(request) <= MaxEntries
  /\ \A i \in 1 .. Len(source) : source[i].pn = PathSize[source[i].path]
  /\ wpc \in {"open", "sum"} =>
       /\ Len(source) <= Len(request)
       /\ \A i \in 1 .. Len(source) : source[i].path = request[i]

Laid ==
  wpc \in {"first", "second", "done"} =>
    /\ Len(source) = Len(request)
    /\ \A i \in 1 .. Len(source) : \E j \in 1 .. Len(request) : source[i].path = request[j]
    /\ \A j \in 1 .. Len(request) : \E i \in 1 .. Len(source) : source[i].path = request[j]
    /\ \A i, j \in 1 .. Len(source) : i < j =>
         source[i].path < source[j].path /\ Fold[source[i].path] # Fold[source[j].path]
    /\ \A i \in 1 .. Len(source) : source[i].at = DataOffset(source, i) /\ source[i].pathAt = PathEnd(source, i - 1)
    /\ BundleSize <= MaxBundle

Versions ==
  changes = 0 =>
    \A i \in 1 .. Len(source) :
      /\ source[i].n = Len(files[source[i].path])
      /\ i < Len(source) \/ wpc \notin {"sum", "failed"} => source[i].sum = files[source[i].path]

Holds(e, q) == e.at <= q /\ q < e.at + e.n

\* The byte that the layout has at an offset.
Byte(q) ==
  IF \E i \in 1 .. Len(source) : Holds(source[i], q)
  THEN LET e == source[CHOOSE i \in 1 .. Len(source) : Holds(source[i], q)]
       IN files[e.path][q - e.at + 1]
  ELSE IF q < PathEnd(source, Len(source)) THEN Directory(q) ELSE 0

Written ==
  /\ wpc \in {"open", "sum", "first"} => second = <<>>
  /\ (changes = 0 /\ wpc \in {"second", "done"}) =>
       /\ second \in Seq(Nat)
       /\ position = Len(second)
       /\ position <= BundleSize
       /\ \A q \in 0 .. position - 1 : second[q + 1] = Byte(q)
       /\ wpc = "done" => position = BundleSize

WInv == Asked /\ Laid /\ Versions /\ Written

\* What the reader opens is what the writer stored.
Shown ==
  (rpc # "none" /\ object # Foreign) =>
    /\ wpc = "done"
    /\ object = [count |-> Len(source), data |-> PrefixSize, size |-> BundleSize, dir |-> source, bytes |-> second]
    /\ \A i \in 1 .. Len(dir) : dir[i] = source[i]
    /\ \A i \in 1 .. checked : Stored(dir[i].at, dir[i].n) = dir[i].sum

OInv == RInv /\ WInv /\ Shown

\* The files of a layout follow each other behind its directory.
LEMMA LaidFacts ==
  ASSUME Typed, Laid, wpc \in {"first", "second", "done"}
  PROVE  /\ Len(source) \in Nat /\ PrefixSize \in Nat /\ BundleSize \in Nat /\ PathEnd(source, Len(source)) \in Nat
         /\ PathEnd(source, Len(source)) <= PrefixSize /\ PrefixSize <= BundleSize
         /\ PrefixSize = DataOffset(source, 1) /\ BundleSize = DataOffset(source, Len(source) + 1)
         /\ \A i \in 1 .. Len(source) :
              /\ source[i] \in Entry /\ source[i].at \in Nat /\ source[i].n \in Nat
              /\ PrefixSize <= source[i].at
              /\ EndOf(source[i]) = DataOffset(source, i + 1) /\ EndOf(source[i]) \in Nat
              /\ source[i].at + source[i].n <= EndOf(source[i]) /\ EndOf(source[i]) <= BundleSize
              /\ \A j \in 1 .. Len(source) : i < j => EndOf(source[i]) <= source[j].at
<1> DEFINE n == Len(source)
<1>1. source \in Seq(Entry) /\ n \in Nat /\ n \in 0 .. n
  BY EntryFacts DEF Typed
<1>2. PathEnd(source, n) \in Nat /\ PrefixSize = AlignUp(PathEnd(source, n))
  BY <1>1, PathEnds DEF PrefixSize
<1>3. PrefixSize \in Nat /\ PathEnd(source, n) <= PrefixSize
  BY <1>2, AlignUpFacts
<1>4. PrefixSize = DataOffset(source, 1) /\ BundleSize = DataOffset(source, n + 1)
  BY <1>1, <1>2, DataOffsets DEF BundleSize
<1>5. 1 \in 1 .. n + 1 /\ n + 1 \in 1 .. n + 1 /\ \A i \in 1 .. n : i \in 1 .. n + 1 /\ i + 1 \in 1 .. n + 1
  BY <1>1
<1>6. PrefixSize <= BundleSize /\ BundleSize \in Nat
  BY <1>1, <1>4, <1>5, DataOrdered, DataOffsets
<1>7. ASSUME NEW i \in 1 .. n
      PROVE  /\ source[i] \in Entry /\ source[i].at \in Nat /\ source[i].n \in Nat
             /\ source[i].at = DataOffset(source, i)
             /\ EndOf(source[i]) = DataOffset(source, i + 1) /\ EndOf(source[i]) \in Nat
             /\ source[i].at + source[i].n <= EndOf(source[i])
  <2>1. source[i] \in Entry /\ source[i].at = DataOffset(source, i)
    BY <1>1, EntryFacts DEF Laid
  <2>2. EndOf(source[i]) = DataOffset(source, i + 1)
    BY <1>1, <2>1, DataOffsets DEF EndOf
  <2> QED BY <2>1, <2>2, EndOfFacts
<1>8. ASSUME NEW i \in 1 .. n
      PROVE  PrefixSize <= source[i].at /\ EndOf(source[i]) <= BundleSize
  <2>1. 1 <= i /\ i + 1 <= n + 1 /\ i \in 1 .. n + 1 /\ i + 1 \in 1 .. n + 1
    BY <1>1
  <2>2. DataOffset(source, 1) <= DataOffset(source, i) /\ DataOffset(source, i + 1) <= DataOffset(source, n + 1)
    BY <1>1, <1>5, <2>1, DataOrdered
  <2> QED BY <1>4, <1>7, <2>2
<1>9. ASSUME NEW i \in 1 .. n, NEW j \in 1 .. n, i < j
      PROVE  EndOf(source[i]) <= source[j].at
  <2>1. i + 1 <= j /\ i + 1 \in 1 .. n + 1 /\ j \in 1 .. n + 1
    BY <1>1, <1>9
  <2>2. DataOffset(source, i + 1) <= DataOffset(source, j)
    BY <1>1, <2>1, DataOrdered
  <2> QED BY <1>7, <2>2
<1> QED BY <1>1, <1>2, <1>3, <1>4, <1>6, <1>7, <1>8, <1>9

LEMMA OneHolder ==
  ASSUME Typed, Laid, wpc \in {"first", "second", "done"}, NEW q \in Nat,
         NEW i \in 1 .. Len(source), NEW j \in 1 .. Len(source), Holds(source[i], q), Holds(source[j], q)
  PROVE  i = j
<1>1. Len(source) \in Nat
  BY LaidFacts
<1>2. ASSUME NEW k \in 1 .. Len(source), NEW l \in 1 .. Len(source), Holds(source[k], q), Holds(source[l], q)
      PROVE  ~(k < l)
  <2>1. /\ source[k].at \in Nat /\ source[k].n \in Nat /\ source[l].at \in Nat /\ EndOf(source[k]) \in Nat
        /\ source[k].at + source[k].n <= EndOf(source[k])
        /\ k < l => EndOf(source[k]) <= source[l].at
    BY LaidFacts
  <2>2. q < source[k].at + source[k].n /\ source[l].at <= q
    BY <1>2 DEF Holds
  <2> QED BY <2>1, <2>2, SMTT(60)
<1>3. ~(i < j) /\ ~(j < i)
  BY <1>2
<1> QED BY <1>1, <1>3

LEMMA ByteOfHolder ==
  ASSUME Typed, Laid, wpc \in {"first", "second", "done"}, NEW q \in Nat,
         NEW i \in 1 .. Len(source), Holds(source[i], q)
  PROVE  Byte(q) = files[source[i].path][q - source[i].at + 1]
<1> DEFINE c == CHOOSE j \in 1 .. Len(source) : Holds(source[j], q)
<1>1. c \in 1 .. Len(source) /\ Holds(source[c], q)
  OBVIOUS
<1>2. Byte(q) = files[source[c].path][q - source[c].at + 1]
  BY DEF Byte
<1> HIDE DEF c
<1>3. c = i
  BY <1>1, OneHolder
<1> QED BY <1>2, <1>3

\* The part of a file that a read takes.
LEMMA CopiedByte ==
  ASSUME Typed, NEW e \in Entry, e.n = Len(files[e.path]), NEW offset \in Nat, NEW n \in Nat,
         NEW q \in Nat, offset <= q, q < offset + n, Holds(e, q)
  PROVE  /\ Copied(e, offset, n, q) = files[e.path][q - e.at + 1]
         /\ files[e.path][q - e.at + 1] \in Nat
<1> DEFINE f == files[e.path]  a == Start(e, offset)  b == Stop(e, offset, n)
<1>1. e.at \in Nat /\ e.n \in Nat /\ e.path \in Paths
  BY DEF Entry
<1>2. f \in Seq(Nat) /\ Len(f) = e.n
  BY <1>1 DEF Typed
<1>3. a \in Nat /\ b \in Nat /\ e.at <= a /\ a <= q /\ q < b /\ b <= e.at + e.n
  BY <1>1 DEF Holds, Start, Stop, Least, Most
<1> HIDE DEF a, b
<1>4. Copied(e, offset, n, q) = SubSeq(f, (a - e.at) + 1, (a - e.at) + (b - a))[q - a + 1]
  BY DEF Copied, FileBytes, a, b
<1> HIDE DEF f
<1> DEFINE lo == (a - e.at) + 1  hi == (a - e.at) + (b - a)  x == (q - a) + 1
<1>5. lo \in Nat /\ hi \in Nat /\ 1 <= lo /\ hi <= Len(f) /\ x \in 1 .. (hi - lo) + 1 /\ (lo + x) - 1 = (q - e.at) + 1
  <2> DEFINE d == e.at  l == e.n
  <2>1. d \in Nat /\ l \in Nat /\ d <= a /\ a <= q /\ q < b /\ b <= d + l /\ Len(f) = l
    BY <1>1, <1>2, <1>3
  <2> HIDE DEF d, l
  <2>2. (a - d) + 1 \in Nat /\ (a - d) + (b - a) \in Nat /\ 1 <= (a - d) + 1 /\ (a - d) + (b - a) <= l
    BY <1>3, <2>1
  <2>3. (q - a) + 1 \in 1 .. (((a - d) + (b - a)) - ((a - d) + 1)) + 1
    BY <1>3, <2>1
  <2>4. (((a - d) + 1) + ((q - a) + 1)) - 1 = (q - d) + 1
    BY <1>3, <2>1
  <2> QED BY <2>1, <2>2, <2>3, <2>4 DEF d
<1>6. SubSeq(f, lo, hi)[x] = f[(lo + x) - 1]
  <2> HIDE DEF lo, hi, x
  <2>1. lo \in 1 .. Len(f) + 1 /\ hi \in lo - 1 .. Len(f) /\ lo \in Int /\ hi \in Int
    BY <1>2, <1>5
  <2> QED BY <1>2, <1>5, <2>1
<1>7. (q - e.at) + 1 \in 1 .. Len(f)
  BY <1>1, <1>2, <1>3, SMTT(60)
<1>8. f[(q - e.at) + 1] \in Nat
  BY <1>2, <1>7
<1> QED BY <1>4, <1>5, <1>6, <1>8 DEF f

\* What a read of the stream finds is what the layout has there.
LEMMA StreamByte ==
  ASSUME Typed, Laid, Versions, changes = 0, wpc \in {"first", "second", "done"}, NEW offset \in Nat, NEW n \in Nat
  PROVE  /\ ReadAt(offset, n) = [x \in 1 .. n |-> Byte(offset + x - 1)]
         /\ \A q \in Nat : offset <= q /\ q < offset + n => Byte(q) \in Nat
<1> DEFINE m == Len(source)
           Holders(q) == {i \in 1 .. m : Touched(source[i], offset, n) /\ q \in Start(source[i], offset) .. Stop(source[i], offset, n) - 1}
           Found1(q) == IF Holders(q) # {} THEN Copied(source[CHOOSE i \in Holders(q) : TRUE], offset, n, q)
                        ELSE IF q < PrefixSize THEN PrefixByte(q) ELSE 0
<1>1. ReadAt(offset, n) = [x \in 1 .. n |-> Found1(offset + x - 1)]
  BY DEF ReadAt
<1>2. ASSUME NEW q \in Nat, offset <= q, q < offset + n
      PROVE  Found1(q) = Byte(q) /\ Byte(q) \in Nat
  <2>1. \A i \in 1 .. m : i \in Holders(q) <=> Holds(source[i], q)
    <3> TAKE i \in 1 .. m
    <3>1. source[i].at \in Nat /\ source[i].n \in Nat
      BY LaidFacts
    <3> QED BY <1>2, <3>1, SMTT(60) DEF Holds, Touched, Start, Stop, Least, Most
  <2>2. CASE \E i \in 1 .. m : Holds(source[i], q)
    <3>1. Holders(q) # {}
      BY <2>1, <2>2
    <3> DEFINE c == CHOOSE i \in Holders(q) : TRUE
    <3>2. c \in Holders(q)
      BY <3>1
    <3>3. Found1(q) = Copied(source[c], offset, n, q)
      BY <3>1
    <3> HIDE DEF c, Found1
    <3>4. c \in 1 .. m /\ Holds(source[c], q)
      BY <2>1, <3>2
    <3>5. source[c] \in Entry /\ source[c].n = Len(files[source[c].path])
      BY <3>4, LaidFacts DEF Versions
    <3>6. /\ Copied(source[c], offset, n, q) = files[source[c].path][q - source[c].at + 1]
          /\ files[source[c].path][q - source[c].at + 1] \in Nat
      BY <1>2, <3>4, <3>5, CopiedByte
    <3>7. Byte(q) = files[source[c].path][q - source[c].at + 1]
      BY <3>4, ByteOfHolder
    <3> QED BY <3>3, <3>6, <3>7
  <2>3. CASE ~ \E i \in 1 .. m : Holds(source[i], q)
    <3>1. Holders(q) = {}
      BY <2>1, <2>3
    <3>2. Found1(q) = IF q < PrefixSize THEN PrefixByte(q) ELSE 0
      BY <3>1
    <3>3. Byte(q) = IF q < PathEnd(source, Len(source)) THEN Directory(q) ELSE 0
      BY <2>3 DEF Byte
    <3> HIDE DEF Found1
    <3>4. PathEnd(source, Len(source)) <= PrefixSize /\ PathEnd(source, Len(source)) \in Nat /\ PrefixSize \in Nat
      BY LaidFacts
    <3> QED BY <3>2, <3>3, <3>4 DEF PrefixByte, Directory
  <2> QED BY <2>2, <2>3
<1> HIDE DEF Found1
<1>3. \A x \in 1 .. n : Found1(offset + x - 1) = Byte(offset + x - 1)
  <2> TAKE x \in 1 .. n
  <2>1. offset + x - 1 \in Nat /\ offset <= offset + x - 1 /\ offset + x - 1 < offset + n
    OBVIOUS
  <2> QED BY <1>2, <2>1
<1> QED BY <1>1, <1>2, <1>3

LEMMA InitWriter ==
  ASSUME Init
  PROVE  WInv /\ Shown
<1>1. Len(request) <= MaxEntries /\ Len(request) \in Nat
  BY BundleAssumption, EmptySeq, LenProperties DEF Init
<1>2. source = <<>> /\ second = <<>> /\ changes = 0 /\ wpc \in {"open", "none"} /\ Len(<<>>) = 0
  BY DEF Init
<1>3. \A i \in 1 .. 0 : FALSE
  OBVIOUS
<1>4. rpc # "none" => object = Foreign
  BY DEF Init
<1> QED BY <1>1, <1>2, <1>3, <1>4 DEF WInv, Asked, Laid, Versions, Written, Shown

LEMMA SameWriter ==
  ASSUME WInv, UNCHANGED <<files, changes, writer>>, wpc' \in {wpc, "failed"}
  PROVE  WInv'
<1>1. Asked'
  BY DEF WInv, Asked, writer
<1>2. Laid'
  <2>1. wpc' \in {"first", "second", "done"} => wpc \in {"first", "second", "done"}
    OBVIOUS
  <2>2. UNCHANGED <<source, request, BundleSize>>
    BY DEF BundleSize, writer
  <2> QED BY <2>1, <2>2 DEF WInv, Laid
<1>3. Versions'
  BY DEF WInv, Versions, writer
<1>4. Written'
  <2>1. UNCHANGED BundleSize /\ \A q : UNCHANGED Byte(q)
    BY DEF BundleSize, Byte, writer
  <2>2. wpc' # "failed" => wpc' = wpc
    OBVIOUS
  <2> QED BY <2>1, <2>2 DEF WInv, Written, writer
<1> QED BY <1>1, <1>2, <1>3, <1>4 DEF WInv

LEMMA ChangeWriter ==
  ASSUME WInv, Change
  PROVE  WInv'
<1>1. changes' \in Nat /\ changes' # 0 /\ UNCHANGED <<wpc, writer>>
  BY DEF Change, WInv, Asked
<1>2. Asked'
  BY <1>1 DEF WInv, Asked, writer
<1>3. Laid'
  <2>1. UNCHANGED <<wpc, source, request, BundleSize>>
    BY <1>1 DEF BundleSize, writer
  <2> QED BY <2>1 DEF WInv, Laid
<1>4. Versions' /\ Written'
  BY <1>1 DEF WInv, Versions, Written, writer
<1> QED BY <1>2, <1>3, <1>4 DEF WInv

LEMMA OpenFileWriter ==
  ASSUME Typed, WInv, OpenFile
  PROVE  WInv'
<1> DEFINE k == Len(source) + 1
           p == request[k]
           e == [path |-> p, n |-> Len(files[p]), sum |-> <<>>, at |-> 0, pathAt |-> 0, pn |-> PathSize[p]]
<1>1. Len(source) \in Nat /\ source \in Seq(Entry) /\ Len(source) < Len(request) /\ Len(request) \in Nat
  BY EntryFacts DEF Typed, OpenFile
<1>2. source' = Append(source, e) /\ wpc = "open" /\ wpc' = "sum" /\ UNCHANGED <<files, changes, request, position, second>>
  BY DEF OpenFile
<1>3. e.path = request[k] /\ e.n = Len(files[e.path]) /\ e.pn = PathSize[e.path]
  OBVIOUS
<1> HIDE DEF e
<1>4. Len(source') = k /\ source'[k] = e /\ \A i \in 1 .. Len(source) : source'[i] = source[i]
  BY <1>1, <1>2, AppendProperties
<1>5. \A i \in 1 .. k : i \in 1 .. Len(source) \/ i = k
  BY <1>1
<1>6. Asked'
  <2>1. k <= Len(request)
    BY <1>1
  <2>2. \A i \in 1 .. k : source'[i].pn = PathSize[source'[i].path] /\ source'[i].path = request[i]
    BY <1>2, <1>3, <1>4, <1>5 DEF WInv, Asked
  <2> HIDE DEF k
  <2> QED BY <1>2, <1>4, <2>1, <2>2 DEF WInv, Asked
<1>7. Versions'
  <2>1. ASSUME changes = 0, NEW i \in 1 .. k
        PROVE  source'[i].n = Len(files[source'[i].path]) /\ (i < k => source'[i].sum = files[source'[i].path])
    <3>1. CASE i = k
      BY <1>3, <1>4, <3>1
    <3>2. CASE i \in 1 .. Len(source)
      BY <1>2, <1>4, <2>1, <3>2 DEF WInv, Versions
    <3> QED BY <1>5, <3>1, <3>2
  <2> HIDE DEF k
  <2> QED BY <1>2, <1>4, <2>1 DEF Versions
<1>8. Laid' /\ Written'
  BY <1>2 DEF WInv, Laid, Written
<1> QED BY <1>6, <1>7, <1>8 DEF WInv

LEMMA ReplacedEntry ==
  ASSUME NEW es \in Seq(Entry), NEW k, NEW v
  PROVE  LET s == [es EXCEPT ![k] = v] IN
         Len(s) = Len(es) /\ \A i \in 1 .. Len(es) : s[i] = IF i = k THEN v ELSE es[i]
<1> DEFINE n == Len(es)  s == [es EXCEPT ![k] = v]
<1>1. n \in Nat /\ DOMAIN es = 1 .. n /\ \A i \in 1 .. n : es[i] \in Entry
  BY EntryFacts
<1>2. s = [i \in 1 .. n |-> IF i = k THEN v ELSE es[i]]
  BY <1>1
<1>3. s \in [1 .. n -> Entry \cup {v}]
  BY <1>1, <1>2
<1> HIDE DEF s
<1>4. Len(s) = n
  BY <1>1, <1>3
<1> QED BY <1>2, <1>4 DEF s

\* A file whose size is still what it was when it was opened, and whose bytes
\* nobody touched, is summed whole.
LEMMA ChecksumWriter ==
  ASSUME Typed, WInv, Checksum
  PROVE  WInv'
<1> DEFINE k == Len(source)  e == source[k]
<1>1. CASE GiveUp
  BY <1>1, SameWriter DEF GiveUp
<1>2. CASE source' = [source EXCEPT ![k].sum = FileBytes(e, 0, e.n)] /\ wpc' = "open"
           /\ UNCHANGED <<files, changes, request, position, second>>
  <2>1. k \in Nat /\ source \in Seq(Entry) /\ DOMAIN source = 1 .. k /\ \A i \in 1 .. k : source[i] \in Entry
    BY EntryFacts DEF Typed
  <2>2. source' = [source EXCEPT ![k] = [e EXCEPT !.sum = FileBytes(e, 0, e.n)]]
    BY <1>2
  <2> DEFINE s == FileBytes(e, 0, e.n)
  <2>3. Len(source') = k /\ \A i \in 1 .. k : source'[i] = IF i = k THEN [e EXCEPT !.sum = s] ELSE source[i]
    <3> DEFINE v == [e EXCEPT !.sum = s]
    <3> HIDE DEF v
    <3>1. source' = [source EXCEPT ![k] = v]
      BY <2>2 DEF v
    <3> QED BY <2>1, <3>1, ReplacedEntry DEF v
  <2>4. ASSUME NEW x \in Entry, NEW y
        PROVE  /\ [x EXCEPT !.sum = y].sum = y /\ [x EXCEPT !.sum = y].n = x.n
               /\ [x EXCEPT !.sum = y].path = x.path /\ [x EXCEPT !.sum = y].pn = x.pn
    BY DEF Entry
  <2>5. \A i \in 1 .. k : /\ source'[i].n = source[i].n /\ source'[i].path = source[i].path /\ source'[i].pn = source[i].pn
                          /\ source'[i].sum = IF i = k THEN s ELSE source[i].sum
    <3> TAKE i \in 1 .. k
    <3>1. CASE i = k
      <4>1. source'[i] = [source[i] EXCEPT !.sum = s] /\ source[i] \in Entry
        BY <2>1, <2>3, <3>1
      <4> QED BY <2>4, <3>1, <4>1
    <3>2. CASE i # k
      BY <2>3, <3>2
    <3> QED BY <3>1, <3>2
  <2>6. ASSUME changes = 0, k \in 1 .. k PROVE s = files[e.path]
    <3>1. e.n = Len(files[e.path]) /\ e.path \in Paths
      BY <2>1, <2>6, EntryFacts DEF WInv, Versions
    <3>2. files[e.path] \in Seq(Nat)
      BY <3>1 DEF Typed
    <3> DEFINE f == files[e.path]
    <3>3. s = SubSeq(f, 1, Len(f))
      <4>1. s = SubSeq(f, 0 + 1, 0 + e.n) /\ 0 + 1 = 1 /\ 0 + Len(f) = Len(f)
        BY <3>2 DEF FileBytes
      <4> QED BY <3>1, <4>1
    <3> QED BY <3>2, <3>3, SubSeqFull
  <2> HIDE DEF s
  <2>7. Asked'
    BY <1>2, <2>3, <2>5 DEF WInv, Asked, Checksum
  <2>8. Versions'
    <3>1. ASSUME changes = 0, NEW i \in 1 .. k
          PROVE  source'[i].n = Len(files[source'[i].path]) /\ source'[i].sum = files[source'[i].path]
      <4>1. source[i].n = Len(files[source[i].path]) /\ (i # k => source[i].sum = files[source[i].path])
        <5>1. k \in Nat /\ k = Len(source)
          BY <2>1
        <5> HIDE DEF k
        <5>2. i # k => i < k
          BY <3>1, <5>1
        <5> QED BY <3>1, <5>1, <5>2, Zenon DEF WInv, Versions
      <4>2. i = k => s = files[source[i].path]
        BY <2>6, <3>1
      <4> QED BY <2>5, <4>1, <4>2
    <3> HIDE DEF k
    <3> QED BY <1>2, <2>3, <3>1 DEF Versions
  <2>9. Laid' /\ Written'
    BY <1>2 DEF WInv, Laid, Written, Checksum
  <2> QED BY <2>7, <2>8, <2>9 DEF WInv
<1> QED BY <1>1, <1>2 DEF Checksum

\* Sorting moves whole entries, and what they are given then is their place.
LEMMA LayoutWriter ==
  ASSUME Typed, WInv, Layout
  PROVE  WInv'
<1>1. PICK sorted \in Orderings(source) :
        IF PortableUnique(PathsOf(sorted)) /\ DataOffset(sorted, Len(sorted) + 1) <= MaxBundle
        THEN /\ source' = Placed(sorted)
             /\ wpc' = "first"
             /\ UNCHANGED <<files, changes, request, position, first, second, object, rpc, found>>
        ELSE GiveUp
  BY DEF Layout
<1>2. CASE GiveUp
  BY <1>2, SameWriter DEF GiveUp
<1>3. CASE /\ PortableUnique(PathsOf(sorted)) /\ DataOffset(sorted, Len(sorted) + 1) <= MaxBundle
           /\ source' = Placed(sorted)
           /\ wpc' = "first"
           /\ UNCHANGED <<files, changes, request, position, second>>
  <2> DEFINE n == Len(source)
  <2>1. /\ source \in Seq(Entry) /\ n \in Nat /\ n = Len(request) /\ wpc = "open"
        /\ \A i \in 1 .. n : source[i].path = request[i] /\ source[i].pn = PathSize[source[i].path]
    BY EntryFacts DEF Typed, WInv, Asked, Layout
  <2>2. sorted \in Seq(Entry) /\ Len(sorted) = n /\ \A i, j \in 1 .. n : i < j => sorted[i].path <= sorted[j].path
    BY <2>1, OrderingFacts
  <2>3. PICK p \in Bijection(1 .. n, 1 .. n) : \A i \in 1 .. n : sorted[i] = source[p[i]]
    BY <2>1, OrderingFacts
  <2>4. p \in [1 .. n -> 1 .. n] /\ \A j \in 1 .. n : \E i \in 1 .. n : p[i] = j
    BY DEF Bijection, Injection, Surjection
  <2>5. Len(source') = n /\ \A i \in 1 .. n : source'[i] = [sorted[i] EXCEPT !.at = DataOffset(sorted, i), !.pathAt = PathEnd(sorted, i - 1)]
    BY <1>3, <2>2, PlacedFacts
  <2>6. ASSUME NEW e \in Entry, NEW a, NEW b
        PROVE  LET f == [e EXCEPT !.at = a, !.pathAt = b] IN
               f.path = e.path /\ f.n = e.n /\ f.sum = e.sum /\ f.pn = e.pn /\ f.at = a /\ f.pathAt = b
    BY DEF Entry
  <2>7. \A i \in 1 .. n :
          LET e == source[p[i]] IN
          /\ source'[i].path = e.path /\ source'[i].n = e.n /\ source'[i].sum = e.sum /\ source'[i].pn = e.pn
          /\ source'[i].at = DataOffset(sorted, i) /\ source'[i].pathAt = PathEnd(sorted, i - 1)
          /\ p[i] \in 1 .. n /\ e.path \in Paths
    <3> TAKE i \in 1 .. n
    <3>1. p[i] \in 1 .. n
      BY <2>4
    <3>2. source[p[i]] \in Entry /\ source[p[i]].path \in Paths
      BY <2>1, <3>1, EntryFacts
    <3>3. source'[i] = [source[p[i]] EXCEPT !.at = DataOffset(sorted, i), !.pathAt = PathEnd(sorted, i - 1)]
      BY <2>3, <2>5
    <3> HIDE DEF n
    <3> QED BY <2>6, <3>1, <3>2, <3>3
  <2>8. Asked'
    <3>1. \A i \in 1 .. n : source'[i].pn = PathSize[source'[i].path]
      BY <2>1, <2>7
    <3> QED BY <1>3, <2>5, <3>1 DEF WInv, Asked
  <2>9. Versions'
    <3>1. ASSUME changes = 0, NEW i \in 1 .. n
          PROVE  source'[i].n = Len(files[source'[i].path]) /\ source'[i].sum = files[source'[i].path]
      <4>1. p[i] \in 1 .. n
        BY <2>4
      <4>2. source[p[i]].n = Len(files[source[p[i]].path]) /\ source[p[i]].sum = files[source[p[i]].path]
        BY <2>1, <3>1, <4>1 DEF WInv, Versions
      <4> QED BY <2>7, <4>2
    <3> HIDE DEF n
    <3> QED BY <1>3, <2>5, <3>1 DEF Versions
  <2>10. Laid'
    <3>1. /\ \A i \in 1 .. n : \E j \in 1 .. n : source'[i].path = request[j]
          /\ \A j \in 1 .. n : \E i \in 1 .. n : source'[i].path = request[j]
      <4>1. \A i \in 1 .. n : source'[i].path = request[p[i]] /\ p[i] \in 1 .. n
        BY <2>1, <2>7
      <4>2. \A j \in 1 .. n : \E i \in 1 .. n : source'[i].path = request[j]
        <5> TAKE j \in 1 .. n
        <5>1. PICK i \in 1 .. n : p[i] = j
          BY <2>4
        <5> QED BY <4>1, <5>1
      <4> QED BY <4>1, <4>2
    <3>2. ASSUME NEW i \in 1 .. n, NEW j \in 1 .. n, i < j
          PROVE  source'[i].path < source'[j].path /\ Fold[source'[i].path] # Fold[source'[j].path]
      <4>1. sorted[i].path = source'[i].path /\ sorted[j].path = source'[j].path /\ source'[i].path \in Nat /\ source'[j].path \in Nat
        BY <2>3, <2>7, BundleAssumption
      <4>2. sorted[i].path <= sorted[j].path
        BY <2>2, <3>2
      <4>3. Len(PathsOf(sorted)) = n /\ PathsOf(sorted)[i] = sorted[i].path /\ PathsOf(sorted)[j] = sorted[j].path
        BY <2>2, <2>1 DEF PathsOf
      <4>4. Fold[sorted[i].path] # Fold[sorted[j].path]
        <5>1. i # j /\ i \in 1 .. Len(PathsOf(sorted)) /\ j \in 1 .. Len(PathsOf(sorted))
          BY <2>1, <3>2, <4>3
        <5>2. Fold[PathsOf(sorted)[i]] # Fold[PathsOf(sorted)[j]]
          BY <1>3, <5>1 DEF PortableUnique
        <5> QED BY <4>3, <5>2
      <4>5. sorted[i].path # sorted[j].path
        BY <4>4
      <4> QED BY <4>1, <4>2, <4>4, <4>5
    <3>3. ASSUME NEW i \in 1 .. n
          PROVE  source'[i].at = DataOffset(source', i) /\ source'[i].pathAt = PathEnd(source', i - 1)
      <4>1. i \in 1 .. Len(sorted) + 1 /\ i - 1 \in 0 .. Len(sorted)
        BY <2>1, <2>2
      <4> QED BY <1>3, <2>2, <2>7, <4>1, PlacedLayout
    <3>4. DataOffset(source', n + 1) <= MaxBundle
      <4>1. n + 1 \in 1 .. Len(sorted) + 1
        BY <2>1, <2>2
      <4>2. DataOffset(source', n + 1) = DataOffset(sorted, n + 1)
        BY <1>3, <2>2, <4>1, PlacedLayout
      <4> QED BY <1>3, <2>2, <4>2
    <3>5. Len(request') = n /\ Len(source') = n /\ request' = request
      BY <1>3, <2>1, <2>5
    <3> HIDE DEF n
    <3>6. /\ \A i \in 1 .. Len(source') : \E j \in 1 .. Len(request') : source'[i].path = request'[j]
          /\ \A j \in 1 .. Len(request') : \E i \in 1 .. Len(source') : source'[i].path = request'[j]
      BY <3>1, <3>5
    <3>7. BundleSize' <= MaxBundle
      BY <3>4, <3>5 DEF BundleSize
    <3>8. \A i, j \in 1 .. Len(source') : i < j =>
            source'[i].path < source'[j].path /\ Fold[source'[i].path] # Fold[source'[j].path]
      BY <3>2, <3>5
    <3>9. \A i \in 1 .. Len(source') : source'[i].at = DataOffset(source', i) /\ source'[i].pathAt = PathEnd(source', i - 1)
      BY <3>3, <3>5
    <3>10. Len(source') = Len(request')
      BY <3>5
    <3> QED BY <3>6, <3>7, <3>8, <3>9, <3>10, Zenon DEF Laid
  <2>11. Written'
    BY <1>3, <2>1 DEF WInv, Written
  <2> QED BY <2>8, <2>9, <2>10, <2>11 DEF WInv
<1> QED BY <1>1, <1>2, <1>3

LEMMA ReadChunkWriter ==
  ASSUME Typed, WInv, ReadChunk
  PROVE  WInv'
<1> DEFINE n == Least(Chunk, BundleSize - position)
           piece == ReadAt(position, n)
<1>1. wpc \in {"first", "second"} /\ position < BundleSize
  BY DEF ReadChunk
<1>2. CASE GiveUp
  BY <1>2, SameWriter DEF GiveUp
<1>3. CASE /\ position' = position + n
           /\ IF wpc = "first" THEN first' = first \o piece /\ UNCHANGED second
              ELSE second' = second \o piece /\ UNCHANGED first
           /\ UNCHANGED <<files, changes, request, wpc, source>>
  <2>1. Asked' /\ Versions'
    BY <1>3 DEF WInv, Asked, Versions
  <2>2. UNCHANGED BundleSize /\ \A q : UNCHANGED Byte(q)
    BY <1>3 DEF BundleSize, Byte
  <2>3. Laid'
    BY <1>3, <2>2 DEF WInv, Laid
  <2>4. ASSUME wpc = "first" PROVE Written'
    <3>1. wpc' = "first" /\ second' = <<>>
      BY <1>3, <2>4 DEF WInv, Written
    <3> QED BY <3>1 DEF Written
  <2>5. ASSUME wpc = "second", changes = 0
        PROVE  /\ second' \in Seq(Nat) /\ position' = Len(second') /\ position' <= BundleSize
               /\ \A q \in 0 .. position' - 1 : second'[q + 1] = Byte(q)
    <3>1. /\ second \in Seq(Nat) /\ position = Len(second) /\ position \in Nat /\ BundleSize \in Nat
          /\ \A q \in 0 .. position - 1 : second[q + 1] = Byte(q)
      BY <2>5, LaidFacts DEF WInv, Written
    <3>2. n \in Nat /\ position + n <= BundleSize
      BY <1>1, <3>1, BundleAssumption DEF Least
    <3> HIDE DEF n
    <3>3. piece = [x \in 1 .. n |-> Byte(position + x - 1)] /\ \A q \in Nat : position <= q /\ q < position + n => Byte(q) \in Nat
      BY <1>1, <2>5, <3>1, <3>2, StreamByte DEF WInv
    <3>4. \A x \in 1 .. n : position + x - 1 \in Nat /\ position <= position + x - 1 /\ position + x - 1 < position + n
      BY <3>1, <3>2
    <3>5. piece \in [1 .. n -> Nat]
      BY <3>3, <3>4
    <3> HIDE DEF piece
    <3>6. piece \in Seq(Nat) /\ Len(piece) = n
      BY <3>2, <3>5
    <3>7. second' = second \o piece
      BY <1>3, <2>5
    <3>8. /\ second' \in Seq(Nat) /\ Len(second') = position + n
          /\ \A x \in 1 .. position + n : second'[x] = IF x <= position THEN second[x] ELSE piece[x - position]
      BY <3>1, <3>2, <3>6, <3>7, ConcatProperties
    <3>9. ASSUME NEW q \in 0 .. (position + n) - 1 PROVE second'[q + 1] = Byte(q)
      <4>1. q + 1 \in 1 .. position + n
        BY <3>1, <3>2
      <4>2. CASE q < position
        <5>1. q \in 0 .. position - 1 /\ q + 1 <= position
          BY <3>1, <4>2
        <5> QED BY <3>1, <3>8, <4>1, <5>1
      <4>3. CASE ~(q < position)
        <5>1. (q + 1) - position \in 1 .. n /\ position + ((q + 1) - position) - 1 = q /\ ~(q + 1 <= position)
          BY <3>1, <3>2, <4>3
        <5>2. second'[q + 1] = piece[(q + 1) - position]
          BY <3>8, <4>1, <5>1
        <5>3. piece[(q + 1) - position] = Byte(q)
          BY <3>3, <5>1
        <5> QED BY <5>2, <5>3
      <4> QED BY <4>2, <4>3
    <3> QED BY <1>3, <3>1, <3>2, <3>8, <3>9 DEF n
  <2>6. ASSUME wpc = "second" PROVE Written'
    <3>1. wpc' = "second" /\ UNCHANGED changes
      BY <1>3, <2>6
    <3> HIDE DEF n, piece
    <3> QED BY <2>2, <2>5, <2>6, <3>1 DEF Written
  <2> QED BY <1>1, <2>1, <2>3, <2>4, <2>6 DEF WInv
<1> QED BY <1>2, <1>3 DEF ReadChunk

LEMMA PassWriter ==
  ASSUME Typed, WInv, FirstPassDone
  PROVE  WInv'
<1>1. wpc = "first" /\ wpc' = "second" /\ position' = 0 /\ second' = <<>> /\ UNCHANGED <<files, changes, request, source>>
  BY DEF FirstPassDone, WInv, Written
<1>2. BundleSize \in Nat /\ UNCHANGED BundleSize
  BY <1>1, LaidFacts DEF WInv, BundleSize
<1>3. Asked' /\ Versions' /\ Laid'
  BY <1>1, <1>2 DEF WInv, Asked, Versions, Laid
<1>4. <<>> \in Seq(Nat) /\ Len(<<>>) = 0 /\ \A q \in 0 .. 0 - 1 : FALSE
  BY EmptySeq
<1>5. Written'
  BY <1>1, <1>2, <1>4 DEF Written
<1> QED BY <1>3, <1>5 DEF WInv

LEMMA CommitWriter ==
  ASSUME RInv, WInv, Commit
  PROVE  WInv' /\ Shown'
<1>1. wpc = "second" /\ position = BundleSize /\ rpc = "none"
  BY DEF Commit, RInv, Fresh
<1>2. CASE GiveUp
  BY <1>1, <1>2, SameWriter DEF GiveUp, Shown
<1>3. CASE /\ wpc' = "done"
           /\ object' = [count |-> Len(source), data |-> PrefixSize, size |-> BundleSize, dir |-> source, bytes |-> second]
           /\ rpc' = "header"
           /\ UNCHANGED <<files, changes, writer, found>>
  <2>1. UNCHANGED <<BundleSize, PrefixSize>> /\ \A q : UNCHANGED Byte(q)
    BY <1>3 DEF BundleSize, PrefixSize, Byte, writer
  <2>2. Asked' /\ Versions' /\ Laid' /\ Written'
    BY <1>1, <1>3, <2>1 DEF WInv, Asked, Versions, Laid, Written, writer
  <2>3. dir = <<>> /\ checked = 0 /\ Len(<<>>) = 0 /\ \A i \in 1 .. 0 : FALSE
    BY <1>1 DEF RInv, Fresh
  <2>4. Shown'
    BY <1>3, <2>1, <2>3 DEF Shown, writer, found
  <2> QED BY <2>2, <2>4 DEF WInv
<1> QED BY <1>2, <1>3 DEF Commit

LEMMA NextWriter ==
  ASSUME RInv, WInv, [Next]_vars
  PROVE  WInv'
<1>1. CASE Change \/ OpenFile \/ Checksum \/ Layout \/ ReadChunk \/ FirstPassDone \/ Commit
  BY <1>1, ChangeWriter, OpenFileWriter, ChecksumWriter, LayoutWriter, ReadChunkWriter, PassWriter, CommitWriter DEF RInv
<1>2. CASE WriterFails
  BY <1>2, SameWriter DEF WriterFails, GiveUp
<1>3. CASE Unsound \/ ReaderFails \/ ReadHeader \/ ReadEntryHeader \/ Canonical \/ CheckEntry \/ Opened \/ UNCHANGED vars
  <2>1. UNCHANGED <<files, changes, wpc, writer>>
    BY <1>3 DEF Unsound, ReaderFails, ReadHeader, ReadEntryHeader, Canonical, CheckEntry, Opened, Refuse, vars
  <2> QED BY <2>1, SameWriter
<1> QED BY <1>1, <1>2, <1>3 DEF Next

\* The entries that are read are the writer's, and those whose checksum was
\* checked hold the bytes it was taken of.
LEMMA NextShown ==
  ASSUME RInv, WInv, Shown, [Next]_vars
  PROVE  Shown'
<1>1. CASE Commit
  BY <1>1, CommitWriter
<1>2. CASE rpc = "none" /\ ~Commit
  <2>1. rpc' = "none"
    BY <1>2 DEF Next, Change, WriterFails, GiveUp, OpenFile, Checksum, Layout, ReadChunk, FirstPassDone,
       Unsound, ReaderFails, Reading, ReadHeader, ReadEntryHeader, Canonical, CheckEntry, Opened, vars
  <2> QED BY <2>1 DEF Shown
<1>3. CASE rpc # "none"
  <2>1. wpc \in {"none", "done"}
    BY <1>3 DEF RInv, Fresh
  <2>2. UNCHANGED <<files, changes, wpc, writer, object>>
    BY <2>1 DEF Next, Change, WriterFails, OpenFile, Checksum, Layout, ReadChunk, FirstPassDone, Commit,
       Unsound, ReaderFails, ReadHeader, ReadEntryHeader, Canonical, CheckEntry, Opened, Refuse, vars
  <2> SUFFICES ASSUME object # Foreign
               PROVE  Shown'
    BY <2>2 DEF Shown
  <2>3. /\ wpc = "done"
        /\ object = [count |-> Len(source), data |-> PrefixSize, size |-> BundleSize, dir |-> source, bytes |-> second]
        /\ \A i \in 1 .. Len(dir) : dir[i] = source[i]
        /\ \A i \in 1 .. checked : Stored(dir[i].at, dir[i].n) = dir[i].sum
    BY <1>3 DEF Shown
  <2>4. UNCHANGED <<PrefixSize, BundleSize>> /\ \A a, b : UNCHANGED Stored(a, b)
    BY <2>2 DEF PrefixSize, BundleSize, Stored, writer
  <2>5. SUFFICES /\ \A i \in 1 .. Len(dir') : dir'[i] = source[i]
                 /\ \A i \in 1 .. checked' : Stored(dir'[i].at, dir'[i].n) = dir'[i].sum
    BY <2>2, <2>3, <2>4 DEF Shown, writer
  <2>6. CASE UNCHANGED <<dir, checked>>
    BY <2>3, <2>6
  <2>7. CASE dir' = <<>> /\ checked' = 0
    <3>1. Len(<<>>) = 0 /\ \A i \in 1 .. 0 : FALSE
      OBVIOUS
    <3> QED BY <2>7, <3>1
  <2>8. CASE ReadEntryHeader
    <3> DEFINE n == Len(dir)  k == n + 1
    <3>1. rpc = "entries" /\ n \in Nat /\ dir \in Seq(Entry) /\ checked = 0 /\ n < head.count
      BY <2>8, EntryFacts DEF ReadEntryHeader, RInv, Typed, Fresh
    <3>2. PICK e \in Found(object.dir[k], ForeignEntries(k)) :
            IF EntryOk(k, e)
            THEN dir' = Append(dir, e) /\ UNCHANGED <<files, changes, wpc, writer, object, rpc, head, checked, zero>>
            ELSE Refuse("refused")
      BY <2>8 DEF ReadEntryHeader
    <3>3. CASE Refuse("refused")
      BY <2>7, <3>3 DEF Refuse
    <3>4. CASE dir' = Append(dir, e) /\ checked' = checked
      <4>1. e = source[k]
        BY <2>3 DEF Found
      <4>2. e \in Entry
        BY <3>1, NextEntryTyped DEF RInv, Headed
      <4>3. Len(dir') = k /\ dir'[k] = e /\ \A i \in 1 .. n : dir'[i] = dir[i]
        BY <3>1, <3>4, <4>2, AppendProperties
      <4>4. \A i \in 1 .. k : dir'[i] = source[i]
        <5>1. \A i \in 1 .. k : i \in 1 .. n \/ i = k
          BY <3>1
        <5> QED BY <2>3, <4>1, <4>3, <5>1
      <4>5. \A i \in 1 .. checked' : FALSE
        BY <3>1, <3>4
      <4> HIDE DEF k
      <4> QED BY <4>3, <4>4, <4>5
    <3> QED BY <3>2, <3>3, <3>4
  <2>9. CASE CheckEntry
    <3>1. checked \in Nat /\ \A i \in 1 .. checked + 1 : i \in 1 .. checked \/ i = checked + 1
      BY <2>9 DEF CheckEntry, RInv, Checks, Typed, HeadRecord
    <3>2. CASE Refuse("refused")
      BY <2>7, <3>2 DEF Refuse
    <3>3. CASE SumOk(dir[checked + 1]) /\ checked' = checked + 1 /\ UNCHANGED dir
      BY <2>3, <3>1, <3>3 DEF SumOk
    <3> QED BY <2>9, <3>2, <3>3 DEF CheckEntry
  <2>10. CASE Unsound \/ ReaderFails \/ ReadHeader \/ Canonical \/ Opened
    <3>1. (dir' = <<>> /\ checked' = 0) \/ UNCHANGED <<dir, checked>>
      BY <2>10 DEF Unsound, ReaderFails, ReadHeader, Canonical, Opened, Refuse, found
    <3> QED BY <2>6, <2>7, <3>1
  <2>11. CASE UNCHANGED vars
    BY <2>6, <2>11 DEF vars, found
  <2> QED BY <2>1, <2>3, <2>8, <2>9, <2>10, <2>11 DEF Next, Change, WriterFails, OpenFile, Checksum, Layout,
          ReadChunk, FirstPassDone, Commit
<1> QED BY <1>1, <1>2, <1>3

LEMMA WriterHolds == Spec => []OInv
<1>1. Init => OInv
  BY InitReader, InitWriter DEF OInv
<1>2. OInv /\ [Next]_vars => OInv'
  BY NextReader, NextWriter, NextShown DEF OInv
<1> QED BY <1>1, <1>2, PTL DEF Spec

\* Wherever a read of the stream begins and ends, it finds what a reader of the
\* whole bundle would find there.
THEOREM ReadsKnowTheSeams == Spec => []StreamIsLayout
<1>1. OInv => StreamIsLayout
  <2> SUFFICES ASSUME OInv, wpc = "first", changes = 0
               PROVE  \A offset \in 0 .. BundleSize : \A n \in 0 .. BundleSize - offset :
                        ReadAt(offset, n) = [x \in 1 .. n |-> Byte(offset + x - 1)]
    BY DEF StreamIsLayout, Byte, Holds
  <2> TAKE offset \in 0 .. BundleSize
  <2> TAKE n \in 0 .. BundleSize - offset
  <2>1. Typed /\ Laid /\ Versions
    BY DEF OInv, RInv, WInv
  <2>2. offset \in Nat /\ n \in Nat
    BY <2>1, LaidFacts
  <2> QED BY <2>1, <2>2, StreamByte
<1> QED BY <1>1, WriterHolds, PTL

\* A bundle that opens holds, for every file, the bytes its checksum was taken
\* of, whatever happened to the files while it was written; and when nothing
\* happened to them, those are the bytes of the file.
THEOREM BundleIsOneVersion == Spec => []OpensToOneVersion
<1>1. OInv => OpensToOneVersion
  <2> SUFFICES ASSUME OInv, rpc = "ready", object # Foreign, NEW i \in 1 .. Len(dir)
               PROVE  /\ Stored(dir[i].at, dir[i].n) = dir[i].sum
                      /\ changes = 0 => dir[i].sum = files[dir[i].path]
    BY DEF OpensToOneVersion
  <2>1. checked = Len(dir) /\ Len(dir) = Len(source) /\ wpc = "done" /\ dir[i] = source[i]
    <3>1. Len(dir) = head.count /\ checked = head.count /\ head.count = object.count
      BY DEF OInv, RInv, Checks, Headed
    <3>2. object.count = Len(source) /\ wpc = "done" /\ dir[i] = source[i]
      BY DEF OInv, Shown
    <3> QED BY <3>1, <3>2
  <2>2. Stored(dir[i].at, dir[i].n) = dir[i].sum
    BY <2>1 DEF OInv, Shown
  <2>3. changes = 0 => source[i].sum = files[source[i].path]
    BY <2>1 DEF OInv, WInv, Versions
  <2> QED BY <2>1, <2>2, <2>3
<1> QED BY <1>1, WriterHolds, PTL

-----------------------------------------------------------------------------
(***************************************************************************)
(* Files that nobody touches: every check of the reader finds what the     *)
(* writer laid out.                                                        *)
(***************************************************************************)
Untouched == rpc # "none" /\ object # Foreign /\ changes = 0

Opens == Untouched => rpc # "refused"

\* The directory, and the zeroes behind it and behind every file.
LEMMA BytesBetween ==
  ASSUME Typed, Laid, wpc \in {"first", "second", "done"}, NEW q \in Nat
  PROVE  /\ q < PrefixSize => Byte(q) = IF q < PathEnd(source, Len(source)) THEN Directory(q) ELSE 0
         /\ \A i \in 1 .. Len(source) : source[i].at + source[i].n <= q /\ q < EndOf(source[i]) => Byte(q) = 0
<1>1. (~ \E j \in 1 .. Len(source) : Holds(source[j], q)) =>
        Byte(q) = IF q < PathEnd(source, Len(source)) THEN Directory(q) ELSE 0
  BY DEF Byte
<1>2. ASSUME q < PrefixSize, NEW j \in 1 .. Len(source) PROVE ~Holds(source[j], q)
  <2>1. PrefixSize \in Nat /\ source[j].at \in Nat /\ PrefixSize <= source[j].at
    BY LaidFacts
  <2> QED BY <1>2, <2>1 DEF Holds
<1>3. ASSUME NEW i \in 1 .. Len(source), source[i].at + source[i].n <= q, q < EndOf(source[i])
      PROVE  Byte(q) = 0
  <2>1. /\ PathEnd(source, Len(source)) \in Nat /\ PrefixSize \in Nat /\ PathEnd(source, Len(source)) <= PrefixSize
        /\ source[i].at \in Nat /\ source[i].n \in Nat /\ PrefixSize <= source[i].at /\ EndOf(source[i]) \in Nat
    BY LaidFacts
  <2>2. ASSUME NEW j \in 1 .. Len(source) PROVE ~Holds(source[j], q)
    <3>1. source[j].at \in Nat /\ source[j].n \in Nat /\ EndOf(source[j]) \in Nat /\ source[j].at + source[j].n <= EndOf(source[j])
      BY LaidFacts
    <3>2. CASE j = i
      BY <1>3, <2>1, <3>2 DEF Holds
    <3>3. CASE i < j
      <4>1. EndOf(source[i]) <= source[j].at
        BY <3>3, LaidFacts
      <4> QED BY <1>3, <2>1, <3>1, <4>1 DEF Holds
    <3>4. CASE j < i
      <4>1. EndOf(source[j]) <= source[i].at
        BY <3>4, LaidFacts
      <4>2. source[i].at <= q
        BY <1>3, <2>1
      <4>3. source[j].at + source[j].n <= q
        BY <2>1, <3>1, <4>1, <4>2, SMTT(60)
      <4>4. q < source[j].at + source[j].n => FALSE
        BY <3>1, <4>3
      <4> QED BY <4>4 DEF Holds
    <3>5. Len(source) \in Nat
      BY LaidFacts
    <3> QED BY <3>2, <3>3, <3>4, <3>5
  <2>3. ~(q < PathEnd(source, Len(source)))
    BY <1>3, <2>1
  <2> QED BY <1>1, <2>2, <2>3
<1> QED BY <1>1, <1>2, <1>3

\* What is stored.
LEMMA StoredLayout ==
  ASSUME OInv, Untouched
  PROVE  /\ wpc = "done" /\ Typed /\ Laid /\ Versions
         /\ object.count = Len(source) /\ object.data = PrefixSize /\ object.size = BundleSize
         /\ object.dir = source /\ object.bytes = second
         /\ second \in Seq(Nat) /\ Len(second) = BundleSize
         /\ \A q \in 0 .. BundleSize - 1 : object.bytes[q + 1] = Byte(q)
         /\ \A i \in 1 .. Len(dir) : dir[i] = source[i]
<1>1. object = [count |-> Len(source), data |-> PrefixSize, size |-> BundleSize, dir |-> source, bytes |-> second]
  BY DEF OInv, Untouched, Shown
<1>2. wpc = "done" /\ changes = 0 /\ \A i \in 1 .. Len(dir) : dir[i] = source[i]
  BY DEF OInv, Untouched, Shown
<1> QED BY <1>1, <1>2 DEF OInv, RInv, WInv, Written

LEMMA HeaderOpens ==
  ASSUME OInv, Untouched, ReadHeader
  PROVE  rpc' = "entries"
<1>1. /\ wpc = "done" /\ Typed /\ Laid
      /\ object.count = Len(source) /\ object.data = PrefixSize /\ object.size = BundleSize /\ object.dir = source
      /\ \A q \in 0 .. BundleSize - 1 : object.bytes[q + 1] = Byte(q)
  BY StoredLayout
<1>2. /\ Len(source) \in Nat /\ PrefixSize \in Nat /\ BundleSize \in Nat /\ PathEnd(source, Len(source)) \in Nat
      /\ PathEnd(source, Len(source)) <= PrefixSize /\ PrefixSize <= BundleSize /\ BundleSize <= MaxBundle
      /\ source \in Seq(Entry)
  BY <1>1, LaidFacts DEF Laid, Typed
<1> DEFINE h == [count |-> Len(source), data |-> PrefixSize, size |-> BundleSize]
<1>3. HeaderOk(h)
  <2>1. Len(source) <= MaxEntries
    BY <1>1 DEF Laid, OInv, WInv, Asked
  <2>2. PrefixSize % Align = 0
    BY <1>2, AlignUpFacts DEF PrefixSize
  <2>3. PathTable(Len(source)) <= PathEnd(source, Len(source))
    <3>1. 0 \in 0 .. Len(source) /\ Len(source) \in 0 .. Len(source) /\ 0 <= Len(source)
      BY <1>2
    <3> QED BY <1>2, <3>1, PathsOrdered, PathEnds
  <2>4. HeaderSize <= PathTable(Len(source)) /\ PathTable(Len(source)) \in Nat /\ HeaderSize \in Nat
    <3>1. Len(source) * EntrySize \in Nat
      BY <1>2, BundleAssumption
    <3> QED BY <3>1, BundleAssumption DEF PathTable
  <2>5. HeaderSize <= BundleSize /\ PathTable(Len(source)) <= PrefixSize
    BY <1>2, <2>3, <2>4
  <2> QED BY <1>2, <2>1, <2>2, <2>5 DEF HeaderOk
<1>4. ~Garbled
  <2>1. ASSUME NEW q \in 0 .. PathEnd(source, Len(source)) - 1 PROVE object.bytes[q + 1] = Directory(q)
    <3>1. q \in Nat /\ q < PrefixSize /\ q < PathEnd(source, Len(source)) /\ q \in 0 .. BundleSize - 1
      BY <1>2
    <3> QED BY <1>1, <3>1, BytesBetween
  <2> QED BY <1>1, <2>1 DEF Garbled
<1>5. PICK n \in Found(object.count, 0 .. MaxEntries), d \in Found(object.data, Offsets), s \in Found(object.size, Offsets) :
        LET g == [count |-> n, data |-> d, size |-> s] IN
        IF HeaderOk(g) /\ ~Garbled
        THEN rpc' = "entries" /\ head' = g /\ UNCHANGED <<files, changes, wpc, writer, object, dir, checked, zero>>
        ELSE Refuse("refused")
  BY DEF ReadHeader
<1>6. n = Len(source) /\ d = PrefixSize /\ s = BundleSize
  BY <1>1 DEF Found, Untouched
<1> QED BY <1>3, <1>4, <1>5, <1>6

\* The cursors of the reader are the offsets of the writer.
LEMMA CursorsAgree ==
  ASSUME OInv, Untouched, rpc \in {"entries", "check", "ready"}, NEW k \in 1 .. Len(dir) + 1
  PROVE  /\ head.count = Len(source) /\ head.data = PrefixSize /\ head.size = BundleSize
         /\ Len(dir) \in Nat /\ Len(dir) <= Len(source)
         /\ PathCursor(k) = PathEnd(source, k - 1)
         /\ DataCursor(k) = DataOffset(source, k)
<1>1. /\ wpc = "done" /\ Typed /\ Laid
      /\ object.count = Len(source) /\ object.data = PrefixSize /\ object.size = BundleSize
      /\ \A i \in 1 .. Len(dir) : dir[i] = source[i]
  BY StoredLayout
<1>2. head.count = Len(source) /\ head.data = PrefixSize /\ head.size = BundleSize /\ Len(dir) <= Len(source)
  BY <1>1 DEF OInv, RInv, Headed, Tiled, Untouched
<1>3. /\ Len(dir) \in Nat /\ Len(source) \in Nat /\ source \in Seq(Entry)
      /\ PrefixSize = DataOffset(source, 1)
  BY <1>1, EntryFacts, LaidFacts DEF Typed
<1>4. CASE k = 1
  BY <1>2, <1>3, <1>4, PathEnds DEF PathCursor, DataCursor
<1>5. CASE k # 1
  <2> DEFINE j == k - 1
  <2>1. j \in 1 .. Len(source) /\ j \in 1 .. Len(dir) /\ j + 1 = k
    BY <1>2, <1>3, <1>5
  <2>2. dir[j] = source[j] /\ source[j].at = DataOffset(source, j) /\ source[j].pathAt = PathEnd(source, j - 1)
    BY <1>1, <2>1 DEF Laid
  <2>3. PathCursor(k) = source[j].pathAt + source[j].pn /\ DataCursor(k) = AlignUp(source[j].at + source[j].n)
    BY <1>5, <2>2 DEF PathCursor, DataCursor
  <2> HIDE DEF j
  <2>4. PathEnd(source, j) = PathEnd(source, j - 1) + source[j].pn /\ DataOffset(source, j + 1) = AlignUp(DataOffset(source, j) + source[j].n)
    BY <1>3, <2>1, PathEnds, DataOffsets
  <2>5. j = k - 1
    BY DEF j
  <2> QED BY <1>2, <1>3, <2>1, <2>2, <2>3, <2>4, <2>5
<1> QED BY <1>2, <1>3, <1>4, <1>5

LEMMA EntryOpens ==
  ASSUME OInv, Untouched, ReadEntryHeader
  PROVE  rpc' = "entries"
<1> DEFINE k == Len(dir) + 1  e == source[k]
<1>1. rpc = "entries" /\ Len(dir) < head.count
  BY DEF ReadEntryHeader
<1>2. /\ wpc = "done" /\ Typed /\ Laid /\ object.dir = source
      /\ \A i \in 1 .. Len(dir) : dir[i] = source[i]
  BY StoredLayout
<1>3. Len(dir) \in Nat /\ k \in 1 .. Len(dir) + 1
  BY <1>2, EntryFacts DEF Typed
<1>4. /\ head.count = Len(source) /\ head.data = PrefixSize /\ head.size = BundleSize
      /\ PathCursor(k) = PathEnd(source, k - 1) /\ DataCursor(k) = DataOffset(source, k)
  BY <1>1, <1>3, CursorsAgree
<1>5. k \in 1 .. Len(source) /\ Len(source) \in Nat /\ source \in Seq(Entry)
  BY <1>1, <1>2, <1>3, <1>4, LaidFacts DEF Typed
<1>6. e.at = DataOffset(source, k) /\ e.pathAt = PathEnd(source, k - 1)
  BY <1>2, <1>5 DEF Laid
<1>7. /\ PrefixSize \in Nat /\ BundleSize \in Nat /\ PathEnd(source, Len(source)) <= PrefixSize
      /\ e.at \in Nat /\ e.n \in Nat /\ EndOf(e) \in Nat /\ e.at + e.n <= EndOf(e) /\ EndOf(e) <= BundleSize
  BY <1>2, <1>5, LaidFacts
<1>8. e.pn \in Nat /\ e.pn # 0 /\ e.pn <= MaxPath
  <2>1. e.pn = PathSize[e.path] /\ e.path \in Paths
    BY <1>5, EntryFacts DEF OInv, WInv, Asked
  <2>2. PathSize[e.path] \in 1 .. MaxPath
    BY <2>1, BundleAssumption
  <2> QED BY <2>1, <2>2, BundleAssumption
<1>9. e.pathAt \in Nat /\ e.pathAt + e.pn <= PrefixSize
  <2>1. k - 1 \in 0 .. Len(source) /\ k \in 0 .. Len(source) /\ k <= Len(source) /\ Len(source) \in 0 .. Len(source)
    BY <1>5
  <2>2. /\ PathEnd(source, k) = PathEnd(source, k - 1) + e.pn
        /\ PathEnd(source, k - 1) \in Nat /\ PathEnd(source, k) \in Nat /\ PathEnd(source, Len(source)) \in Nat
    BY <1>5, <2>1, PathEnds
  <2>3. PathEnd(source, k) <= PathEnd(source, Len(source))
    BY <1>5, <2>1, PathsOrdered
  <2> QED BY <1>6, <1>7, <2>2, <2>3
<1>10. k > 1 => dir[k - 1].path < e.path /\ Fold[dir[k - 1].path] # Fold[e.path]
  <2> SUFFICES ASSUME k > 1
               PROVE  dir[k - 1].path < e.path /\ Fold[dir[k - 1].path] # Fold[e.path]
    OBVIOUS
  <2>1. k - 1 \in 1 .. Len(dir) /\ k - 1 \in 1 .. Len(source) /\ k - 1 < k
    BY <1>3, <1>5
  <2>2. dir[k - 1] = source[k - 1]
    BY <1>2, <2>1
  <2>3. source[k - 1].path < source[k].path /\ Fold[source[k - 1].path] # Fold[source[k].path]
    <3> HIDE DEF k
    <3> QED BY <1>2, <1>5, <2>1 DEF Laid
  <2> QED BY <2>2, <2>3
<1>11. EntryOk(k, e)
  <2>1. e.pathAt <= head.data /\ e.pn <= head.data - e.pathAt /\ e.n <= head.size - e.at
    <3> DEFINE a == e.pathAt  b == e.pn  c == e.at  d == e.n
    <3>1. a \in Nat /\ b \in Nat /\ c \in Nat /\ d \in Nat /\ a + b <= PrefixSize /\ c + d <= EndOf(e)
      BY <1>7, <1>8, <1>9
    <3> HIDE DEF a, b, c, d, e
    <3>2. a <= PrefixSize /\ b <= PrefixSize - a /\ d <= BundleSize - c
      BY <1>7, <3>1
    <3> QED BY <1>4, <3>2 DEF a, b, c, d
  <2>2. AlignUp(e.at + e.n) <= head.size
    BY <1>4, <1>7 DEF EndOf
  <2> HIDE DEF e, k
  <2> QED BY <1>4, <1>6, <1>8, <1>10, <2>1, <2>2 DEF EntryOk
<1>12. PICK x \in Found(object.dir[k], ForeignEntries(k)) :
         IF EntryOk(k, x)
         THEN dir' = Append(dir, x) /\ UNCHANGED <<files, changes, wpc, writer, object, rpc, head, checked, zero>>
         ELSE Refuse("refused")
  BY DEF ReadEntryHeader
<1>13. x = e
  BY <1>2 DEF Found, Untouched
<1> HIDE DEF e, k
<1> QED BY <1>1, <1>11, <1>12, <1>13

LEMMA CanonicalOpens ==
  ASSUME OInv, Untouched, Canonical
  PROVE  rpc' = "check"
<1> DEFINE pathEnd == PathCursor(head.count + 1)
<1>1. rpc = "entries" /\ Len(dir) = head.count
  BY DEF Canonical
<1>2. /\ wpc = "done" /\ Typed /\ Laid
      /\ \A q \in 0 .. BundleSize - 1 : object.bytes[q + 1] = Byte(q)
      /\ \A i \in 1 .. Len(dir) : dir[i] = source[i]
  BY StoredLayout
<1>3. Len(dir) \in Nat /\ Len(dir) + 1 \in 1 .. Len(dir) + 1 /\ (Len(dir) + 1) - 1 = Len(dir)
  BY <1>2, EntryFacts DEF Typed
<1>4. /\ Len(dir) = Len(source) /\ head.data = PrefixSize /\ head.size = BundleSize
      /\ pathEnd = PathEnd(source, Len(source)) /\ DataCursor(head.count + 1) = DataOffset(source, Len(source) + 1)
  <2>1. /\ head.count = Len(source) /\ head.data = PrefixSize /\ head.size = BundleSize
        /\ PathCursor(Len(dir) + 1) = PathEnd(source, (Len(dir) + 1) - 1) /\ DataCursor(Len(dir) + 1) = DataOffset(source, Len(dir) + 1)
    BY <1>1, <1>3, CursorsAgree
  <2> QED BY <1>1, <1>3, <2>1
<1>5. PortableUnique(PathsOf(dir))
  <2>1. Len(PathsOf(dir)) = Len(dir) /\ \A i \in 1 .. Len(dir) : PathsOf(dir)[i] = source[i].path
    BY <1>2, <1>3 DEF PathsOf
  <2>2. \A i, j \in 1 .. Len(dir) : i < j => Fold[source[i].path] # Fold[source[j].path]
    BY <1>2, <1>4 DEF Laid
  <2>3. \A i, j \in 1 .. Len(dir) : i # j => i < j \/ j < i
    BY <1>3
  <2> QED BY <2>1, <2>2, <2>3 DEF PortableUnique
<1>6. AlignUp(pathEnd) = head.data /\ EndsThere
  BY <1>2, <1>4, LaidFacts DEF PrefixSize, EndsThere
<1>7. Zeroed(Span(pathEnd, head.data))
  <2>1. ASSUME NEW q \in Span(pathEnd, head.data) PROVE object.bytes[q + 1] = 0
    <3>1. /\ PrefixSize \in Nat /\ BundleSize \in Nat /\ PrefixSize <= BundleSize
          /\ PathEnd(source, Len(source)) \in Nat
      BY <1>2, LaidFacts
    <3>2. q \in Nat /\ PathEnd(source, Len(source)) <= q /\ q < PrefixSize
      BY <1>4, BundleAssumption DEF Span, Offsets
    <3>3. q \in 0 .. BundleSize - 1 /\ ~(q < PathEnd(source, Len(source)))
      BY <3>1, <3>2
    <3> QED BY <1>2, <3>2, <3>3, BytesBetween
  <2> QED BY <2>1 DEF Zeroed
<1> HIDE DEF pathEnd
<1>8. IF /\ PortableUnique(PathsOf(dir))
         /\ AlignUp(pathEnd) = head.data
         /\ EndsThere
         /\ Zeroed(Span(pathEnd, head.data))
      THEN rpc' = "check" /\ zero' = zero \cup Span(pathEnd, head.data) /\ UNCHANGED <<files, changes, wpc, writer, object, head, dir, checked>>
      ELSE Refuse("refused")
  BY DEF Canonical, pathEnd
<1> QED BY <1>5, <1>6, <1>7, <1>8

LEMMA CheckOpens ==
  ASSUME OInv, Untouched, CheckEntry
  PROVE  rpc' = "check"
<1> DEFINE k == checked + 1  e == dir[k]
<1>1. rpc = "check" /\ checked < head.count
  BY DEF CheckEntry
<1>2. /\ wpc = "done" /\ Typed /\ Laid /\ Versions /\ object.bytes = second
      /\ second \in Seq(Nat) /\ Len(second) = BundleSize
      /\ \A q \in 0 .. BundleSize - 1 : object.bytes[q + 1] = Byte(q)
      /\ \A i \in 1 .. Len(dir) : dir[i] = source[i]
  BY StoredLayout
<1>3. Len(dir) = head.count /\ checked \in Nat /\ Len(dir) \in Nat /\ head.count = Len(source)
  <2>1. Len(dir) \in Nat /\ Len(dir) + 1 \in 1 .. Len(dir) + 1
    BY <1>2, EntryFacts DEF Typed
  <2> QED BY <1>1, <2>1, CursorsAgree DEF OInv, RInv, Checks
<1>4. k \in 1 .. Len(source) /\ e = source[k]
  BY <1>1, <1>2, <1>3
<1> HIDE DEF k, e
<1>5. /\ e \in Entry /\ e.at \in Nat /\ e.n \in Nat /\ EndOf(e) \in Nat /\ BundleSize \in Nat
      /\ e.at + e.n <= EndOf(e) /\ EndOf(e) <= BundleSize
  BY <1>2, <1>4, LaidFacts
<1>6. e.n = Len(files[e.path]) /\ e.sum = files[e.path] /\ files[e.path] \in Seq(Nat)
  <2>1. e.n = Len(files[e.path]) /\ e.sum = files[e.path]
    BY <1>2, <1>4 DEF Versions, Untouched
  <2>2. e.path \in Paths
    BY <1>5 DEF Entry
  <2> QED BY <1>2, <2>1, <2>2 DEF Typed
<1>7. Stored(e.at, e.n) = e.sum
  <2> DEFINE a == e.at  n == e.n  f == files[e.path]  s == SubSeq(second, a + 1, a + n)
  <2>1. a \in Nat /\ n \in Nat /\ a + n <= BundleSize /\ f \in Seq(Nat) /\ Len(f) = n
    BY <1>5, <1>6
  <2>2. ASSUME NEW x \in 1 .. n PROVE second[a + x] = f[x] /\ second[a + x] \in Nat
    <3> DEFINE q == a + x - 1
    <3>1. q \in Nat /\ a <= q /\ q < a + n /\ q \in 0 .. BundleSize - 1 /\ q + 1 = a + x /\ (q - a) + 1 = x /\ a + x \in 1 .. Len(second)
      <4>1. BundleSize \in Nat /\ BundleSize = Len(second)
        BY <1>2, <1>5
      <4> DEFINE z == BundleSize
      <4> HIDE DEF a, n, z
      <4>2. a + x \in 1 .. z /\ (a + x) - 1 \in 0 .. z - 1 /\ a + x - 1 = (a + x) - 1
        BY <2>1, <4>1 DEF z
      <4>3. ((a + x) - 1) - a = x - 1 /\ (x - 1) + 1 = x /\ ((a + x) - 1) + 1 = a + x /\ a <= (a + x) - 1 /\ (a + x) - 1 < a + n
        BY <2>1
      <4> QED BY <4>1, <4>2, <4>3 DEF z
    <3>2. Holds(e, q)
      BY <3>1 DEF Holds
    <3> HIDE DEF q
    <3>3. Byte(q) = files[e.path][q - e.at + 1]
      BY <1>2, <1>4, <3>1, <3>2, ByteOfHolder
    <3>4. second[q + 1] = Byte(q)
      BY <1>2, <3>1
    <3> QED BY <1>2, <3>1, <3>3, <3>4
  <2>3. Stored(e.at, e.n) = s
    BY <1>2 DEF Stored
  <2> HIDE DEF a, n, f
  <2>4. s \in Seq(Nat) /\ Len(s) = n /\ \A x \in 1 .. n : s[x] = second[a + x]
    <3>1. \A i \in a + 1 .. a + n : i - a \in 1 .. n /\ a + (i - a) = i
      BY <2>1
    <3>2. \A i \in a + 1 .. a + n : second[i] \in Nat
      BY <2>2, <3>1
    <3>3. a + 1 \in Int /\ a + n \in Int
      BY <2>1
    <3>4. /\ s \in Seq(Nat)
          /\ Len(s) = IF a + 1 <= a + n THEN ((a + n) - (a + 1)) + 1 ELSE 0
          /\ \A i \in 1 .. ((a + n) - (a + 1)) + 1 : s[i] = second[((a + 1) + i) - 1]
      <4>1. /\ SubSeq(second, a + 1, a + n) \in Seq(Nat)
            /\ Len(SubSeq(second, a + 1, a + n)) = IF a + 1 <= a + n THEN (a + n) - (a + 1) + 1 ELSE 0
            /\ \A i \in 1 .. (a + n) - (a + 1) + 1 : SubSeq(second, a + 1, a + n)[i] = second[(a + 1) + i - 1]
        BY <3>2, <3>3, SubSeqProperties
      <4>2. \A i \in Int : (a + 1) + i - 1 = ((a + 1) + i) - 1
        BY <2>1
      <4> QED BY <4>1, <4>2
    <3>5. ((a + n) - (a + 1)) + 1 = n /\ (~(a + 1 <= a + n) => n = 0) /\ \A i \in 1 .. n : ((a + 1) + i) - 1 = a + i
      BY <2>1
    <3> HIDE DEF s
    <3> QED BY <3>4, <3>5
  <2> HIDE DEF s
  <2>5. s = f
    BY <2>1, <2>2, <2>4, SeqEqual
  <2> QED BY <1>6, <2>3, <2>5 DEF f
<1>8. Zeroed(Span(e.at + e.n, AlignUp(e.at + e.n)))
  <2>1. ASSUME NEW q \in Span(e.at + e.n, AlignUp(e.at + e.n)) PROVE object.bytes[q + 1] = 0
    <3>1. q \in Nat /\ e.at + e.n <= q /\ q < EndOf(e)
      BY BundleAssumption DEF Span, Offsets, EndOf
    <3>2. q \in 0 .. BundleSize - 1
      BY <1>5, <3>1
    <3> QED BY <1>2, <1>4, <3>1, <3>2, BytesBetween
  <2> QED BY <2>1 DEF Zeroed
<1>9. IF SumOk(e) /\ Zeroed(Span(e.at + e.n, AlignUp(e.at + e.n)))
      THEN UNCHANGED rpc
      ELSE Refuse("refused")
  BY DEF CheckEntry, e, k
<1> QED BY <1>1, <1>7, <1>8, <1>9 DEF SumOk

LEMMA NextOpens ==
  ASSUME OInv, Opens, [Next]_vars
  PROVE  Opens'
<1>1. CASE rpc = "none"
  <2>1. rpc' \in {"none", "header"}
    BY <1>1 DEF Next, Change, WriterFails, GiveUp, OpenFile, Checksum, Layout, ReadChunk, FirstPassDone, Commit,
       Unsound, ReaderFails, Reading, ReadHeader, ReadEntryHeader, Canonical, CheckEntry, Opened, vars
  <2> QED BY <2>1 DEF Opens
<1>2. CASE rpc # "none"
  <2>1. wpc \in {"none", "done"}
    BY <1>2 DEF OInv, RInv, Fresh
  <2>2. UNCHANGED <<changes, object>>
    BY <2>1 DEF Next, Change, WriterFails, OpenFile, Checksum, Layout, ReadChunk, FirstPassDone, Commit,
       Unsound, ReaderFails, ReadHeader, ReadEntryHeader, Canonical, CheckEntry, Opened, Refuse, vars
  <2> SUFFICES ASSUME object # Foreign, changes = 0
               PROVE  rpc' # "refused"
    BY <2>2 DEF Opens, Untouched
  <2>3. Untouched
    BY <1>2 DEF Untouched
  <2>4. ~(Change \/ WriterFails \/ OpenFile \/ Checksum \/ Layout \/ ReadChunk \/ FirstPassDone \/ Commit \/ Unsound)
    BY <2>1 DEF Change, WriterFails, OpenFile, Checksum, Layout, ReadChunk, FirstPassDone, Commit, Unsound
  <2>5. CASE ReaderFails \/ Opened
    BY <2>5 DEF ReaderFails, Opened, Refuse
  <2>6. CASE UNCHANGED vars
    BY <2>3, <2>6 DEF Opens, vars
  <2> QED BY <2>3, <2>4, <2>5, <2>6, HeaderOpens, EntryOpens, CanonicalOpens, CheckOpens DEF Next
<1> QED BY <1>1, <1>2

\* Files that nobody touches make a bundle that opens, with exactly the paths
\* that were asked for.
THEOREM UntouchedBundleOpens == Spec => []UntouchedOpens
<1>1. Init => OInv /\ Opens
  BY InitReader, InitWriter DEF OInv, Init, Opens, Untouched
<1>2. OInv /\ Opens /\ [Next]_vars => OInv' /\ Opens'
  BY NextReader, NextWriter, NextShown, NextOpens DEF OInv
<1>3. OInv /\ Opens => UntouchedOpens
  <2> SUFFICES ASSUME OInv, Opens, object \notin {None, Foreign}, changes = 0
               PROVE  /\ rpc # "refused"
                      /\ rpc = "ready" => {dir[i].path : i \in 1 .. Len(dir)} = {request[i] : i \in 1 .. Len(request)}
    BY DEF UntouchedOpens
  <2>1. Untouched
    BY DEF OInv, RInv, Typed, Untouched
  <2>2. ASSUME rpc = "ready"
        PROVE  {dir[i].path : i \in 1 .. Len(dir)} = {request[i] : i \in 1 .. Len(request)}
    <3>1. Laid /\ wpc = "done" /\ \A i \in 1 .. Len(dir) : dir[i] = source[i]
      BY <2>1, StoredLayout
    <3>2. Len(dir) = Len(source)
      BY <2>2 DEF OInv, RInv, Checks, Headed, Shown
    <3>3. /\ \A i \in 1 .. Len(dir) : \E j \in 1 .. Len(request) : dir[i].path = request[j]
          /\ \A j \in 1 .. Len(request) : \E i \in 1 .. Len(dir) : dir[i].path = request[j]
      <4>1. /\ \A i \in 1 .. Len(source) : \E j \in 1 .. Len(request) : source[i].path = request[j]
            /\ \A j \in 1 .. Len(request) : \E i \in 1 .. Len(source) : source[i].path = request[j]
        BY <3>1 DEF Laid
      <4>2. \A i \in 1 .. Len(source) : dir[i] = source[i]
        BY <3>1, <3>2
      <4> QED BY <3>2, <4>1, <4>2
    <3> DEFINE A == {dir[i].path : i \in 1 .. Len(dir)}  B == {request[j] : j \in 1 .. Len(request)}
    <3>4. \A x : x \in A <=> x \in B
      BY <3>3
    <3>5. A = B
      <4> HIDE DEF A, B
      <4> QED BY <3>4
    <3> QED BY <3>5
  <2> QED BY <2>1, <2>2 DEF Opens
<1> QED BY <1>1, <1>2, <1>3, PTL DEF Spec
=============================================================================
