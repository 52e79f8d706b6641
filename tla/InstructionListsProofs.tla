----------------------- MODULE InstructionListsProofs -----------------------
(***************************************************************************)
(* Splitting a list of instructions into transactions, for every list and  *)
(* every size of a transaction: nothing is lost, repeated or reordered.    *)
(***************************************************************************)
EXTENDS InstructionLists, SequenceTheorems, FiniteSetTheorems, TLAPS

-----------------------------------------------------------------------------
(* A piece of a list: the elements after the m-th, up to the e-th.         *)
LEMMA Piece ==
  ASSUME NEW S, NEW s \in Seq(S), NEW m \in Nat, NEW e \in Nat, m <= e, e <= Len(s)
  PROVE  LET piece == SubSeq(s, m + 1, e) IN
         /\ piece \in Seq(S) /\ Len(piece) = e - m
         /\ ToSet(piece) \subseteq ToSet(s)
         /\ \A i \in m + 1 .. e : s[i] \in ToSet(piece)
         /\ IsInjective(s) => IsInjective(piece)
<1> DEFINE piece == SubSeq(s, m + 1, e)
<1>1. \A i \in m + 1 .. e : s[i] \in S
  OBVIOUS
<1>2. /\ piece \in Seq(S)
      /\ Len(piece) = IF m + 1 <= e THEN e - (m + 1) + 1 ELSE 0
      /\ \A j \in 1 .. e - (m + 1) + 1 : piece[j] = s[m + 1 + j - 1]
  BY <1>1, SubSeqProperties
<1> HIDE DEF piece
<1>3. Len(piece) = e - m /\ e - m \in Nat /\ DOMAIN piece = 1 .. e - m
  BY <1>2
<1>4. ASSUME NEW j \in 1 .. e - m
      PROVE  m + j \in DOMAIN s /\ piece[j] = s[m + j]
  <2>1. j \in 1 .. e - (m + 1) + 1 /\ m + 1 + j - 1 = m + j /\ m + j \in 1..Len(s)
    OBVIOUS
  <2>2. QED
    BY <1>2, <2>1
<1>5. ToSet(piece) \subseteq ToSet(s)
  BY <1>3, <1>4 DEF ToSet
<1>6. \A i \in m + 1 .. e : s[i] \in ToSet(piece)
  <2> SUFFICES ASSUME NEW i \in m + 1 .. e
               PROVE  s[i] \in ToSet(piece)
    OBVIOUS
  <2>1. i - m \in 1 .. e - m /\ m + (i - m) = i
    OBVIOUS
  <2>2. piece[i - m] = s[i]
    BY <1>4, <2>1
  <2>3. QED
    BY <1>3, <2>1, <2>2 DEF ToSet
<1>7. ASSUME IsInjective(s)
      PROVE  IsInjective(piece)
  <2> SUFFICES ASSUME NEW a \in 1 .. e - m, NEW b \in 1 .. e - m, piece[a] = piece[b]
               PROVE  a = b
    BY <1>3 DEF IsInjective
  <2>1. s[m + a] = s[m + b] /\ m + a \in DOMAIN s /\ m + b \in DOMAIN s
    BY <1>4
  <2>2. m + a = m + b
    BY <1>7, <2>1 DEF IsInjective
  <2>3. QED
    BY <2>2
<1>8. QED
  BY <1>2, <1>3, <1>5, <1>6, <1>7 DEF piece

(* Cutting a list in chunks.  Where the k-th chunk starts and ends.        *)
Start(cap, k) == (k - 1) * cap
End(s, cap, k) == IF k * cap <= Len(s) THEN k * cap ELSE Len(s)
Pieces(s, cap) == (Len(s) + cap - 1) \div cap

LEMMA MinOfTwo ==
  ASSUME NEW a \in Int, NEW b \in Int
  PROVE  Min({a, b}) = IF a <= b THEN a ELSE b
BY DEF Min

LEMMA Bounds ==
  ASSUME NEW s, Len(s) \in Nat, NEW cap \in Nat \ {0}
  PROVE  /\ Pieces(s, cap) \in Nat
         /\ Len(s) <= Pieces(s, cap) * cap
         /\ Pieces(s, cap) = 0 <=> Len(s) = 0
         /\ End(s, cap, 0) = 0 /\ End(s, cap, Pieces(s, cap)) = Len(s)
         /\ \A k \in 1..Pieces(s, cap) :
              /\ Start(cap, k) \in Nat /\ End(s, cap, k) \in Nat
              /\ Start(cap, k) < End(s, cap, k) /\ End(s, cap, k) <= Len(s)
              /\ Start(cap, k) = End(s, cap, k - 1)
         /\ \A i \in 1..Len(s) : \E k \in 1..Pieces(s, cap) :
              i \in Start(cap, k) + 1 .. End(s, cap, k)
<1> DEFINE n == Len(s)
           c == Pieces(s, cap)
<1>1. n \in Nat
  OBVIOUS
<1>2. c \in Nat /\ n <= c * cap /\ (c - 1) * cap < n /\ (c = 0 <=> n = 0)
  <2> HIDE DEF n
  <2>1. QED
    BY <1>1 DEF Pieces, n
<1>3. End(s, cap, 0) = 0 /\ End(s, cap, c) = n
  <2> HIDE DEF n, c
  <2>1. 0 * cap = 0
    OBVIOUS
  <2>2. QED
    BY <1>1, <1>2, <2>1 DEF End, n
<1>4. ASSUME NEW k \in 1..c
      PROVE  /\ Start(cap, k) \in Nat /\ End(s, cap, k) \in Nat
             /\ Start(cap, k) < End(s, cap, k) /\ End(s, cap, k) <= n
             /\ Start(cap, k) = End(s, cap, k - 1)
  <2> HIDE DEF n, c
  <2> DEFINE a == (k - 1) * cap
             b == k * cap
  <2>1. k \in Nat \ {0} /\ k <= c
    BY <1>2
  <2>2. a \in Nat /\ b \in Nat /\ b = a + cap
    BY <2>1
  <2>3. a <= (c - 1) * cap
    BY <1>2, <2>1
  <2>4. a < n
    <3>1. (c - 1) * cap \in Int
      BY <1>2
    <3> HIDE DEF a
    <3>2. QED
      BY <1>1, <1>2, <2>2, <2>3, <3>1
  <2>5. End(s, cap, k) = (IF b <= n THEN b ELSE n) /\ Start(cap, k) = a
    BY DEF End, Start, n
  <2>6. End(s, cap, k - 1) = IF a <= n THEN a ELSE n
    BY DEF End, n
  <2> HIDE DEF a, b
  <2>7. QED
    BY <1>1, <2>2, <2>4, <2>5, <2>6
<1>5. ASSUME NEW i \in 1..n
      PROVE  \E k \in 1..c : i \in Start(cap, k) + 1 .. End(s, cap, k)
  <2> HIDE DEF n, c
  <2> DEFINE k == (i - 1) \div cap + 1
             a == (k - 1) * cap
             b == k * cap
  <2>1. i \in Nat /\ i >= 1 /\ i <= n
    BY <1>1
  <2>2. k \in Nat /\ k >= 1
    BY <2>1
  <2>3. a < i /\ i <= b
    BY <2>1
  <2> HIDE DEF k
  <2>4. a \in Nat /\ b \in Nat
    BY <2>2
  <2>5. k <= c
    <3> SUFFICES ASSUME c < k
                 PROVE  FALSE
      BY <1>2, <2>2
    <3>1. c <= k - 1
      BY <1>2, <2>2
    <3>2. c * cap <= a
      BY <1>2, <2>2, <3>1
    <3> DEFINE d == c * cap
    <3>3. d \in Nat /\ n <= d /\ d <= a
      BY <1>2, <3>2
    <3> HIDE DEF d, a
    <3>4. QED
      BY <1>1, <2>1, <2>3, <2>4, <3>3
  <2>6. k \in 1..c
    BY <1>2, <2>2, <2>5
  <2>7. End(s, cap, k) = (IF b <= n THEN b ELSE n) /\ Start(cap, k) = a
    BY DEF End, Start, n
  <2> HIDE DEF a, b
  <2>8. i \in Start(cap, k) + 1 .. End(s, cap, k)
    BY <1>1, <2>1, <2>3, <2>4, <2>7
  <2>9. QED
    BY <2>6, <2>8
<1>6. QED
  BY <1>2, <1>3, <1>4, <1>5

LEMMA Chunking ==
  ASSUME NEW S, NEW s \in Seq(S), NEW cap \in Nat \ {0}
  PROVE  /\ Chunks(s, cap) \in Seq(Seq(S))
         /\ Len(Chunks(s, cap)) = Pieces(s, cap)
         /\ \A k \in 1..Pieces(s, cap) :
              Chunks(s, cap)[k] = SubSeq(s, Start(cap, k) + 1, End(s, cap, k))
<1> DEFINE c == Pieces(s, cap)
           t == Chunks(s, cap)
<1>1. Len(s) \in Nat /\ c \in Nat
  BY Bounds
<1>2. t = [k \in 1..c |-> SubSeq(s, Start(cap, k) + 1, End(s, cap, k))]
  <2>1. \A k \in 1..c : Min({k * cap, Len(s)}) = End(s, cap, k)
    <3> SUFFICES ASSUME NEW k \in 1..c
                 PROVE  Min({k * cap, Len(s)}) = End(s, cap, k)
      OBVIOUS
    <3>1. k * cap \in Int
      BY <1>1
    <3>2. QED
      BY <1>1, <3>1, MinOfTwo DEF End
  <2>2. QED
    BY <2>1 DEF Chunks, Pieces, Start
<1>3. \A k \in 1..c : SubSeq(s, Start(cap, k) + 1, End(s, cap, k)) \in Seq(S)
  <2> SUFFICES ASSUME NEW k \in 1..c
               PROVE  SubSeq(s, Start(cap, k) + 1, End(s, cap, k)) \in Seq(S)
    OBVIOUS
  <2>1. /\ Start(cap, k) \in Nat /\ End(s, cap, k) \in Nat
        /\ Start(cap, k) <= End(s, cap, k) /\ End(s, cap, k) <= Len(s)
    BY <1>1, Bounds
  <2>2. QED
    BY <2>1, Piece
<1> HIDE DEF c, t
<1>4. t \in [1..c -> Seq(S)]
  BY <1>2, <1>3
<1>5. t \in Seq(Seq(S)) /\ Len(t) = c
  <2> DEFINE T == Seq(S)
  <2>1. t \in [1..c -> T]
    BY <1>4
  <2> HIDE DEF T
  <2>2. t \in Seq(T) /\ Len(t) = c
    BY <1>1, <2>1
  <2>3. QED
    BY <2>2 DEF T
<1>6. QED
  BY <1>2, <1>5 DEF c, t

(* Every chunk is a part of the list, and every element is in some chunk.  *)
LEMMA ChunksCover ==
  ASSUME NEW S, NEW s \in Seq(S), NEW cap \in Nat \ {0}
  PROVE  LET t == Chunks(s, cap) IN
         /\ \A k \in DOMAIN t : ToSet(t[k]) \subseteq ToSet(s)
         /\ \A x \in ToSet(s) : \E k \in DOMAIN t : x \in ToSet(t[k])
         /\ IsInjective(s) => \A k \in DOMAIN t : IsInjective(t[k])
<1> DEFINE t == Chunks(s, cap)
           c == Pieces(s, cap)
<1>1. /\ DOMAIN t = 1..c
      /\ \A k \in 1..c : t[k] = SubSeq(s, Start(cap, k) + 1, End(s, cap, k))
  BY Chunking
<1> HIDE DEF t, c
<1>2. ASSUME NEW k \in 1..c
      PROVE  /\ ToSet(t[k]) \subseteq ToSet(s)
             /\ IsInjective(s) => IsInjective(t[k])
             /\ \A i \in Start(cap, k) + 1 .. End(s, cap, k) : s[i] \in ToSet(t[k])
  <2>1. Len(s) \in Nat
    OBVIOUS
  <2>2. /\ Start(cap, k) \in Nat /\ End(s, cap, k) \in Nat
        /\ Start(cap, k) <= End(s, cap, k) /\ End(s, cap, k) <= Len(s)
    BY <2>1, Bounds DEF c
  <2>3. t[k] = SubSeq(s, Start(cap, k) + 1, End(s, cap, k))
    BY <1>1
  <2>4. QED
    BY <2>2, <2>3, Piece
<1>3. ASSUME NEW x \in ToSet(s)
      PROVE  \E k \in 1..c : x \in ToSet(t[k])
  <2>1. PICK i \in 1..Len(s) : x = s[i]
    BY DEF ToSet
  <2>2. PICK k \in 1..c : i \in Start(cap, k) + 1 .. End(s, cap, k)
    <3>1. Len(s) \in Nat
      OBVIOUS
    <3>2. QED
      BY <3>1, Bounds DEF c
  <2>3. QED
    BY <1>2, <2>1, <2>2
<1>4. QED
  BY <1>1, <1>2, <1>3 DEF t

(* Where the elements of a chunk stand in the list.                        *)
LEMMA ChunkPlaces ==
  ASSUME NEW S, NEW s \in Seq(S), NEW cap \in Nat \ {0}
  PROVE  LET t == Chunks(s, cap) IN
         /\ \A k \in DOMAIN t : \A j \in 1..Len(t[k]) :
              /\ Start(cap, k) + j \in DOMAIN s
              /\ t[k][j] = s[Start(cap, k) + j]
         /\ \A k, l \in DOMAIN t : \A i \in 1..Len(t[k]) : \A j \in 1..Len(t[l]) :
              Start(cap, k) + i = Start(cap, l) + j => k = l /\ i = j
<1> DEFINE t == Chunks(s, cap)
           c == Pieces(s, cap)
<1>1. /\ DOMAIN t = 1..c /\ c \in Nat /\ Len(s) \in Nat
      /\ \A k \in 1..c : t[k] = SubSeq(s, Start(cap, k) + 1, End(s, cap, k))
  BY Bounds, Chunking
<1> HIDE DEF t, c
<1>2. ASSUME NEW k \in 1..c
      PROVE  /\ Start(cap, k) \in Nat /\ End(s, cap, k) \in Nat
             /\ Len(t[k]) = End(s, cap, k) - Start(cap, k)
             /\ \A j \in 1..Len(t[k]) : /\ Start(cap, k) + j \in DOMAIN s
                                        /\ t[k][j] = s[Start(cap, k) + j]
  <2> DEFINE m == Start(cap, k)
             e == End(s, cap, k)
  <2>1. m \in Nat /\ e \in Nat /\ m < e /\ e <= Len(s) /\ t[k] = SubSeq(s, m + 1, e)
    BY <1>1, Bounds DEF c
  <2> HIDE DEF m, e
  <2>2. \A i \in m + 1 .. e : s[i] \in S
    BY <2>1
  <2>3. /\ Len(t[k]) = e - (m + 1) + 1
        /\ \A j \in 1 .. e - (m + 1) + 1 : t[k][j] = s[m + 1 + j - 1]
    BY <2>1, <2>2, SubSeqProperties
  <2>4. ASSUME NEW j \in 1..Len(t[k])
        PROVE  m + j \in DOMAIN s /\ t[k][j] = s[m + j]
    <3>1. j \in 1 .. e - (m + 1) + 1 /\ m + 1 + j - 1 = m + j /\ m + j \in 1..Len(s)
      BY <2>1, <2>3
    <3>2. QED
      BY <2>3, <3>1
  <2>5. QED
    BY <2>1, <2>3, <2>4 DEF m, e
<1>3. ASSUME NEW k \in 1..c, NEW l \in 1..c, k < l
      PROVE  End(s, cap, k) <= Start(cap, l)
  <2> DEFINE a == k * cap
             b == (l - 1) * cap
  <2>1. k \in Nat /\ l \in Nat /\ k <= l - 1
    BY <1>1, <1>3
  <2>2. a \in Nat /\ b \in Nat /\ a <= b
    BY <2>1
  <2>3. End(s, cap, k) = (IF a <= Len(s) THEN a ELSE Len(s)) /\ Start(cap, l) = b
    BY DEF End, Start
  <2> HIDE DEF a, b
  <2>4. QED
    BY <1>1, <2>2, <2>3
<1>4. ASSUME NEW k \in 1..c, NEW l \in 1..c, NEW i \in 1..Len(t[k]), NEW j \in 1..Len(t[l]),
             Start(cap, k) + i = Start(cap, l) + j
      PROVE  k = l /\ i = j
  <2> DEFINE m == Start(cap, k)
             n == Start(cap, l)
             e == End(s, cap, k)
             f == End(s, cap, l)
  <2>1. /\ m \in Nat /\ n \in Nat /\ e \in Nat /\ f \in Nat
        /\ Len(t[k]) = e - m /\ Len(t[l]) = f - n
        /\ k < l => e <= n
        /\ l < k => f <= m
    BY <1>2, <1>3
  <2>2. m + i = n + j /\ (k = l => m = n)
    BY <1>4
  <2> HIDE DEF m, n, e, f
  <2>3. i \in Nat /\ i >= 1 /\ m + i <= e /\ j \in Nat /\ j >= 1 /\ n + j <= f
    BY <2>1
  <2>4. ~(k < l) /\ ~(l < k)
    BY <2>1, <2>2, <2>3
  <2>5. k = l
    BY <1>1, <2>4
  <2>6. QED
    BY <2>1, <2>2, <2>3, <2>5
<1>5. QED
  BY <1>1, <1>2, <1>4 DEF t

(* Putting the chunks together again gives the list.                       *)
Join(c, st, x) == st \o x
Prefix(c, st, k) == st = SubSeq(c.list, 1, End(c.list, c.cap, k))

Chains == INSTANCE FoldTheorems WITH Step <- Join, Keeps <- Prefix

LEMMA ChunksJoin ==
  ASSUME NEW S, NEW s \in Seq(S), NEW cap \in Nat \ {0}
  PROVE  FlattenSeq(Chunks(s, cap)) = s
<1> DEFINE t == Chunks(s, cap)
           c == Pieces(s, cap)
           x == [list |-> s, cap |-> cap]
           Solves(f) == f = [i \in 1..c |-> IF i = 1 THEN t[i] ELSE f[i - 1] \o t[i]]
<1>1. /\ c \in Nat /\ Len(s) \in Nat /\ t \in Seq(Seq(S)) /\ Len(t) = c
      /\ \A k \in 1..c : t[k] = SubSeq(s, Start(cap, k) + 1, End(s, cap, k))
  BY Bounds, Chunking
<1>2. SubSeq(s, 1, 0) = <<>> /\ SubSeq(s, 1, Len(s)) = s
  BY SubSeqEmpty, SubSeqFull
<1>3. Prefix(x, <<>>, 0)
  <2>1. End(s, cap, 0) = 0
    BY <1>1, Bounds
  <2>2. QED
    BY <1>2, <2>1 DEF Prefix
<1>4. ASSUME NEW k \in 1..c, NEW st, Prefix(x, st, k - 1)
      PROVE  Prefix(x, Join(x, st, t[k]), k)
  <2> DEFINE m == Start(cap, k)
             e == End(s, cap, k)
  <2>1. m \in Nat /\ e \in Nat /\ m <= e /\ e <= Len(s) /\ m = End(s, cap, k - 1)
    BY <1>1, Bounds
  <2>2. st = SubSeq(s, 1, m) /\ t[k] = SubSeq(s, m + 1, e)
    BY <1>1, <1>4, <2>1 DEF Prefix
  <2> HIDE DEF m, t, c
  <2>3. SubSeq(s, 1, m) \o SubSeq(s, m + 1, e) = SubSeq(s, 1, e)
    <3> HIDE DEF e
    <3>1. 1 \in 1..Len(s) + 1 /\ m \in 1 - 1..Len(s) /\ e \in m..Len(s)
      BY <1>1, <2>1
    <3>2. QED
      BY <3>1, ConcatAdjacentSubSeq
  <2>4. QED
    BY <2>2, <2>3 DEF Prefix, Join
<1>5. CASE c = 0
  <2>1. Len(s) = 0 /\ s = <<>>
    BY <1>1, <1>5, Bounds
  <2>2. t = <<>>
    <3> HIDE DEF t
    <3>1. QED
      BY <1>1, <1>5
  <2>3. FlattenSeq(<<>>) = <<>>
    BY DEF FlattenSeq
  <2>4. QED
    BY <2>1, <2>2, <2>3
<1>6. CASE c # 0
  <2> HIDE DEF t, c
  <2>0. c \in 1..c /\ 1 \in 1..c /\ DOMAIN t = 1..c /\ t # <<>>
    BY <1>1, <1>6
  <2>1. FlattenSeq(t) = (CHOOSE f : Solves(f))[c]
    BY <1>1, <1>6, <2>0 DEF FlattenSeq
  <2>2. t[1] = <<>> \o t[1]
    <3>1. t[1] \in Seq(S)
      <4> DEFINE T == Seq(S)
      <4>1. t \in Seq(T)
        BY <1>1
      <4> HIDE DEF T
      <4>2. t[1] \in T
        BY <2>0, <4>1
      <4>3. QED
        BY <4>2 DEF T
    <3>2. QED
      BY <3>1
  <2>3. \E f : Solves(f)
    <3>1. PICK h : Chains!Chain(x, <<>>, t, c, h)
      BY <1>1, Chains!ChainExists
    <3>2. \A i \in 0..c : h[i] = IF i = 0 THEN <<>> ELSE h[i - 1] \o t[i]
      BY <3>1 DEF Chains!Chain, Join
    <3>3. \A i \in 1..c : i \in 0..c /\ i - 1 \in 0..c /\ i # 0
      BY <1>1
    <3>4. \A i \in 1..c : h[i] = h[i - 1] \o t[i]
      BY <3>2, <3>3
    <3>5. h[1] = t[1]
      <4>1. 0 \in 0..c /\ 1 - 1 = 0
        BY <1>1
      <4>2. h[0] = <<>>
        BY <3>2, <4>1
      <4>3. h[1] = h[1 - 1] \o t[1]
        BY <2>0, <3>4
      <4>4. QED
        BY <2>2, <4>1, <4>2, <4>3
    <3> DEFINE f == [i \in 1..c |-> h[i]]
    <3>6. \A i \in 1..c : i # 1 => f[i - 1] = h[i - 1]
      <4> SUFFICES ASSUME NEW i \in 1..c, i # 1
                   PROVE  i - 1 \in 1..c
        OBVIOUS
      <4>1. QED
        BY <1>1
    <3>7. Solves(f)
      BY <3>4, <3>5, <3>6
    <3>8. QED
      BY <3>7
  <2>4. PICK f : Solves(f) /\ FlattenSeq(t) = f[c]
    BY <2>1, <2>3
  <2> DEFINE h == [k \in 0..c |-> IF k = 0 THEN <<>> ELSE f[k]]
  <2>5. Chains!Chain(x, <<>>, t, c, h)
    <3>1. \A k \in 1..c : f[k] = (IF k = 1 THEN <<>> ELSE f[k - 1]) \o t[k]
      BY <2>2, <2>4
    <3>2. \A k \in 0..c : k # 0 => /\ k \in 1..c /\ k - 1 \in 0..c
                                   /\ k - 1 = 0 <=> k = 1
      BY <1>1
    <3> HIDE DEF Solves
    <3>3. \A k \in 0..c : h[k] = IF k = 0 THEN <<>> ELSE f[k]
      OBVIOUS
    <3>4. ASSUME NEW k \in 0..c
          PROVE  h[k] = IF k = 0 THEN <<>> ELSE h[k - 1] \o t[k]
      <4>1. CASE k = 0
        BY <3>3, <4>1
      <4>2. CASE k # 0
        <5>1. k \in 1..c /\ k - 1 \in 0..c /\ (k - 1 = 0 <=> k = 1)
          BY <1>1, <4>2
        <5>2. h[k - 1] = IF k = 1 THEN <<>> ELSE f[k - 1]
          BY <3>3, <5>1
        <5>3. h[k] = f[k] /\ f[k] = (IF k = 1 THEN <<>> ELSE f[k - 1]) \o t[k]
          BY <3>1, <3>3, <4>2, <5>1
        <5> HIDE DEF h
        <5>4. QED
          BY <4>2, <5>2, <5>3
      <4>3. QED
        BY <4>1, <4>2
    <3>5. h = [k \in 0..c |-> h[k]]
      OBVIOUS
    <3> HIDE DEF h
    <3>6. QED
      BY <3>4, <3>5 DEF Chains!Chain, Join
  <2>6. h[c] = f[c]
    BY <1>1, <2>0
  <2> HIDE DEF h, x
  <2>7. Prefix(x, h[c], c)
    <3>1. \A k \in 0..c : Prefix(x, h[k], k)
      BY <1>1, <1>3, <1>4, <2>5, Chains!ChainKeeps
    <3>2. QED
      BY <1>1, <3>1
  <2>8. End(s, cap, c) = Len(s)
    BY <1>1, Bounds DEF c
  <2>9. QED
    BY <1>2, <2>4, <2>6, <2>7, <2>8 DEF Prefix, x, t
<1>7. QED
  BY <1>5, <1>6

(* SetToSeqs lists the elements of a finite set, each of them once.        *)
LEMMA Listing ==
  ASSUME NEW T, NEW S \in SUBSET T, IsFiniteSet(S), NEW list \in SetToSeqs(S)
  PROVE  list \in Seq(T) /\ IsInjective(list) /\ ToSet(list) = S
<1> DEFINE n == Cardinality(S)
<1>1. n \in Nat
  BY FS_CardinalityType
<1>2. list \in [1..n -> S] /\ \A i, j \in 1..n : i # j => list[i] # list[j]
  BY DEF SetToSeqs
<1> HIDE DEF n
<1>3. list \in Seq(T) /\ DOMAIN list = 1..n
  BY <1>1, <1>2
<1>4. IsInjective(list) /\ list \in Injection(1..n, S)
  BY <1>2 DEF IsInjective, Injection
<1>5. IsFiniteSet(1..n) /\ Cardinality(1..n) = n
  <2>1. n = 0 \/ n >= 1
    BY <1>1
  <2>2. QED
    BY <1>1, <2>1, FS_Interval
<1>6. list \in Surjection(1..n, S)
  BY <1>1, <1>4, <1>5, FS_Injection DEF n
<1>7. ToSet(list) = S
  BY <1>2, <1>3, <1>6 DEF Surjection, ToSet
<1>8. QED
  BY <1>3, <1>4, <1>7
=============================================================================
