---------------------------- MODULE SequenceFacts ----------------------------
(***************************************************************************)
(* Lemmas about what SequencesExt has and the models are built from:       *)
(* FlattenSeq, which joins the payloads of frames and the frames of        *)
(* messages, and IsPrefix.  FlattenSeq is defined by recursion; the        *)
(* induction is over a set of numbers, by its least element.               *)
(***************************************************************************)
EXTENDS Integers, Sequences, SequencesExt, SequenceTheorems, WellFoundedInduction, TLAPS

\* A function on the first n numbers is a sequence.
LEMMA FunctionIsSeq ==
    ASSUME NEW S, NEW n \in Nat, NEW f \in [1 .. n -> S]
    PROVE  f \in Seq(S) /\ Len(f) = n
OBVIOUS

\* A sequence whose elements are those of one and then those of another.
LEMMA ConcatByElements ==
    ASSUME NEW S, NEW s \in Seq(S), NEW t \in Seq(S), NEW u \in Seq(S),
           Len(u) = Len(s) + Len(t),
           \A i \in 1 .. Len(s) : u[i] = s[i],
           \A i \in 1 .. Len(t) : u[Len(s) + i] = t[i]
    PROVE  u = s \o t
<1>1. /\ Len(s) \in Nat /\ Len(t) \in Nat
      /\ s \o t \in Seq(S) /\ Len(s \o t) = Len(s) + Len(t)
      /\ \A i \in 1 .. Len(s) + Len(t) :
            (s \o t)[i] = IF i <= Len(s) THEN s[i] ELSE t[i - Len(s)]
  BY LenProperties, ConcatProperties
<1>2. ASSUME NEW i \in 1 .. Len(u) PROVE u[i] = (s \o t)[i]
  <2>1. CASE i <= Len(s)
    BY <1>1, <2>1
  <2>2. CASE i > Len(s)
    <3>1. i - Len(s) \in 1 .. Len(t) /\ Len(s) + (i - Len(s)) = i
      BY <1>1, <2>2
    <3>2. u[Len(s) + (i - Len(s))] = t[i - Len(s)]
      BY <3>1
    <3>3. (s \o t)[i] = t[i - Len(s)]
      BY <1>1, <2>2
    <3> QED
      BY <3>1, <3>2, <3>3
  <2> QED
    BY <1>1, <2>1, <2>2
<1> QED
  BY <1>1, <1>2, SeqEqual

\* Tuples put together.
LEMMA JoinTuples ==
    ASSUME NEW S, NEW a \in S, NEW b \in S, NEW c \in S
    PROVE  /\ <<a>> \o <<b>> = <<a, b>> /\ <<a, b>> \o <<c>> = <<a, b, c>>
           /\ <<>> \o <<a>> = <<a>> /\ <<a>> \o <<>> = <<a>> /\ <<>> \o <<>> = <<>>
           /\ <<a, b>> \o <<>> = <<a, b>> /\ <<>> \o <<a, b>> = <<a, b>>
           /\ <<a>> \in Seq(S) /\ <<a, b>> \in Seq(S) /\ <<a, b, c>> \in Seq(S)
           /\ <<>> \in Seq(S)
<1>1. /\ <<a>> \in Seq(S) /\ <<a, b>> \in Seq(S) /\ <<a, b, c>> \in Seq(S)
      /\ <<>> \in Seq(S)
  OBVIOUS
<1>2. /\ Len(<<a>>) = 1 /\ Len(<<b>>) = 1 /\ Len(<<c>>) = 1
      /\ Len(<<a, b>>) = 2 /\ Len(<<a, b, c>>) = 3
      /\ <<a>>[1] = a /\ <<b>>[1] = b /\ <<c>>[1] = c
      /\ <<a, b>>[1] = a /\ <<a, b>>[2] = b
      /\ <<a, b, c>>[1] = a /\ <<a, b, c>>[2] = b /\ <<a, b, c>>[3] = c
  OBVIOUS
<1>3. <<a>> \o <<b>> = <<a, b>> /\ <<a, b>> \o <<c>> = <<a, b, c>>
  <2> DEFINE x == <<a>>
             y == <<b>>
             z == <<c>>
             xy == <<a, b>>
             xyz == <<a, b, c>>
  <2>1. /\ x \in Seq(S) /\ y \in Seq(S) /\ z \in Seq(S) /\ xy \in Seq(S) /\ xyz \in Seq(S)
        /\ Len(x) = 1 /\ Len(y) = 1 /\ Len(z) = 1 /\ Len(xy) = 2 /\ Len(xyz) = 3
        /\ x[1] = a /\ y[1] = b /\ z[1] = c /\ xy[1] = a /\ xy[2] = b
        /\ xyz[1] = a /\ xyz[2] = b /\ xyz[3] = c
    BY <1>1, <1>2
  <2> HIDE DEF x, y, z, xy, xyz
  <2>2. /\ Len(xy) = Len(x) + Len(y)
        /\ \A i \in 1 .. Len(x) : xy[i] = x[i]
        /\ \A i \in 1 .. Len(y) : xy[Len(x) + i] = y[i]
    BY <2>1
  <2>3. xy = x \o y
    BY <2>1, <2>2, ConcatByElements
  <2>4. /\ Len(xyz) = Len(xy) + Len(z)
        /\ \A i \in 1 .. Len(xy) : xyz[i] = xy[i]
        /\ \A i \in 1 .. Len(z) : xyz[Len(xy) + i] = z[i]
    BY <2>1
  <2>5. xyz = xy \o z
    BY <2>1, <2>4, ConcatByElements
  <2> QED
    BY <2>3, <2>5 DEF x, y, z, xy, xyz
<1>4. /\ <<>> \o <<a>> = <<a>> /\ <<a>> \o <<>> = <<a>> /\ <<>> \o <<>> = <<>>
      /\ <<a, b>> \o <<>> = <<a, b>> /\ <<>> \o <<a, b>> = <<a, b>>
  BY <1>1, ConcatEmptySeq
<1> QED
  BY <1>1, <1>3, <1>4

\* What is behind its first element.
LEMMA FirstAndRest ==
    ASSUME NEW S, NEW a \in S, NEW s \in Seq(S)
    PROVE  /\ <<a>> \o s # <<>> /\ Head(<<a>> \o s) = a /\ Tail(<<a>> \o s) = s
<1> DEFINE x == <<a>>
           u == x \o s
           t == Tail(u)
<1>1. x \in Seq(S) /\ Len(x) = 1 /\ x[1] = a
  OBVIOUS
<1> HIDE DEF x
<1>2. /\ Len(s) \in Nat
      /\ u \in Seq(S) /\ Len(u) = 1 + Len(s) /\ u[1] = a
      /\ \A i \in 1 .. Len(s) : u[1 + i] = s[i]
  <2>1. /\ Len(s) \in Nat /\ u \in Seq(S) /\ Len(u) = Len(x) + Len(s)
        /\ \A i \in 1 .. Len(x) + Len(s) :
              u[i] = IF i <= Len(x) THEN x[i] ELSE s[i - Len(x)]
    BY <1>1, LenProperties, ConcatProperties
  <2> HIDE DEF u
  <2>2. u[1] = a
    BY <1>1, <2>1
  <2>3. ASSUME NEW i \in 1 .. Len(s) PROVE u[1 + i] = s[i]
    <3>1. 1 + i \in 1 .. Len(x) + Len(s) /\ ~(1 + i <= Len(x)) /\ (1 + i) - Len(x) = i
      BY <1>1, <2>1
    <3>2. u[1 + i] = s[(1 + i) - Len(x)]
      BY <2>1, <3>1
    <3> QED
      BY <3>1, <3>2
  <2> QED
    BY <1>1, <2>1, <2>2, <2>3
<1> HIDE DEF u
<1>3. u # <<>>
  BY <1>2, EmptySeq
<1>4. /\ Head(u) = a /\ t \in Seq(S) /\ Len(t) = Len(u) - 1
      /\ \A i \in 1 .. Len(t) : t[i] = u[i + 1]
  BY <1>2, <1>3, HeadTailProperties
<1> HIDE DEF t
<1>5. Len(t) = Len(s)
  BY <1>2, <1>4
<1>6. ASSUME NEW i \in 1 .. Len(t) PROVE t[i] = s[i]
  <2>1. i + 1 = 1 + i /\ i \in 1 .. Len(s)
    BY <1>5
  <2> QED
    BY <1>2, <1>4, <2>1
<1>7. t = s
  BY <1>4, <1>5, <1>6, SeqEqual
<1> QED
  BY <1>3, <1>4, <1>7 DEF t, u, x

LEMMA JoinPair ==
    ASSUME NEW S, NEW a \in S, NEW b \in S
    PROVE  <<a>> \o <<b>> = <<a, b>> /\ <<a, b>> \o <<>> = <<a, b>>
<1> DEFINE x == <<a>>
           y == <<b>>
           xy == <<a, b>>
<1>1. /\ x \in Seq(S) /\ y \in Seq(S) /\ xy \in Seq(S)
      /\ Len(x) = 1 /\ Len(y) = 1 /\ Len(xy) = 2
      /\ x[1] = a /\ y[1] = b /\ xy[1] = a /\ xy[2] = b
  OBVIOUS
<1> HIDE DEF x, y, xy
<1>2. /\ Len(xy) = Len(x) + Len(y)
      /\ \A i \in 1 .. Len(x) : xy[i] = x[i]
      /\ \A i \in 1 .. Len(y) : xy[Len(x) + i] = y[i]
  BY <1>1
<1>3. xy = x \o y
  BY <1>1, <1>2, ConcatByElements
<1>4. xy \o <<>> = xy
  BY <1>1, ConcatEmptySeq
<1> QED
  BY <1>3, <1>4 DEF x, y, xy

\* The provers rewrite nested concatenations only when \o is hidden.
Cat(s, t) == s \o t

LEMMA CatType ==
    ASSUME NEW S, NEW s \in Seq(S), NEW t \in Seq(S)
    PROVE  Cat(s, t) \in Seq(S)
BY ConcatProperties DEF Cat

LEMMA CatAssociative ==
    ASSUME NEW S, NEW s \in Seq(S), NEW t \in Seq(S), NEW u \in Seq(S)
    PROVE  Cat(Cat(s, t), u) = Cat(s, Cat(t, u))
BY ConcatAssociative DEF Cat

LEMMA CatFour ==
    ASSUME NEW S, NEW s \in Seq(S), NEW t \in Seq(S), NEW u \in Seq(S), NEW v \in Seq(S)
    PROVE  Cat(s, Cat(Cat(t, u), v)) = Cat(Cat(s, t), Cat(u, v))
<1>1. Cat(u, v) \in Seq(S)
  BY CatType
<1>2. Cat(Cat(t, u), v) = Cat(t, Cat(u, v))
  BY CatAssociative
<1>3. Cat(Cat(s, t), Cat(u, v)) = Cat(s, Cat(t, Cat(u, v)))
  BY <1>1, CatAssociative
<1> QED
  BY <1>2, <1>3

-----------------------------------------------------------------------------
LEMMA LeastNumber ==
    ASSUME NEW T \in SUBSET Nat, T # {}
    PROVE  \E m \in T : \A k \in T : m <= k
<1> DEFINE R == {ss \in Nat \X Nat : ss[1] < ss[2]}
<1>1. IsWellFoundedOn(R, Nat)
  BY NatLessThanWellFounded, Zenon DEF OpToRel
<1>2. \A k, m \in Nat : k < m => <<k, m>> \in R
  OBVIOUS
<1> HIDE DEF R
<1>3. PICK m \in T : \A k \in T : ~ (<<k, m>> \in R)
  BY <1>1, WFMin
<1>4. ASSUME NEW k \in T PROVE m <= k
  <2>1. k \in Nat /\ m \in Nat
    OBVIOUS
  <2>2. ~(k < m)
    BY <1>2, <1>3, <2>1, Zenon
  <2> QED
    BY <2>1, <2>2
<1> QED
  BY <1>4

LEMMA LargestNumber ==
    ASSUME NEW n \in Nat, NEW T \in SUBSET (0 .. n), T # {}
    PROVE  Max(T) \in T /\ \A k \in T : Max(T) >= k
<1> DEFINE D == {n - k : k \in T}
<1>1. D \in SUBSET Nat /\ D # {}
  <2>1. \A k \in T : n - k \in Nat
    OBVIOUS
  <2>2. PICK k \in T : TRUE
    OBVIOUS
  <2>3. n - k \in D
    OBVIOUS
  <2> QED
    BY <2>1, <2>3
<1>2. PICK d \in D : \A e \in D : d <= e
  BY <1>1, LeastNumber
<1>3. PICK m \in T : d = n - m
  BY <1>2
<1>4. \A k \in T : m >= k
  <2> SUFFICES ASSUME NEW k \in T PROVE m >= k
    OBVIOUS
  <2>1. n - k \in D /\ k \in Nat /\ m \in Nat
    OBVIOUS
  <2>2. d <= n - k
    BY <1>2, <2>1
  <2> QED
    BY <1>3, <2>1, <2>2
<1> QED
  BY <1>4 DEF Max

\* A set of numbers that holds 0 and, up to n, with each number the next, holds
\* all up to n.
LEMMA UpTo ==
    ASSUME NEW n \in Nat, NEW T, 0 \in T, \A i \in 0 .. n - 1 : i \in T => i + 1 \in T
    PROVE  \A i \in 0 .. n : i \in T
<1> DEFINE Missing == {i \in 0 .. n : i \notin T}
<1> SUFFICES ASSUME Missing # {} PROVE FALSE
  OBVIOUS
<1>1. Missing \in SUBSET Nat
  OBVIOUS
<1>2. PICK m \in Missing : \A k \in Missing : m <= k
  BY <1>1, LeastNumber
<1>3. m \in 0 .. n /\ m \notin T
  BY <1>2
<1>4. m - 1 \in 0 .. n - 1
  BY <1>3
<1>5. m - 1 \in T
  BY <1>2, <1>4
<1>6. (m - 1) + 1 \in T
  BY <1>4, <1>5
<1> QED
  BY <1>3, <1>6

-----------------------------------------------------------------------------
\* f is what FlattenSeq computes for the beginnings of ss.
Flattening(f, ss) ==
    \A n \in 0 .. Len(ss) - 1 :
        f[n + 1] = IF n = 0 THEN ss[n + 1] ELSE f[n] \o ss[n + 1]

LEMMA FlatteningExists ==
    ASSUME NEW S, NEW ss \in Seq(Seq(S))
    PROVE  \E f \in [1 .. Len(ss) -> Seq(S)] : Flattening(f, ss)
<1> DEFINE Good(f, n) ==
             \A i \in 0 .. n - 1 :
                f[i + 1] = IF i = 0 THEN ss[i + 1] ELSE f[i] \o ss[i + 1]
           Some(n) == \E f \in [1 .. n -> Seq(S)] : Good(f, n)
           T == {n \in 0 .. Len(ss) : Some(n)}
<1>1. Len(ss) \in Nat /\ \A i \in 1 .. Len(ss) : ss[i] \in Seq(S)
  BY LenProperties
<1>2. Some(0)
  <2>1. [i \in 1 .. 0 |-> <<>>] \in [1 .. 0 -> Seq(S)]
    OBVIOUS
  <2>2. Good([i \in 1 .. 0 |-> <<>>], 0)
    OBVIOUS
  <2> QED
    BY <2>1, <2>2
<1>3. ASSUME NEW n \in 0 .. Len(ss) - 1, Some(n) PROVE Some(n + 1)
  <2>1. PICK f \in [1 .. n -> Seq(S)] : Good(f, n)
    BY <1>3
  <2> DEFINE last == IF n = 0 THEN ss[n + 1] ELSE f[n] \o ss[n + 1]
             g == [i \in 1 .. n + 1 |-> IF i <= n THEN f[i] ELSE last]
  <2>2. last \in Seq(S)
    <3>1. ss[n + 1] \in Seq(S)
      BY <1>1
    <3>2. ASSUME n # 0 PROVE f[n] \o ss[n + 1] \in Seq(S)
      <4>1. f[n] \in Seq(S)
        BY <1>1, <3>2
      <4> QED
        BY <3>1, <4>1, ConcatProperties
    <3> QED
      BY <3>1, <3>2
  <2>3. g[n + 1] = last
    BY <1>1
  <2>4. \A i \in 1 .. n : g[i] = f[i]
    BY <1>1
  <2>5. g \in [1 .. n + 1 -> Seq(S)]
    <3> HIDE DEF last
    <3> QED
      BY <2>2
  <2>6. Good(g, n + 1)
    <3> SUFFICES ASSUME NEW i \in 0 .. (n + 1) - 1
                 PROVE  g[i + 1] = IF i = 0 THEN ss[i + 1] ELSE g[i] \o ss[i + 1]
      OBVIOUS
    <3>1. CASE i < n
      <4>1. i \in 0 .. n - 1 /\ i + 1 \in 1 .. n /\ (i # 0 => i \in 1 .. n)
        BY <1>1, <3>1
      <4>2. f[i + 1] = IF i = 0 THEN ss[i + 1] ELSE f[i] \o ss[i + 1]
        BY <2>1, <4>1
      <4>3. g[i + 1] = f[i + 1] /\ (i # 0 => g[i] = f[i])
        BY <2>4, <4>1
      <4> HIDE DEF g
      <4> QED
        BY <4>2, <4>3, Zenon
    <3>2. CASE i = n
      <4>1. i # 0 => g[i] = f[i]
        BY <1>1, <2>4, <3>2
      <4> HIDE DEF g
      <4> QED
        BY <2>3, <3>2, <4>1, Zenon
    <3> QED
      BY <1>1, <3>1, <3>2
  <2> QED
    BY <2>5, <2>6
<1>4. Some(Len(ss))
  <2> HIDE DEF Some
  <2>1. 0 \in T /\ \A n \in 0 .. Len(ss) - 1 : n \in T => n + 1 \in T
    BY <1>1, <1>2, <1>3
  <2> HIDE DEF T
  <2>2. \A n \in 0 .. Len(ss) : n \in T
    BY <1>1, <2>1, UpTo
  <2>3. Len(ss) \in T
    BY <1>1, <2>2
  <2> QED
    BY <2>3 DEF T
<1> QED
  BY <1>4 DEF Flattening

\* Two flattenings of sequences that begin alike begin alike.
Begins(ss, tt) ==
    /\ Len(ss) \in Nat /\ Len(tt) \in Nat /\ Len(ss) <= Len(tt)
    /\ \A i \in 1 .. Len(ss) : ss[i] = tt[i]

LEMMA FlatteningUnique ==
    ASSUME NEW ss, NEW tt, Begins(ss, tt),
           NEW f, NEW g, Flattening(f, ss), Flattening(g, tt)
    PROVE  \A i \in 1 .. Len(ss) : f[i] = g[i]
<1> DEFINE T == {n \in 0 .. Len(ss) : n # 0 => f[n] = g[n]}
<1>1. /\ Len(ss) \in Nat /\ Len(tt) \in Nat /\ Len(ss) <= Len(tt)
      /\ \A i \in 1 .. Len(ss) : ss[i] = tt[i]
  BY DEF Begins
<1>2. 0 \in T
  BY <1>1
<1>3. ASSUME NEW n \in 0 .. Len(ss) - 1, n \in T PROVE n + 1 \in T
  <2>1. n \in 0 .. Len(tt) - 1 /\ n + 1 \in 1 .. Len(ss) /\ n + 1 \in 0 .. Len(ss)
    BY <1>1
  <2>2. f[n + 1] = IF n = 0 THEN ss[n + 1] ELSE f[n] \o ss[n + 1]
    BY <1>3, Zenon DEF Flattening
  <2>3. g[n + 1] = IF n = 0 THEN tt[n + 1] ELSE g[n] \o tt[n + 1]
    BY <2>1, Zenon DEF Flattening
  <2>4. (n # 0 => f[n] = g[n]) /\ ss[n + 1] = tt[n + 1]
    BY <1>1, <1>3, <2>1
  <2>5. f[n + 1] = g[n + 1]
    BY <2>2, <2>3, <2>4, Zenon
  <2> QED
    BY <2>1, <2>5
<1>4. \A n \in 0 .. Len(ss) : n \in T
  <2> HIDE DEF T
  <2> QED
    BY <1>1, <1>2, <1>3, UpTo
<1> QED
  BY <1>1, <1>4

\* What FlattenSeq computes for ss is the last value of its flattening.
LEMMA FlattenSeqByFlattening ==
    ASSUME NEW S, NEW ss \in Seq(Seq(S)), ss # <<>>
    PROVE  \E f \in [1 .. Len(ss) -> Seq(S)] :
              Flattening(f, ss) /\ FlattenSeq(ss) = f[Len(ss)]
<1> DEFINE Is(f) == f = [i \in 1 .. Len(ss) |-> IF i = 1 THEN ss[i] ELSE f[i - 1] \o ss[i]]
           F == CHOOSE f : Is(f)
<1>1. Len(ss) \in Nat \ {0}
  BY EmptySeq
<1>2. PICK h \in [1 .. Len(ss) -> Seq(S)] : Flattening(h, ss)
  BY FlatteningExists
<1>3. Is(h)
  <2>1. ASSUME NEW i \in 1 .. Len(ss)
        PROVE  h[i] = IF i = 1 THEN ss[i] ELSE h[i - 1] \o ss[i]
    <3>1. i - 1 \in 0 .. Len(ss) - 1 /\ (i - 1) + 1 = i /\ (i - 1 = 0 <=> i = 1)
      BY <1>1
    <3>2. h[(i - 1) + 1] = IF i - 1 = 0 THEN ss[(i - 1) + 1] ELSE h[i - 1] \o ss[(i - 1) + 1]
      BY <1>2, <3>1, Zenon DEF Flattening
    <3> QED
      BY <3>1, <3>2, Zenon
  <2>2. h = [i \in 1 .. Len(ss) |-> h[i]]
    OBVIOUS
  <2> QED
    BY <2>1, <2>2, Zenon
<1>4. Is(F)
  <2> HIDE DEF Is
  <2> QED
    BY <1>3
<1>5. FlattenSeq(ss) = F[Len(ss)]
  BY <1>1 DEF FlattenSeq
<1> HIDE DEF F
<1>6. Flattening(F, ss)
  <2> SUFFICES ASSUME NEW n \in 0 .. Len(ss) - 1
               PROVE  F[n + 1] = IF n = 0 THEN ss[n + 1] ELSE F[n] \o ss[n + 1]
    BY DEF Flattening
  <2>1. n + 1 \in 1 .. Len(ss) /\ (n + 1) - 1 = n /\ (n + 1 = 1 <=> n = 0)
    BY <1>1
  <2>2. F[n + 1] = IF n + 1 = 1 THEN ss[n + 1] ELSE F[(n + 1) - 1] \o ss[n + 1]
    BY <1>4, <2>1, Zenon
  <2> QED
    BY <2>1, <2>2, Zenon
<1>7. F[Len(ss)] = h[Len(ss)]
  <2>1. Begins(ss, ss) /\ Len(ss) \in 1 .. Len(ss)
    BY <1>1 DEF Begins
  <2>2. \A i \in 1 .. Len(ss) : F[i] = h[i]
    BY <1>2, <1>6, <2>1, FlatteningUnique
  <2> QED
    BY <2>1, <2>2
<1> QED
  BY <1>2, <1>5, <1>7

LEMMA FlattenEmpty == FlattenSeq(<<>>) = <<>>
BY DEF FlattenSeq

LEMMA FlattenType ==
    ASSUME NEW S, NEW ss \in Seq(Seq(S))
    PROVE  FlattenSeq(ss) \in Seq(S)
<1>1. CASE ss = <<>>
  BY <1>1, FlattenEmpty, EmptySeq
<1>2. CASE ss # <<>>
  <2>1. Len(ss) \in Nat \ {0}
    BY <1>2, EmptySeq
  <2>2. PICK f \in [1 .. Len(ss) -> Seq(S)] : FlattenSeq(ss) = f[Len(ss)]
    BY <1>2, FlattenSeqByFlattening
  <2>3. Len(ss) \in 1 .. Len(ss)
    BY <2>1
  <2> QED
    BY <2>2, <2>3
<1> QED
  BY <1>1, <1>2

LEMMA FlattenAppend ==
    ASSUME NEW S, NEW ss \in Seq(Seq(S)), NEW s \in Seq(S)
    PROVE  FlattenSeq(Append(ss, s)) = FlattenSeq(ss) \o s
<1> DEFINE tt == Append(ss, s)
<1>1. /\ Len(ss) \in Nat
      /\ tt \in Seq(Seq(S)) /\ tt # <<>> /\ Len(tt) = Len(ss) + 1
      /\ \A i \in 1 .. Len(ss) : ss[i] = tt[i]
      /\ tt[Len(ss) + 1] = s
  BY LenProperties, AppendProperties
<1> HIDE DEF tt
<1>2. PICK g \in [1 .. Len(tt) -> Seq(S)] : Flattening(g, tt) /\ FlattenSeq(tt) = g[Len(tt)]
  BY <1>1, FlattenSeqByFlattening
<1>3. g[Len(ss) + 1] = IF Len(ss) = 0 THEN tt[Len(ss) + 1] ELSE g[Len(ss)] \o tt[Len(ss) + 1]
  <2>1. Len(ss) \in 0 .. Len(tt) - 1
    BY <1>1
  <2> QED
    BY <1>2, <2>1, Zenon DEF Flattening
<1>4. FlattenSeq(tt) = IF Len(ss) = 0 THEN s ELSE g[Len(ss)] \o s
  BY <1>1, <1>2, <1>3, Zenon
<1>5. CASE ss = <<>>
  <2>1. Len(ss) = 0
    BY <1>5, EmptySeq
  <2>2. FlattenSeq(tt) = s
    BY <1>4, <2>1
  <2>3. FlattenSeq(ss) \o s = s
    BY <1>5, FlattenEmpty, ConcatEmptySeq
  <2> QED
    BY <2>2, <2>3 DEF tt
<1>6. CASE ss # <<>>
  <2>1. Len(ss) \in Nat \ {0}
    BY <1>6, EmptySeq
  <2>2. PICK f \in [1 .. Len(ss) -> Seq(S)] : Flattening(f, ss) /\ FlattenSeq(ss) = f[Len(ss)]
    BY <1>6, FlattenSeqByFlattening
  <2>3. \A i \in 1 .. Len(ss) : f[i] = g[i]
    <3>1. Begins(ss, tt)
      BY <1>1 DEF Begins
    <3> QED
      BY <1>2, <2>2, <3>1, FlatteningUnique
  <2>4. Len(ss) \in 1 .. Len(ss) /\ Len(ss) # 0
    BY <2>1
  <2>5. f[Len(ss)] = g[Len(ss)]
    BY <2>3, <2>4
  <2> QED
    BY <1>4, <2>2, <2>4, <2>5, Zenon DEF tt
<1> QED
  BY <1>5, <1>6

\* A sequence of one sequence is joined to that one.
LEMMA FlattenOne ==
    ASSUME NEW S, NEW s \in Seq(S)
    PROVE  FlattenSeq(<<s>>) = s
<1>1. <<>> \in Seq(Seq(S)) /\ Append(<<>>, s) = <<s>>
  OBVIOUS
<1>2. FlattenSeq(Append(<<>>, s)) = FlattenSeq(<<>>) \o s
  BY <1>1, FlattenAppend
<1>3. <<>> \o s = s
  BY ConcatEmptySeq
<1> QED
  BY <1>1, <1>2, <1>3, FlattenEmpty

\* Empty sequences are joined to an empty one.
LEMMA FlattenEmpties ==
    ASSUME NEW S, NEW ss \in Seq(Seq(S)), \A i \in 1 .. Len(ss) : ss[i] = <<>>
    PROVE  FlattenSeq(ss) = <<>>
<1>1. CASE ss = <<>>
  BY <1>1, FlattenEmpty
<1>2. CASE ss # <<>>
  <2> DEFINE g == [i \in 1 .. Len(ss) |-> <<>>]
  <2>1. Len(ss) \in Nat \ {0}
    BY <1>2, EmptySeq
  <2>2. PICK f \in [1 .. Len(ss) -> Seq(S)] : Flattening(f, ss) /\ FlattenSeq(ss) = f[Len(ss)]
    BY <1>2, FlattenSeqByFlattening
  <2>3. Flattening(g, ss)
    <3> SUFFICES ASSUME NEW n \in 0 .. Len(ss) - 1
                 PROVE  g[n + 1] = IF n = 0 THEN ss[n + 1] ELSE g[n] \o ss[n + 1]
      BY DEF Flattening
    <3>1. n + 1 \in 1 .. Len(ss) /\ (n # 0 => n \in 1 .. Len(ss))
      BY <2>1
    <3>2. g[n + 1] = <<>> /\ ss[n + 1] = <<>> /\ (n # 0 => g[n] = <<>>)
      BY <3>1
    <3>3. <<>> \o <<>> = <<>>
      BY EmptySeq, ConcatEmptySeq
    <3> HIDE DEF g
    <3> QED
      BY <3>2, <3>3, Zenon
  <2>4. Begins(ss, ss) /\ Len(ss) \in 1 .. Len(ss)
    BY <2>1 DEF Begins
  <2>5. f[Len(ss)] = g[Len(ss)]
    <3> HIDE DEF g
    <3> QED
      BY <2>2, <2>3, <2>4, FlatteningUnique
  <2> QED
    BY <2>2, <2>4, <2>5
<1> QED
  BY <1>1, <1>2

LEMMA FlattenConcat ==
    ASSUME NEW S, NEW ss \in Seq(Seq(S)), NEW tt \in Seq(Seq(S))
    PROVE  FlattenSeq(ss \o tt) = FlattenSeq(ss) \o FlattenSeq(tt)
<1> DEFINE Holds(t) == FlattenSeq(ss \o t) = FlattenSeq(ss) \o FlattenSeq(t)
           T == {i \in 0 .. Len(tt) : Holds(SubSeq(tt, 1, i))}
<1>1. /\ Len(tt) \in Nat /\ \A i \in 1 .. Len(tt) : tt[i] \in Seq(S)
      /\ SubSeq(tt, 1, Len(tt)) = tt
      /\ FlattenSeq(ss) \in Seq(S)
  BY LenProperties, SubSeqFull, FlattenType
<1>2. Holds(SubSeq(tt, 1, 0))
  <2>1. SubSeq(tt, 1, 0) = <<>>
    BY SubSeqEmpty
  <2>2. ss \o <<>> = ss /\ FlattenSeq(ss) \o <<>> = FlattenSeq(ss)
    BY <1>1, ConcatEmptySeq
  <2> QED
    BY <2>1, <2>2, FlattenEmpty, Zenon
<1>3. ASSUME NEW t \in Seq(Seq(S)), NEW s \in Seq(S), Holds(t)
      PROVE  Holds(Append(t, s))
  <2>1. ss \o Append(t, s) = Append(ss \o t, s)
    <3>1. <<s>> \in Seq(Seq(S)) /\ ss \o t \in Seq(Seq(S))
      BY ConcatProperties
    <3>2. Append(t, s) = t \o <<s>> /\ Append(ss \o t, s) = (ss \o t) \o <<s>>
      BY <3>1, AppendIsConcat
    <3> QED
      BY <3>1, <3>2, ConcatAssociative
  <2>2. ss \o t \in Seq(Seq(S)) /\ FlattenSeq(t) \in Seq(S)
    BY ConcatProperties, FlattenType
  <2>3. FlattenSeq(Append(ss \o t, s)) = FlattenSeq(ss \o t) \o s
    BY <2>2, FlattenAppend
  <2>4. (FlattenSeq(ss) \o FlattenSeq(t)) \o s = FlattenSeq(ss) \o (FlattenSeq(t) \o s)
    <3> DEFINE a == FlattenSeq(ss)
               b == FlattenSeq(t)
    <3>1. a \in Seq(S) /\ b \in Seq(S)
      BY <1>1, <2>2
    <3> HIDE DEF a, b
    <3>2. Cat(Cat(a, b), s) = Cat(a, Cat(b, s))
      BY <3>1, CatAssociative
    <3> QED
      BY <3>2 DEF Cat, a, b
  <2>5. FlattenSeq(Append(t, s)) = FlattenSeq(t) \o s
    BY FlattenAppend
  <2> QED
    BY <1>3, <2>1, <2>3, <2>4, <2>5, Zenon
<1>4. ASSUME NEW i \in 0 .. Len(tt) - 1
      PROVE  /\ SubSeq(tt, 1, i) \in Seq(Seq(S))
             /\ tt[i + 1] \in Seq(S)
             /\ SubSeq(tt, 1, i + 1) = Append(SubSeq(tt, 1, i), tt[i + 1])
  <2>1. i + 1 \in 1 .. Len(tt) /\ (i + 1) - 1 = i /\ 1 \in 1 .. Len(tt)
    BY <1>1
  <2>2. \A k \in 1 .. i : tt[k] \in Seq(S)
    BY <1>1
  <2>3. SubSeq(tt, 1, i) \in Seq(Seq(S))
    BY <2>2, SubSeqProperties
  <2>4. SubSeq(tt, 1, i + 1) = SubSeq(tt, 1, (i + 1) - 1) \o <<tt[i + 1]>>
    BY <2>1, SubSeqRecursiveSecond
  <2>5. Append(SubSeq(tt, 1, i), tt[i + 1]) = SubSeq(tt, 1, i) \o <<tt[i + 1]>>
    BY <1>1, <2>1, <2>3, AppendIsConcat
  <2> QED
    BY <1>1, <2>1, <2>3, <2>4, <2>5
<1> HIDE DEF Holds
<1>5. 0 \in T
  BY <1>1, <1>2
<1>6. ASSUME NEW i \in 0 .. Len(tt) - 1, i \in T PROVE i + 1 \in T
  <2>1. Holds(Append(SubSeq(tt, 1, i), tt[i + 1]))
    BY <1>3, <1>4, <1>6
  <2>2. i + 1 \in 0 .. Len(tt)
    BY <1>1
  <2> QED
    BY <1>4, <2>1, <2>2
<1>7. Len(tt) \in T
  <2> HIDE DEF T
  <2>1. \A i \in 0 .. Len(tt) : i \in T
    BY <1>1, <1>5, <1>6, UpTo
  <2> QED
    BY <1>1, <2>1
<1> QED
  BY <1>1, <1>7 DEF Holds

-----------------------------------------------------------------------------
LEMMA PrefixOfConcat ==
    ASSUME NEW S, NEW s \in Seq(S), NEW t \in Seq(S)
    PROVE  IsPrefix(s, s \o t)
<1>1. /\ Len(s) \in Nat /\ Len(t) \in Nat
      /\ s \o t \in Seq(S) /\ Len(s \o t) = Len(s) + Len(t)
      /\ \A i \in 1 .. Len(s) : s[i] \in S /\ (s \o t)[i] = s[i]
  BY LenProperties, ConcatProperties
<1> DEFINE u == s \o t
<1> HIDE DEF u
<1>2. SubSeq(s, 1, Len(s)) = SubSeq(u, 1, Len(s))
  <2>1. \A i \in 1 .. Len(s) : s[i] \in S /\ u[i] \in S /\ u[i] = s[i]
    BY <1>1 DEF u
  <2>2. SubSeq(s, 1, Len(s)) \in Seq(S) /\ Len(SubSeq(s, 1, Len(s))) = Len(s)
    BY <1>1, SubSeqFull
  <2>3. /\ SubSeq(u, 1, Len(s)) \in Seq(S) /\ Len(SubSeq(u, 1, Len(s))) = Len(s)
        /\ \A i \in 1 .. Len(s) - 1 + 1 : SubSeq(u, 1, Len(s))[i] = u[1 + i - 1]
    BY <1>1, <2>1, SubSeqProperties
  <2>4. \A i \in 1 .. Len(s) : SubSeq(u, 1, Len(s))[i] = s[i]
    BY <1>1, <2>1, <2>3
  <2>5. SubSeq(s, 1, Len(s)) = s
    BY SubSeqFull
  <2> QED
    BY <2>2, <2>3, <2>4, <2>5, SeqEqual
<1> QED
  BY <1>1, <1>2 DEF IsPrefix, u

\* Being a prefix, told by the elements.
LEMMA PrefixByElements ==
    ASSUME NEW S, NEW s \in Seq(S), NEW t \in Seq(S)
    PROVE  IsPrefix(s, t) <=> Len(s) <= Len(t) /\ \A i \in 1 .. Len(s) : s[i] = t[i]
<1>1. /\ Len(s) \in Nat /\ Len(t) \in Nat
      /\ \A i \in 1 .. Len(s) : s[i] \in S
      /\ \A i \in 1 .. Len(t) : t[i] \in S
  BY LenProperties
<1> SUFFICES ASSUME Len(s) <= Len(t)
             PROVE  SubSeq(s, 1, Len(s)) = SubSeq(t, 1, Len(s))
                       <=> \A i \in 1 .. Len(s) : s[i] = t[i]
  BY DEF IsPrefix
<1>2. SubSeq(s, 1, Len(s)) = s
  BY SubSeqFull
<1>3. /\ SubSeq(t, 1, Len(s)) \in Seq(S) /\ Len(SubSeq(t, 1, Len(s))) = Len(s)
      /\ \A i \in 1 .. Len(s) : SubSeq(t, 1, Len(s))[i] = t[i]
  <2>1. \A i \in 1 .. Len(s) : t[i] \in S
    BY <1>1
  <2>2. /\ SubSeq(t, 1, Len(s)) \in Seq(S)
        /\ Len(SubSeq(t, 1, Len(s))) = IF 1 <= Len(s) THEN Len(s) - 1 + 1 ELSE 0
        /\ \A i \in 1 .. Len(s) - 1 + 1 : SubSeq(t, 1, Len(s))[i] = t[1 + i - 1]
    BY <1>1, <2>1, SubSeqProperties
  <2> QED
    BY <1>1, <2>2
<1> DEFINE u == SubSeq(t, 1, Len(s))
<1> HIDE DEF u
<1>4. s = u <=> \A i \in 1 .. Len(s) : s[i] = u[i]
  BY <1>3, SeqEqual DEF u
<1> QED
  BY <1>2, <1>3, <1>4 DEF u

LEMMA PrefixTransitive ==
    ASSUME NEW S, NEW s \in Seq(S), NEW t \in Seq(S), NEW u \in Seq(S),
           IsPrefix(s, t), IsPrefix(t, u)
    PROVE  IsPrefix(s, u)
<1>1. Len(s) \in Nat /\ Len(t) \in Nat /\ Len(u) \in Nat
  BY LenProperties
<1>2. Len(s) <= Len(t) /\ \A i \in 1 .. Len(s) : s[i] = t[i]
  BY PrefixByElements
<1>3. Len(t) <= Len(u) /\ \A i \in 1 .. Len(t) : t[i] = u[i]
  BY PrefixByElements
<1>4. Len(s) <= Len(u) /\ \A i \in 1 .. Len(s) : s[i] = u[i]
  BY <1>1, <1>2, <1>3
<1> QED
  BY <1>4, PrefixByElements

=============================================================================
