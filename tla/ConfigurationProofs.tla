-------------------------- MODULE ConfigurationProofs --------------------------
(***************************************************************************)
(* Proof about Configuration, for any directories, files and imports: a    *)
(* pipeline is accepted just when nothing failed and no two files          *)
(* contradict each other, and has all their blocks.                        *)
(***************************************************************************)
EXTENDS Configuration, SequenceTheorems, FiniteSetTheorems, WellFoundedInduction, TLAPS

-------------------------------------------------------------------------------
(* Recursion and induction over the numbers up to N *)

\* A set that has 0 and the successors of its elements.
LEMMA UpTo ==
    ASSUME NEW N \in Nat, NEW S, 0 \in S,
           \A n \in 1..N : n - 1 \in S => n \in S
    PROVE  \A n \in 0..N : n \in S
<1> DEFINE missing == {n \in 0..N : n \notin S}
           below == {0..n : n \in missing}
<1> SUFFICES ASSUME missing # {} PROVE FALSE
  OBVIOUS
<1>1. IsWellFoundedOn(StrictSubsetOrdering(0..N), SUBSET (0..N))
  <2>1. IsFiniteSet(0..N)
    BY FS_Interval
  <2> QED BY <2>1, FS_StrictSubsetOrderingWellFounded, FS_FiniteSubsetsOfFinite
<1>2. PICK x \in below : \A y \in below : ~(<<y, x>> \in StrictSubsetOrdering(0..N))
  <2>1. below \subseteq SUBSET (0..N) /\ below # {}
    OBVIOUS
  <2> HIDE DEF below
  <2> QED BY <1>1, <2>1, WFMin
<1>3. PICK n \in missing : x = 0..n
  OBVIOUS
<1>4. n \in 1..N
  OBVIOUS
<1>5. n - 1 \in missing
  BY <1>4
<1>6. <<0..(n - 1), x>> \in StrictSubsetOrdering(0..N)
  <2>1. 0..(n - 1) \subseteq 0..n /\ 0..(n - 1) \subseteq 0..N /\ 0..n \subseteq 0..N
    BY <1>4
  <2>2. n \in 0..n /\ n \notin 0..(n - 1)
    BY <1>4
  <2> QED BY <1>3, <2>1, <2>2 DEF StrictSubsetOrdering
<1> QED BY <1>2, <1>5, <1>6

\* A sequence of values, each made of the one before it.
Computes(f, N, V, v, step) ==
    /\ f \in [0..N -> V]
    /\ f[0] = v
    /\ \A n \in 1..N : f[n] = step[<<n, f[n - 1]>>]

LEMMA Recursion ==
    ASSUME NEW N \in Nat, NEW V, NEW v \in V, NEW step \in [(1..N) \X V -> V]
    PROVE  \E f : Computes(f, N, V, v, step)
<1> DEFINE Upto(m, f) == Computes(f, m, V, v, step)
           good == {m \in 0..N : \E f : Upto(m, f)}
<1>1. 0 \in good
  <2>1. Upto(0, [n \in 0..0 |-> v])
    BY DEF Computes
  <2> HIDE DEF Upto
  <2> QED BY <2>1
<1>2. ASSUME NEW m \in 1..N, m - 1 \in good PROVE m \in good
  <2>0. PICK f : Upto(m - 1, f)
    BY <1>2
  <2>1. /\ f \in [0..(m - 1) -> V]
        /\ f[0] = v
        /\ \A n \in 1..(m - 1) : f[n] = step[<<n, f[n - 1]>>]
    BY <2>0 DEF Computes
  <2> DEFINE g == [n \in 0..m |-> IF n = m THEN step[<<m, f[m - 1]>>] ELSE f[n]]
  <2>2. f[m - 1] \in V
    BY <2>1
  <2>3. step[<<m, f[m - 1]>>] \in V
    BY <2>2
  <2>4. g \in [0..m -> V]
    BY <2>1, <2>3
  <2>5. g[0] = v
    BY <2>1
  <2>6. \A n \in 1..m : g[n] = step[<<n, g[n - 1]>>]
    <3> TAKE n \in 1..m
    <3>1. n - 1 \in 0..m /\ n - 1 # m /\ g[n - 1] = f[n - 1]
      OBVIOUS
    <3>2. CASE n = m
      BY <3>1, <3>2
    <3>3. CASE n # m
      BY <2>1, <3>1, <3>3
    <3> QED BY <3>2, <3>3
  <2>7. Upto(m, g)
    BY <2>4, <2>5, <2>6 DEF Computes
  <2> HIDE DEF Upto, g
  <2> QED BY <2>7
<1>3. N \in good
  <2> HIDE DEF good
  <2>1. \A n \in 0..N : n \in good
    BY <1>1, <1>2, UpTo
  <2> QED BY <2>1
<1> QED BY <1>3

-------------------------------------------------------------------------------
(* Sequences *)

LEMMA Associative ==
    ASSUME NEW S, NEW x \in Seq(S), NEW y \in Seq(S), NEW z \in Seq(S)
    PROVE  x \o (y \o z) = (x \o y) \o z
  BY SMT

\* FlattenSeq joins one sequence after another.
LEMMA FlattenSteps ==
    ASSUME NEW S, NEW ss \in Seq(Seq(S))
    PROVE  \E f \in [0..Len(ss) -> Seq(S)] :
             /\ f[0] = <<>>
             /\ \A n \in 1..Len(ss) : f[n] = f[n - 1] \o ss[n]
             /\ FlattenSeq(ss) = f[Len(ss)]
<1> DEFINE N == Len(ss)
<1>0. N \in Nat /\ ss \in [1..N -> Seq(S)] /\ <<>> \in Seq(S)
  BY LenProperties, EmptySeq
<1> DEFINE step == [nv \in (1..N) \X Seq(S) |-> nv[2] \o ss[nv[1]]]
<1>1. step \in [(1..N) \X Seq(S) -> Seq(S)]
  <2>1. \A n \in 1..N, x \in Seq(S) : x \o ss[n] \in Seq(S)
    BY <1>0, ConcatProperties
  <2> QED BY <2>1
<1>2. PICK f \in [0..N -> Seq(S)] :
         f[0] = <<>> /\ \A n \in 1..N : f[n] = step[<<n, f[n - 1]>>]
  <2> HIDE DEF step, N
  <2>1. \E f : Computes(f, N, Seq(S), <<>>, step)
    BY <1>0, <1>1, Recursion
  <2> QED BY <2>1 DEF Computes
<1>3. \A n \in 1..N : f[n] = f[n - 1] \o ss[n]
  <2> TAKE n \in 1..N
  <2>a. n - 1 \in 0..N
    BY <1>0
  <2>b. f[n - 1] \in Seq(S)
    BY <2>a
  <2>1. <<n, f[n - 1]>> \in (1..N) \X Seq(S)
    BY <2>b
  <2>2. step[<<n, f[n - 1]>>] = f[n - 1] \o ss[n]
    BY <2>1
  <2> HIDE DEF step
  <2> QED BY <1>2, <2>2
<1> DEFINE Flattens(g) ==
      g = [i \in 1..N |-> IF i = 1 THEN ss[i] ELSE g[i - 1] \o ss[i]]
<1>4. CASE N = 0
  BY <1>0, <1>2, <1>3, <1>4, EmptySeq DEF FlattenSeq
<1>5. CASE N # 0
  <2> DEFINE g == [i \in 1..N |-> f[i]]
  <2>1. Flattens(g)
    <3>1. ASSUME NEW i \in 1..N
          PROVE  f[i] = IF i = 1 THEN ss[i] ELSE g[i - 1] \o ss[i]
      <4>1. CASE i = 1
        <5>1. f[1] = f[0] \o ss[1] /\ ss[1] \in Seq(S)
          BY <1>0, <1>3, <4>1
        <5> QED BY <1>2, <4>1, <5>1, ConcatEmptySeq
      <4>2. CASE i # 1
        <5>1. i - 1 \in 1..N
          BY <1>0, <4>2
        <5>2. g[i - 1] = f[i - 1]
          BY <5>1
        <5>3. f[i] = f[i - 1] \o ss[i]
          BY <1>3
        <5> HIDE DEF g
        <5> QED BY <4>2, <5>2, <5>3
      <4> QED BY <4>1, <4>2
    <3> QED BY <3>1
  <2>2. FlattenSeq(ss) = (CHOOSE h : Flattens(h))[N]
    BY <1>5 DEF FlattenSeq
  <2> DEFINE h == CHOOSE h : Flattens(h)
  <2>3. Flattens(h)
    <3> HIDE DEF Flattens, g
    <3> QED BY <2>1
  <2>4. \A n \in 1..N : h[n] = IF n = 1 THEN ss[n] ELSE h[n - 1] \o ss[n]
    <3> HIDE DEF h
    <3> QED BY <2>3
  <2> DEFINE same == {n \in 0..N : n = 0 \/ h[n] = f[n]}
  <2>5. \A n \in 0..N : n \in same
    <3>1. 0 \in same
      BY <1>0
    <3>2. ASSUME NEW n \in 1..N, n - 1 \in same PROVE n \in same
      <4>1. g[n] = f[n] /\ (n # 1 => n - 1 \in 1..N /\ g[n - 1] = f[n - 1])
        BY <1>0
      <4>2. g[n] = IF n = 1 THEN ss[n] ELSE g[n - 1] \o ss[n]
        <5> HIDE DEF g
        <5> QED BY <2>1
      <4>3. f[n] = IF n = 1 THEN ss[n] ELSE f[n - 1] \o ss[n]
        <5> HIDE DEF g
        <5> QED BY <4>1, <4>2
      <4>4. n # 1 => h[n - 1] = f[n - 1]
        BY <1>0, <3>2
      <4> HIDE DEF h
      <4> QED BY <1>0, <2>4, <4>3, <4>4
    <3> HIDE DEF same
    <3> QED BY <1>0, <3>1, <3>2, UpTo
  <2>6. h[N] = f[N]
    <3> HIDE DEF h
    <3> QED BY <1>0, <1>5, <2>5
  <2> QED BY <1>2, <1>3, <2>2, <2>6
<1> QED BY <1>4, <1>5

\* There is one way to do so.
LEMMA FlattenUnique ==
    ASSUME NEW S, NEW ss \in Seq(Seq(S)), NEW f, f[0] = <<>>,
           \A n \in 1..Len(ss) : f[n] = f[n - 1] \o ss[n]
    PROVE  FlattenSeq(ss) = f[Len(ss)] /\ FlattenSeq(ss) \in Seq(S)
<1> DEFINE N == Len(ss)
<1>0. N \in Nat
  BY LenProperties
<1>1. PICK g \in [0..N -> Seq(S)] :
         /\ g[0] = <<>>
         /\ \A n \in 1..N : g[n] = g[n - 1] \o ss[n]
         /\ FlattenSeq(ss) = g[N]
  BY FlattenSteps
<1> DEFINE same == {n \in 0..N : f[n] = g[n]}
<1>2. \A n \in 0..N : n \in same
  <2>1. 0 \in same
    BY <1>0, <1>1
  <2>2. ASSUME NEW n \in 1..N, n - 1 \in same PROVE n \in same
    <3>1. f[n - 1] = g[n - 1] /\ n \in 0..N
      BY <1>0, <2>2
    <3>2. f[n] = f[n - 1] \o ss[n] /\ g[n] = g[n - 1] \o ss[n]
      BY <1>1
    <3> QED BY <3>1, <3>2
  <2> HIDE DEF same, N
  <2> QED BY <1>0, <2>1, <2>2, UpTo
<1> QED BY <1>0, <1>1, <1>2

LEMMA FlattenType ==
    ASSUME NEW S, NEW ss \in Seq(Seq(S))
    PROVE  FlattenSeq(ss) \in Seq(S)
<1>1. PICK f \in [0..Len(ss) -> Seq(S)] : FlattenSeq(ss) = f[Len(ss)]
  BY FlattenSteps
<1>2. Len(ss) \in 0..Len(ss)
  BY LenProperties
<1> QED BY <1>1, <1>2

LEMMA FlattenEmpty == FlattenSeq(<<>>) = <<>>
  BY DEF FlattenSeq

LEMMA FlattenOne ==
    ASSUME NEW S, NEW s \in Seq(S)
    PROVE  FlattenSeq(<<s>>) = s
<1> DEFINE f == [n \in 0..1 |-> IF n = 0 THEN <<>> ELSE s]
<1>1. <<s>> \in Seq(Seq(S)) /\ Len(<<s>>) = 1 /\ <<s>>[1] = s
  OBVIOUS
<1>2. f[0] = <<>> /\ f[1] = s
  OBVIOUS
<1>3. <<>> \o s = s
  BY ConcatEmptySeq
<1>4. \A n \in 1..1 : f[n] = f[n - 1] \o <<s>>[n]
  BY <1>1, <1>2, <1>3
<1> HIDE DEF f
<1> QED BY <1>1, <1>2, <1>4, FlattenUnique

LEMMA FlattenConcat ==
    ASSUME NEW S, NEW ss \in Seq(Seq(S)), NEW tt \in Seq(Seq(S))
    PROVE  FlattenSeq(ss \o tt) = FlattenSeq(ss) \o FlattenSeq(tt)
<1> DEFINE M == Len(ss)
           N == Len(tt)
           st == ss \o tt
<1>0. M \in Nat /\ N \in Nat
  BY LenProperties
<1>1. PICK f \in [0..M -> Seq(S)] :
         f[0] = <<>> /\ (\A n \in 1..M : f[n] = f[n - 1] \o ss[n]) /\ FlattenSeq(ss) = f[M]
  BY FlattenSteps
<1>2. PICK g \in [0..N -> Seq(S)] :
         g[0] = <<>> /\ (\A n \in 1..N : g[n] = g[n - 1] \o tt[n]) /\ FlattenSeq(tt) = g[N]
  BY FlattenSteps
<1>3. st \in Seq(Seq(S)) /\ Len(st) = M + N
  BY ConcatProperties
<1>4. /\ \A n \in 1..M : st[n] = ss[n]
      /\ \A n \in 1..N : st[M + n] = tt[n]
  <2>1. \A i \in 1..M + N : st[i] = IF i <= M THEN ss[i] ELSE tt[i - M]
    BY ConcatProperties
  <2>2. \A n \in 1..M : n \in 1..M + N /\ n <= M
    BY <1>0
  <2>3. \A n \in 1..N : M + n \in 1..M + N /\ ~(M + n <= M) /\ (M + n) - M = n
    BY <1>0
  <2> HIDE DEF M, N, st
  <2> QED BY <2>1, <2>2, <2>3
<1> DEFINE h == [n \in 0..M + N |-> IF n <= M THEN f[n] ELSE f[M] \o g[n - M]]
<1> HIDE DEF M, N, st
<1>5. \A n \in 0..M : h[n] = f[n]
  BY <1>0
<1>6. f[M] \in Seq(S) /\ tt \in [1..N -> Seq(S)]
  BY <1>0, LenProperties DEF N
<1>7. \A n \in 0..N : h[M + n] = f[M] \o g[n]
  <2> TAKE n \in 0..N
  <2>1. CASE n = 0
    <3>1. h[M + n] = f[M] /\ g[n] = <<>>
      BY <1>0, <1>2, <2>1
    <3> QED BY <1>6, <3>1, ConcatEmptySeq
  <2>2. CASE n # 0
    <3>1. M + n \in 0..M + N /\ ~(M + n <= M) /\ (M + n) - M = n
      BY <1>0, <2>2
    <3> QED BY <3>1
  <2> QED BY <2>1, <2>2
<1>8. \A n \in 1..M + N : h[n] = h[n - 1] \o st[n]
  <2> TAKE n \in 1..M + N
  <2>1. CASE n <= M
    <3>1. n \in 1..M /\ n \in 0..M /\ n - 1 \in 0..M
      BY <1>0, <2>1
    <3> HIDE DEF h
    <3> QED BY <1>1, <1>4, <1>5, <3>1
  <2>2. CASE ~(n <= M)
    <3>1. PICK m \in 1..N : n = M + m /\ n - 1 = M + (m - 1) /\ m - 1 \in 0..N /\ m \in 0..N
      <4>1. n - M \in 1..N /\ n = M + (n - M) /\ n - 1 = M + ((n - M) - 1)
        BY <1>0, <2>2
      <4>2. (n - M) - 1 \in 0..N /\ n - M \in 0..N
        BY <1>0, <4>1
      <4> QED BY <4>1, <4>2
    <3> HIDE DEF h
    <3>2. h[n] = f[M] \o g[m] /\ h[n - 1] = f[M] \o g[m - 1] /\ st[n] = tt[m]
      BY <1>4, <1>7, <3>1
    <3>3. g[m] = g[m - 1] \o tt[m] /\ g[m - 1] \in Seq(S) /\ tt[m] \in Seq(S)
      BY <1>2, <1>6, <3>1
    <3>4. f[M] \o (g[m - 1] \o tt[m]) = (f[M] \o g[m - 1]) \o tt[m]
      <4> DEFINE x == f[M]
                 y == g[m - 1]
                 z == tt[m]
      <4>1. x \in Seq(S) /\ y \in Seq(S) /\ z \in Seq(S)
        BY <1>6, <3>3
      <4> HIDE DEF x, y, z
      <4>2. x \o (y \o z) = (x \o y) \o z
        BY <4>1, Associative, SMTT(30)
      <4> QED BY <4>2 DEF x, y, z
    <3> QED BY <3>2, <3>3, <3>4
  <2> QED BY <2>1, <2>2
<1>9. h[0] = <<>> /\ h[M + N] = FlattenSeq(ss) \o FlattenSeq(tt)
  <2>1. h[0] = f[0]
    BY <1>0, <1>5
  <2> HIDE DEF h
  <2>2. N \in 0..N
    BY <1>0
  <2>3. h[M + N] = f[M] \o g[N]
    BY <1>7, <2>2, Zenon
  <2>4. h[0] = <<>>
    BY <1>1, <2>1, Zenon
  <2> QED BY <1>1, <1>2, <2>3, <2>4, Zenon
<1> HIDE DEF h
<1>10. FlattenSeq(st) = h[Len(st)]
  BY <1>3, <1>8, <1>9, FlattenUnique
<1> QED BY <1>3, <1>9, <1>10 DEF st

\* What is in the sequences, and nothing else, is in the one they are joined to.
LEMMA FlattenElements ==
    ASSUME NEW S, NEW ss \in Seq(Seq(S))
    PROVE  \A x : x \in Range(FlattenSeq(ss)) <=> \E k \in 1..Len(ss) : x \in Range(ss[k])
<1> DEFINE N == Len(ss)
<1>0. N \in Nat /\ ss \in [1..N -> Seq(S)]
  BY LenProperties
<1>1. PICK f \in [0..N -> Seq(S)] :
         f[0] = <<>> /\ (\A n \in 1..N : f[n] = f[n - 1] \o ss[n]) /\ FlattenSeq(ss) = f[N]
  BY FlattenSteps
<1> DEFINE good == {n \in 0..N : \A x : x \in Range(f[n]) <=> \E k \in 1..n : x \in Range(ss[k])}
<1> HIDE DEF N
<1>2. 0 \in good
  <2>1. Range(<<>>) = {}
    BY DEF Range
  <2> QED BY <1>0, <1>1, <2>1
<1>3. ASSUME NEW n \in 1..N, n - 1 \in good PROVE n \in good
  <2>1. n - 1 \in 0..N /\ n \in 0..N
    BY <1>0
  <2>2. Range(f[n]) = Range(f[n - 1]) \cup Range(ss[n])
    <3>1. f[n - 1] \in Seq(S) /\ ss[n] \in Seq(S)
      BY <1>0, <2>1
    <3>2. f[n] = f[n - 1] \o ss[n]
      BY <1>1
    <3> QED BY <3>1, <3>2, RangeConcatenation
  <2>3. \A x : x \in Range(f[n - 1]) <=> \E k \in 1..(n - 1) : x \in Range(ss[k])
    BY <1>3
  <2>4. 1..n = 1..(n - 1) \cup {n}
    BY <1>0
  <2>5. \A x : (\E k \in 1..n : x \in Range(ss[k])) <=>
              (\E k \in 1..(n - 1) : x \in Range(ss[k])) \/ x \in Range(ss[n])
    BY <2>4
  <2>6. \A x : x \in Range(f[n]) <=> \E k \in 1..n : x \in Range(ss[k])
    BY <2>2, <2>3, <2>5, Zenon
  <2> QED BY <2>1, <2>6
<1>4. N \in good
  <2> HIDE DEF good
  <2>1. \A n \in 0..N : n \in good
    BY <1>0, <1>2, <1>3, UpTo
  <2> QED BY <1>0, <2>1
<1> QED BY <1>1, <1>4 DEF N

\* What a function makes of each element.
Mapped(g, s) == [k \in DOMAIN s |-> g[s[k]]]

LEMMA MappedType ==
    ASSUME NEW A, NEW B, NEW g \in [A -> B], NEW s \in Seq(A)
    PROVE  Mapped(g, s) \in Seq(B)
<1>1. Len(s) \in Nat /\ DOMAIN s = 1..Len(s) /\ \A k \in 1..Len(s) : s[k] \in A
  BY LenProperties, ElementOfSeq
<1>2. Mapped(g, s) \in [1..Len(s) -> B]
  BY <1>1 DEF Mapped
<1>3. Mapped(g, s) \in Seq(B)
  BY <1>1, <1>2, SeqDef
<1> QED BY <1>3

-------------------------------------------------------------------------------
(* What files are together *)

\* The operators of Configuration, of the contents h and the imports i of the
\* files: what does not change while a pipeline is read.
Own(h, d) == IF d = Main /\ ~h[MainFile].broken /\ h[MainFile].version = 1
             THEN <<MainFile>> ELSE Files[d]
DefsOf(h) == [f \in File |-> h[f].defs]
DefsIn(h, fs) == FlattenSeq(Mapped(DefsOf(h), fs))

\* Two files do not contradict each other.
Agree(x, y) ==
    /\ x.version = y.version
    /\ ~(x.pre /\ y.pre) /\ ~(x.post /\ y.post)
    /\ \A b \in Range(x.defs) : b \in Range(y.defs) => b.kind = "locals"

SoundIn(h, fs) ==
    /\ \A k \in 1..Len(fs) : ~h[fs[k]].broken
    /\ \A k, n \in 1..Len(fs) : k # n => Agree(h[fs[k]], h[fs[n]])

\* The pipeline has what the files have, all of it.
Whole(h, p, fs) ==
    /\ SoundIn(h, fs)
    /\ p.version = 0 <=> Range(fs) = {}
    /\ \A f \in Range(fs) : h[f].version = p.version
    /\ p.defs = DefsIn(h, fs)
    /\ p.pre <=> \E f \in Range(fs) : h[f].pre
    /\ p.post <=> \E f \in Range(fs) : h[f].post

Pipe == [version : 0..2, defs : Seq(Definition), pre : BOOLEAN, post : BOOLEAN,
         imports : Seq(Dir)]

LEMMA ContentsType ==
    ASSUME NEW h \in [File -> Contents], NEW f \in File
    PROVE  /\ h[f].broken \in BOOLEAN /\ h[f].version \in {1, 2}
           /\ h[f].pre \in BOOLEAN /\ h[f].post \in BOOLEAN
           /\ h[f].defs \in Seq(Definition)
  BY FilesAssumption DEF FilesAssumption

LEMMA DefsOfType ==
    ASSUME NEW h \in [File -> Contents]
    PROVE  DefsOf(h) \in [File -> Seq(Definition)]
  BY ContentsType DEF DefsOf

LEMMA DefsConcat ==
    ASSUME NEW h \in [File -> Contents], NEW fs \in Seq(File), NEW gs \in Seq(File)
    PROVE  DefsIn(h, fs \o gs) = DefsIn(h, fs) \o DefsIn(h, gs)
<1> DEFINE g == DefsOf(h)
           D == Seq(Definition)
           ms == Mapped(g, fs)
           mt == Mapped(g, gs)
           st == fs \o gs
<1>1. g \in [File -> D]
  BY DefsOfType
<1> HIDE DEF g
<1>2. ms \in Seq(D)
  BY <1>1, MappedType
<1>3. mt \in Seq(D)
  BY <1>1, MappedType
<1> HIDE DEF D
<1>4. Mapped(g, st) = ms \o mt
  <2> DEFINE M == Len(fs)
             N == Len(gs)
  <2>1. M \in Nat /\ N \in Nat
    BY LenProperties
  <2>2. /\ st \in Seq(File) /\ Len(st) = M + N
        /\ \A k \in 1..M + N : st[k] = IF k <= M THEN fs[k] ELSE gs[k - M]
    BY ConcatProperties
  <2>a. ASSUME NEW x \in Seq(File)
        PROVE  /\ Mapped(g, x) \in Seq(D) /\ Len(Mapped(g, x)) = Len(x)
               /\ \A k \in 1..Len(x) : Mapped(g, x)[k] = g[x[k]]
    <3>a. Mapped(g, x) \in Seq(D)
      BY <1>1, MappedType
    <3>2. DOMAIN x = 1..Len(x) /\ Len(x) \in Nat
      BY LenProperties
    <3>b. DOMAIN Mapped(g, x) = 1..Len(x)
      BY <3>2 DEF Mapped
    <3>c. 1..Len(Mapped(g, x)) = 1..Len(x) /\ Len(Mapped(g, x)) \in Nat
      BY <3>a, <3>b, LenProperties
    <3>1. Mapped(g, x) \in Seq(D) /\ Len(Mapped(g, x)) = Len(x)
      BY <3>a, <3>2, <3>c
    <3>3. \A k \in 1..Len(x) : Mapped(g, x)[k] = g[x[k]]
      BY <3>2 DEF Mapped
    <3> QED BY <3>1, <3>3
  <2>3. /\ ms \in Seq(D) /\ Len(ms) = M /\ \A k \in 1..M : ms[k] = g[fs[k]]
        /\ mt \in Seq(D) /\ Len(mt) = N /\ \A k \in 1..N : mt[k] = g[gs[k]]
    BY <2>a
  <2>4. /\ ms \o mt \in Seq(D) /\ Len(ms \o mt) = M + N
        /\ \A k \in 1..M + N : (ms \o mt)[k] = IF k <= M THEN ms[k] ELSE mt[k - M]
    <3> HIDE DEF M, N
    <3>1. /\ ms \o mt \in Seq(D) /\ Len(ms \o mt) = Len(ms) + Len(mt)
          /\ \A k \in 1..Len(ms) + Len(mt) : (ms \o mt)[k] = IF k <= Len(ms) THEN ms[k] ELSE mt[k - Len(ms)]
      <4>1. ms \in Seq(D) /\ mt \in Seq(D)
        BY <2>3
      <4> HIDE DEF ms, mt, D
      <4> QED BY <4>1, ConcatProperties
    <3> QED BY <2>3, <3>1
  <2>5. /\ Mapped(g, st) \in Seq(D) /\ Len(Mapped(g, st)) = M + N
        /\ \A k \in 1..M + N : Mapped(g, st)[k] = g[st[k]]
    BY <2>2, <2>a
  <2> HIDE DEF M, N
  <2>6. \A k \in 1..M + N : Mapped(g, st)[k] = (ms \o mt)[k]
    <3> TAKE k \in 1..M + N
    <3>1. CASE k <= M
      <4>1. k \in 1..M
        BY <2>1, <3>1
      <4>2. st[k] = fs[k] /\ (ms \o mt)[k] = ms[k]
        BY <2>2, <2>4, <3>1
      <4>3. ms[k] = g[fs[k]]
        BY <2>3, <4>1
      <4>4. Mapped(g, st)[k] = g[st[k]]
        BY <2>5
      <4> QED BY <4>2, <4>3, <4>4
    <3>2. CASE ~(k <= M)
      <4>1. k - M \in 1..N
        BY <2>1, <3>2
      <4>2. st[k] = gs[k - M] /\ (ms \o mt)[k] = mt[k - M]
        BY <2>2, <2>4, <3>2
      <4>3. mt[k - M] = g[gs[k - M]]
        BY <2>3, <4>1
      <4>4. Mapped(g, st)[k] = g[st[k]]
        BY <2>5
      <4> QED BY <4>2, <4>3, <4>4
    <3> QED BY <3>1, <3>2
  <2>7. Mapped(g, st) = ms \o mt
    BY <2>4, <2>5, <2>6, SeqEqual
  <2> QED BY <2>7
<1>5. FlattenSeq(ms \o mt) = FlattenSeq(ms) \o FlattenSeq(mt)
  <2> HIDE DEF ms, mt
  <2> QED BY <1>2, <1>3, FlattenConcat DEF D
<1> QED BY <1>4, <1>5 DEF DefsIn, g

LEMMA DefsElements ==
    ASSUME NEW h \in [File -> Contents], NEW fs \in Seq(File)
    PROVE  /\ DefsIn(h, fs) \in Seq(Definition)
           /\ \A x : x \in Range(DefsIn(h, fs)) <=>
                       \E f \in Range(fs) : x \in Range(h[f].defs)
<1> DEFINE g == DefsOf(h)
           ms == Mapped(g, fs)
<1>1. g \in [File -> Seq(Definition)]
  BY DefsOfType
<1>2. ms \in Seq(Seq(Definition))
  <2> HIDE DEF g
  <2> QED BY <1>1, MappedType
<1>3. \A k \in 1..Len(fs) : fs[k] \in File
  BY ElementOfSeq
<1>4. DOMAIN fs = 1..Len(fs) /\ Len(fs) \in Nat
  BY LenProperties
<1>5. DOMAIN ms = 1..Len(fs) /\ \A k \in 1..Len(fs) : ms[k] = h[fs[k]].defs
  BY <1>3, <1>4 DEF Mapped, DefsOf
<1> HIDE DEF ms
<1>6. 1..Len(ms) = 1..Len(fs)
  BY <1>2, <1>5, LenProperties
<1>7. FlattenSeq(ms) \in Seq(Definition)
  BY <1>2, FlattenType
<1>8. \A x : x \in Range(FlattenSeq(ms)) <=> \E k \in 1..Len(ms) : x \in Range(ms[k])
  BY <1>2, FlattenElements
<1>9. DefsIn(h, fs) = FlattenSeq(ms)
  BY DEF DefsIn, ms
<1>10. \A x : x \in Range(FlattenSeq(ms)) <=> \E k \in 1..Len(fs) : x \in Range(h[fs[k]].defs)
  BY <1>5, <1>6, <1>8
<1>11. Range(fs) = {fs[k] : k \in 1..Len(fs)}
  BY RangeEquality
<1>12. \A x : x \in Range(FlattenSeq(ms)) <=> \E f \in Range(fs) : x \in Range(h[f].defs)
  BY <1>10, <1>11, Zenon
<1> QED BY <1>7, <1>9, <1>12

LEMMA SoundConcat ==
    ASSUME NEW h, NEW fs \in Seq(File), NEW gs \in Seq(File)
    PROVE  SoundIn(h, fs \o gs) <=>
             /\ SoundIn(h, fs) /\ SoundIn(h, gs)
             /\ \A x \in Range(fs), y \in Range(gs) : Agree(h[x], h[y])
<1> SUFFICES ASSUME NEW fg, fg = fs \o gs
             PROVE  SoundIn(h, fg) <=>
                      /\ SoundIn(h, fs) /\ SoundIn(h, gs)
                      /\ \A x \in Range(fs), y \in Range(gs) : Agree(h[x], h[y])
  OBVIOUS
<1> DEFINE M == Len(fs)
           N == Len(gs)
<1>1. M \in Nat /\ N \in Nat
  BY LenProperties
<1>a. /\ Len(fg) = M + N
      /\ \A k \in 1..M + N : fg[k] = IF k <= M THEN fs[k] ELSE gs[k - M]
  BY ConcatProperties
<1>2. /\ \A k \in 1..M : k \in 1..Len(fg) /\ fg[k] = fs[k]
      /\ \A k \in 1..N : M + k \in 1..Len(fg) /\ fg[M + k] = gs[k]
      /\ \A k \in 1..Len(fg) : k \in 1..M \/ \E n \in 1..N : k = M + n
  <2> HIDE DEF M, N
  <2>1. \A k \in 1..M : k \in 1..M + N /\ fg[k] = fs[k]
    BY <1>1, <1>a
  <2>2. ASSUME NEW k \in 1..N PROVE M + k \in 1..M + N /\ fg[M + k] = gs[k]
    <3>1. M + k \in 1..M + N /\ ~(M + k <= M) /\ (M + k) - M = k
      BY <1>1
    <3> QED BY <1>a, <3>1
  <2>3. ASSUME NEW k \in 1..M + N PROVE k \in 1..M \/ \E n \in 1..N : k = M + n
    <3>1. k \notin 1..M => k - M \in 1..N /\ k = M + (k - M)
      BY <1>1
    <3> QED BY <3>1
  <2> QED BY <1>a, <2>1, <2>2, <2>3
<1>3. \A x, y : Agree(x, y) => Agree(y, x)
  BY DEF Agree
<1> HIDE DEF M, N
<1>4. ASSUME SoundIn(h, fg)
      PROVE  /\ SoundIn(h, fs) /\ SoundIn(h, gs)
             /\ \A k \in 1..M, n \in 1..N : Agree(h[fs[k]], h[gs[n]])
  <2>1. SoundIn(h, fs)
    BY <1>2, <1>4 DEF SoundIn, M
  <2>2. \A k, n \in 1..N : k # n => M + k # M + n
    BY <1>1
  <2>0. /\ \A k \in 1..Len(fg) : ~h[fg[k]].broken
        /\ \A k, n \in 1..Len(fg) : k # n => Agree(h[fg[k]], h[fg[n]])
    BY <1>4 DEF SoundIn
  <2>3. SoundIn(h, gs)
    <3>1. ASSUME NEW k \in 1..N PROVE ~h[gs[k]].broken
      BY <1>2, <2>0
    <3>2. ASSUME NEW k \in 1..N, NEW n \in 1..N, k # n PROVE Agree(h[gs[k]], h[gs[n]])
      <4>1. M + k \in 1..Len(fg) /\ fg[M + k] = gs[k] /\ M + n \in 1..Len(fg) /\ fg[M + n] = gs[n]
        BY <1>2
      <4>2. M + k # M + n
        BY <2>2, <3>2
      <4> QED BY <2>0, <4>1, <4>2
    <3> QED BY <3>1, <3>2 DEF SoundIn, N
  <2>4. \A k \in 1..M, n \in 1..N : k # M + n
    BY <1>1
  <2>5. ASSUME NEW k \in 1..M, NEW n \in 1..N PROVE Agree(h[fs[k]], h[gs[n]])
    <3>1. k \in 1..Len(fg) /\ fg[k] = fs[k] /\ M + n \in 1..Len(fg) /\ fg[M + n] = gs[n]
      BY <1>2
    <3>2. k # M + n
      BY <2>4
    <3> QED BY <2>0, <3>1, <3>2
  <2> QED BY <2>1, <2>3, <2>5
<1>5. ASSUME SoundIn(h, fs), SoundIn(h, gs),
             \A k \in 1..M, n \in 1..N : Agree(h[fs[k]], h[gs[n]])
      PROVE  SoundIn(h, fg)
  <2>1. ASSUME NEW k \in 1..Len(fg) PROVE ~h[fg[k]].broken
    <3>1. CASE k \in 1..M
      BY <1>2, <1>5, <3>1 DEF SoundIn, M
    <3>2. CASE k \notin 1..M
      BY <1>2, <1>5, <3>2 DEF SoundIn, N
    <3> QED BY <3>1, <3>2
  <2>2. ASSUME NEW k \in 1..Len(fg), NEW n \in 1..Len(fg), k # n
        PROVE  Agree(h[fg[k]], h[fg[n]])
    <3>1. CASE k \in 1..M /\ n \in 1..M
      BY <1>2, <1>5, <2>2, <3>1 DEF SoundIn, M
    <3>2. CASE k \in 1..M /\ n \notin 1..M
      <4>1. PICK m \in 1..N : n = M + m
        BY <1>2, <3>2
      <4>2. fg[k] = fs[k] /\ fg[n] = gs[m]
        BY <1>2, <3>2, <4>1
      <4> QED BY <1>5, <3>2, <4>2
    <3>3. CASE k \notin 1..M /\ n \in 1..M
      <4>1. PICK m \in 1..N : k = M + m
        BY <1>2, <3>3
      <4>2. fg[k] = gs[m] /\ fg[n] = fs[n]
        BY <1>2, <3>3, <4>1
      <4>3. Agree(h[fs[n]], h[gs[m]])
        BY <1>5, <3>3
      <4> QED BY <1>3, <4>2, <4>3
    <3>4. CASE k \notin 1..M /\ n \notin 1..M
      <4>1. PICK i \in 1..N : k = M + i
        BY <1>2, <3>4
      <4>2. PICK j \in 1..N : n = M + j
        BY <1>2, <3>4
      <4>3. fg[k] = gs[i] /\ fg[n] = gs[j] /\ i # j
        BY <1>2, <2>2, <4>1, <4>2
      <4> QED BY <1>5, <4>3 DEF SoundIn, N
    <3> QED BY <3>1, <3>2, <3>3, <3>4
  <2> QED BY <2>1, <2>2 DEF SoundIn
<1>6. Range(fs) = {fs[k] : k \in 1..M} /\ Range(gs) = {gs[k] : k \in 1..N}
  BY RangeEquality DEF M, N
<1>7. (\A x \in Range(fs), y \in Range(gs) : Agree(h[x], h[y])) <=>
      \A k \in 1..M, n \in 1..N : Agree(h[fs[k]], h[gs[n]])
  BY <1>6, Zenon
<1> QED BY <1>4, <1>5, <1>7

\* Merge refuses just what contradicts itself.
LEMMA Refusal ==
    ASSUME NEW h \in [File -> Contents], NEW p \in Pipe, NEW q \in Pipe,
           NEW fs \in Seq(File), NEW gs \in Seq(File),
           Whole(h, p, fs), Whole(h, q, gs)
    PROVE  Refuses(p, q) <=> ~SoundIn(h, fs \o gs)
<1>1. Range(fs) \subseteq File /\ Range(gs) \subseteq File
  BY RangeOfSeq
<1>2. SoundIn(h, fs \o gs) <=> \A x \in Range(fs), y \in Range(gs) : Agree(h[x], h[y])
  BY SoundConcat DEF Whole
<1>3. Clash(p, q) <=> \E b \in Range(p.defs) : b \in Range(q.defs) /\ b.kind \in Compared
  BY DEF Clash, Range
<1>4. /\ \A b : b \in Range(p.defs) <=> \E x \in Range(fs) : b \in Range(h[x].defs)
      /\ \A b : b \in Range(q.defs) <=> \E y \in Range(gs) : b \in Range(h[y].defs)
  BY DefsElements DEF Whole
<1>5. \A b \in Range(p.defs) : b.kind \in Compared <=> b.kind # "locals"
  <2>1. Range(p.defs) \subseteq Definition
    BY RangeOfSeq DEF Pipe
  <2> QED BY <2>1, FilesAssumption DEF FilesAssumption, Kind, Compared
<1>6. Clash(p, q) <=>
        \E x \in Range(fs), y \in Range(gs) :
          \E b \in Range(h[x].defs) : b \in Range(h[y].defs) /\ b.kind # "locals"
  BY <1>3, <1>4, <1>5
<1>7. 0 \notin {p.version, q.version} /\ p.version # q.version <=>
        \E x \in Range(fs), y \in Range(gs) : h[x].version # h[y].version
  BY DEF Whole
<1>8. p.pre /\ q.pre <=> \E x \in Range(fs), y \in Range(gs) : h[x].pre /\ h[y].pre
  BY DEF Whole
<1>9. p.post /\ q.post <=> \E x \in Range(fs), y \in Range(gs) : h[x].post /\ h[y].post
  BY DEF Whole
<1> QED BY <1>2, <1>6, <1>7, <1>8, <1>9 DEF Refuses, Agree

LEMMA Joining ==
    ASSUME NEW h \in [File -> Contents], NEW p \in Pipe, NEW q \in Pipe,
           NEW fs \in Seq(File), NEW gs \in Seq(File),
           Whole(h, p, fs), Whole(h, q, gs), ~Refuses(p, q)
    PROVE  Whole(h, Joined(p, q), fs \o gs)
<1>1. SoundIn(h, fs \o gs)
  BY Refusal
<1>2. Range(fs \o gs) = Range(fs) \cup Range(gs)
  BY RangeConcatenation
<1>3. DefsIn(h, fs \o gs) = p.defs \o q.defs
  BY DefsConcat DEF Whole
<1>4. \A x \in Range(fs), y \in Range(gs) : h[x].version = h[y].version
  BY <1>1, SoundConcat DEF Agree
<1> DEFINE j == Joined(p, q)
<1>5. /\ j.version = (IF p.version = 0 THEN q.version ELSE p.version)
      /\ j.defs = p.defs \o q.defs
      /\ j.pre = (p.pre \/ q.pre) /\ j.post = (p.post \/ q.post)
  BY DEF Joined
<1> HIDE DEF j
<1>6. j.version = 0 <=> Range(fs \o gs) = {}
  BY <1>2, <1>5 DEF Whole
<1>7. \A f \in Range(fs \o gs) : h[f].version = j.version
  BY <1>2, <1>4, <1>5 DEF Whole
<1>8. j.pre <=> \E f \in Range(fs \o gs) : h[f].pre
  BY <1>2, <1>5 DEF Whole, Pipe
<1>9. j.post <=> \E f \in Range(fs \o gs) : h[f].post
  BY <1>2, <1>5 DEF Whole, Pipe
<1>10. j.defs = DefsIn(h, fs \o gs)
  BY <1>3, <1>5
<1> QED BY <1>1, <1>6, <1>7, <1>8, <1>9, <1>10 DEF Whole, j

LEMMA NothingYet == \A h : Whole(h, NoPipe, <<>>) /\ NoPipe \in Pipe
<1> TAKE h
<1>1. Range(<<>>) = {} /\ Len(<<>>) = 0
  BY DEF Range
<1>2. DefsIn(h, <<>>) = <<>>
  <2>1. Mapped(DefsOf(h), <<>>) = <<>>
    BY DEF Mapped
  <2> QED BY <2>1, FlattenEmpty DEF DefsIn
<1>3. <<>> \in Seq(Definition) /\ <<>> \in Seq(Dir)
  BY EmptySeq
<1> QED BY <1>1, <1>2, <1>3 DEF Whole, NoPipe, Pipe, SoundIn

\* What DecodeBody makes of a file.
Dec(h, i, f) ==
    [version |-> h[f].version, defs |-> h[f].defs, pre |-> h[f].pre,
     post |-> h[f].post, imports |-> i[f]]

LEMMA OneFile ==
    ASSUME NEW h \in [File -> Contents], NEW i \in [File -> Seq(Dir)], NEW f \in File
    PROVE  Dec(h, i, f) \in Pipe /\ (~h[f].broken => Whole(h, Dec(h, i, f), <<f>>))
<1>1. /\ h[f].version \in {1, 2} /\ h[f].defs \in Seq(Definition)
      /\ h[f].pre \in BOOLEAN /\ h[f].post \in BOOLEAN
  BY ContentsType
<1>2. Dec(h, i, f) \in Pipe
  BY <1>1 DEF Dec, Pipe
<1>3. Range(<<f>>) = {f} /\ Len(<<f>>) = 1 /\ <<f>>[1] = f
  BY DEF Range
<1>4. DefsIn(h, <<f>>) = h[f].defs
  <2>1. Mapped(DefsOf(h), <<f>>) = <<h[f].defs>>
    BY DEF Mapped, DefsOf
  <2> QED BY <1>1, <2>1, FlattenOne DEF DefsIn
<1>5. ~h[f].broken => SoundIn(h, <<f>>)
  BY <1>3 DEF SoundIn
<1> DEFINE p == Dec(h, i, f)
           one == <<f>>
<1>6. /\ p.version = h[f].version /\ p.defs = h[f].defs
      /\ p.pre = h[f].pre /\ p.post = h[f].post
  BY DEF Dec
<1>7. Range(one) = {f} /\ p.version # 0
  BY <1>1, <1>3, <1>6
<1>8. p.defs = DefsIn(h, one)
  BY <1>4, <1>6
<1>9. ~h[f].broken => SoundIn(h, one)
  BY <1>5
<1> HIDE DEF p, one
<1>10. ~h[f].broken => Whole(h, p, one)
  BY <1>6, <1>7, <1>8, <1>9 DEF Whole
<1> QED BY <1>2, <1>10 DEF p, one

-------------------------------------------------------------------------------
(* Merge *)

MergedType == [ok : BOOLEAN, pipe : Pipe]
Start == [ok |-> TRUE, pipe |-> NoPipe]
Further(m, p) == [ok |-> m.ok /\ ~Refuses(m.pipe, p), pipe |-> Joined(m.pipe, p)]

LEMMA JoinedType ==
    ASSUME NEW p \in Pipe, NEW q \in Pipe
    PROVE  Joined(p, q) \in Pipe
<1>1. p.defs \o q.defs \in Seq(Definition)
  BY ConcatProperties DEF Pipe
<1>2. p.imports \o q.imports \in Seq(Dir)
  BY ConcatProperties DEF Pipe
<1> QED BY <1>1, <1>2 DEF Joined, Pipe

LEMMA FurtherType ==
    ASSUME NEW m \in MergedType, NEW p \in Pipe
    PROVE  Further(m, p) \in MergedType
  BY JoinedType DEF Further, MergedType

\* The recursion of Merge, one pipeline after another.
Merging(f, pipes) ==
    /\ f \in [0..Len(pipes) -> MergedType]
    /\ f[0] = Start
    /\ \A n \in 1..Len(pipes) : f[n] = Further(f[n - 1], pipes[n])

LEMMA MergeSteps ==
    ASSUME NEW pipes \in Seq(Pipe)
    PROVE  \E f : Merging(f, pipes) /\ Merge(pipes) = f[Len(pipes)]
<1> DEFINE N == Len(pipes)
           step == [nv \in (1..N) \X MergedType |-> Further(nv[2], pipes[nv[1]])]
           Merges(g) == g = [n \in 0..N |->
                              IF n = 0 THEN [ok |-> TRUE, pipe |-> NoPipe]
                              ELSE [ok |-> g[n - 1].ok /\ ~Refuses(g[n - 1].pipe, pipes[n]),
                                    pipe |-> Joined(g[n - 1].pipe, pipes[n])]]
<1>0. N \in Nat /\ \A n \in 1..N : pipes[n] \in Pipe
  BY LenProperties, ElementOfSeq
<1>1. step \in [(1..N) \X MergedType -> MergedType]
  BY <1>0, FurtherType
<1>2. Start \in MergedType
  BY NothingYet DEF Start, MergedType
<1>3. PICK f : Computes(f, N, MergedType, Start, step)
  <2> HIDE DEF N, step
  <2> QED BY <1>0, <1>1, <1>2, Recursion
<1>4. f \in [0..N -> MergedType] /\ f[0] = Start
  BY <1>3 DEF Computes
<1>5. ASSUME NEW n \in 1..N PROVE f[n] = Further(f[n - 1], pipes[n])
  <2>1. n - 1 \in 0..N
    BY <1>0
  <2>2. f[n - 1] \in MergedType
    BY <1>4, <2>1
  <2>3. step[<<n, f[n - 1]>>] = Further(f[n - 1], pipes[n])
    BY <2>2
  <2> HIDE DEF step
  <2> QED BY <1>3, <2>3 DEF Computes
<1>6. Merges(f)
  <2> DEFINE Value(g, n) == IF n = 0 THEN Start ELSE Further(g[n - 1], pipes[n])
  <2>1. f = [n \in 0..N |-> Value(f, n)]
    <3>1. ASSUME NEW n \in 0..N PROVE f[n] = Value(f, n)
      BY <1>0, <1>4, <1>5
    <3> HIDE DEF Value
    <3> QED BY <1>4, <3>1
  <2> QED BY <2>1 DEF Start, Further
<1>7. Merge(pipes) = (CHOOSE g : Merges(g))[N]
  BY DEF Merge
<1> DEFINE h == CHOOSE g : Merges(g)
<1>8. Merges(h)
  <2> HIDE DEF Merges
  <2> QED BY <1>6
<1>9. /\ h[0] = Start
      /\ \A n \in 1..N : h[n] = Further(h[n - 1], pipes[n])
  <2> HIDE DEF h
  <2>1. \A n \in 1..N : n # 0 /\ n \in 0..N
    BY <1>0
  <2> QED BY <1>0, <1>8, <2>1 DEF Start, Further
<1> HIDE DEF h
<1>10. \A n \in 0..N : h[n] = f[n]
  <2> DEFINE same == {n \in 0..N : h[n] = f[n]}
  <2>1. 0 \in same
    BY <1>0, <1>4, <1>9
  <2>2. ASSUME NEW n \in 1..N, n - 1 \in same PROVE n \in same
    <3>1. h[n - 1] = f[n - 1] /\ n \in 0..N
      BY <1>0, <2>2
    <3> QED BY <1>5, <1>9, <3>1
  <2>3. \A n \in 0..N : n \in same
    <3> HIDE DEF same, N
    <3> QED BY <1>0, <2>1, <2>2, UpTo
  <2> QED BY <2>3
<1>11. Merge(pipes) = f[N]
  BY <1>0, <1>7, <1>10 DEF h
<1> QED BY <1>4, <1>5, <1>11 DEF Merging

\* Merge accepts what does not contradict itself, and has all of it.
LEMMA MergeWhole ==
    ASSUME NEW h \in [File -> Contents],
           NEW pipes \in Seq(Pipe), NEW fss \in Seq(Seq(File)),
           Len(pipes) = Len(fss),
           \A k \in 1..Len(fss) : Whole(h, pipes[k], fss[k])
    PROVE  /\ Merge(pipes) \in MergedType
           /\ Merge(pipes).ok <=> SoundIn(h, FlattenSeq(fss))
           /\ Merge(pipes).ok => Whole(h, Merge(pipes).pipe, FlattenSeq(fss))
<1> DEFINE N == Len(fss)
<1>0. N \in Nat /\ \A n \in 1..N : fss[n] \in Seq(File) /\ pipes[n] \in Pipe
  BY LenProperties, ElementOfSeq
<1>1. PICK m : Merging(m, pipes) /\ Merge(pipes) = m[N]
  BY MergeSteps
<1>2. /\ m \in [0..N -> MergedType] /\ m[0] = Start
      /\ \A n \in 1..N : m[n] = Further(m[n - 1], pipes[n])
  BY <1>1 DEF Merging
<1>3. PICK a \in [0..N -> Seq(File)] :
         a[0] = <<>> /\ (\A n \in 1..N : a[n] = a[n - 1] \o fss[n]) /\ FlattenSeq(fss) = a[N]
  BY FlattenSteps
<1> DEFINE Good(r, fs) == /\ r.ok <=> SoundIn(h, fs)
                          /\ r.ok => Whole(h, r.pipe, fs)
           good == {n \in 0..N : Good(m[n], a[n])}
<1> HIDE DEF N
<1>4. 0 \in good
  <2>1. Good(Start, <<>>)
    BY NothingYet DEF Start, Whole
  <2> QED BY <1>0, <1>2, <1>3, <2>1
<1>5. ASSUME NEW r \in MergedType, NEW p \in Pipe, NEW fs \in Seq(File), NEW gs \in Seq(File),
             Good(r, fs), Whole(h, p, gs)
      PROVE  Good(Further(r, p), fs \o gs)
  <2> DEFINE t == Further(r, p)
  <2>1. /\ t.ok <=> r.ok /\ ~Refuses(r.pipe, p)
        /\ t.pipe = Joined(r.pipe, p)
        /\ r.pipe \in Pipe
    BY DEF Further, MergedType
  <2> HIDE DEF t
  <2>2. CASE r.ok
    <3>1. Whole(h, r.pipe, fs)
      BY <1>5, <2>2
    <3>2. Refuses(r.pipe, p) <=> ~SoundIn(h, fs \o gs)
      BY <1>5, <2>1, <3>1, Refusal
    <3>3. ~Refuses(r.pipe, p) => Whole(h, Joined(r.pipe, p), fs \o gs)
      BY <1>5, <2>1, <3>1, Joining
    <3>4. Good(t, fs \o gs)
      BY <2>1, <2>2, <3>2, <3>3
    <3> QED BY <3>4 DEF t
  <2>3. CASE ~r.ok
    <3>1. ~SoundIn(h, fs \o gs)
      BY <1>5, <2>3, SoundConcat
    <3>2. Good(t, fs \o gs)
      BY <2>1, <2>3, <3>1
    <3> QED BY <3>2 DEF t
  <2> QED BY <2>2, <2>3
<1>6. ASSUME NEW n \in 1..N, n - 1 \in good PROVE n \in good
  <2>1. n - 1 \in 0..N /\ n \in 0..N
    BY <1>0
  <2>2. m[n - 1] \in MergedType /\ a[n - 1] \in Seq(File) /\ pipes[n] \in Pipe /\ fss[n] \in Seq(File)
    BY <1>0, <1>2, <2>1
  <2>3. m[n] = Further(m[n - 1], pipes[n]) /\ a[n] = a[n - 1] \o fss[n]
    BY <1>2, <1>3
  <2>4. Whole(h, pipes[n], fss[n])
    BY DEF N
  <2>5. Good(m[n - 1], a[n - 1])
    BY <1>6
  <2> HIDE DEF Good
  <2>6. Good(Further(m[n - 1], pipes[n]), a[n - 1] \o fss[n])
    BY <1>5, <2>2, <2>4, <2>5
  <2> QED BY <2>1, <2>3, <2>6
<1>7. N \in good
  <2> HIDE DEF good
  <2>1. \A n \in 0..N : n \in good
    BY <1>0, <1>4, <1>6, UpTo
  <2> QED BY <1>0, <2>1
<1>8. m[N] \in MergedType
  BY <1>0, <1>2
<1> QED BY <1>1, <1>3, <1>7, <1>8

\* The imports of files, in order.
ImportsIn(i, fs) == FlattenSeq(Mapped(i, fs))

LEMMA MergedImports ==
    ASSUME NEW i \in [File -> Seq(Dir)], NEW fs \in Seq(File), NEW pipes \in Seq(Pipe),
           Len(pipes) = Len(fs),
           \A k \in 1..Len(fs) : pipes[k].imports = i[fs[k]]
    PROVE  Merge(pipes).pipe.imports = ImportsIn(i, fs)
<1> DEFINE N == Len(fs)
           ms == Mapped(i, fs)
<1>0. N \in Nat /\ DOMAIN fs = 1..N
  BY LenProperties
<1>1. PICK m : Merging(m, pipes) /\ Merge(pipes) = m[N]
  BY MergeSteps
<1>2. /\ m \in [0..N -> MergedType] /\ m[0] = Start
      /\ \A n \in 1..N : m[n] = Further(m[n - 1], pipes[n])
  BY <1>1 DEF Merging
<1>3. ms \in Seq(Seq(Dir))
  BY MappedType
<1>4. DOMAIN ms = 1..N /\ \A k \in 1..N : ms[k] = i[fs[k]]
  BY <1>0 DEF Mapped
<1> HIDE DEF ms
<1>5. Len(ms) = N
  <2>1. Len(ms) \in Nat /\ 1..Len(ms) = 1..N
    BY <1>3, <1>4, LenProperties
  <2> QED BY <1>0, <2>1
<1> DEFINE a == [n \in 0..N |-> m[n].pipe.imports]
<1>6. a[0] = <<>>
  BY <1>0, <1>2 DEF Start, NoPipe
<1>7. ASSUME NEW n \in 1..N PROVE a[n] = a[n - 1] \o ms[n]
  <2>1. n - 1 \in 0..N /\ n \in 0..N
    BY <1>0
  <2>2. m[n].pipe.imports = m[n - 1].pipe.imports \o pipes[n].imports
    <3> DEFINE r == m[n - 1]
               q == pipes[n]
    <3>1. m[n] = Further(r, q)
      BY <1>2
    <3> HIDE DEF r, q
    <3>2. Further(r, q).pipe.imports = r.pipe.imports \o q.imports
      BY DEF Further, Joined
    <3>3. m[n].pipe.imports = r.pipe.imports \o q.imports
      BY <3>1, <3>2
    <3> QED BY <3>3 DEF r, q
  <2>3. pipes[n].imports = ms[n]
    BY <1>4
  <2>4. a[n] = m[n].pipe.imports /\ a[n - 1] = m[n - 1].pipe.imports
    BY <2>1
  <2> QED BY <2>2, <2>3, <2>4
<1>8. a[N] = m[N].pipe.imports
  BY <1>0
<1> HIDE DEF a, N
<1>9. FlattenSeq(ms) = a[Len(ms)]
  BY <1>3, <1>5, <1>6, <1>7, FlattenUnique
<1> QED BY <1>1, <1>5, <1>8, <1>9 DEF ImportsIn, ms

\* A directory of files is as many lists of one.
Single == [f \in File |-> <<f>>]

LEMMA FlattenSingles ==
    ASSUME NEW fs \in Seq(File)
    PROVE  /\ Mapped(Single, fs) \in Seq(Seq(File)) /\ Len(Mapped(Single, fs)) = Len(fs)
           /\ \A k \in 1..Len(fs) : Mapped(Single, fs)[k] = <<fs[k]>>
           /\ FlattenSeq(Mapped(Single, fs)) = fs
<1> DEFINE N == Len(fs)
           ms == Mapped(Single, fs)
           a == [n \in 0..N |-> SubSeq(fs, 1, n)]
<1>0. N \in Nat /\ DOMAIN fs = 1..N /\ \A k \in 1..N : fs[k] \in File
  BY LenProperties, ElementOfSeq
<1>1. ms \in Seq(Seq(File))
  <2>1. Single \in [File -> Seq(File)]
    BY DEF Single
  <2> QED BY <2>1, MappedType
<1>2. DOMAIN ms = 1..N /\ \A k \in 1..N : ms[k] = <<fs[k]>>
  BY <1>0 DEF Mapped, Single
<1> HIDE DEF ms
<1>3. Len(ms) = N
  <2>1. Len(ms) \in Nat /\ 1..Len(ms) = 1..N
    BY <1>1, <1>2, LenProperties
  <2> QED BY <1>0, <2>1
<1>4. a[0] = <<>> /\ a[N] = fs
  BY <1>0
<1>5. ASSUME NEW n \in 1..N PROVE a[n] = a[n - 1] \o ms[n]
  <2>1. SubSeq(fs, 1, n) = SubSeq(fs, 1, n - 1) \o <<fs[n]>>
    BY <1>0
  <2>2. n - 1 \in 0..N /\ n \in 0..N
    BY <1>0
  <2> QED BY <1>2, <2>1, <2>2
<1> HIDE DEF a, N
<1>6. FlattenSeq(ms) = a[Len(ms)]
  BY <1>1, <1>3, <1>4, <1>5, FlattenUnique
<1> QED BY <1>1, <1>2, <1>3, <1>4, <1>6 DEF ms, N

\* A part of what does not contradict itself does not either.
LEMMA SoundPart ==
    ASSUME NEW h, NEW fss \in Seq(Seq(File)), NEW k \in 1..Len(fss),
           SoundIn(h, FlattenSeq(fss))
    PROVE  SoundIn(h, fss[k])
<1> DEFINE N == Len(fss)
<1>0. N \in Nat /\ \A n \in 1..N : fss[n] \in Seq(File)
  BY LenProperties, ElementOfSeq
<1>1. PICK a \in [0..N -> Seq(File)] :
         a[0] = <<>> /\ (\A n \in 1..N : a[n] = a[n - 1] \o fss[n]) /\ FlattenSeq(fss) = a[N]
  BY FlattenSteps
<1> DEFINE good == {n \in 0..N : n >= k /\ SoundIn(h, a[n]) => SoundIn(h, fss[k])}
<1> HIDE DEF N
<1>2. 0 \in good
  BY <1>0
<1>3. ASSUME NEW n \in 1..N, n - 1 \in good PROVE n \in good
  <2>1. n - 1 \in 0..N /\ n \in 0..N
    BY <1>0
  <2>2. a[n - 1] \in Seq(File) /\ fss[n] \in Seq(File) /\ a[n] = a[n - 1] \o fss[n]
    BY <1>0, <1>1, <2>1
  <2>3. SoundIn(h, a[n]) => SoundIn(h, a[n - 1]) /\ SoundIn(h, fss[n])
    BY <2>2, SoundConcat
  <2>4. n >= k => n = k \/ n - 1 >= k
    BY <1>0
  <2> QED BY <1>3, <2>1, <2>3, <2>4
<1>4. N \in good
  <2> HIDE DEF good
  <2>1. \A n \in 0..N : n \in good
    BY <1>0, <1>2, <1>3, UpTo
  <2> QED BY <1>0, <2>1
<1>5. N >= k
  BY <1>0 DEF N
<1> QED BY <1>1, <1>4, <1>5

-------------------------------------------------------------------------------
(* What a directory stands for *)

\* Reached, of the contents h and the imports i of the files.
All(h, i) ==
    LET reach[depth \in 0..MaxDepth] == [d \in Dir |->
          IF depth = 0 THEN <<>>
          ELSE Own(h, d) \o FlattenSeq(Mapped(reach[depth - 1], ImportsIn(i, Own(h, d))))]
    IN reach

LEMMA OwnType ==
    ASSUME NEW h, NEW d \in Dir
    PROVE  Own(h, d) \in Seq(File)
<1>1. \A f \in Range(Files[Main]) : f \in File
  BY FilesAssumption DEF FilesAssumption, File
<1>2. <<MainFile>> \in Seq(File)
  BY <1>1, FilesAssumption DEF FilesAssumption
<1> QED BY <1>2, FilesAssumption DEF FilesAssumption, Own

LEMMA ImportsType ==
    ASSUME NEW i \in [File -> Seq(Dir)], NEW fs \in Seq(File)
    PROVE  ImportsIn(i, fs) \in Seq(Dir)
<1>1. Mapped(i, fs) \in Seq(Seq(Dir))
  BY MappedType
<1> QED BY <1>1, FlattenType DEF ImportsIn

LEMMA AllEquation ==
    ASSUME NEW h, NEW i \in [File -> Seq(Dir)]
    PROVE  /\ \A n \in 0..MaxDepth : All(h, i)[n] \in [Dir -> Seq(File)]
           /\ \A n \in 1..MaxDepth : \A d \in Dir :
                All(h, i)[n][d] =
                    Own(h, d) \o FlattenSeq(Mapped(All(h, i)[n - 1], ImportsIn(i, Own(h, d))))
<1> DEFINE N == MaxDepth
           V == [Dir -> Seq(File)]
           More(r) == [d \in Dir |->
                         Own(h, d) \o FlattenSeq(Mapped(r, ImportsIn(i, Own(h, d))))]
           none == [d \in Dir |-> <<>>]
           step == [nv \in (1..N) \X V |-> More(nv[2])]
           Solves(g) == g = [n \in 0..N |-> [d \in Dir |->
                          IF n = 0 THEN <<>>
                          ELSE Own(h, d) \o FlattenSeq(Mapped(g[n - 1], ImportsIn(i, Own(h, d))))]]
<1>0. N \in Nat
  BY FilesAssumption DEF FilesAssumption
<1>1. ASSUME NEW r \in V PROVE More(r) \in V
  <2>1. ASSUME NEW d \in Dir
        PROVE  Own(h, d) \o FlattenSeq(Mapped(r, ImportsIn(i, Own(h, d)))) \in Seq(File)
    <3> DEFINE src == ImportsIn(i, Own(h, d))
    <3>1. Own(h, d) \in Seq(File)
      BY OwnType
    <3>2. src \in Seq(Dir)
      BY <3>1, ImportsType
    <3> HIDE DEF src
    <3>3. Mapped(r, src) \in Seq(Seq(File))
      BY <3>2, MappedType
    <3>4. FlattenSeq(Mapped(r, src)) \in Seq(File)
      BY <3>3, FlattenType
    <3>5. Own(h, d) \o FlattenSeq(Mapped(r, src)) \in Seq(File)
      BY <3>1, <3>4, ConcatProperties
    <3> QED BY <3>5 DEF src
  <2> QED BY <2>1
<1>2. none \in V
  BY EmptySeq
<1>3. step \in [(1..N) \X V -> V]
  <2> HIDE DEF More, V
  <2> QED BY <1>1
<1>4. PICK f : Computes(f, N, V, none, step)
  <2> HIDE DEF N, V, none, step
  <2> QED BY <1>0, <1>2, <1>3, Recursion
<1>5. f \in [0..N -> V] /\ f[0] = none
  BY <1>4 DEF Computes
<1>6. ASSUME NEW n \in 1..N PROVE f[n] = More(f[n - 1])
  <2>1. n - 1 \in 0..N
    BY <1>0
  <2> HIDE DEF More, V
  <2>2. f[n - 1] \in V
    BY <1>5, <2>1
  <2>3. step[<<n, f[n - 1]>>] = More(f[n - 1])
    BY <2>2
  <2> HIDE DEF step
  <2> QED BY <1>4, <2>3 DEF Computes
<1>7. Solves(f)
  <2> DEFINE Value(g, n) == [d \in Dir |->
                          IF n = 0 THEN <<>>
                          ELSE Own(h, d) \o FlattenSeq(Mapped(g[n - 1], ImportsIn(i, Own(h, d))))]
  <2>1. Value(f, 0) = none
    OBVIOUS
  <2>2. ASSUME NEW n \in 1..N PROVE Value(f, n) = More(f[n - 1])
    BY <1>0
  <2>3. f = [n \in 0..N |-> Value(f, n)]
    <3> HIDE DEF Value, More, V, none
    <3>1. ASSUME NEW n \in 0..N PROVE f[n] = Value(f, n)
      <4>1. n = 0 \/ n \in 1..N
        BY <1>0
      <4> QED BY <1>5, <1>6, <2>1, <2>2, <4>1
    <3> QED BY <1>5, <3>1
  <2> QED BY <2>3
<1>8. All(h, i) = CHOOSE g : Solves(g)
  BY DEF All
<1> DEFINE r == All(h, i)
<1>9. Solves(r)
  <2> HIDE DEF Solves
  <2> QED BY <1>7, <1>8
<1> HIDE DEF r
<1>10. r[0] = none
  BY <1>0, <1>9
<1>11. ASSUME NEW n \in 1..N PROVE r[n] = More(r[n - 1])
  <2>1. n \in 0..N /\ n # 0
    BY <1>0
  <2> QED BY <1>9, <2>1
<1>12. \A n \in 0..N : r[n] \in V
  <2> DEFINE good == {n \in 0..N : r[n] \in V}
  <2> HIDE DEF More, V, none
  <2>1. 0 \in good
    BY <1>0, <1>2, <1>10
  <2>2. ASSUME NEW n \in 1..N, n - 1 \in good PROVE n \in good
    <3>1. r[n - 1] \in V /\ n \in 0..N
      BY <1>0, <2>2
    <3> QED BY <1>1, <1>11, <3>1
  <2>3. \A n \in 0..N : n \in good
    <3> HIDE DEF good, N
    <3> QED BY <1>0, <2>1, <2>2, UpTo
  <2> QED BY <2>3
<1>13. ASSUME NEW n \in 1..N, NEW d \in Dir
       PROVE  r[n][d] = Own(h, d) \o FlattenSeq(Mapped(r[n - 1], ImportsIn(i, Own(h, d))))
  BY <1>11
<1> QED BY <1>12, <1>13 DEF r

LEMMA ReachedIsAll == Reached = All(holds, imports)
  BY DEF Reached, All, Own, FilesOf, OnlyMain, ImportsIn, Mapped

-------------------------------------------------------------------------------
(* The directories being read *)

FrameType == [dir : Dir, at : {"files", "imports"}, next : Nat \ {0},
              pipes : Seq(Pipe), errors : BOOLEAN]

\* What the n-th import of a directory stands for, with imports to a depth.
Part(h, i, depth, d, n) == All(h, i)[depth - 1][ImportsIn(i, Own(h, d))[n]]

\* The files taken up so far are there, or there is an error and a reason.
FilesRead(h, i, fr, bad) ==
    LET own == Own(h, fr.dir) IN
    fr.at = "files" =>
        /\ fr.next <= Len(own) + 1
        /\ ~fr.errors =>
             /\ Len(fr.pipes) = fr.next - 1
             /\ \A k \in 1..(fr.next - 1) : ~h[own[k]].broken /\ fr.pipes[k] = Dec(h, i, own[k])
        /\ fr.errors => bad \/ \E k \in 1..(fr.next - 1) : h[own[k]].broken

\* The files of the directory are merged, and the imports read so far are there,
\* or there is an error and a reason.
ImportsRead(h, i, depth, fr, bad) ==
    LET own == Own(h, fr.dir)
        src == ImportsIn(i, own)
    IN
    fr.at = "imports" =>
        /\ fr.next <= Len(src) + 1
        /\ Len(fr.pipes) >= 1
        /\ Whole(h, fr.pipes[1], own) /\ fr.pipes[1].imports = src
        /\ ~fr.errors =>
             /\ Len(fr.pipes) = fr.next
             /\ \A k \in 1..(fr.next - 1) :
                  Whole(h, fr.pipes[k + 1], Part(h, i, depth, fr.dir, k))
        /\ fr.errors => bad \/ \E k \in 1..(fr.next - 1) :
                                 ~SoundIn(h, Part(h, i, depth, fr.dir, k))

FrameOK(h, i, depth, fr, bad) ==
    FilesRead(h, i, fr, bad) /\ ImportsRead(h, i, depth, fr, bad)

LEMMA TakenParts ==
    ASSUME NEW fr \in FrameType, NEW pipe \in Pipe, NEW e \in BOOLEAN
    PROVE  /\ Taken(fr, pipe, e) \in FrameType
           /\ Taken(fr, pipe, e).dir = fr.dir /\ Taken(fr, pipe, e).at = fr.at
           /\ Taken(fr, pipe, e).next = fr.next + 1
           /\ Taken(fr, pipe, e).errors = (fr.errors \/ e)
           /\ Len(Taken(fr, pipe, e).pipes) = IF e THEN Len(fr.pipes) ELSE Len(fr.pipes) + 1
           /\ \A k \in 1..Len(fr.pipes) : Taken(fr, pipe, e).pipes[k] = fr.pipes[k]
           /\ ~e => Taken(fr, pipe, e).pipes[Len(fr.pipes) + 1] = pipe
<1> DEFINE t == Taken(fr, pipe, e)
<1>1. /\ t = [dir |-> fr.dir, at |-> fr.at, next |-> fr.next + 1,
              pipes |-> IF e THEN fr.pipes ELSE Append(fr.pipes, pipe),
              errors |-> fr.errors \/ e]
  <2> DEFINE ps == IF e THEN fr.pipes ELSE Append(fr.pipes, pipe)
             t1 == [fr EXCEPT !.next = fr.next + 1]
             t2 == [t1 EXCEPT !.pipes = ps]
             t3 == [t2 EXCEPT !.errors = fr.errors \/ e]
  <2>1. t1 = [dir |-> fr.dir, at |-> fr.at, next |-> fr.next + 1, pipes |-> fr.pipes,
              errors |-> fr.errors]
    BY DEF FrameType
  <2> HIDE DEF t1, ps
  <2>2. t2 = [dir |-> fr.dir, at |-> fr.at, next |-> fr.next + 1, pipes |-> ps,
              errors |-> fr.errors]
    BY <2>1
  <2> HIDE DEF t2
  <2>3. t3 = [dir |-> fr.dir, at |-> fr.at, next |-> fr.next + 1, pipes |-> ps,
              errors |-> fr.errors \/ e]
    BY <2>2
  <2> USE DEF t1, t2, ps
  <2>4. t = t3
    BY DEF Taken
  <2> HIDE DEF t, t1, t2, t3
  <2> QED BY <2>3, <2>4
<1>2. fr.pipes \in Seq(Pipe) /\ fr.next \in Nat \ {0} /\ fr.errors \in BOOLEAN
      /\ fr.dir \in Dir /\ fr.at \in {"files", "imports"}
  BY DEF FrameType
<1>3. /\ Append(fr.pipes, pipe) \in Seq(Pipe)
      /\ Len(Append(fr.pipes, pipe)) = Len(fr.pipes) + 1
      /\ \A k \in 1..Len(fr.pipes) : Append(fr.pipes, pipe)[k] = fr.pipes[k]
      /\ Append(fr.pipes, pipe)[Len(fr.pipes) + 1] = pipe
  BY <1>2, AppendProperties
<1> HIDE DEF t
<1>4. t \in FrameType
  BY <1>1, <1>2, <1>3 DEF FrameType
<1>5. t.dir = fr.dir /\ t.at = fr.at /\ t.next = fr.next + 1 /\ t.errors = (fr.errors \/ e)
  BY <1>1
<1>6. t.pipes = IF e THEN fr.pipes ELSE Append(fr.pipes, pipe)
  BY <1>1
<1> QED BY <1>3, <1>4, <1>5, <1>6 DEF t

\* The next file has been taken up.
NextFile(h, i, fr, x) ==
    LET f == Own(h, fr.dir)[fr.next]
    IN x = Taken(fr, Dec(h, i, f), h[f].broken)

\* The same directory, and no error is lost.
Follows(fr, x) == x.dir = fr.dir /\ (fr.errors => x.errors)

LEMMA FileTaken ==
    ASSUME NEW h \in [File -> Contents], NEW i \in [File -> Seq(Dir)], NEW depth,
           NEW fr \in FrameType, NEW bad \in BOOLEAN,
           FrameOK(h, i, depth, fr, bad),
           fr.at = "files", fr.next <= Len(Own(h, fr.dir)),
           NEW x, NextFile(h, i, fr, x)
    PROVE  /\ x \in FrameType
           /\ FrameOK(h, i, depth, x, bad) /\ Follows(fr, x)
<1> DEFINE own == Own(h, fr.dir)
           f == own[fr.next]
           e == h[f].broken
           pipe == Dec(h, i, f)
           t == Taken(fr, pipe, e)
<1>1. own \in Seq(File) /\ fr.next \in Nat \ {0} /\ fr.errors \in BOOLEAN
  BY OwnType DEF FrameType
<1>2. Len(own) \in Nat /\ fr.next \in 1..Len(own)
  BY <1>1, LenProperties
<1>3. f \in File
  BY <1>1, <1>2, ElementOfSeq
<1>4. pipe \in Pipe /\ e \in BOOLEAN
  BY <1>3, OneFile, ContentsType
<1>5. /\ t \in FrameType
      /\ t.dir = fr.dir /\ t.at = fr.at
      /\ t.next = fr.next + 1
      /\ t.errors = (fr.errors \/ e)
      /\ Len(t.pipes) = IF e THEN Len(fr.pipes) ELSE Len(fr.pipes) + 1
      /\ \A k \in 1..Len(fr.pipes) : t.pipes[k] = fr.pipes[k]
      /\ ~e => t.pipes[Len(fr.pipes) + 1] = pipe
  <2> HIDE DEF pipe, e
  <2> QED BY <1>4, TakenParts
<1>6. /\ ~fr.errors =>
             /\ Len(fr.pipes) = fr.next - 1
             /\ \A k \in 1..(fr.next - 1) : ~h[own[k]].broken /\ fr.pipes[k] = Dec(h, i, own[k])
      /\ fr.errors => bad \/ \E k \in 1..(fr.next - 1) : h[own[k]].broken
  BY DEF FrameOK, FilesRead
<1> HIDE DEF t, own, f
<1>7. ASSUME ~t.errors
      PROVE  /\ Len(t.pipes) = t.next - 1
             /\ \A k \in 1..(t.next - 1) : ~h[own[k]].broken /\ t.pipes[k] = Dec(h, i, own[k])
  <2>1. ~fr.errors /\ ~e
    BY <1>5, <1>7
  <2>2. Len(t.pipes) = t.next - 1
    <3>1. /\ Len(fr.pipes) = fr.next - 1 /\ fr.next \in Nat
          /\ Len(t.pipes) = Len(fr.pipes) + 1 /\ t.next = fr.next + 1
      BY <1>1, <1>5, <1>6, <2>1
    <3>2. \A x1 \in Nat : (x1 - 1) + 1 = (x1 + 1) - 1
      OBVIOUS
    <3> QED BY <3>1, <3>2
  <2>3. ASSUME NEW k \in 1..(t.next - 1)
        PROVE  ~h[own[k]].broken /\ t.pipes[k] = Dec(h, i, own[k])
    <3>1. CASE k = fr.next
      <4>1. own[k] = f
        BY <3>1 DEF f
      <4>2. k = Len(fr.pipes) + 1
        <5>1. \A m, n \in Nat : n = m - 1 => m = n + 1
          OBVIOUS
        <5>2. Len(fr.pipes) = fr.next - 1 /\ fr.next \in Nat /\ Len(fr.pipes) \in Nat
          BY <1>1, <1>6, <2>1
        <5> QED BY <3>1, <5>1, <5>2
      <4> QED BY <1>5, <2>1, <4>1, <4>2
    <3>2. CASE k # fr.next
      <4>1. k \in 1..(fr.next - 1) /\ k \in 1..Len(fr.pipes)
        BY <1>1, <1>5, <1>6, <2>1, <3>2
      <4> QED BY <1>5, <1>6, <2>1, <4>1
    <3> QED BY <3>1, <3>2
  <2> QED BY <2>2, <2>3
<1>8. ASSUME t.errors
      PROVE  bad \/ \E k \in 1..(t.next - 1) : h[own[k]].broken
  <2>1. CASE fr.errors
    <3>1. \A k \in 1..(fr.next - 1) : k \in 1..(t.next - 1)
      BY <1>1, <1>5
    <3> QED BY <1>6, <2>1, <3>1
  <2>2. CASE e
    <3>1. fr.next \in 1..(t.next - 1) /\ h[own[fr.next]].broken
      BY <1>1, <1>5, <2>2 DEF f
    <3> QED BY <3>1
  <2> QED BY <1>5, <1>8, <2>1, <2>2
<1>9. t.next <= Len(own) + 1
  BY <1>1, <1>2, <1>5
<1>10. FilesRead(h, i, t, bad)
  BY <1>5, <1>7, <1>8, <1>9 DEF FilesRead, own
<1>11. ImportsRead(h, i, depth, t, bad)
  BY <1>5 DEF ImportsRead
<1>12. FrameOK(h, i, depth, t, bad) /\ Follows(fr, t)
  BY <1>5, <1>10, <1>11 DEF FrameOK, Follows
<1>13. x = t
  BY DEF NextFile, t, own, f
<1> QED BY <1>3, <1>5, <1>12, <1>13

LEMMA ImportTaken ==
    ASSUME NEW h, NEW i, NEW depth,
           NEW fr \in FrameType, NEW bad \in BOOLEAN, NEW bad2 \in BOOLEAN, bad => bad2,
           FrameOK(h, i, depth, fr, bad),
           fr.at = "imports", fr.next <= Len(ImportsIn(i, Own(h, fr.dir))),
           ImportsIn(i, Own(h, fr.dir)) \in Seq(Dir),
           NEW pipe \in Pipe, NEW e \in BOOLEAN,
           ~e => Whole(h, pipe, Part(h, i, depth, fr.dir, fr.next)),
           e => bad2 \/ ~SoundIn(h, Part(h, i, depth, fr.dir, fr.next))
    PROVE  /\ Taken(fr, pipe, e) \in FrameType
           /\ FrameOK(h, i, depth, Taken(fr, pipe, e), bad2)
<1> DEFINE own == Own(h, fr.dir)
           src == ImportsIn(i, own)
           t == Taken(fr, pipe, e)
           part(k) == Part(h, i, depth, fr.dir, k)
<1>1. fr.next \in Nat \ {0} /\ fr.errors \in BOOLEAN /\ fr.pipes \in Seq(Pipe)
  BY DEF FrameType
<1>2. Len(src) \in Nat /\ Len(fr.pipes) \in Nat
  BY <1>1, LenProperties
<1>3. /\ t \in FrameType
      /\ t.dir = fr.dir /\ t.at = fr.at
      /\ t.next = fr.next + 1
      /\ t.errors = (fr.errors \/ e)
      /\ Len(t.pipes) = IF e THEN Len(fr.pipes) ELSE Len(fr.pipes) + 1
      /\ \A k \in 1..Len(fr.pipes) : t.pipes[k] = fr.pipes[k]
      /\ ~e => t.pipes[Len(fr.pipes) + 1] = pipe
  BY TakenParts
<1>4. /\ Len(fr.pipes) >= 1
      /\ Whole(h, fr.pipes[1], own) /\ fr.pipes[1].imports = src
      /\ ~fr.errors =>
           /\ Len(fr.pipes) = fr.next
           /\ \A k \in 1..(fr.next - 1) : Whole(h, fr.pipes[k + 1], part(k))
      /\ fr.errors => bad \/ \E k \in 1..(fr.next - 1) : ~SoundIn(h, part(k))
  BY DEF FrameOK, ImportsRead
<1>5. /\ ~e => Whole(h, pipe, part(fr.next))
      /\ e => bad2 \/ ~SoundIn(h, part(fr.next))
      /\ fr.next <= Len(src)
  OBVIOUS
<1> HIDE DEF t, own, src, part
<1>6. ASSUME ~t.errors
      PROVE  /\ Len(t.pipes) = t.next
             /\ \A k \in 1..(t.next - 1) : Whole(h, t.pipes[k + 1], part(k))
  <2>1. ~fr.errors /\ ~e
    BY <1>3, <1>6
  <2>2. Len(t.pipes) = t.next
    BY <1>1, <1>3, <1>4, <2>1
  <2>3. ASSUME NEW k \in 1..(t.next - 1)
        PROVE  Whole(h, t.pipes[k + 1], part(k))
    <3>1. CASE k = fr.next
      <4>1. k + 1 = Len(fr.pipes) + 1
        BY <1>4, <2>1, <3>1
      <4>2. t.pipes[k + 1] = pipe
        BY <1>3, <2>1, <4>1
      <4> QED BY <1>5, <2>1, <3>1, <4>2
    <3>2. CASE k # fr.next
      <4>1. Len(fr.pipes) = fr.next /\ k \in 1..fr.next
        BY <1>1, <1>3, <1>4, <2>1
      <4>a. k \in 1..(fr.next - 1) /\ k + 1 \in 1..fr.next
        BY <1>1, <3>2, <4>1
      <4>2. t.pipes[k + 1] = fr.pipes[k + 1]
        BY <1>3, <4>1, <4>a
      <4> QED BY <1>4, <2>1, <4>a, <4>2
    <3> QED BY <3>1, <3>2
  <2> QED BY <2>2, <2>3
<1>7. ASSUME t.errors
      PROVE  bad2 \/ \E k \in 1..(t.next - 1) : ~SoundIn(h, part(k))
  <2>1. CASE fr.errors
    <3>1. \A k \in 1..(fr.next - 1) : k \in 1..(t.next - 1)
      BY <1>1, <1>3
    <3> QED BY <1>4, <2>1, <3>1
  <2>2. CASE e
    <3>1. fr.next \in 1..(t.next - 1)
      BY <1>1, <1>3
    <3> QED BY <1>5, <2>2, <3>1
  <2> QED BY <1>3, <1>7, <2>1, <2>2
<1>8. /\ t.next <= Len(src) + 1
      /\ Len(t.pipes) >= 1 /\ t.pipes[1] = fr.pipes[1]
  <2>1. 1 \in 1..Len(fr.pipes)
    BY <1>2, <1>4
  <2> QED BY <1>1, <1>2, <1>3, <1>4, <1>5, <2>1
<1>9. ImportsRead(h, i, depth, t, bad2)
  BY <1>3, <1>4, <1>6, <1>7, <1>8 DEF ImportsRead, own, src, part
<1>10. FilesRead(h, i, t, bad2)
  BY <1>3 DEF FilesRead
<1> QED BY <1>3, <1>9, <1>10 DEF FrameOK, t

\* The files of a directory are merged.
LEMMA FilesMerged ==
    ASSUME NEW h \in [File -> Contents], NEW i \in [File -> Seq(Dir)], NEW depth,
           NEW fr \in FrameType, NEW bad \in BOOLEAN,
           FrameOK(h, i, depth, fr, bad),
           fr.at = "files", ~(fr.next <= Len(Own(h, fr.dir)))
    PROVE  /\ Merge(fr.pipes) \in MergedType
           /\ ~(fr.errors \/ ~Merge(fr.pipes).ok) =>
                /\ Whole(h, Merge(fr.pipes).pipe, Own(h, fr.dir))
                /\ Merge(fr.pipes).pipe.imports = ImportsIn(i, Own(h, fr.dir))
           /\ (fr.errors \/ ~Merge(fr.pipes).ok) => bad \/ ~SoundIn(h, Own(h, fr.dir))
<1> DEFINE own == Own(h, fr.dir)
           pipes == fr.pipes
           fss == Mapped(Single, own)
<1>1. /\ own \in Seq(File) /\ pipes \in Seq(Pipe)
      /\ fr.next \in Nat \ {0} /\ fr.errors \in BOOLEAN
  BY OwnType DEF FrameType
<1>2. Len(own) \in Nat /\ \A k \in 1..Len(own) : own[k] \in File
  BY <1>1, LenProperties, ElementOfSeq
<1>3. /\ fr.next <= Len(own) + 1 /\ ~(fr.next <= Len(own))
      /\ ~fr.errors =>
           /\ Len(pipes) = fr.next - 1
           /\ \A k \in 1..(fr.next - 1) : ~h[own[k]].broken /\ pipes[k] = Dec(h, i, own[k])
      /\ fr.errors => bad \/ \E k \in 1..(fr.next - 1) : h[own[k]].broken
  BY DEF FrameOK, FilesRead
<1> HIDE DEF own, pipes
<1>4. fr.next - 1 = Len(own)
  BY <1>1, <1>2, <1>3
<1>5. /\ fss \in Seq(Seq(File)) /\ Len(fss) = Len(own)
      /\ \A k \in 1..Len(own) : fss[k] = <<own[k]>>
      /\ FlattenSeq(fss) = own
  BY <1>1, FlattenSingles
<1> HIDE DEF fss
<1>6. Merge(pipes) \in MergedType
  <2>1. PICK f : Merging(f, pipes) /\ Merge(pipes) = f[Len(pipes)]
    BY <1>1, MergeSteps
  <2>2. f \in [0..Len(pipes) -> MergedType] /\ Len(pipes) \in Nat
    BY <1>1, <2>1, LenProperties DEF Merging
  <2> QED BY <2>1, <2>2
<1>7. ASSUME ~fr.errors
      PROVE  /\ Merge(pipes).ok <=> SoundIn(h, own)
             /\ Merge(pipes).ok => Whole(h, Merge(pipes).pipe, own)
             /\ Merge(pipes).pipe.imports = ImportsIn(i, own)
  <2>1. Len(pipes) = Len(own)
        /\ \A k \in 1..Len(own) : ~h[own[k]].broken /\ pipes[k] = Dec(h, i, own[k])
    BY <1>3, <1>4, <1>7
  <2>2. ASSUME NEW k \in 1..Len(own)
        PROVE  Whole(h, pipes[k], fss[k]) /\ pipes[k].imports = i[own[k]]
    <3>1. Whole(h, Dec(h, i, own[k]), <<own[k]>>)
      BY <1>2, <2>1, OneFile
    <3>2. Dec(h, i, own[k]).imports = i[own[k]]
      BY DEF Dec
    <3> QED BY <1>5, <2>1, <3>1, <3>2
  <2>3. /\ Merge(pipes).ok <=> SoundIn(h, FlattenSeq(fss))
        /\ Merge(pipes).ok => Whole(h, Merge(pipes).pipe, FlattenSeq(fss))
    BY <1>1, <1>5, <2>1, <2>2, MergeWhole
  <2>4. Merge(pipes).pipe.imports = ImportsIn(i, own)
    BY <1>1, <2>1, <2>2, MergedImports
  <2> QED BY <1>5, <2>3, <2>4
<1>8. fr.errors => bad \/ ~SoundIn(h, own)
  <2>1. (\E k \in 1..(fr.next - 1) : h[own[k]].broken) => ~SoundIn(h, own)
    BY <1>4 DEF SoundIn
  <2> QED BY <1>3, <2>1
<1> QED BY <1>6, <1>7, <1>8 DEF own, pipes

\* What a directory stands for begins with its own files,
LEMMA OwnPart ==
    ASSUME NEW h, NEW i \in [File -> Seq(Dir)], NEW depth \in 1..MaxDepth, NEW d \in Dir,
           SoundIn(h, All(h, i)[depth][d])
    PROVE  SoundIn(h, Own(h, d))
<1> DEFINE own == Own(h, d)
           rest == FlattenSeq(Mapped(All(h, i)[depth - 1], ImportsIn(i, own)))
<1>1. All(h, i)[depth][d] = own \o rest
  BY AllEquation
<1>2. own \in Seq(File)
  BY OwnType
<1>3. rest \in Seq(File)
  <2>1. ImportsIn(i, own) \in Seq(Dir)
    BY <1>2, ImportsType
  <2>2. depth - 1 \in 0..MaxDepth
    BY FilesAssumption DEF FilesAssumption
  <2>3. All(h, i)[depth - 1] \in [Dir -> Seq(File)]
    BY <2>2, AllEquation
  <2>4. Mapped(All(h, i)[depth - 1], ImportsIn(i, own)) \in Seq(Seq(File))
    BY <2>1, <2>3, MappedType
  <2> QED BY <2>4, FlattenType
<1> HIDE DEF own, rest
<1>4. SoundIn(h, own)
  BY <1>1, <1>2, <1>3, SoundConcat
<1> QED BY <1>4 DEF own

\* and is nothing more when they import nothing.
LEMMA NoImports ==
    ASSUME NEW h, NEW i \in [File -> Seq(Dir)], NEW depth \in 1..MaxDepth, NEW d \in Dir,
           ImportsIn(i, Own(h, d)) = <<>>
    PROVE  All(h, i)[depth][d] = Own(h, d)
<1> DEFINE own == Own(h, d)
           rest == FlattenSeq(Mapped(All(h, i)[depth - 1], ImportsIn(i, own)))
<1>1. All(h, i)[depth][d] = own \o rest
  BY AllEquation
<1>2. Mapped(All(h, i)[depth - 1], <<>>) = <<>>
  BY DEF Mapped
<1>3. rest = <<>>
  BY <1>2, FlattenEmpty
<1>4. own \in Seq(File)
  BY OwnType
<1> HIDE DEF own, rest
<1>5. own \o <<>> = own
  BY <1>4, ConcatEmptySeq
<1> QED BY <1>1, <1>3, <1>5 DEF own

\* The pipelines of the imports are merged into that of the directory.
LEMMA ImportsMerged ==
    ASSUME NEW h \in [File -> Contents], NEW i \in [File -> Seq(Dir)],
           NEW depth \in 1..MaxDepth,
           NEW fr \in FrameType, NEW bad \in BOOLEAN,
           FrameOK(h, i, depth, fr, bad),
           fr.at = "imports", ~(fr.next <= Len(ImportsIn(i, Own(h, fr.dir))))
    PROVE  /\ Merge(fr.pipes) \in MergedType
           /\ ~(fr.errors \/ ~Merge(fr.pipes).ok) =>
                Whole(h, Merge(fr.pipes).pipe, All(h, i)[depth][fr.dir])
           /\ (fr.errors \/ ~Merge(fr.pipes).ok) =>
                bad \/ ~SoundIn(h, All(h, i)[depth][fr.dir])
<1> DEFINE own == Own(h, fr.dir)
           src == ImportsIn(i, own)
           N == Len(src)
           pipes == fr.pipes
           deeper == All(h, i)[depth - 1]
           parts == Mapped(deeper, src)
           fss == <<own>> \o parts
           all == All(h, i)[depth][fr.dir]
<1>1. /\ own \in Seq(File) /\ pipes \in Seq(Pipe)
      /\ fr.next \in Nat \ {0} /\ fr.errors \in BOOLEAN /\ fr.dir \in Dir
  BY OwnType DEF FrameType
<1>2. src \in Seq(Dir)
  BY <1>1, ImportsType
<1>3. N \in Nat /\ DOMAIN src = 1..N /\ Len(pipes) \in Nat
  BY <1>1, <1>2, LenProperties
<1>4. deeper \in [Dir -> Seq(File)]
  <2>1. depth - 1 \in 0..MaxDepth
    BY FilesAssumption DEF FilesAssumption
  <2> QED BY <2>1, AllEquation
<1>5. \A k \in 1..N : Part(h, i, depth, fr.dir, k) = deeper[src[k]]
  BY DEF Part
<1>6. /\ fr.next <= N + 1 /\ ~(fr.next <= N)
      /\ Len(pipes) >= 1 /\ Whole(h, pipes[1], own)
      /\ ~fr.errors =>
           /\ Len(pipes) = fr.next
           /\ \A k \in 1..(fr.next - 1) : Whole(h, pipes[k + 1], Part(h, i, depth, fr.dir, k))
      /\ fr.errors => bad \/ \E k \in 1..(fr.next - 1) : ~SoundIn(h, Part(h, i, depth, fr.dir, k))
  BY DEF FrameOK, ImportsRead
<1>7. fr.next - 1 = N
  <2>1. \A n, m \in Nat : n <= m + 1 /\ ~(n <= m) => n - 1 = m
    OBVIOUS
  <2>2. fr.next \in Nat /\ N \in Nat /\ fr.next <= N + 1 /\ ~(fr.next <= N)
    BY <1>1, <1>3, <1>6
  <2> HIDE DEF N
  <2> QED BY <2>1, <2>2
<1>8. all = own \o FlattenSeq(parts)
  <2>1. \A d \in Dir : All(h, i)[depth][d] =
            Own(h, d) \o FlattenSeq(Mapped(All(h, i)[depth - 1], ImportsIn(i, Own(h, d))))
    BY AllEquation
  <2> QED BY <1>1, <2>1
<1>9. parts \in Seq(Seq(File)) /\ DOMAIN parts = 1..N /\ \A k \in 1..N : parts[k] = deeper[src[k]]
  <2>1. parts \in Seq(Seq(File))
    <3> HIDE DEF deeper, src
    <3> QED BY <1>2, <1>4, MappedType
  <2>2. DOMAIN parts = 1..N /\ \A k \in 1..N : parts[k] = deeper[src[k]]
    <3> HIDE DEF deeper, N
    <3>1. DOMAIN parts = DOMAIN src /\ \A k \in DOMAIN src : parts[k] = deeper[src[k]]
      BY DEF Mapped
    <3> QED BY <1>3, <3>1
  <2> QED BY <2>1, <2>2
<1> HIDE DEF parts, deeper, src, own, pipes, all, N
<1>10. Len(parts) = N
  <2>1. Len(parts) \in Nat /\ 1..Len(parts) = 1..N
    BY <1>9, LenProperties
  <2> QED BY <1>3, <2>1
<1>11. /\ fss \in Seq(Seq(File)) /\ Len(fss) = N + 1
       /\ fss[1] = own /\ \A k \in 1..N : fss[k + 1] = parts[k]
  <2>1. <<own>> \in Seq(Seq(File)) /\ Len(<<own>>) = 1 /\ <<own>>[1] = own
    BY <1>1
  <2>2. /\ fss \in Seq(Seq(File)) /\ Len(fss) = 1 + N
        /\ \A k \in 1..(1 + N) : fss[k] = IF k <= 1 THEN <<own>>[k] ELSE parts[k - 1]
    BY <1>9, <1>10, <2>1, ConcatProperties
  <2> HIDE DEF fss
  <2>3. ASSUME NEW k \in 1..N PROVE fss[k + 1] = parts[k]
    <3>1. k + 1 \in 1..(1 + N) /\ ~(k + 1 <= 1) /\ (k + 1) - 1 = k
      BY <1>3
    <3> QED BY <2>2, <3>1
  <2>4. fss[1] = own
    <3>1. 1 \in 1..(1 + N)
      BY <1>3
    <3> QED BY <2>1, <2>2, <3>1
  <2> QED BY <1>3, <2>2, <2>3, <2>4
<1>12. FlattenSeq(fss) = all
  <2>1. <<own>> \in Seq(Seq(File))
    BY <1>1
  <2>2. FlattenSeq(fss) = FlattenSeq(<<own>>) \o FlattenSeq(parts)
    BY <1>9, <2>1, FlattenConcat
  <2>3. FlattenSeq(<<own>>) = own
    BY <1>1, FlattenOne
  <2> QED BY <1>8, <2>2, <2>3
<1> HIDE DEF fss
<1>13. Merge(pipes) \in MergedType
  <2>1. PICK f : Merging(f, pipes) /\ Merge(pipes) = f[Len(pipes)]
    BY <1>1, MergeSteps
  <2>2. f \in [0..Len(pipes) -> MergedType]
    BY <1>1, <2>1 DEF Merging
  <2> QED BY <1>3, <2>1, <2>2
<1>14. ASSUME ~fr.errors
       PROVE  /\ Merge(pipes).ok <=> SoundIn(h, all)
              /\ Merge(pipes).ok => Whole(h, Merge(pipes).pipe, all)
  <2>1. Len(pipes) = Len(fss)
    BY <1>3, <1>6, <1>7, <1>11, <1>14
  <2>2. ASSUME NEW k \in 1..Len(fss) PROVE Whole(h, pipes[k], fss[k])
    <3>1. CASE k = 1
      BY <1>6, <1>11, <3>1
    <3>2. CASE k # 1
      <4>1. k - 1 \in 1..N /\ (k - 1) + 1 = k
        BY <1>3, <1>11, <3>2
      <4>2. Whole(h, pipes[(k - 1) + 1], Part(h, i, depth, fr.dir, k - 1))
        BY <1>6, <1>7, <1>14, <4>1
      <4>3. fss[(k - 1) + 1] = parts[k - 1]
        BY <1>11, <4>1
      <4>4. fss[k] = Part(h, i, depth, fr.dir, k - 1)
        BY <1>5, <1>9, <4>1, <4>3
      <4> QED BY <4>1, <4>2, <4>4
    <3> QED BY <3>1, <3>2
  <2>3. /\ Merge(pipes).ok <=> SoundIn(h, FlattenSeq(fss))
        /\ Merge(pipes).ok => Whole(h, Merge(pipes).pipe, FlattenSeq(fss))
    BY <1>1, <1>11, <2>1, <2>2, MergeWhole
  <2> QED BY <1>12, <2>3
<1>15. ASSUME fr.errors PROVE bad \/ ~SoundIn(h, all)
  <2>1. SUFFICES ASSUME NEW k \in 1..N, ~SoundIn(h, Part(h, i, depth, fr.dir, k))
                 PROVE  ~SoundIn(h, all)
    BY <1>6, <1>7, <1>15
  <2>2. k + 1 \in 1..Len(fss)
    <3>1. \A m \in Nat : \A n \in 1..m : n + 1 \in 1..(m + 1)
      OBVIOUS
    <3> QED BY <1>3, <1>11, <3>1
  <2>a. fss[k + 1] = parts[k] /\ parts[k] = Part(h, i, depth, fr.dir, k)
    BY <1>5, <1>9, <1>11
  <2>3. SoundIn(h, all) => SoundIn(h, fss[k + 1])
    BY <1>11, <1>12, <2>2, SoundPart
  <2> QED BY <2>1, <2>a, <2>3
<1> QED BY <1>13, <1>14, <1>15 DEF pipes, all

-------------------------------------------------------------------------------
(* The invariant *)

\* Each directory is the import that the one below it is at.
Nested(h, i, st) ==
    /\ st # <<>> => st[1].dir = Main
    /\ \A k \in 1..(Len(st) - 1) :
         LET src == ImportsIn(i, Own(h, st[k].dir)) IN
         /\ st[k].at = "imports"
         /\ st[k].next <= Len(src)
         /\ st[k + 1].dir = src[st[k].next]

\* What has been read of them so far is what it should be.
SoFar(h, i, st, bad) ==
    \A k \in 1..Len(st) : FrameOK(h, i, MaxDepth - k + 1, st[k], bad)

\* A failure is not forgotten.
SomeErrors(st) == \E k \in 1..Len(st) : st[k].errors
Remembered(st, bad, is) ==
    bad => is \in {"refused", "panic"} \/ SomeErrors(st)

\* What the end says of all the files that were to be read.
Ended(h, i, bad, out) ==
    LET all == All(h, i)[MaxDepth][Main] IN
    /\ out.is = "accepted" => ~bad /\ Whole(h, out.pipe, all)
    /\ out.is \in {"refused", "panic"} => bad \/ ~SoundIn(h, all)

Typed ==
    /\ holds \in [File -> Contents] /\ imports \in Sources
    /\ stack \in Seq(FrameType) /\ Len(stack) <= MaxDepth
    /\ failed \in BOOLEAN
    /\ outcome \in [is : {"none", "accepted", "refused", "panic"}, pipe : Pipe]

CInv ==
    /\ Typed
    /\ Nested(holds, imports, stack)
    /\ SoFar(holds, imports, stack, failed)
    /\ Remembered(stack, failed, outcome.is)
    /\ stack # <<>> => outcome.is = "none"
    /\ Ended(holds, imports, failed, outcome)

LEMMA Prefix ==
    ASSUME NEW S, NEW s \in Seq(S), NEW n \in Nat, n <= Len(s)
    PROVE  /\ SubSeq(s, 1, n) \in Seq(S) /\ Len(SubSeq(s, 1, n)) = n
           /\ \A k \in 1..n : SubSeq(s, 1, n)[k] = s[k]
<1> DEFINE u == SubSeq(s, 1, n)
<1>1. \A k \in 1..n : s[k] \in S
  <2>1. Len(s) \in Nat
    BY LenProperties
  <2>2. \A k \in 1..n : k \in 1..Len(s)
    BY <2>1
  <2> QED BY <2>2, ElementOfSeq
<1>2. /\ u \in Seq(S)
      /\ Len(u) = IF 1 <= n THEN n - 1 + 1 ELSE 0
      /\ \A k \in 1..(n - 1 + 1) : u[k] = s[1 + k - 1]
  BY <1>1, SubSeqProperties
<1> HIDE DEF u
<1>3. Len(u) = n
  BY <1>2
<1>4. \A k \in 1..n : k \in 1..(n - 1 + 1) /\ 1 + k - 1 = k
  OBVIOUS
<1>5. \A k \in 1..n : u[k] = s[k]
  BY <1>2, <1>4
<1> QED BY <1>2, <1>3, <1>5 DEF u

\* In place of the last, or of the last two, there is x.
LastIs(s, x, t) == t = Append(SubSeq(s, 1, Len(s) - 1), x)
LastTwoAre(s, x, t) == t = Append(SubSeq(s, 1, Len(s) - 2), x)

LEMMA ReplaceLast ==
    ASSUME NEW S, NEW s \in Seq(S), s # <<>>, NEW x \in S,
           NEW t, LastIs(s, x, t)
    PROVE  /\ t \in Seq(S) /\ Len(t) = Len(s) /\ Len(s) \in Nat \ {0}
           /\ t[Len(s)] = x
           /\ \A k \in 1..(Len(s) - 1) : t[k] = s[k]
<1> DEFINE u == SubSeq(s, 1, Len(s) - 1)
<1>1. Len(s) \in Nat \ {0}
  BY EmptySeq, LenProperties
<1>2. /\ u \in Seq(S) /\ Len(u) = Len(s) - 1
      /\ \A k \in 1..(Len(s) - 1) : u[k] = s[k]
  <2>1. Len(s) - 1 \in Nat /\ Len(s) - 1 <= Len(s)
    BY <1>1
  <2> QED BY <2>1, Prefix
<1> HIDE DEF u
<1>3. /\ Append(u, x) \in Seq(S) /\ Len(Append(u, x)) = Len(u) + 1
      /\ Append(u, x)[Len(u) + 1] = x
      /\ \A k \in 1..Len(u) : Append(u, x)[k] = u[k]
  BY <1>2, AppendProperties
<1>4. Len(u) + 1 = Len(s)
  BY <1>1, <1>2
<1>5. t = Append(u, x)
  BY DEF u, LastIs
<1> QED BY <1>1, <1>2, <1>3, <1>4, <1>5

LEMMA DropTwo ==
    ASSUME NEW S, NEW s \in Seq(S), Len(s) >= 2, NEW x \in S,
           NEW t, LastTwoAre(s, x, t)
    PROVE  /\ t \in Seq(S) /\ Len(t) = Len(s) - 1 /\ Len(s) \in Nat
           /\ t[Len(s) - 1] = x
           /\ \A k \in 1..(Len(s) - 2) : t[k] = s[k]
<1> DEFINE u == SubSeq(s, 1, Len(s) - 2)
<1>1. Len(s) \in Nat
  BY LenProperties
<1>2. /\ u \in Seq(S) /\ Len(u) = Len(s) - 2
      /\ \A k \in 1..(Len(s) - 2) : u[k] = s[k]
  <2>1. Len(s) - 2 \in Nat /\ Len(s) - 2 <= Len(s)
    BY <1>1
  <2> QED BY <2>1, Prefix
<1> HIDE DEF u
<1>3. /\ Append(u, x) \in Seq(S) /\ Len(Append(u, x)) = Len(u) + 1
      /\ Append(u, x)[Len(u) + 1] = x
      /\ \A k \in 1..Len(u) : Append(u, x)[k] = u[k]
  BY <1>2, AppendProperties
<1>4. Len(u) + 1 = Len(s) - 1
  BY <1>1, <1>2
<1>5. t = Append(u, x)
  BY DEF u, LastTwoAre
<1> QED BY <1>1, <1>2, <1>3, <1>4, <1>5

LEMMA StillOK ==
    ASSUME NEW h, NEW i, NEW depth, NEW fr, NEW bad \in BOOLEAN, NEW bad2 \in BOOLEAN,
           bad => bad2, FrameOK(h, i, depth, fr, bad)
    PROVE  FrameOK(h, i, depth, fr, bad2)
<1>1. FilesRead(h, i, fr, bad2)
  BY DEF FrameOK, FilesRead
<1>2. ImportsRead(h, i, depth, fr, bad2)
  BY DEF FrameOK, ImportsRead
<1> QED BY <1>1, <1>2 DEF FrameOK

LEMMA FirstFrame ==
    ASSUME NEW h, NEW i, NEW depth, NEW d \in Dir, NEW e \in BOOLEAN, NEW bad, e => bad
    PROVE  Frame(d, e) \in FrameType /\ FrameOK(h, i, depth, Frame(d, e), bad)
           /\ Frame(d, e).dir = d /\ Frame(d, e).errors = e
<1> DEFINE fr == Frame(d, e)
<1>1. /\ fr.dir = d /\ fr.at = "files" /\ fr.next = 1 /\ fr.pipes = <<>> /\ fr.errors = e
  BY DEF Frame
<1>2. fr \in FrameType
  BY DEF Frame, FrameType
<1> HIDE DEF fr
<1>3. Len(Own(h, d)) \in Nat
  BY OwnType, LenProperties
<1>4. Len(<<>>) = 0 /\ 1..(1 - 1) = {}
  OBVIOUS
<1>5. FilesRead(h, i, fr, bad)
  BY <1>1, <1>3, <1>4 DEF FilesRead
<1>6. ImportsRead(h, i, depth, fr, bad)
  BY <1>1 DEF ImportsRead
<1> QED BY <1>1, <1>2, <1>5, <1>6 DEF FrameOK, fr

\* What every step keeps of the stack, e saying whether there are new errors.
Continues(h, i, st, t, bad, e) ==
    /\ t \in Seq(FrameType) /\ Len(t) <= MaxDepth /\ t # <<>>
    /\ Nested(h, i, t) /\ SoFar(h, i, t, bad)
    /\ e => SomeErrors(t)
    /\ SomeErrors(st) => SomeErrors(t)

\* The directory being read goes on.
LEMMA TopReplaced ==
    ASSUME NEW h, NEW i, NEW st \in Seq(FrameType), st # <<>>, Len(st) <= MaxDepth,
           Nested(h, i, st), NEW bad, SoFar(h, i, st, bad),
           NEW x \in FrameType, x.dir = st[Len(st)].dir,
           FrameOK(h, i, MaxDepth - Len(st) + 1, x, bad),
           st[Len(st)].errors => x.errors,
           NEW t, LastIs(st, x, t)
    PROVE  Continues(h, i, st, t, bad, x.errors)
<1> DEFINE n == Len(st)
<1>1. /\ t \in Seq(FrameType) /\ Len(t) = n /\ n \in Nat \ {0}
      /\ t[n] = x
      /\ \A k \in 1..(n - 1) : t[k] = st[k]
  BY ReplaceLast
<1>2. /\ st[1].dir = Main
      /\ \A k \in 1..(n - 1) :
         LET src == ImportsIn(i, Own(h, st[k].dir)) IN
         /\ st[k].at = "imports"
         /\ st[k].next <= Len(src)
         /\ st[k + 1].dir = src[st[k].next]
  BY DEF Nested
<1>3. /\ x.dir = st[n].dir /\ FrameOK(h, i, MaxDepth - n + 1, x, bad)
      /\ st[n].errors => x.errors
      /\ \A k \in 1..n : FrameOK(h, i, MaxDepth - k + 1, st[k], bad)
  BY DEF SoFar
<1> HIDE DEF n
<1>4. \A k \in 1..n : k = n \/ k \in 1..(n - 1)
  BY <1>1
<1>5. \A k \in 1..n : t[k].dir = st[k].dir
  BY <1>1, <1>3, <1>4
<1>6. 1 \in 1..n /\ \A k \in 1..(n - 1) : k \in 1..n /\ k + 1 \in 1..n
  BY <1>1
<1>7. t[1].dir = Main
  BY <1>2, <1>5, <1>6
<1>8. ASSUME NEW k \in 1..(n - 1)
      PROVE  LET src == ImportsIn(i, Own(h, t[k].dir)) IN
             /\ t[k].at = "imports"
             /\ t[k].next <= Len(src)
             /\ t[k + 1].dir = src[t[k].next]
  <2>1. t[k] = st[k] /\ t[k + 1].dir = st[k + 1].dir
    BY <1>1, <1>5, <1>6
  <2> QED BY <1>2, <2>1
<1>9. Nested(h, i, t)
  BY <1>1, <1>7, <1>8 DEF Nested
<1>10. \A k \in 1..n : FrameOK(h, i, MaxDepth - k + 1, t[k], bad)
  BY <1>1, <1>3, <1>4
<1>11. (\E k \in 1..n : st[k].errors) => \E k \in 1..n : t[k].errors
  BY <1>1, <1>3, <1>4
<1>12. t # <<>>
  BY <1>1, EmptySeq
<1>13. x.errors => \E k \in 1..n : t[k].errors
  BY <1>1
<1>14. SoFar(h, i, t, bad)
  BY <1>1, <1>10 DEF SoFar
<1>15. (x.errors => SomeErrors(t)) /\ (SomeErrors(st) => SomeErrors(t))
  BY <1>1, <1>11, <1>13 DEF SomeErrors, n
<1>16. Len(t) <= MaxDepth
  BY <1>1 DEF n
<1> QED BY <1>1, <1>9, <1>12, <1>14, <1>15, <1>16 DEF Continues

\* The import it is at is read.
LEMMA Pushed ==
    ASSUME NEW h, NEW i, NEW st \in Seq(FrameType), st # <<>>, Len(st) < MaxDepth,
           Nested(h, i, st), NEW bad \in BOOLEAN, SoFar(h, i, st, bad),
           NEW bad2 \in BOOLEAN, bad => bad2,
           NEW x \in FrameType, FrameOK(h, i, MaxDepth - Len(st), x, bad2),
           st[Len(st)].at = "imports",
           st[Len(st)].next <= Len(ImportsIn(i, Own(h, st[Len(st)].dir))),
           x.dir = ImportsIn(i, Own(h, st[Len(st)].dir))[st[Len(st)].next],
           NEW t, t = Append(st, x)
    PROVE  Continues(h, i, st, t, bad2, x.errors)
<1> DEFINE n == Len(st)
           At(s, k, y) == /\ s.at = "imports"
                          /\ s.next <= Len(ImportsIn(i, Own(h, s.dir)))
                          /\ y.dir = ImportsIn(i, Own(h, s.dir))[s.next]
<1>1. n \in Nat \ {0}
  BY EmptySeq, LenProperties
<1>2. /\ t \in Seq(FrameType) /\ Len(t) = n + 1
      /\ t[n + 1] = x /\ \A k \in 1..n : t[k] = st[k]
  BY AppendProperties
<1>3. /\ st[1].dir = Main
      /\ \A k \in 1..(n - 1) : At(st[k], k, st[k + 1])
  BY DEF Nested
<1>4. At(st[n], n, x)
  OBVIOUS
<1>5. /\ \A k \in 1..n : FrameOK(h, i, MaxDepth - k + 1, st[k], bad)
      /\ FrameOK(h, i, MaxDepth - n, x, bad2)
  BY DEF SoFar
<1> HIDE DEF n, At
<1>6. \A k \in 1..n : FrameOK(h, i, MaxDepth - k + 1, st[k], bad2)
  BY <1>5, StillOK
<1>7. MaxDepth - n = MaxDepth - (n + 1) + 1
  BY <1>1, FilesAssumption DEF FilesAssumption
<1>8. \A k \in 1..(n + 1) : k = n + 1 \/ k \in 1..n
  BY <1>1
<1>9. \A k \in 1..n : k = n \/ (k \in 1..(n - 1) /\ k + 1 \in 1..n)
  BY <1>1
<1>10. \A k \in 1..(n + 1) : FrameOK(h, i, MaxDepth - k + 1, t[k], bad2)
  BY <1>2, <1>5, <1>6, <1>7, <1>8
<1>11. \A k \in 1..n : At(t[k], k, t[k + 1])
  BY <1>2, <1>3, <1>4, <1>9
<1>12. 1 \in 1..n /\ (n + 1) - 1 = n
  BY <1>1
<1>13. t[1].dir = Main
  BY <1>2, <1>3, <1>12
<1>14. Nested(h, i, t)
  <2>1. ASSUME NEW k \in 1..(Len(t) - 1)
        PROVE  LET src == ImportsIn(i, Own(h, t[k].dir)) IN
               /\ t[k].at = "imports"
               /\ t[k].next <= Len(src)
               /\ t[k + 1].dir = src[t[k].next]
    <3>1. k \in 1..n
      BY <1>2, <1>12
    <3> QED BY <1>11, <3>1 DEF At
  <2> QED BY <1>13, <2>1 DEF Nested
<1>15. /\ n + 1 \in 1..(n + 1) /\ \A k \in 1..n : k \in 1..(n + 1)
  BY <1>1
<1>16. /\ x.errors => \E k \in 1..(n + 1) : t[k].errors
       /\ (\E k \in 1..n : st[k].errors) => \E k \in 1..(n + 1) : t[k].errors
  BY <1>2, <1>15
<1>17. t # <<>>
  BY <1>1, <1>2, EmptySeq
<1>18. SoFar(h, i, t, bad2)
  BY <1>2, <1>10 DEF SoFar
<1>19. (x.errors => SomeErrors(t)) /\ (SomeErrors(st) => SomeErrors(t))
  BY <1>2, <1>16 DEF SomeErrors, n
<1>20. Len(t) <= MaxDepth
  <2>1. n < MaxDepth
    BY DEF n
  <2> QED BY <1>1, <1>2, <2>1, FilesAssumption DEF FilesAssumption
<1> QED BY <1>2, <1>14, <1>17, <1>18, <1>19, <1>20 DEF Continues

\* The pipeline of the directory has all it stands for, or there is an error and
\* a reason.
Fits(h, i, st, bad, pipe, e) ==
    LET top == st[Len(st)]
        all == All(h, i)[MaxDepth - Len(st) + 1][top.dir]
    IN /\ ~e => Whole(h, pipe, all)
       /\ e => bad \/ ~SoundIn(h, all)
       /\ top.errors => e

\* It has been read, and what there is of it is taken over.
LEMMA Popped ==
    ASSUME NEW h, NEW i \in [File -> Seq(Dir)],
           NEW st \in Seq(FrameType), Len(st) >= 2, Len(st) <= MaxDepth,
           Nested(h, i, st), NEW bad \in BOOLEAN, SoFar(h, i, st, bad),
           NEW bad2 \in BOOLEAN, bad => bad2,
           NEW pipe \in Pipe, NEW e \in BOOLEAN,
           Fits(h, i, st, bad2, pipe, e),
           NEW x, x = Taken(st[Len(st) - 1], pipe, e),
           NEW t, LastTwoAre(st, x, t)
    PROVE  Continues(h, i, st, t, bad2, e)
<1> DEFINE n == Len(st)
           m == n - 1
           fr == st[m]
           src(s) == ImportsIn(i, Own(h, s.dir))
           At(s, y) == /\ s.at = "imports"
                       /\ s.next <= Len(src(s))
                       /\ y.dir = src(s)[s.next]
<1>1. n \in Nat /\ n >= 2
  BY LenProperties
<1>2. /\ st[1].dir = Main
      /\ \A k \in 1..(n - 1) : At(st[k], st[k + 1])
  BY <1>1, EmptySeq DEF Nested
<1>3. \A k \in 1..n : FrameOK(h, i, MaxDepth - k + 1, st[k], bad)
  BY DEF SoFar
<1>4. \A k \in 1..n : st[k] \in FrameType
  BY ElementOfSeq
<1>5. /\ ~e => Whole(h, pipe, All(h, i)[MaxDepth - n + 1][st[n].dir])
      /\ e => bad2 \/ ~SoundIn(h, All(h, i)[MaxDepth - n + 1][st[n].dir])
      /\ st[n].errors => e
  BY DEF Fits
<1>6. x = Taken(fr, pipe, e) /\ LastTwoAre(st, x, t)
  OBVIOUS
<1> HIDE DEF n
<1>7. m \in Nat /\ m \in 1..n /\ m \in 1..(n - 1) /\ m + 1 = n /\ m - 1 = n - 2 /\ 1 \in 1..m
  BY <1>1
<1>8. MaxDepth - n + 1 = (MaxDepth - m + 1) - 1
  BY <1>1, FilesAssumption DEF FilesAssumption
<1> HIDE DEF m, fr
<1>9. fr \in FrameType /\ At(fr, st[n]) /\ FrameOK(h, i, MaxDepth - m + 1, fr, bad)
  BY <1>2, <1>3, <1>4, <1>7 DEF fr
<1>10. Part(h, i, MaxDepth - m + 1, fr.dir, fr.next) = All(h, i)[MaxDepth - n + 1][st[n].dir]
  BY <1>8, <1>9 DEF Part
<1>11. src(fr) \in Seq(Dir)
  BY <1>9, OwnType, ImportsType DEF FrameType
<1>12. x \in FrameType /\ FrameOK(h, i, MaxDepth - m + 1, x, bad2)
  <2>1. /\ Taken(fr, pipe, e) \in FrameType
        /\ FrameOK(h, i, MaxDepth - m + 1, Taken(fr, pipe, e), bad2)
    BY <1>5, <1>9, <1>10, <1>11, ImportTaken
  <2> QED BY <1>6, <2>1
<1>13. x.dir = fr.dir /\ x.errors = (fr.errors \/ e)
  BY <1>6, <1>9, TakenParts
<1>14. /\ t \in Seq(FrameType) /\ Len(t) = m
       /\ t[m] = x
       /\ \A k \in 1..(m - 1) : t[k] = st[k]
  <2>1. /\ t \in Seq(FrameType) /\ Len(t) = Len(st) - 1
        /\ t[Len(st) - 1] = x
        /\ \A k \in 1..(Len(st) - 2) : t[k] = st[k]
    BY <1>1, <1>6, <1>12, DropTwo DEF n
  <2> QED BY <1>7, <2>1 DEF m, n
<1>15. \A k \in 1..m : k = m \/ k \in 1..(m - 1)
  BY <1>7
<1>16. \A k \in 1..m : k \in 1..n
  BY <1>1 DEF m
<1>17. \A k \in 1..m : FrameOK(h, i, MaxDepth - k + 1, t[k], bad2)
  <2>1. \A k \in 1..m : FrameOK(h, i, MaxDepth - k + 1, st[k], bad2)
    BY <1>3, <1>16, StillOK
  <2> QED BY <1>12, <1>14, <1>15, <2>1
<1>18. \A k \in 1..m : t[k].dir = st[k].dir
  BY <1>13, <1>14, <1>15 DEF fr
<1>19. \A k \in 1..(m - 1) : k \in 1..(n - 1) /\ k + 1 \in 1..m
  BY <1>1, <1>7 DEF m
<1>20. ASSUME NEW k \in 1..(m - 1) PROVE At(t[k], t[k + 1])
  <2>1. At(st[k], st[k + 1])
    BY <1>2, <1>19
  <2>2. t[k] = st[k] /\ t[k + 1].dir = st[k + 1].dir
    BY <1>14, <1>18, <1>19
  <2> QED BY <2>1, <2>2
<1>21. t # <<>>
  BY <1>7, <1>14, EmptySeq
<1>22. Nested(h, i, t)
  <2>1. t[1].dir = Main
    BY <1>2, <1>7, <1>18
  <2> QED BY <1>14, <1>20, <2>1 DEF Nested
<1>23. e => \E k \in 1..m : t[k].errors
  <2>1. m \in 1..m
    BY <1>7
  <2> QED BY <1>13, <1>14, <2>1
<1>24. (\E k \in 1..n : st[k].errors) => \E k \in 1..m : t[k].errors
  <2>1. SUFFICES ASSUME NEW k \in 1..n, st[k].errors PROVE \E j \in 1..m : t[j].errors
    OBVIOUS
  <2>2. k = n \/ k = m \/ k \in 1..(m - 1)
    BY <1>1 DEF m
  <2>3. CASE k = n
    BY <1>5, <1>23, <2>1, <2>3
  <2>4. CASE k = m
    <3>1. m \in 1..m
      BY <1>7
    <3> QED BY <1>13, <1>14, <2>1, <2>4, <3>1 DEF fr
  <2>5. CASE k \in 1..(m - 1)
    <3>1. k \in 1..m
      BY <1>7, <2>5
    <3> QED BY <1>14, <2>1, <2>5, <3>1
  <2> QED BY <2>2, <2>3, <2>4, <2>5
<1>25. SoFar(h, i, t, bad2)
  BY <1>14, <1>17 DEF SoFar
<1>26. (e => SomeErrors(t)) /\ (SomeErrors(st) => SomeErrors(t))
  BY <1>14, <1>23, <1>24 DEF SomeErrors, n
<1>27. Len(t) <= MaxDepth
  <2>1. n <= MaxDepth
    BY DEF n
  <2> QED BY <1>1, <1>7, <1>14, <2>1, FilesAssumption DEF FilesAssumption
<1> QED BY <1>14, <1>21, <1>22, <1>25, <1>26, <1>27 DEF Continues

\* Return.
LEMMA Returning ==
    ASSUME CInv, stack # <<>>, UNCHANGED inputVars,
           failed' \in BOOLEAN, failed => failed',
           NEW pipe \in Pipe, NEW e \in BOOLEAN, failed' => failed \/ e,
           Fits(holds, imports, stack, failed', pipe, e),
           Return(pipe, e)
    PROVE  CInv'
<1> DEFINE n == Len(stack)
<1>1. /\ holds \in [File -> Contents] /\ imports \in Sources
      /\ imports \in [File -> Seq(Dir)]
      /\ stack \in Seq(FrameType) /\ n <= MaxDepth
      /\ failed \in BOOLEAN
      /\ outcome \in [is : {"none", "accepted", "refused", "panic"}, pipe : Pipe]
  BY FilesAssumption DEF CInv, Typed, FilesAssumption
<1>2. n \in Nat \ {0}
  BY <1>1, EmptySeq, LenProperties
<1>3. /\ Nested(holds, imports, stack)
      /\ SoFar(holds, imports, stack, failed)
      /\ Remembered(stack, failed, outcome.is)
      /\ outcome.is = "none"
  BY DEF CInv
<1>4. holds' = holds /\ imports' = imports
  BY DEF inputVars
<1>5. CASE n = 1
  <2>1. /\ stack' = <<>>
        /\ outcome' = IF e THEN [is |-> "refused", pipe |-> NoPipe]
                           ELSE [is |-> "accepted", pipe |-> pipe]
    BY <1>5 DEF Return
  <2>2. stack[1].dir = Main /\ MaxDepth - 1 + 1 = MaxDepth
    BY <1>3, <1>5, FilesAssumption DEF Nested, FilesAssumption
  <2>a. LET all == All(holds, imports)[MaxDepth][Main] IN
        /\ ~e => Whole(holds, pipe, all)
        /\ e => failed' \/ ~SoundIn(holds, all)
        /\ stack[1].errors => e
    BY <1>5, <2>2 DEF Fits
  <2>3. failed => stack[1].errors
    <3>1. \A k \in 1..n : k = 1
      BY <1>5
    <3> QED BY <1>3, <1>5, <3>1 DEF Remembered, SomeErrors
  <2>4. ~e => ~failed'
    BY <2>3, <2>a
  <2>5. Ended(holds, imports, failed', outcome')
    <3>1. ~e => Whole(holds, pipe, All(holds, imports)[MaxDepth][Main])
      BY <2>a
    <3>2. e => failed' \/ ~SoundIn(holds, All(holds, imports)[MaxDepth][Main])
      BY <2>a
    <3>3. CASE e
      <4>1. outcome'.is = "refused"
        BY <2>1, <3>3
      <4> QED BY <3>2, <3>3, <4>1 DEF Ended
    <3>4. CASE ~e
      <4>1. outcome'.is = "accepted" /\ outcome'.pipe = pipe
        BY <2>1, <3>4
      <4> QED BY <2>4, <3>1, <3>4, <4>1 DEF Ended
    <3> QED BY <3>3, <3>4
  <2>6. Remembered(stack', failed', outcome'.is)
    BY <2>1, <2>4 DEF Remembered
  <2>7. Nested(holds, imports, stack') /\ SoFar(holds, imports, stack', failed')
    BY <2>1 DEF Nested, SoFar
  <2>8. outcome' \in [is : {"none", "accepted", "refused", "panic"}, pipe : Pipe]
    BY <2>1, NothingYet
  <2>9. Typed'
    <3>1. <<>> \in Seq(FrameType) /\ Len(<<>>) = 0
      BY EmptySeq
    <3>2. 0 <= MaxDepth
      BY FilesAssumption DEF FilesAssumption
    <3> QED BY <1>1, <1>4, <2>1, <2>8, <3>1, <3>2 DEF Typed
  <2> QED BY <1>4, <2>1, <2>5, <2>6, <2>7, <2>9 DEF CInv
<1>6. CASE n # 1
  <2> DEFINE x == Taken(stack[n - 1], pipe, e)
  <2>1. LastTwoAre(stack, x, stack') /\ outcome' = outcome
    BY <1>6 DEF Return, LastTwoAre
  <2>b. x = Taken(stack[n - 1], pipe, e)
    OBVIOUS
  <2> HIDE DEF x
  <2>2. n >= 2
    <3>1. \A m \in Nat \ {0} : m # 1 => m >= 2
      OBVIOUS
    <3> QED BY <1>2, <1>6, <3>1
  <2>4. Continues(holds, imports, stack, stack', failed', e)
    BY <1>1, <1>3, <2>1, <2>b, <2>2, Popped
  <2>5. Remembered(stack', failed', outcome'.is)
    BY <1>3, <2>1, <2>4 DEF Remembered, Continues
  <2>6. Ended(holds, imports, failed', outcome')
    BY <1>3, <2>1 DEF Ended
  <2>7. Typed'
    BY <1>1, <1>4, <2>1, <2>4 DEF Typed, Continues
  <2> QED BY <1>3, <1>4, <2>1, <2>4, <2>5, <2>6, <2>7 DEF CInv, Continues
<1> QED BY <1>5, <1>6

LEMMA Started ==
    ASSUME Init
    PROVE  CInv
<1>1. Typed
  <2>1. <<>> \in Seq(FrameType) /\ Len(<<>>) = 0
    BY EmptySeq
  <2>2. 0 <= MaxDepth
    BY FilesAssumption DEF FilesAssumption
  <2> QED BY <2>1, <2>2, NothingYet DEF Init, Typed
<1>2. Nested(holds, imports, stack) /\ SoFar(holds, imports, stack, failed)
  BY DEF Init, Nested, SoFar
<1>3. Remembered(stack, failed, outcome.is) /\ Ended(holds, imports, failed, outcome)
  BY DEF Init, Remembered, Ended
<1> QED BY <1>1, <1>2, <1>3 DEF Init, CInv

LEMMA FilesOfOwn ==
    /\ \A d : FilesOf(d) = Own(holds, d)
    /\ \A f : Decoded(f) = Dec(holds, imports, f)
  BY DEF FilesOf, OnlyMain, Own, Decoded, Dec

LEMMA TopFacts ==
    ASSUME CInv, stack # <<>>
    PROVE  /\ holds \in [File -> Contents] /\ imports \in [File -> Seq(Dir)]
           /\ stack \in Seq(FrameType) /\ Len(stack) \in 1..MaxDepth
           /\ failed \in BOOLEAN
           /\ Top \in FrameType /\ Top = stack[Len(stack)]
           /\ MaxDepth - Len(stack) + 1 \in 1..MaxDepth
           /\ FrameOK(holds, imports, MaxDepth - Len(stack) + 1, Top, failed)
           /\ Nested(holds, imports, stack) /\ SoFar(holds, imports, stack, failed)
<1>1. /\ holds \in [File -> Contents] /\ imports \in [File -> Seq(Dir)]
      /\ stack \in Seq(FrameType) /\ Len(stack) <= MaxDepth
      /\ failed \in BOOLEAN
      /\ Nested(holds, imports, stack) /\ SoFar(holds, imports, stack, failed)
  BY FilesAssumption DEF CInv, Typed, FilesAssumption
<1>2. Len(stack) \in Nat \ {0}
  BY <1>1, EmptySeq, LenProperties
<1>3. Len(stack) \in 1..MaxDepth /\ MaxDepth - Len(stack) + 1 \in 1..MaxDepth
  BY <1>1, <1>2, FilesAssumption DEF FilesAssumption
<1>4. Len(stack) \in 1..Len(stack)
  BY <1>2
<1>5. Top \in FrameType /\ Top = stack[Len(stack)]
  BY <1>1, <1>4, ElementOfSeq DEF Top
<1>6. FrameOK(holds, imports, MaxDepth - Len(stack) + 1, Top, failed)
  BY <1>1, <1>4, <1>5 DEF SoFar
<1> QED BY <1>1, <1>3, <1>5, <1>6

LEMMA GoesOn ==
    ASSUME CInv, stack # <<>>, UNCHANGED <<inputVars, outcome>>,
           failed' \in BOOLEAN, NEW e, failed' => failed \/ e,
           Continues(holds, imports, stack, stack', failed', e)
    PROVE  CInv'
<1>1. /\ Nested(holds, imports, stack') /\ SoFar(holds, imports, stack', failed')
      /\ stack' \in Seq(FrameType) /\ Len(stack') <= MaxDepth
      /\ e => SomeErrors(stack')
      /\ SomeErrors(stack) => SomeErrors(stack')
  BY DEF Continues
<1>2. holds' = holds /\ imports' = imports /\ outcome' = outcome /\ outcome.is = "none"
  BY DEF inputVars, CInv
<1>3. Typed'
  BY <1>1, <1>2 DEF CInv, Typed
<1>4. Remembered(stack, failed, outcome.is)
  BY DEF CInv
<1>5. Remembered(stack', failed', outcome'.is)
  BY <1>1, <1>2, <1>4 DEF Remembered
<1>6. Ended(holds, imports, failed', outcome')
  BY <1>2 DEF Ended
<1> QED BY <1>1, <1>2, <1>3, <1>5, <1>6 DEF CInv

LEMMA ReadStep == CInv /\ Read => CInv'
<1> SUFFICES ASSUME CInv, Read PROVE CInv'
  OBVIOUS
<1> DEFINE x == Frame(Main, FALSE)
           n == MaxDepth - 1 + 1
<1>1. /\ stack = <<>> /\ outcome.is = "none" /\ stack' = <<x>>
      /\ holds' = holds /\ imports' = imports /\ failed' = failed /\ outcome' = outcome
  BY DEF Read, inputVars
<1>2. ~failed
  BY <1>1 DEF CInv, Remembered, SomeErrors
<1>3. x \in FrameType /\ FrameOK(holds, imports, n, x, failed) /\ x.dir = Main
  BY FirstFrame, FilesAssumption DEF FilesAssumption
<1> HIDE DEF x, n
<1>4. /\ <<x>> \in Seq(FrameType) /\ Len(<<x>>) = 1 /\ <<x>>[1] = x /\ <<x>> # <<>>
  BY <1>3
<1>5. Typed'
  <2>1. 1 <= MaxDepth
    BY FilesAssumption DEF FilesAssumption
  <2> QED BY <1>1, <1>4, <2>1 DEF CInv, Typed
<1>6. Nested(holds, imports, <<x>>)
  BY <1>3, <1>4 DEF Nested
<1>7. SoFar(holds, imports, <<x>>, failed)
  <2>1. \A k \in 1..1 : k = 1
    OBVIOUS
  <2> QED BY <1>3, <1>4, <2>1 DEF SoFar, n
<1>8. Remembered(stack', failed', outcome'.is) /\ Ended(holds, imports, failed', outcome')
  BY <1>1, <1>2 DEF Remembered, Ended
<1> QED BY <1>1, <1>5, <1>6, <1>7, <1>8 DEF CInv

LEMMA ReadFileStep == CInv /\ ReadFile => CInv'
<1> SUFFICES ASSUME CInv, ReadFile PROVE CInv'
  OBVIOUS
<1> DEFINE D == MaxDepth - Len(stack) + 1
           f == Own(holds, Top.dir)[Top.next]
           x == Taken(Top, Dec(holds, imports, f), holds[f].broken)
<1>1. /\ stack # <<>> /\ Top.at = "files" /\ Top.next <= Len(Own(holds, Top.dir))
      /\ stack' = Append(Above, x)
      /\ UNCHANGED <<inputVars, outcome>> /\ failed' = failed
  BY FilesOfOwn DEF ReadFile, Update
<1>2. /\ holds \in [File -> Contents] /\ imports \in [File -> Seq(Dir)]
      /\ stack \in Seq(FrameType) /\ Len(stack) <= MaxDepth
      /\ failed \in BOOLEAN
      /\ Top \in FrameType /\ Top = stack[Len(stack)]
      /\ FrameOK(holds, imports, D, Top, failed)
      /\ Nested(holds, imports, stack) /\ SoFar(holds, imports, stack, failed)
  BY <1>1, TopFacts
<1> HIDE DEF f
<1>3. NextFile(holds, imports, Top, x)
  BY DEF NextFile, f
<1> HIDE DEF x
<1>4. /\ x \in FrameType /\ FrameOK(holds, imports, D, x, failed)
      /\ Follows(Top, x)
  <2> HIDE DEF D
  <2> QED BY <1>1, <1>2, <1>3, FileTaken
<1>5. LastIs(stack, x, stack')
  BY <1>1 DEF LastIs, Above
<1>6. Continues(holds, imports, stack, stack', failed, x.errors)
  BY <1>1, <1>2, <1>4, <1>5, TopReplaced DEF Follows
<1> QED BY <1>1, <1>2, <1>6, GoesOn

LEMMA MergeFilesStep == CInv /\ MergeFiles => CInv'
<1> SUFFICES ASSUME CInv, MergeFiles PROVE CInv'
  OBVIOUS
<1> DEFINE D == MaxDepth - Len(stack) + 1
           d == Top.dir
           own == Own(holds, d)
           all == All(holds, imports)[D][d]
           merged == Merge(Top.pipes)
           pipe == merged.pipe
           e == Top.errors \/ ~merged.ok
           x == [Top EXCEPT !.at = "imports", !.next = 1, !.pipes = <<merged.pipe>>]
<1>1. /\ stack # <<>> /\ Top.at = "files" /\ ~(Top.next <= Len(own))
      /\ UNCHANGED inputVars
  <2>1. Top.next > Len(own)
    BY FilesOfOwn DEF MergeFiles
  <2>2. stack # <<>> /\ Top.at = "files" /\ UNCHANGED inputVars
    BY DEF MergeFiles
  <2>3. Top.next \in Nat /\ Len(own) \in Nat
    <3>1. Top \in FrameType
      BY <2>2, TopFacts
    <3>2. Top.next \in Nat /\ Top.dir \in Dir
      BY <3>1 DEF FrameType
    <3> QED BY <3>2, OwnType, LenProperties
  <2>4. \A m, n \in Nat : m > n => ~(m <= n)
    OBVIOUS
  <2> QED BY <2>1, <2>2, <2>3, <2>4
<1>2. \/ (e \/ pipe.imports = <<>>) /\ Return(pipe, e) /\ failed' = failed
      \/ ~e /\ Return(pipe, TRUE) /\ failed' = TRUE
      \/ ~e /\ stack' = Append(Above, x) /\ failed' = failed /\ outcome' = outcome
  BY DEF MergeFiles, Update
<1>3. /\ holds \in [File -> Contents] /\ imports \in [File -> Seq(Dir)]
      /\ stack \in Seq(FrameType) /\ Len(stack) <= MaxDepth
      /\ failed \in BOOLEAN
      /\ Top \in FrameType /\ Top = stack[Len(stack)]
      /\ D \in 1..MaxDepth
      /\ FrameOK(holds, imports, D, Top, failed)
      /\ Nested(holds, imports, stack) /\ SoFar(holds, imports, stack, failed)
  BY <1>1, TopFacts
<1>4. d \in Dir /\ Top.errors \in BOOLEAN
  BY <1>3 DEF FrameType
<1> HIDE DEF D
<1>5. /\ merged \in MergedType
      /\ ~e => Whole(holds, pipe, own) /\ pipe.imports = ImportsIn(imports, own)
      /\ e => failed \/ ~SoundIn(holds, own)
  BY <1>1, <1>3, FilesMerged
<1>6. pipe \in Pipe /\ merged.ok \in BOOLEAN /\ e \in BOOLEAN
  BY <1>4, <1>5 DEF MergedType
<1>7. ASSUME ~e, pipe.imports = <<>> PROVE Whole(holds, pipe, all)
  <2>1. ImportsIn(imports, Own(holds, d)) = <<>>
    BY <1>5, <1>7
  <2>2. all = own
    BY <1>3, <1>4, <2>1, NoImports
  <2> QED BY <1>5, <1>7, <2>2
<1>8. ASSUME e PROVE failed \/ ~SoundIn(holds, all)
  <2>1. SoundIn(holds, all) => SoundIn(holds, own)
    BY <1>3, <1>4, OwnPart
  <2> QED BY <1>5, <1>8, <2>1
<1>9. stack[Len(stack)] = Top
  BY <1>3
<1> HIDE DEF merged, pipe, e
<1>10. CASE (e \/ pipe.imports = <<>>) /\ Return(pipe, e) /\ failed' = failed
  <2>1. Top.errors => e
    BY DEF e
  <2>2. Fits(holds, imports, stack, failed', pipe, e)
    BY <1>7, <1>8, <1>9, <1>10, <2>1 DEF Fits, D
  <2> QED BY <1>1, <1>3, <1>6, <1>10, <2>2, Returning
<1>11. CASE ~e /\ Return(pipe, TRUE) /\ failed' = TRUE
  <2>1. Fits(holds, imports, stack, failed', pipe, TRUE)
    BY <1>11 DEF Fits
  <2> QED BY <1>1, <1>3, <1>6, <1>11, <2>1, Returning
<1>12. CASE ~e /\ stack' = Append(Above, x) /\ failed' = failed /\ outcome' = outcome
  <2>1. /\ x = [dir |-> d, at |-> "imports", next |-> 1, pipes |-> <<pipe>>,
                errors |-> Top.errors]
    <3> DEFINE one == <<pipe>>
               x1 == [Top EXCEPT !.at = "imports"]
               x2 == [x1 EXCEPT !.next = 1]
               x3 == [x2 EXCEPT !.pipes = one]
    <3>1. x1 = [dir |-> d, at |-> "imports", next |-> Top.next, pipes |-> Top.pipes,
                errors |-> Top.errors]
      <4>1. ASSUME NEW fr \in FrameType
            PROVE  [fr EXCEPT !.at = "imports"] =
                   [dir |-> fr.dir, at |-> "imports", next |-> fr.next, pipes |-> fr.pipes,
                    errors |-> fr.errors]
        BY DEF FrameType
      <4> QED BY <1>3, <4>1
    <3> HIDE DEF x1, one
    <3>2. x2 = [dir |-> d, at |-> "imports", next |-> 1, pipes |-> Top.pipes,
                errors |-> Top.errors]
      BY <3>1
    <3> HIDE DEF x2
    <3>3. x3 = [dir |-> d, at |-> "imports", next |-> 1, pipes |-> one, errors |-> Top.errors]
      BY <3>2
    <3>4. x = x3
      BY DEF x1, x2, one, pipe
    <3> HIDE DEF x, x3
    <3> QED BY <3>3, <3>4 DEF one
  <2>2. ~Top.errors
    BY <1>12 DEF e
  <2> HIDE DEF x
  <2>3. /\ x.dir = d /\ x.at = "imports" /\ x.next = 1 /\ x.pipes = <<pipe>> /\ ~x.errors
    BY <2>1, <2>2
  <2>4. <<pipe>> \in Seq(Pipe) /\ Len(<<pipe>>) = 1 /\ <<pipe>>[1] = pipe
    BY <1>6
  <2>5. x \in FrameType
    BY <1>4, <2>1, <2>4 DEF FrameType
  <2>6. ImportsIn(imports, own) \in Seq(Dir)
    BY <1>3, <1>4, OwnType, ImportsType
  <2>7. 1 <= Len(ImportsIn(imports, own)) + 1 /\ 1..(1 - 1) = {}
    <3>1. Len(ImportsIn(imports, own)) \in Nat
      BY <2>6, LenProperties
    <3> HIDE DEF own
    <3> QED BY <3>1
  <2>8. Whole(holds, pipe, own) /\ pipe.imports = ImportsIn(imports, own)
    BY <1>5, <1>12
  <2>9. ImportsRead(holds, imports, D, x, failed)
    BY <2>3, <2>4, <2>7, <2>8 DEF ImportsRead
  <2>10. FrameOK(holds, imports, D, x, failed)
    BY <2>3, <2>9 DEF FrameOK, FilesRead
  <2>11. LastIs(stack, x, stack')
    BY <1>12 DEF LastIs, Above
  <2>12. Follows(Top, x)
    BY <2>2, <2>3 DEF Follows
  <2>13. Continues(holds, imports, stack, stack', failed, x.errors)
    BY <1>1, <1>3, <2>5, <2>10, <2>11, <2>12, TopReplaced DEF Follows, D
  <2> QED BY <1>1, <1>3, <1>12, <2>13, GoesOn
<1> QED BY <1>2, <1>10, <1>11, <1>12 DEF merged, pipe, e

LEMMA FetchStep == CInv /\ Fetch => CInv'
<1> SUFFICES ASSUME CInv, Fetch PROVE CInv'
  OBVIOUS
<1> DEFINE D == MaxDepth - Len(stack) + 1
           src == ImportsIn(imports, Own(holds, Top.dir))
           source == src[Top.next]
<1>1. stack # <<>> /\ Top.at = "imports" /\ Len(stack) < MaxDepth /\ UNCHANGED inputVars
  BY DEF Fetch
<1>2. /\ holds \in [File -> Contents] /\ imports \in [File -> Seq(Dir)]
      /\ stack \in Seq(FrameType)
      /\ failed \in BOOLEAN
      /\ Top \in FrameType /\ Top = stack[Len(stack)]
      /\ FrameOK(holds, imports, D, Top, failed)
      /\ Nested(holds, imports, stack) /\ SoFar(holds, imports, stack, failed)
  BY <1>1, TopFacts
<1>3. Top.pipes[1].imports = src
  BY <1>1, <1>2 DEF FrameOK, ImportsRead
<1>4. /\ Top.next <= Len(src)
      /\ \/ /\ stack' = Append(stack, Frame(source, FALSE))
            /\ failed' = failed /\ outcome' = outcome
         \/ /\ failed' = TRUE
            /\ stack' = Append(stack, Frame(source, TRUE)) /\ outcome' = outcome
         \/ /\ failed' = TRUE
            /\ stack' = <<>>
            /\ outcome' = [is |-> "panic", pipe |-> NoPipe]
  BY <1>3 DEF Fetch
<1>5. source \in Dir
  <2>1. Top.dir \in Dir /\ Top.next \in Nat \ {0}
    BY <1>2 DEF FrameType
  <2>2. src \in Seq(Dir)
    BY <1>2, <2>1, OwnType, ImportsType
  <2> HIDE DEF src
  <2>3. Len(src) \in Nat
    BY <2>2, LenProperties
  <2>4. Top.next \in 1..Len(src)
    BY <1>4, <2>1, <2>3
  <2> QED BY <2>2, <2>4, ElementOfSeq
<1> HIDE DEF source
<1>6. ASSUME NEW b \in BOOLEAN, failed => b, failed' = b, b => failed \/ b,
             NEW e \in BOOLEAN, e => b, b => failed \/ e,
             stack' = Append(stack, Frame(source, e)), outcome' = outcome
      PROVE  CInv'
  <2> DEFINE x == Frame(source, e)
  <2>1. /\ x \in FrameType /\ FrameOK(holds, imports, MaxDepth - Len(stack), x, b)
        /\ x.dir = source /\ x.errors = e
    BY <1>5, <1>6, FirstFrame
  <2>2. stack' = Append(stack, x)
    BY <1>6
  <2> HIDE DEF x
  <2>3. x.dir = src[Top.next]
    BY <2>1 DEF source
  <2>4. Continues(holds, imports, stack, stack', b, x.errors)
    BY <1>1, <1>2, <1>4, <1>6, <2>1, <2>2, <2>3, Pushed
  <2> QED BY <1>1, <1>6, <2>1, <2>4, GoesOn
<1>7. CASE /\ failed' = TRUE
           /\ stack' = <<>>
           /\ outcome' = [is |-> "panic", pipe |-> NoPipe]
  <2>1. Typed'
    <3>1. <<>> \in Seq(FrameType) /\ Len(<<>>) = 0
      BY EmptySeq
    <3>2. 0 <= MaxDepth
      BY FilesAssumption DEF FilesAssumption
    <3> QED BY <1>1, <1>7, <3>1, <3>2, NothingYet DEF CInv, Typed, inputVars
  <2>2. Nested(holds', imports', stack') /\ SoFar(holds', imports', stack', failed')
    BY <1>7 DEF Nested, SoFar
  <2>3. Remembered(stack', failed', outcome'.is) /\ Ended(holds', imports', failed', outcome')
    BY <1>7 DEF Remembered, Ended
  <2> QED BY <1>7, <2>1, <2>2, <2>3 DEF CInv
<1> QED BY <1>2, <1>4, <1>6, <1>7

LEMMA MergeImportsStep == CInv /\ MergeImports => CInv'
<1> SUFFICES ASSUME CInv, MergeImports PROVE CInv'
  OBVIOUS
<1> DEFINE D == MaxDepth - Len(stack) + 1
           src == ImportsIn(imports, Own(holds, Top.dir))
           all == All(holds, imports)[D][Top.dir]
           merged == Merge(Top.pipes)
           pipe == merged.pipe
           e == Top.errors \/ ~merged.ok
<1>1. stack # <<>> /\ Top.at = "imports" /\ UNCHANGED inputVars /\ failed' = failed
  BY DEF MergeImports
<1>2. /\ holds \in [File -> Contents] /\ imports \in [File -> Seq(Dir)]
      /\ stack \in Seq(FrameType) /\ Len(stack) <= MaxDepth
      /\ failed \in BOOLEAN
      /\ Top \in FrameType /\ Top = stack[Len(stack)]
      /\ D \in 1..MaxDepth
      /\ FrameOK(holds, imports, D, Top, failed)
  BY <1>1, TopFacts
<1>3. Top.pipes[1].imports = src
  BY <1>1, <1>2 DEF FrameOK, ImportsRead
<1>4. ~(Top.next <= Len(src)) /\ Return(pipe, e)
  <2>1. Top.next > Len(src) /\ Return(pipe, e)
    BY <1>3 DEF MergeImports
  <2>2. Top.next \in Nat /\ Len(src) \in Nat
    <3>1. Top.dir \in Dir /\ Top.next \in Nat
      BY <1>2 DEF FrameType
    <3>2. src \in Seq(Dir)
      BY <1>2, <3>1, OwnType, ImportsType
    <3> QED BY <3>1, <3>2, LenProperties
  <2>3. \A m, n \in Nat : m > n => ~(m <= n)
    OBVIOUS
  <2> QED BY <2>1, <2>2, <2>3
<1> HIDE DEF D
<1>5. /\ merged \in MergedType
      /\ ~e => Whole(holds, pipe, all)
      /\ e => failed \/ ~SoundIn(holds, all)
  BY <1>1, <1>2, <1>4, ImportsMerged
<1>6. pipe \in Pipe /\ e \in BOOLEAN
  <2>1. Top.errors \in BOOLEAN
    BY <1>2 DEF FrameType
  <2> QED BY <1>5, <2>1 DEF MergedType
<1>7. Top.errors => e
  OBVIOUS
<1>8. stack[Len(stack)] = Top
  BY <1>2
<1> HIDE DEF merged, pipe, e
<1>9. Fits(holds, imports, stack, failed', pipe, e)
  BY <1>1, <1>5, <1>7, <1>8 DEF Fits, D
<1> QED BY <1>1, <1>2, <1>4, <1>6, <1>9, Returning

LEMMA StutterStep == CInv /\ UNCHANGED vars => CInv'
  BY DEF CInv, Typed, vars, inputVars

\* In every state, the directory being read is the import that the one below it
\* is at, all of them have read so far what they should have or remember an error
\* that has a reason, and an end says the truth about all the files there are.
THEOREM InductiveInvariance == Spec => []CInv
<1>1. Init => CInv
  BY Started
<1>2. CInv /\ [Next]_vars => CInv'
  BY ReadStep, ReadFileStep, MergeFilesStep, FetchStep, MergeImportsStep, StutterStep
     DEF Next, Finished
<1> QED BY <1>1, <1>2, PTL DEF Spec

-------------------------------------------------------------------------------
(* What ReadsAllOrRefuses says, of the contents and imports of the state *)

LEMMA SoundIsSoundIn ==
    ASSUME CInv, NEW fs \in Seq(File)
    PROVE  Sound(fs) <=> SoundIn(holds, fs)
<1>1. DOMAIN fs = 1..Len(fs) /\ \A k \in 1..Len(fs) : fs[k] \in File
  BY LenProperties, ElementOfSeq
<1>2. ASSUME NEW f \in File, NEW g \in File
      PROVE  Agree(holds[f], holds[g]) <=>
               /\ holds[f].version = holds[g].version
               /\ ~(holds[f].pre /\ holds[g].pre) /\ ~(holds[f].post /\ holds[g].post)
               /\ \A i \in DOMAIN holds[f].defs, j \in DOMAIN holds[g].defs :
                    holds[f].defs[i].kind = "locals" \/ holds[f].defs[i] # holds[g].defs[j]
  <2>1. (\A b \in Range(holds[f].defs) : b \in Range(holds[g].defs) => b.kind = "locals") <=>
        \A i \in DOMAIN holds[f].defs, j \in DOMAIN holds[g].defs :
             holds[f].defs[i].kind = "locals" \/ holds[f].defs[i] # holds[g].defs[j]
    BY DEF Range
  <2> QED BY <2>1 DEF Agree
<1> QED BY <1>1, <1>2 DEF Sound, SoundIn

LEMMA DefsAreDefsIn ==
    ASSUME NEW fs \in Seq(File)
    PROVE  FlattenSeq([k \in DOMAIN fs |-> holds[fs[k]].defs]) = DefsIn(holds, fs)
<1>1. DOMAIN fs = 1..Len(fs) /\ \A k \in 1..Len(fs) : fs[k] \in File
  BY LenProperties, ElementOfSeq
<1>2. [k \in DOMAIN fs |-> holds[fs[k]].defs] = Mapped(DefsOf(holds), fs)
  BY <1>1 DEF Mapped, DefsOf
<1> QED BY <1>2 DEF DefsIn

\* A configuration is read whole or refused: whatever the files hold and import
\* from each other, however they are spread over directories, and whichever
\* sources cannot be fetched, ReadDirFromPath, Merge, ExpandImports and Expand
\* together accept just what does not contradict itself, and then every block of
\* it is in the pipeline, in the order it was reached.
THEOREM AllOrRefused == Spec => []ReadsAllOrRefuses
<1>1. CInv => ReadsAllOrRefuses
  <2> SUFFICES ASSUME CInv, outcome.is # "none" PROVE ReadsAllOrRefuses
    BY DEF ReadsAllOrRefuses
  <2> DEFINE files == All(holds, imports)[MaxDepth][Main]
  <2>1. files \in Seq(File)
    <3>1. imports \in [File -> Seq(Dir)]
      BY FilesAssumption DEF CInv, Typed, FilesAssumption
    <3>2. MaxDepth \in 0..MaxDepth /\ Main \in Dir
      BY FilesAssumption DEF FilesAssumption
    <3>3. All(holds, imports)[MaxDepth] \in [Dir -> Seq(File)]
      BY <3>1, <3>2, AllEquation
    <3> QED BY <3>2, <3>3
  <2>2. Reached[MaxDepth][Main] = files
    BY ReachedIsAll
  <2>3. /\ outcome.is = "accepted" => ~failed /\ Whole(holds, outcome.pipe, files)
        /\ outcome.is \in {"refused", "panic"} => failed \/ ~SoundIn(holds, files)
    BY DEF CInv, Ended
  <2>4. outcome.is \in {"accepted", "refused", "panic"}
    BY DEF CInv, Typed
  <2> HIDE DEF files
  <2>5. Sound(files) <=> SoundIn(holds, files)
    BY <2>1, SoundIsSoundIn
  <2>6. FlattenSeq([k \in DOMAIN files |-> holds[files[k]].defs]) = DefsIn(holds, files)
    BY <2>1, DefsAreDefsIn
  <2>7. CASE ~failed /\ Sound(files)
    <3>1. outcome.is = "accepted"
      BY <2>3, <2>4, <2>5, <2>7
    <3>2. outcome.pipe.defs = DefsIn(holds, files)
      BY <2>3, <3>1 DEF Whole
    <3> QED BY <2>2, <2>6, <2>7, <3>1, <3>2 DEF ReadsAllOrRefuses
  <2>8. CASE ~(~failed /\ Sound(files))
    <3>1. outcome.is # "accepted"
      BY <2>3, <2>5, <2>8 DEF Whole
    <3> QED BY <2>2, <2>8, <3>1 DEF ReadsAllOrRefuses
  <2> QED BY <2>7, <2>8
<1> QED BY <1>1, InductiveInvariance, PTL
===============================================================================
