----------------------- MODULE ServerStateBlocksProofs -----------------------
(***************************************************************************)
(* Proofs of the properties of ServerStateBlocks: a sync leaves the lines  *)
(* outside the blocks alone, a second one changes nothing, and so on, for  *)
(* every config, state file and number of backends and restarts.           *)
(*                                                                         *)
(* A config is rewritten line by line, so all of it rests on what          *)
(* FlattenSeq makes of the pieces the lines turn into.                     *)
(***************************************************************************)
EXTENDS ServerStateBlocks, SequenceTheorems, FiniteSetTheorems, FunctionTheorems,
        WellFoundedInduction, TLAPS

(***************************************************************************)
(* Induction: a set of numbers that has 0 and the successor of each of its *)
(* members has them all.                                                   *)
(***************************************************************************)

LEMMA LeastOf ==
    ASSUME NEW T \in SUBSET Nat, T # {}
    PROVE  \E m \in T : \A k \in T : m <= k
<1>a. PICK t \in T : TRUE
  OBVIOUS
<1>b. PICK R : R = StrictSubsetOrdering(0 .. t)
  OBVIOUS
<1>c. PICK some : some = {0 .. n : n \in {n \in T : n <= t}}
  OBVIOUS
<1>1. some \subseteq FiniteSubsetsOf(0 .. t)
  <2>1. \A n \in Nat : n <= t => 0 .. n \subseteq 0 .. t /\ IsFiniteSet(0 .. n)
    BY <1>a, FS_Interval
  <2>2. \A x \in some : \E n \in Nat : n <= t /\ x = 0 .. n
    BY <1>c
  <2>3. \A x \in some : x \subseteq 0 .. t /\ IsFiniteSet(x)
    BY <2>1, <2>2
  <2> QED
    BY <2>3 DEF FiniteSubsetsOf
<1>2. some # {}
  BY <1>a, <1>c
<1>3. IsWellFoundedOn(R, FiniteSubsetsOf(0 .. t))
  BY <1>b, FS_StrictSubsetOrderingWellFounded
<1>4. \E x \in some : \A y \in some : ~(<<y, x>> \in R)
  BY <1>1, <1>2, <1>3, WFMin
<1>5. PICK m \in T : m <= t /\ \A y \in some : ~(<<y, 0 .. m>> \in R)
  BY <1>4, <1>c
<1>6. ASSUME NEW k \in T, k < m
      PROVE  FALSE
  <2>1. 0 .. k \in some
    BY <1>c, <1>5, <1>6, <1>a
  <2>2. m \in 0 .. m /\ m \notin 0 .. k /\ 0 .. k \subseteq 0 .. m /\ 0 .. m \subseteq 0 .. t
    BY <1>5, <1>6, <1>a
  <2>3. <<0 .. k, 0 .. m>> \in R
    <3>1. 0 .. k # 0 .. m
      BY <2>2
    <3>2. 0 .. k \subseteq 0 .. t
      BY <2>2
    <3> QED
    BY <2>2, <3>1, <3>2, <1>b DEF StrictSubsetOrdering
  <2> QED
    BY <1>5, <2>1, <2>3
<1> QED
  BY <1>5, <1>6

LEMMA Upwards ==
    ASSUME NEW n \in Nat, NEW T \in SUBSET (0 .. n), 0 \in T,
           \A i \in 1 .. n : i - 1 \in T => i \in T
    PROVE  T = 0 .. n
<1>a. PICK rest : rest = (0 .. n) \ T
  OBVIOUS
<1>1. SUFFICES ASSUME rest # {} PROVE FALSE
  BY <1>a
<1>2. rest \subseteq Nat
  BY <1>a
<1>3. PICK m \in rest : \A k \in rest : m <= k
  BY <1>1, <1>2, LeastOf
<1>4. m \in 0 .. n /\ m \notin T /\ m # 0
  BY <1>3, <1>a
<1>5. m \in 1 .. n /\ m - 1 \in 0 .. n /\ ~(m <= m - 1)
  BY <1>4
<1>6. m - 1 \in T
  BY <1>3, <1>5, <1>a
<1> QED
  BY <1>4, <1>5, <1>6
----------------------------------------------------------------------------
(* FlattenSeq.                                                             *)

Flattened(seqs, n, f) ==
    f = [i \in 1 .. n |-> IF i = 1 THEN seqs[i] ELSE f[i - 1] \o seqs[i]]

\* There is a function of the form FlattenSeq asks for.
LEMMA FlatExists ==
    ASSUME NEW seqs, NEW n \in Nat
    PROVE  \E f : Flattened(seqs, n, f)
<1>a. PICK T : T = {k \in 0 .. n : \E f : Flattened(seqs, k, f)}
  OBVIOUS
<1>1. 0 \in T
  <2>1. Flattened(seqs, 0, [i \in {} |-> i])
    BY DEF Flattened
  <2> QED
    BY <2>1, <1>a
<1>2. ASSUME NEW m \in 1 .. n, m - 1 \in T
      PROVE  m \in T
  <2>1. PICK f : Flattened(seqs, m - 1, f)
    BY <1>2, <1>a
  <2>b. PICK last : last = IF m = 1 THEN seqs[m] ELSE f[m - 1] \o seqs[m]
    OBVIOUS
  <2>c. PICK g : g = [i \in 1 .. m |-> IF i = m THEN last ELSE f[i]]
    OBVIOUS
  <2>2. ASSUME NEW i \in 1 .. m
        PROVE  g[i] = IF i = 1 THEN seqs[i] ELSE g[i - 1] \o seqs[i]
    <3>1. CASE i = m
      BY <2>b, <2>c, <3>1
    <3>2. CASE i # m
      <4>1. i \in 1 .. m - 1 /\ g[i] = f[i]
        BY <2>c, <3>2
      <4>2. f[i] = IF i = 1 THEN seqs[i] ELSE f[i - 1] \o seqs[i]
        BY <2>1, <4>1 DEF Flattened
      <4>3. i # 1 => g[i - 1] = f[i - 1]
        BY <2>c, <3>2
      <4> QED
        BY <4>1, <4>2, <4>3
    <3> QED
      BY <3>1, <3>2
  <2>3. Flattened(seqs, m, g)
    <3>1. g = [i \in 1 .. m |-> g[i]]
      BY <2>c
    <3>2. g = [i \in 1 .. m |-> IF i = 1 THEN seqs[i] ELSE g[i - 1] \o seqs[i]]
      BY <2>2, <3>1
    <3> QED
      BY <3>2 DEF Flattened
  <2> QED
    BY <2>3, <1>a
<1>3. T = 0 .. n
  <2>1. T \in SUBSET (0 .. n)
    BY <1>a
  <2> QED
    BY <1>1, <1>2, <2>1, Upwards
<1> QED
  BY <1>3, <1>a

\* What FlattenSeq makes of the first i sequences.
Growing(S, seqs, f) ==
    /\ f \in [0 .. Len(seqs) -> Seq(S)] /\ f[0] = <<>>
    /\ \A i \in 1 .. Len(seqs) : f[i] = f[i - 1] \o seqs[i]

LEMMA FlattenSeqIs ==
    ASSUME NEW S, NEW seqs \in Seq(Seq(S))
    PROVE  \E f : Growing(S, seqs, f) /\ FlattenSeq(seqs) = f[Len(seqs)]
<1>a. PICK n : n = Len(seqs)
  OBVIOUS
<1>1. n \in Nat /\ DOMAIN seqs = 1 .. n /\ \A i \in 1 .. n : seqs[i] \in Seq(S)
  BY <1>a, LenProperties, ElementOfSeq
<1>2. CASE n = 0
  <2>a. PICK f : f = [i \in 0 .. 0 |-> <<>>]
    OBVIOUS
  <2>1. FlattenSeq(seqs) = seqs
    BY <1>2, <1>a DEF FlattenSeq
  <2>2. seqs = <<>> /\ <<>> \in Seq(S)
    BY <1>2, <1>a, EmptySeq
  <2>3. Growing(S, seqs, f)
    BY <1>2, <1>a, <2>a, <2>2 DEF Growing
  <2> QED
    BY <1>2, <1>a, <2>a, <2>1, <2>2, <2>3
<1>3. CASE n # 0
  <2>a. PICK g : g = (CHOOSE flatten : flatten = [i \in 1 .. n |->
                          IF i = 1 THEN seqs[i] ELSE flatten[i - 1] \o seqs[i]])
    OBVIOUS
  <2>1. FlattenSeq(seqs) = g[n]
    <3>1. Len(seqs) # 0
      BY <1>3, <1>a
    <3>2. g = (CHOOSE flatten : flatten = [i \in 1 .. Len(seqs) |->
                  IF i = 1 THEN seqs[i] ELSE flatten[i - 1] \o seqs[i]])
          => FlattenSeq(seqs) = g[Len(seqs)]
      BY <3>1 DEF FlattenSeq
    <3> QED
      BY <2>a, <3>2, <1>a, Zenon
  <2>2. \E h : h = [i \in 1 .. n |-> IF i = 1 THEN seqs[i] ELSE h[i - 1] \o seqs[i]]
    BY <1>1, FlatExists DEF Flattened
  <2>3. Flattened(seqs, n, g)
    BY <2>a, <2>2 DEF Flattened
  <2>4. DOMAIN g = 1 .. n
    BY <2>3 DEF Flattened
  <2>5. ASSUME NEW i \in 1 .. n
        PROVE  g[i] = IF i = 1 THEN seqs[i] ELSE g[i - 1] \o seqs[i]
    BY <2>3 DEF Flattened
  <2>b. PICK T : T = {i \in 0 .. n : i = 0 \/ g[i] \in Seq(S)}
    OBVIOUS
  <2>7. T = 0 .. n
    <3>1. ASSUME NEW i \in 1 .. n, i - 1 \in T
          PROVE  i \in T
      <4>1. CASE i = 1
        <5>1. g[1] \in Seq(S)
          BY <3>1, <4>1, <1>1, <2>5
        <5> QED
          BY <4>1, <5>1, <2>b
      <4>2. CASE i # 1
        <5>1. g[i - 1] \in Seq(S) /\ seqs[i] \in Seq(S) /\ i \in 2 .. n
          BY <3>1, <4>2, <1>1, <2>b
        <5>2. g[i] \in Seq(S)
          BY <5>1, <2>5, <4>2, ConcatProperties
        <5> QED
          BY <5>2, <2>b
      <4> QED
        BY <4>1, <4>2
    <3>2. T \in SUBSET (0 .. n) /\ 0 \in T
      BY <1>1, <2>b
    <3> QED
      BY <1>1, <3>1, <3>2, Upwards
  <2>c. PICK f : f = [i \in 0 .. n |-> IF i = 0 THEN <<>> ELSE g[i]]
    OBVIOUS
  <2>8. f \in [0 .. n -> Seq(S)] /\ f[0] = <<>>
    <3>1. ASSUME NEW i \in 0 .. n PROVE (IF i = 0 THEN <<>> ELSE g[i]) \in Seq(S)
      BY <2>7, <2>b, EmptySeq
    <3> QED
      BY <1>1, <2>c, <3>1
  <2>9. ASSUME NEW i \in 1 .. n
        PROVE  f[i] = f[i - 1] \o seqs[i]
    <3>1. CASE i = 1
      <4>1. seqs[1] \in Seq(S) /\ g[1] = seqs[1]
        BY <3>1, <1>1, <2>5
      <4>2. f[1] = g[1]
        BY <3>1, <1>1, <2>c
      <4> QED
        <5>1. <<>> \o seqs[1] = seqs[1]
          BY <4>1, ConcatEmptySeq
        <5>2. i - 1 = 0
          BY <3>1
        <5>3. f[i - 1] = <<>>
          BY <5>2, <2>8
        <5> QED
          BY <3>1, <4>1, <4>2, <5>1, <5>3
    <3>2. CASE i # 1
      <4>1. f[i] = g[i] /\ f[i - 1] = g[i - 1]
        BY <3>2, <1>1, <2>c
      <4> QED
        BY <3>2, <4>1, <2>5
    <3> QED
      BY <3>1, <3>2
  <2>10. Growing(S, seqs, f)
    BY <2>8, <2>9, <1>a DEF Growing
  <2>11. f[n] = g[n]
    BY <1>1, <1>3, <2>c
  <2> QED
    BY <2>1, <2>10, <2>11, <1>a
<1> QED
  BY <1>2, <1>3

\* Where each sequence ends in the result.
Offsets(seqs, o) ==
    /\ o \in [0 .. Len(seqs) -> Nat] /\ o[0] = 0
    /\ \A i \in 1 .. Len(seqs) : o[i] = o[i - 1] + Len(seqs[i])

Laid(S, seqs, flat, o) ==
    /\ flat \in Seq(S) /\ Len(flat) = o[Len(seqs)]
    /\ \A i \in 1 .. Len(seqs) : \A k \in 1 .. Len(seqs[i]) : flat[o[i - 1] + k] = seqs[i][k]

LEMMA OffsetsGrow ==
    ASSUME NEW S, NEW seqs \in Seq(Seq(S)), NEW o, Offsets(seqs, o),
           NEW i \in 0 .. Len(seqs), NEW j \in 0 .. Len(seqs), i <= j
    PROVE  o[i] <= o[j]
<1>a. PICK n : n = Len(seqs)
  OBVIOUS
<1>b. PICK T : T = {m \in 0 .. n : i <= m => o[i] <= o[m]}
  OBVIOUS
<1>1. n \in Nat /\ \A m \in 1 .. n : Len(seqs[m]) \in Nat
  BY <1>a, LenProperties, ElementOfSeq
<1>2. (\A m \in 0 .. n : o[m] \in Nat) /\ \A m \in 1 .. n : o[m] = o[m - 1] + Len(seqs[m])
  BY <1>a DEF Offsets
<1>3. 0 \in T
  BY <1>a, <1>b, <1>1, <1>2
<1>4. ASSUME NEW m \in 1 .. n, m - 1 \in T
      PROVE  m \in T
  <2>1. i <= m - 1 => o[i] <= o[m - 1]
    BY <1>4, <1>b
  <2>2. o[m] \in Nat /\ o[m - 1] \in Nat /\ o[i] \in Nat /\ o[m - 1] <= o[m]
    BY <1>1, <1>2, <1>a
  <2>3. i <= m => (i <= m - 1 \/ i = m)
    BY <1>a, <1>1
  <2>4. i <= m => o[i] <= o[m]
    BY <2>1, <2>2, <2>3
  <2> QED
    BY <1>b, <2>4
<1>5. T = 0 .. n
  <2>1. T \in SUBSET (0 .. n)
    BY <1>b
  <2> QED
    BY <1>1, <1>3, <1>4, <2>1, Upwards
<1> QED
  BY <1>5, <1>a, <1>b

\* Each element of the result is one of a sequence.
LEMMA PieceOf ==
    ASSUME NEW S, NEW seqs \in Seq(Seq(S)), NEW o, Offsets(seqs, o),
           NEW p \in 1 .. o[Len(seqs)]
    PROVE  \E i \in 1 .. Len(seqs) : p - o[i - 1] \in 1 .. Len(seqs[i])
<1>a. PICK n : n = Len(seqs)
  OBVIOUS
<1>b. PICK T : T = {m \in 0 .. n : p <= o[m]}
  OBVIOUS
<1>1. n \in Nat /\ \A m \in 1 .. n : Len(seqs[m]) \in Nat
  BY <1>a, LenProperties, ElementOfSeq
<1>2. /\ \A m \in 0 .. n : o[m] \in Nat
      /\ o[0] = 0 /\ \A m \in 1 .. n : o[m] = o[m - 1] + Len(seqs[m])
  BY <1>a DEF Offsets
<1>3. n \in T
  BY <1>1, <1>2, <1>a, <1>b
<1>4. PICK m \in T : \A k \in T : m <= k
  <2>1. T \in SUBSET Nat
    BY <1>b, <1>1
  <2> QED
    BY <1>3, <2>1, LeastOf
<1>5. m \in 1 .. n /\ p <= o[m]
  <2>1. m \in 0 .. n /\ p <= o[m]
    BY <1>4, <1>b
  <2>2. m # 0
    BY <1>2, <2>1, <1>1
  <2> QED
    BY <2>1, <2>2
<1>6. ~(p <= o[m - 1])
  <2>1. m - 1 \in 0 .. n /\ ~(m <= m - 1)
    BY <1>5, <1>1
  <2> QED
    BY <2>1, <1>4, <1>b
<1>7. o[m - 1] \in Nat /\ o[m] = o[m - 1] + Len(seqs[m]) /\ Len(seqs[m]) \in Nat
  BY <1>1, <1>2, <1>5
<1>8. p - o[m - 1] \in 1 .. Len(seqs[m])
  <2>1. p \in Int
    OBVIOUS
  <2> QED
    BY <1>5, <1>6, <1>7, <2>1
<1> QED
  BY <1>5, <1>8, <1>a

JoinOf(x, y, z) ==
    /\ Len(z) = Len(x) + Len(y)
    /\ \A k \in 1 .. Len(x) : z[k] = x[k]
    /\ \A k \in 1 .. Len(y) : z[Len(x) + k] = y[k]

LEMMA Joined ==
    ASSUME NEW S, NEW x \in Seq(S), NEW y \in Seq(S)
    PROVE  JoinOf(x, y, x \o y)
<1>1. Len(x) \in Nat /\ Len(y) \in Nat
  BY LenProperties
<1>a. PICK z : z = x \o y
  OBVIOUS
<1>2. /\ Len(z) = Len(x) + Len(y)
      /\ \A i \in 1 .. Len(x) + Len(y) : z[i] = IF i <= Len(x) THEN x[i] ELSE y[i - Len(x)]
  BY <1>a, ConcatProperties
<1>3. ASSUME NEW k \in 1 .. Len(x)
      PROVE  z[k] = x[k]
  BY <1>1, <1>2
<1>4. ASSUME NEW k \in 1 .. Len(y)
      PROVE  z[Len(x) + k] = y[k]
  <2>1. Len(x) + k \in 1 .. Len(x) + Len(y) /\ ~(Len(x) + k <= Len(x)) /\ (Len(x) + k) - Len(x) = k
    BY <1>1
  <2> QED
    BY <1>2, <2>1
<1> QED
  BY <1>a, <1>2, <1>3, <1>4 DEF JoinOf

LEMMA LaidOut ==
    ASSUME NEW S, NEW seqs \in Seq(Seq(S))
    PROVE  \E o : Offsets(seqs, o) /\ Laid(S, seqs, FlattenSeq(seqs), o)
<1>a. PICK n : n = Len(seqs)
  OBVIOUS
<1>1. PICK f : Growing(S, seqs, f) /\ FlattenSeq(seqs) = f[n]
  BY FlattenSeqIs, <1>a
<1>2. n \in Nat /\ \A i \in 1 .. n : seqs[i] \in Seq(S) /\ Len(seqs[i]) \in Nat
  BY <1>a, LenProperties, ElementOfSeq
<1>3. /\ \A i \in 0 .. n : f[i] \in Seq(S) /\ Len(f[i]) \in Nat
      /\ f[0] = <<>> /\ \A i \in 1 .. n : f[i] = f[i - 1] \o seqs[i]
  BY <1>1, <1>a, LenProperties DEF Growing
<1>b. PICK o : o = [i \in 0 .. n |-> Len(f[i])]
  OBVIOUS
<1>4. ASSUME NEW i \in 1 .. n
      PROVE  /\ o[i] = o[i - 1] + Len(seqs[i])
             /\ \A k \in 1 .. o[i - 1] : f[i][k] = f[i - 1][k]
             /\ \A k \in 1 .. Len(seqs[i]) : f[i][o[i - 1] + k] = seqs[i][k]
  <2>0. i \in 0 .. n /\ i - 1 \in 0 .. n
    BY <1>2
  <2>1. f[i - 1] \in Seq(S) /\ seqs[i] \in Seq(S) /\ f[i] = f[i - 1] \o seqs[i]
    BY <1>2, <1>3, <2>0
  <2>2. o[i] = Len(f[i]) /\ o[i - 1] = Len(f[i - 1])
    BY <1>b, <2>0
  <2>3. o[i - 1] \in Nat /\ Len(seqs[i]) \in Nat
    BY <1>2, <1>3, <2>0, <2>2
  <2>4. JoinOf(f[i - 1], seqs[i], f[i])
    BY <2>1, Joined
  <2> QED
    BY <2>2, <2>4 DEF JoinOf
<1>5. Offsets(seqs, o)
  <2>1. o[0] = 0
    BY <1>2, <1>3, <1>b
  <2>2. o \in [0 .. n -> Nat]
    BY <1>3, <1>b
  <2> QED
    BY <1>4, <2>1, <2>2, <1>a DEF Offsets
<1>c. PICK T : T = {m \in 0 .. n : \A i \in 1 .. n : i <= m =>
                       \A k \in 1 .. Len(seqs[i]) : f[m][o[i - 1] + k] = seqs[i][k]}
  OBVIOUS
<1>6. 0 \in T
  BY <1>2, <1>c
<1>7. ASSUME NEW m \in 1 .. n, m - 1 \in T
      PROVE  m \in T
  <2>1. ASSUME NEW i \in 1 .. n, i <= m, NEW k \in 1 .. Len(seqs[i])
        PROVE  f[m][o[i - 1] + k] = seqs[i][k]
    <3>1. CASE i = m
      BY <1>4, <2>1, <3>1
    <3>2. CASE i # m
      <4>1. i <= m - 1 /\ m - 1 \in 0 .. n
        BY <2>1, <3>2, <1>2
      <4>2. f[m - 1][o[i - 1] + k] = seqs[i][k]
        BY <1>7, <1>c, <4>1
      <4>3. o[i] <= o[m - 1] /\ o[i] = o[i - 1] + Len(seqs[i])
        BY <1>4, <1>5, <4>1, <1>a, OffsetsGrow
      <4>4. o[i - 1] \in Nat /\ o[i] \in Nat /\ o[m - 1] \in Nat /\ Len(seqs[i]) \in Nat
        <5>1. \A j \in 0 .. n : o[j] \in Nat
          BY <1>5, <1>a DEF Offsets
        <5>2. i - 1 \in 0 .. n /\ i \in 0 .. n
          BY <1>2
        <5> QED
          BY <1>2, <4>1, <5>1, <5>2
      <4>5. o[i - 1] + k \in 1 .. o[m - 1]
        <5>a. PICK x, y, z, l : x = o[i - 1] /\ y = o[i] /\ z = o[m - 1] /\ l = Len(seqs[i])
          OBVIOUS
        <5>1. x \in Nat /\ y \in Nat /\ z \in Nat /\ l \in Nat /\ y <= z /\ y = x + l /\ k \in 1 .. l
          BY <4>3, <4>4, <5>a
        <5>2. x + k \in 1 .. z
          BY <5>1
        <5> QED
          BY <5>2, <5>a
      <4> QED
        BY <1>4, <4>2, <4>5
    <3> QED
      BY <3>1, <3>2
  <2> QED
    BY <2>1, <1>c
<1>8. T = 0 .. n
  <2>1. T \in SUBSET (0 .. n)
    BY <1>c
  <2> QED
    BY <1>2, <1>6, <1>7, <2>1, Upwards
<1>9. \A i \in 1 .. n : \A k \in 1 .. Len(seqs[i]) : f[n][o[i - 1] + k] = seqs[i][k]
  <2>1. n \in T
    BY <1>8, <1>2
  <2> QED
    BY <2>1, <1>c
<1>10. f[n] \in Seq(S) /\ Len(f[n]) = o[n]
  BY <1>2, <1>3, <1>b
<1> QED
  BY <1>1, <1>5, <1>9, <1>10, <1>a DEF Laid
----------------------------------------------------------------------------
(* Blocks.                                                                 *)

Markers(lines) == LinesOf(lines, {"begin", "end"})
WellMarked(lines) ==
    /\ lines \in Seq(LineType) /\ ~Malformed(lines)
    /\ \A b \in LinesOf(lines, {"begin"}) : lines[b].name \in Backends

\* The marker after line i is the first of those that follow it.
LEMMA NextMarkerIs ==
    ASSUME NEW lines, DOMAIN lines \subseteq Nat, NEW i, NEW m \in Markers(lines), m > i,
           \A j \in Markers(lines) : j > i => m <= j
    PROVE  NextMarker(lines, i) = m
<1>a. PICK later : later = {j \in Markers(lines) : j > i}
  OBVIOUS
<1>1. m \in later /\ later \subseteq Nat /\ \A j \in later : m <= j
  BY <1>a DEF Markers, LinesOf
<1>2. \A j \in later : (\A k \in later : j <= k) => j = m
  BY <1>1
<1>3. (CHOOSE j \in later : \A k \in later : j <= k) = m
  BY <1>1, <1>2
<1>4. NextMarker(lines, i) = IF later = {} THEN 0 ELSE CHOOSE j \in later : \A k \in later : j <= k
  BY <1>a DEF NextMarker, Markers
<1> QED
  BY <1>1, <1>3, <1>4

\* A block ends with the first marker after its begin.
Closed(lines, b) ==
    /\ NextMarker(lines, b) \in LinesOf(lines, {"end"}) /\ b < NextMarker(lines, b)
    /\ \A j \in Markers(lines) : j <= b \/ NextMarker(lines, b) <= j

LEMMA BlocksClosed ==
    ASSUME NEW lines, WellMarked(lines), NEW b \in LinesOf(lines, {"begin"})
    PROVE  Closed(lines, b)
<1>1. DOMAIN lines = 1 .. Len(lines) /\ Len(lines) \in Nat
  BY LenProperties DEF WellMarked
<1>a. PICK later : later = {j \in Markers(lines) : j > b}
  OBVIOUS
<1>b. PICK m : m = NextMarker(lines, b)
  OBVIOUS
<1>2. m \in LinesOf(lines, {"end"})
  BY <1>b DEF WellMarked, Malformed
<1>3. m = IF later = {} THEN 0 ELSE CHOOSE j \in later : \A k \in later : j <= k
  BY <1>a, <1>b DEF NextMarker, Markers
<1>4. m \in 1 .. Len(lines) /\ b \in 1 .. Len(lines)
  BY <1>1, <1>2 DEF LinesOf
<1>5. later # {} /\ later \subseteq 1 .. Len(lines)
  BY <1>1, <1>3, <1>4, <1>a DEF Markers, LinesOf
<1>6. \E j \in later : \A k \in later : j <= k
  <2>1. later \in SUBSET Nat
    BY <1>1, <1>5
  <2> QED
    BY <1>5, <2>1, LeastOf
<1>7. m \in later /\ \A k \in later : m <= k
  BY <1>3, <1>5, <1>6
<1>8. b < m
  BY <1>4, <1>7, <1>a
<1>9. \A j \in Markers(lines) : j <= b \/ m <= j
  <2>1. \A j \in Markers(lines) : j \in 1 .. Len(lines)
    BY <1>1 DEF Markers, LinesOf
  <2> QED
    BY <1>4, <1>7, <1>a, <2>1
<1> QED
  BY <1>2, <1>8, <1>9, <1>b DEF Closed

\* No marker is in a block.
LEMMA MarkersOutside ==
    ASSUME NEW lines, WellMarked(lines), NEW i \in Markers(lines)
    PROVE  ~InBlock(lines, i)
<1>1. SUFFICES ASSUME NEW b \in LinesOf(lines, {"begin"}), b < i, i < NextMarker(lines, b)
               PROVE  FALSE
  BY DEF InBlock
<1>2. DOMAIN lines = 1 .. Len(lines) /\ Len(lines) \in Nat
  BY LenProperties DEF WellMarked
<1>3. Closed(lines, b)
  BY BlocksClosed
<1>4. b \in Nat /\ i \in Nat /\ NextMarker(lines, b) \in Nat
  BY <1>2, <1>3 DEF Closed, Markers, LinesOf
<1>5. i <= b \/ NextMarker(lines, b) <= i
  BY <1>3 DEF Closed
<1> QED
  BY <1>1, <1>4, <1>5
----------------------------------------------------------------------------
(* What Rewrite makes of a config: the lines outside the blocks in their   *)
(* order, line i after the first o[i - 1] ones, and the entries of each    *)
(* block after its begin.                                                  *)

Servers == [name : ServerNames, addr : Addresses, port : UsablePorts]
EntriesType == [Backends -> Seq(Servers)]

RewrittenAs(lines, e, r, o) ==
    /\ r \in Seq(LineType) /\ Len(r) = o[Len(lines)]
    /\ o \in [0 .. Len(lines) -> Nat] /\ o[0] = 0
    /\ \A i, j \in 0 .. Len(lines) : i <= j => o[i] <= o[j]
    /\ \A i \in 1 .. Len(lines) : InBlock(lines, i) => o[i] = o[i - 1]
    /\ \A i \in 1 .. Len(lines) : ~InBlock(lines, i) =>
          o[i - 1] + 1 <= o[i] /\ r[o[i - 1] + 1] = lines[i]
    /\ \A i \in 1 .. Len(lines) : ~InBlock(lines, i) /\ lines[i].kind # "begin" =>
          o[i] = o[i - 1] + 1
    /\ \A i \in LinesOf(lines, {"begin"}) :
          /\ o[i] = o[i - 1] + 1 + Len(e[lines[i].name])
          /\ \A k \in 1 .. Len(e[lines[i].name]) :
                r[o[i - 1] + 1 + k] = Entry(e[lines[i].name][k])
    /\ \A p \in 1 .. Len(r) :
          \E i \in 1 .. Len(lines) : ~InBlock(lines, i) /\ o[i - 1] < p /\ p <= o[i]

\* What a line becomes.
Piece(lines, e, i) ==
    IF lines[i].kind = "begin"
    THEN <<lines[i]>> \o [k \in DOMAIN e[lines[i].name] |-> Entry(e[lines[i].name][k])]
    ELSE IF InBlock(lines, i) THEN <<>> ELSE <<lines[i]>>

LEMMA PortsAre == \A x : x \in UsablePorts <=> x \in Ports /\ x # 0
<1>1. PICK m \in Nat : m = 65535
  OBVIOUS
<1>2. Ports = 0 .. m /\ UsablePorts = 1 .. m
  BY <1>1, SMT DEF Ports, UsablePorts
<1> QED
  BY <1>2

LEMMA ServerLine ==
    ASSUME NEW n \in ServerNames, NEW a \in Addresses, NEW p \in Ports
    PROVE  Line("server", n, a, p) \in LineType
BY DEF Line, LineType

LEMMA EntryType ==
    ASSUME NEW v \in Servers
    PROVE  Entry(v) \in LineType
<1>1. v.name \in ServerNames /\ v.addr \in Addresses /\ v.port \in UsablePorts
  BY DEF Servers
<1>2. v.port \in Ports
  BY <1>1, PortsAre
<1> QED
  BY <1>1, <1>2, ServerLine DEF Entry

LEMMA EntryLines ==
    ASSUME NEW es \in Seq(Servers)
    PROVE  \E x \in Seq(LineType) : /\ x = [k \in DOMAIN es |-> Entry(es[k])]
                                    /\ Len(x) = Len(es) /\ Len(es) \in Nat
                                    /\ \A k \in 1 .. Len(es) : x[k] = Entry(es[k])
<1>1. Len(es) \in Nat /\ DOMAIN es = 1 .. Len(es) /\ \A k \in 1 .. Len(es) : es[k] \in Servers
  BY LenProperties, ElementOfSeq
<1>2. \A v \in Servers : Entry(v) \in LineType
  BY EntryType
<1>a. PICK n : n = Len(es)
  OBVIOUS
<1>b. PICK x : x = [k \in 1 .. n |-> Entry(es[k])]
  OBVIOUS
<1>3. x \in [1 .. n -> LineType]
  BY <1>1, <1>2, <1>a, <1>b
<1>4. x \in Seq(LineType) /\ Len(x) = n
  <2>1. n \in Nat
    BY <1>1, <1>a
  <2>2. DOMAIN x = 1 .. n
    BY <1>b
  <2>3. x \in Seq(LineType)
    BY <1>3, <2>1, IsASeq
  <2> QED
    BY <2>1, <2>2, <2>3, LenProperties
<1> QED
  BY <1>1, <1>4, <1>a, <1>b

PieceFor(lines, e, i, p) ==
    /\ p \in Seq(LineType)
    /\ InBlock(lines, i) => Len(p) = 0
    /\ ~InBlock(lines, i) => Len(p) >= 1 /\ p[1] = lines[i]
    /\ ~InBlock(lines, i) /\ lines[i].kind # "begin" => Len(p) = 1
    /\ lines[i].kind = "begin" =>
          /\ Len(p) = 1 + Len(e[lines[i].name])
          /\ \A k \in 1 .. Len(e[lines[i].name]) : p[1 + k] = Entry(e[lines[i].name][k])

LEMMA PieceIs ==
    ASSUME NEW lines, WellMarked(lines), NEW e \in EntriesType, NEW i \in 1 .. Len(lines)
    PROVE  PieceFor(lines, e, i, Piece(lines, e, i))
<1>1. DOMAIN lines = 1 .. Len(lines) /\ Len(lines) \in Nat /\ lines[i] \in LineType
  BY LenProperties, ElementOfSeq DEF WellMarked
<1>a. PICK one : one = <<lines[i]>>
  OBVIOUS
<1>2. one \in Seq(LineType) /\ Len(one) = 1 /\ one[1] = lines[i]
  BY <1>1, <1>a
<1>b. PICK p : p = Piece(lines, e, i)
  OBVIOUS
<1>3. CASE lines[i].kind = "begin"
  <2>1. i \in LinesOf(lines, {"begin"}) /\ i \in Markers(lines)
    BY <1>1, <1>3 DEF LinesOf, Markers
  <2>2. ~InBlock(lines, i)
    BY <2>1, MarkersOutside
  <2>3. e[lines[i].name] \in Seq(Servers)
    BY <2>1 DEF WellMarked, EntriesType
  <2>a. PICK es : es = e[lines[i].name]
    OBVIOUS
  <2>4. PICK x \in Seq(LineType) : /\ x = [k \in DOMAIN es |-> Entry(es[k])]
                                   /\ Len(x) = Len(es) /\ Len(es) \in Nat
                                   /\ \A k \in 1 .. Len(es) : x[k] = Entry(es[k])
    BY <2>3, <2>a, EntryLines
  <2>5. p = one \o x
    BY <1>3, <1>a, <1>b, <2>a, <2>4 DEF Piece
  <2>6. p \in Seq(LineType)
    BY <1>2, <2>4, <2>5, ConcatProperties
  <2>7. JoinOf(one, x, p)
    BY <1>2, <2>4, <2>5, Joined
  <2>8. Len(p) = 1 + Len(es) /\ Len(p) >= 1
    BY <1>2, <2>4, <2>7 DEF JoinOf
  <2>9. p[1] = lines[i]
    BY <1>2, <2>7 DEF JoinOf
  <2>10. \A k \in 1 .. Len(es) : p[1 + k] = Entry(es[k])
    BY <1>2, <2>4, <2>7 DEF JoinOf
  <2> QED
    BY <1>3, <1>b, <2>a, <2>2, <2>6, <2>8, <2>9, <2>10 DEF PieceFor
<1>4. CASE lines[i].kind # "begin" /\ InBlock(lines, i)
  <2>1. p = <<>>
    BY <1>4, <1>b DEF Piece
  <2> QED
    BY <1>4, <1>b, <2>1, EmptySeq DEF PieceFor
<1>5. CASE lines[i].kind # "begin" /\ ~InBlock(lines, i)
  <2>1. p = one
    BY <1>5, <1>a, <1>b DEF Piece
  <2>2. p \in Seq(LineType) /\ Len(p) = 1 /\ p[1] = lines[i]
    BY <1>2, <2>1, Zenon
  <2>3. Len(p) >= 1
    BY <2>2
  <2> QED
    BY <1>5, <1>b, <2>2, <2>3 DEF PieceFor
<1> QED
  BY <1>3, <1>4, <1>5

LEMMA Rewritten ==
    ASSUME NEW lines, WellMarked(lines), NEW e \in EntriesType
    PROVE  \E o : RewrittenAs(lines, e, Rewrite(lines, e), o)
<1>a. PICK n : n = Len(lines)
  OBVIOUS
<1>1. DOMAIN lines = 1 .. n /\ n \in Nat
  BY <1>a, LenProperties DEF WellMarked
<1>b. PICK q : q = [i \in 1 .. n |-> Piece(lines, e, i)]
  OBVIOUS
<1>2. \A i \in 1 .. n : q[i] = Piece(lines, e, i)
  BY <1>b
<1>p. \A i \in 1 .. n : PieceFor(lines, e, i, q[i])
  BY <1>2, <1>a, PieceIs
<1>3. q \in Seq(Seq(LineType)) /\ Len(q) = n
  <2>1. q \in [1 .. n -> Seq(LineType)]
    <3>1. \A i \in 1 .. n : Piece(lines, e, i) \in Seq(LineType)
      BY PieceIs, <1>a DEF PieceFor
    <3> QED
      BY <1>b, <3>1
  <2>2. q \in Seq(Seq(LineType))
    BY <1>1, <2>1, IsASeq
  <2>3. DOMAIN q = 1 .. n
    BY <1>b
  <2> QED
    BY <1>1, <2>2, <2>3, LenProperties
<1>c. PICK r : r = Rewrite(lines, e)
  OBVIOUS
<1>4. r = FlattenSeq(q)
  BY <1>1, <1>b, <1>c DEF Rewrite, Piece
<1>5. PICK o : Offsets(q, o) /\ Laid(LineType, q, r, o)
  BY <1>3, <1>4, LaidOut
<1>6. o \in [0 .. n -> Nat] /\ o[0] = 0 /\ r \in Seq(LineType) /\ Len(r) = o[n]
  BY <1>3, <1>5 DEF Offsets, Laid
<1>7. \A i, j \in 0 .. n : i <= j => o[i] <= o[j]
  BY <1>3, <1>5, OffsetsGrow
<1>8. ASSUME NEW i \in 1 .. n
      PROVE  /\ o[i] = o[i - 1] + Len(q[i]) /\ Len(q[i]) \in Nat
             /\ o[i] \in Nat /\ o[i - 1] \in Nat
             /\ \A k \in 1 .. Len(q[i]) : r[o[i - 1] + k] = q[i][k]
  <2>1. i \in 0 .. n /\ i - 1 \in 0 .. n
    BY <1>1
  <2>2. Len(q[i]) \in Nat
    BY <1>3, ElementOfSeq, LenProperties
  <2>3. o[i] = o[i - 1] + Len(q[i])
    BY <1>3, <1>5 DEF Offsets
  <2>4. \A k \in 1 .. Len(q[i]) : r[o[i - 1] + k] = q[i][k]
    BY <1>3, <1>5 DEF Laid
  <2> QED
    BY <1>6, <2>1, <2>2, <2>3, <2>4
<1>9. ASSUME NEW i \in 1 .. n, InBlock(lines, i)
      PROVE  o[i] = o[i - 1]
  <2>1. Len(q[i]) = 0
    BY <1>9, <1>p DEF PieceFor
  <2> QED
    BY <1>8, <2>1
<1>10. ASSUME NEW i \in 1 .. n, ~InBlock(lines, i)
       PROVE  /\ o[i - 1] + 1 <= o[i] /\ r[o[i - 1] + 1] = lines[i]
              /\ lines[i].kind # "begin" => o[i] = o[i - 1] + 1
  <2>1. /\ Len(q[i]) >= 1 /\ q[i][1] = lines[i]
        /\ lines[i].kind # "begin" => Len(q[i]) = 1
    BY <1>10, <1>p DEF PieceFor
  <2>2. 1 \in 1 .. Len(q[i])
    BY <1>8, <2>1
  <2> QED
    BY <1>8, <2>1, <2>2
<1>11. ASSUME NEW i \in LinesOf(lines, {"begin"})
       PROVE  /\ o[i] = o[i - 1] + 1 + Len(e[lines[i].name])
              /\ \A k \in 1 .. Len(e[lines[i].name]) :
                    r[o[i - 1] + 1 + k] = Entry(e[lines[i].name][k])
  <2>1. i \in 1 .. n /\ lines[i].kind = "begin" /\ e[lines[i].name] \in Seq(Servers)
    BY <1>1 DEF LinesOf, WellMarked, EntriesType
  <2>a. PICK m : m = Len(e[lines[i].name])
    OBVIOUS
  <2>2. m \in Nat
    BY <2>1, <2>a, LenProperties
  <2>3. /\ Len(q[i]) = 1 + m
        /\ \A k \in 1 .. m : q[i][1 + k] = Entry(e[lines[i].name][k])
    BY <2>1, <2>a, <1>p DEF PieceFor
  <2>i. /\ o[i] = o[i - 1] + Len(q[i]) /\ o[i] \in Nat /\ o[i - 1] \in Nat
        /\ \A k \in 1 .. Len(q[i]) : r[o[i - 1] + k] = q[i][k]
    BY <1>8, <2>1
  <2>b. PICK before, l : before = o[i - 1] /\ l = Len(q[i])
    OBVIOUS
  <2>n. before \in Nat /\ l = 1 + m /\ o[i] = before + l
    BY <2>i, <2>3, <2>b
  <2>4. o[i] = o[i - 1] + 1 + m
    <3>1. before + l = before + 1 + m
      BY <2>n, <2>2
    <3> QED
      BY <2>n, <2>b, <3>1
  <2>5. ASSUME NEW k \in 1 .. m
        PROVE  r[o[i - 1] + 1 + k] = Entry(e[lines[i].name][k])
    <3>1. 1 + k \in 1 .. Len(q[i]) /\ o[i - 1] + (1 + k) = o[i - 1] + 1 + k
      <4>1. 1 + k \in 1 .. l /\ before + (1 + k) = before + 1 + k
        BY <2>n, <2>2
      <4> QED
        BY <2>b, <4>1
    <3>2. r[o[i - 1] + (1 + k)] = q[i][1 + k]
      BY <2>i, <3>1
    <3> QED
      BY <2>3, <3>1, <3>2
  <2> QED
    BY <2>4, <2>5, <2>a
<1>12. ASSUME NEW p \in 1 .. Len(r)
       PROVE  \E i \in 1 .. n : ~InBlock(lines, i) /\ o[i - 1] < p /\ p <= o[i]
  <2>1. p \in 1 .. o[Len(q)]
    BY <1>3, <1>6
  <2>2. PICK i \in 1 .. n : p - o[i - 1] \in 1 .. Len(q[i])
    BY <1>3, <1>5, <2>1, PieceOf
  <2>3. o[i - 1] < p /\ p <= o[i]
    <3>1. p \in Int
      OBVIOUS
    <3> QED
      BY <1>8, <2>2, <3>1
  <2>4. ~InBlock(lines, i)
    BY <1>8, <1>9, <2>3
  <2> QED
    BY <2>3, <2>4
<1>13. RewrittenAs(lines, e, r, o)
  BY <1>6, <1>7, <1>9, <1>10, <1>11, <1>12, <1>a DEF RewrittenAs
<1> QED
  BY <1>13, <1>c

\* The place of a line outside the blocks, and of the entries of a block.
At(o, i) == o[i - 1] + 1

LEMMA Places ==
    ASSUME NEW lines, WellMarked(lines), NEW e \in EntriesType, NEW r, NEW o,
           RewrittenAs(lines, e, r, o), NEW i \in 1 .. Len(lines), ~InBlock(lines, i)
    PROVE  /\ At(o, i) \in 1 .. Len(r) /\ r[At(o, i)] = lines[i]
           /\ o[i] \in Nat /\ o[i - 1] \in Nat /\ At(o, i) <= o[i] /\ o[i] <= Len(r)
           /\ \A j \in 1 .. Len(lines) : i < j => At(o, i) < At(o, j) /\ o[i] < At(o, j)
<1>a. PICK n : n = Len(lines)
  OBVIOUS
<1>1. n \in Nat
  BY <1>a, LenProperties DEF WellMarked
<1>2. /\ \A j \in 0 .. n : o[j] \in Nat
      /\ \A j, k \in 0 .. n : j <= k => o[j] <= o[k]
      /\ Len(r) = o[n]
  BY <1>a DEF RewrittenAs
<1>3. o[i - 1] + 1 <= o[i] /\ r[o[i - 1] + 1] = lines[i]
  BY DEF RewrittenAs
<1>4. i \in 0 .. n /\ i - 1 \in 0 .. n /\ n \in 0 .. n /\ i <= n
  BY <1>1, <1>a
<1>5. o[i] \in Nat /\ o[i - 1] \in Nat /\ o[i] <= Len(r) /\ Len(r) \in Nat
  BY <1>2, <1>4
<1>6. ASSUME NEW j \in 1 .. n, i < j
      PROVE  o[i - 1] + 1 < o[j - 1] + 1 /\ o[i] < o[j - 1] + 1
  <2>1. j - 1 \in 0 .. n /\ i <= j - 1
    BY <1>1, <1>4, <1>6
  <2>2. o[i] <= o[j - 1] /\ o[j - 1] \in Nat
    BY <1>2, <1>4, <2>1
  <2> QED
    BY <1>3, <1>5, <2>2
<1>7. o[i - 1] + 1 \in 1 .. Len(r)
  BY <1>3, <1>5
<1> QED
  BY <1>3, <1>5, <1>6, <1>7, <1>a DEF At

LEMMA RewrittenLine ==
    ASSUME NEW lines, WellMarked(lines), NEW e \in EntriesType, NEW r, NEW o,
           RewrittenAs(lines, e, r, o), NEW p \in 1 .. Len(r)
    PROVE  \E i \in 1 .. Len(lines) :
              /\ ~InBlock(lines, i)
              /\ \/ p = At(o, i)
                 \/ i \in LinesOf(lines, {"begin"}) /\ p \in At(o, i) + 1 .. o[i]
<1>1. PICK i \in 1 .. Len(lines) : ~InBlock(lines, i) /\ o[i - 1] < p /\ p <= o[i]
  BY DEF RewrittenAs
<1>2. o[i] \in Nat /\ o[i - 1] \in Nat
  BY <1>1, Places
<1>3. CASE lines[i].kind = "begin"
  <2>1. i \in LinesOf(lines, {"begin"})
    BY <1>3, LenProperties DEF LinesOf, WellMarked
  <2>2. p = o[i - 1] + 1 \/ p \in (o[i - 1] + 1) + 1 .. o[i]
    BY <1>1, <1>2
  <2> QED
    BY <1>1, <2>1, <2>2 DEF At
<1>4. CASE lines[i].kind # "begin"
  <2>1. o[i] = o[i - 1] + 1
    BY <1>1, <1>4 DEF RewrittenAs
  <2>2. p = o[i - 1] + 1
    BY <1>1, <1>2, <2>1
  <2> QED
    BY <1>1, <2>2 DEF At
<1> QED
  BY <1>3, <1>4

LEMMA EntriesAt ==
    ASSUME NEW lines, WellMarked(lines), NEW e \in EntriesType, NEW r, NEW o,
           RewrittenAs(lines, e, r, o), NEW b \in LinesOf(lines, {"begin"}),
           NEW p \in At(o, b) + 1 .. o[b]
    PROVE  /\ p - At(o, b) \in 1 .. Len(e[lines[b].name])
           /\ r[p] = Entry(e[lines[b].name][p - At(o, b)]) /\ r[p].kind = "server"
<1>1. b \in 1 .. Len(lines) /\ b \in Markers(lines)
  BY LenProperties DEF LinesOf, WellMarked, Markers
<1>2. ~InBlock(lines, b)
  BY <1>1, MarkersOutside
<1>3. o[b] \in Nat /\ o[b - 1] \in Nat
  BY <1>1, <1>2, Places
<1>a. PICK m : m = Len(e[lines[b].name])
  OBVIOUS
<1>4. /\ o[b] = o[b - 1] + 1 + m
      /\ \A k \in 1 .. m : r[o[b - 1] + 1 + k] = Entry(e[lines[b].name][k])
  BY <1>a DEF RewrittenAs
<1>5. m \in Nat
  <2>1. e[lines[b].name] \in Seq(Servers)
    BY DEF WellMarked, EntriesType
  <2> QED
    BY <1>a, <2>1, LenProperties
<1>b. PICK k : k = p - (o[b - 1] + 1)
  OBVIOUS
<1>6. k \in 1 .. m /\ o[b - 1] + 1 + k = p
  BY <1>b, <1>3, <1>4, <1>5 DEF At
<1>7. r[p] = Entry(e[lines[b].name][k])
  BY <1>4, <1>6
<1>8. Entry(e[lines[b].name][k]).kind = "server"
  BY DEF Entry, Line
<1> QED
  BY <1>6, <1>7, <1>8, <1>a, <1>b DEF At

\* The markers of the rewritten config are those of the old one.
LEMMA RewrittenMarkers ==
    ASSUME NEW lines, WellMarked(lines), NEW e \in EntriesType, NEW r, NEW o,
           RewrittenAs(lines, e, r, o)
    PROVE  /\ \A i \in Markers(lines) : At(o, i) \in Markers(r) /\ r[At(o, i)] = lines[i]
           /\ \A p \in Markers(r) : \E i \in Markers(lines) : p = At(o, i)
<1>0. DOMAIN lines = 1 .. Len(lines) /\ DOMAIN r = 1 .. Len(r)
  BY LenProperties DEF WellMarked, RewrittenAs
<1>1. ASSUME NEW i \in Markers(lines)
      PROVE  At(o, i) \in Markers(r) /\ r[At(o, i)] = lines[i]
  <2>1. i \in 1 .. Len(lines) /\ ~InBlock(lines, i) /\ lines[i].kind \in {"begin", "end"}
    BY <1>0, MarkersOutside DEF Markers, LinesOf
  <2>2. At(o, i) \in 1 .. Len(r) /\ r[At(o, i)] = lines[i]
    BY <2>1, Places
  <2> QED
    BY <1>0, <2>1, <2>2 DEF Markers, LinesOf
<1>2. ASSUME NEW p \in Markers(r)
      PROVE  \E i \in Markers(lines) : p = At(o, i)
  <2>1. p \in 1 .. Len(r) /\ r[p].kind \in {"begin", "end"}
    BY <1>0 DEF Markers, LinesOf
  <2>2. PICK i \in 1 .. Len(lines) :
            /\ ~InBlock(lines, i)
            /\ \/ p = At(o, i)
               \/ i \in LinesOf(lines, {"begin"}) /\ p \in At(o, i) + 1 .. o[i]
    BY <2>1, RewrittenLine
  <2>3. p = At(o, i)
    <3>1. SUFFICES ASSUME i \in LinesOf(lines, {"begin"}), p \in At(o, i) + 1 .. o[i] PROVE FALSE
      BY <2>2
    <3>2. r[p].kind = "server"
      BY <3>1, EntriesAt
    <3> QED
      BY <2>1, <3>2
  <2>4. r[p] = lines[i]
    BY <2>2, <2>3, Places
  <2>5. i \in Markers(lines)
    BY <1>0, <2>1, <2>4 DEF Markers, LinesOf
  <2> QED
    BY <2>3, <2>5
<1> QED
  BY <1>1, <1>2

\* So are its blocks, and the entries are in them.
SameBlocks(lines, r, o) ==
    /\ \A b \in LinesOf(lines, {"begin"}) :
          /\ At(o, b) \in LinesOf(r, {"begin"})
          /\ NextMarker(r, At(o, b)) = At(o, NextMarker(lines, b))
    /\ \A p \in LinesOf(r, {"begin"}) : \E b \in LinesOf(lines, {"begin"}) : p = At(o, b)
    /\ \A i \in 1 .. Len(lines) : ~InBlock(lines, i) => ~InBlock(r, At(o, i))
    /\ \A b \in LinesOf(lines, {"begin"}) : \A p \in At(o, b) + 1 .. o[b] : InBlock(r, p)

LEMMA BlocksKept ==
    ASSUME NEW lines, WellMarked(lines), NEW e \in EntriesType, NEW r, NEW o,
           RewrittenAs(lines, e, r, o)
    PROVE  WellMarked(r) /\ SameBlocks(lines, r, o)
<1>a. PICK n : n = Len(lines)
  OBVIOUS
<1>0. DOMAIN lines = 1 .. n /\ DOMAIN r = 1 .. Len(r) /\ n \in Nat /\ Len(r) \in Nat
  BY <1>a, LenProperties DEF WellMarked, RewrittenAs
<1>1. /\ \A i \in Markers(lines) : At(o, i) \in Markers(r) /\ r[At(o, i)] = lines[i]
      /\ \A p \in Markers(r) : \E i \in Markers(lines) : p = At(o, i)
  BY RewrittenMarkers
<1>2. \A i \in Markers(lines) : i \in 1 .. n /\ ~InBlock(lines, i)
  BY <1>0, MarkersOutside DEF Markers, LinesOf
<1>3. ASSUME NEW i \in 1 .. n, ~InBlock(lines, i)
      PROVE  /\ At(o, i) \in 1 .. Len(r) /\ At(o, i) \in Nat /\ o[i] \in Nat /\ At(o, i) <= o[i]
             /\ \A j \in 1 .. n : i < j => At(o, i) < At(o, j) /\ o[i] < At(o, j)
  <2>1. /\ At(o, i) \in 1 .. Len(r) /\ o[i] \in Nat /\ At(o, i) <= o[i]
        /\ \A j \in 1 .. n : i < j => At(o, i) < At(o, j) /\ o[i] < At(o, j)
    BY <1>3, <1>a, Places
  <2> QED
    BY <2>1, <1>0
<1>4. ASSUME NEW b \in LinesOf(lines, {"begin"})
      PROVE  /\ b \in Markers(lines) /\ b \in 1 .. n /\ ~InBlock(lines, b) /\ Closed(lines, b)
             /\ NextMarker(lines, b) \in Markers(lines) /\ NextMarker(lines, b) \in 1 .. n
             /\ NextMarker(lines, b) \in LinesOf(lines, {"end"}) /\ b < NextMarker(lines, b)
  <2>1. Closed(lines, b)
    BY BlocksClosed
  <2>2. b \in Markers(lines) /\ NextMarker(lines, b) \in Markers(lines)
    BY <2>1 DEF Markers, LinesOf, Closed
  <2> QED
    BY <1>2, <2>1, <2>2 DEF Closed
<1>5. ASSUME NEW b \in LinesOf(lines, {"begin"})
      PROVE  /\ At(o, b) \in LinesOf(r, {"begin"})
             /\ NextMarker(r, At(o, b)) = At(o, NextMarker(lines, b))
             /\ NextMarker(r, At(o, b)) \in LinesOf(r, {"end"})
  <2>a. PICK m : m = NextMarker(lines, b)
    OBVIOUS
  <2>1. m \in Markers(lines) /\ m \in 1 .. n /\ b \in 1 .. n /\ b < m /\ ~InBlock(lines, b)
    BY <1>4, <2>a
  <2>2. At(o, m) \in Markers(r) /\ At(o, b) < At(o, m)
    BY <1>1, <1>3, <2>1
  <2>3. ASSUME NEW p \in Markers(r), p > At(o, b)
        PROVE  At(o, m) <= p
    <3>1. PICK i \in Markers(lines) : p = At(o, i)
      BY <1>1
    <3>2. i \in 1 .. n /\ ~InBlock(lines, i) /\ At(o, i) \in Nat /\ At(o, m) \in Nat
      BY <1>2, <1>3, <2>1
    <3>3. i <= b \/ m <= i
      BY <1>4, <2>a DEF Closed
    <3>4. ~(i <= b)
      <4>1. i < b => At(o, i) < At(o, b)
        BY <1>3, <2>1, <3>2
      <4>2. At(o, b) \in Nat
        BY <1>3, <2>1
      <4> QED
        BY <2>1, <2>3, <3>1, <3>2, <4>1, <4>2
    <3>5. m < i \/ m = i
      BY <2>1, <3>2, <3>3, <3>4
    <3>6. m < i => At(o, m) < At(o, i)
      BY <1>2, <1>3, <2>1, <3>2
    <3> QED
      BY <3>1, <3>2, <3>5, <3>6
  <2>4. NextMarker(r, At(o, b)) = At(o, m)
    <3>1. DOMAIN r \subseteq Nat
      BY <1>0
    <3>2. At(o, m) > At(o, b)
      BY <1>2, <1>3, <2>1, <2>2
    <3> QED
      BY <2>2, <2>3, <3>1, <3>2, NextMarkerIs
  <2>5. r[At(o, b)] = lines[b] /\ r[At(o, m)] = lines[m]
    BY <1>1, <1>4, <2>1
  <2>6. At(o, b) \in DOMAIN r /\ At(o, m) \in DOMAIN r
    BY <1>0, <1>2, <1>3, <2>1
  <2>7. lines[b].kind = "begin" /\ lines[m].kind = "end"
    BY <1>4, <2>a DEF LinesOf
  <2> QED
    BY <2>4, <2>5, <2>6, <2>7, <2>a DEF LinesOf
<1>6. ASSUME NEW p \in LinesOf(r, {"begin"})
      PROVE  \E b \in LinesOf(lines, {"begin"}) : p = At(o, b) /\ r[p] = lines[b]
  <2>1. p \in Markers(r) /\ r[p].kind = "begin"
    BY DEF LinesOf, Markers
  <2>2. PICK b \in Markers(lines) : p = At(o, b) /\ r[p] = lines[b]
    BY <1>1, <2>1
  <2>3. b \in LinesOf(lines, {"begin"})
    BY <2>1, <2>2 DEF LinesOf, Markers
  <2> QED
    BY <2>2, <2>3
<1>7. ASSUME NEW i \in 1 .. n, ~InBlock(lines, i)
      PROVE  ~InBlock(r, At(o, i))
  <2>1. SUFFICES ASSUME NEW q \in LinesOf(r, {"begin"}), q < At(o, i), At(o, i) < NextMarker(r, q)
                 PROVE  FALSE
    BY DEF InBlock
  <2>2. PICK b \in LinesOf(lines, {"begin"}) : q = At(o, b)
    BY <1>6
  <2>a. PICK m : m = NextMarker(lines, b)
    OBVIOUS
  <2>3. b \in 1 .. n /\ m \in 1 .. n /\ NextMarker(r, q) = At(o, m) /\ ~InBlock(lines, b) /\ ~InBlock(lines, m)
    BY <1>2, <1>4, <1>5, <2>2, <2>a
  <2>4. ~(b < i /\ i < m)
    BY <1>7, <2>a DEF InBlock
  <2>5. At(o, b) \in Nat /\ At(o, i) \in Nat /\ At(o, m) \in Nat
    BY <1>3, <1>7, <2>3
  <2>6. (i < b => At(o, i) < At(o, b)) /\ (m < i => At(o, m) < At(o, i))
    BY <1>3, <1>7, <2>3
  <2>7. i < b \/ i = b \/ i = m \/ m < i
    BY <2>3, <2>4
  <2>8. At(o, b) < At(o, i) /\ At(o, i) < At(o, m)
    BY <2>1, <2>2, <2>3
  <2> QED
    BY <2>5, <2>6, <2>7, <2>8
<1>8. ASSUME NEW b \in LinesOf(lines, {"begin"}), NEW p \in At(o, b) + 1 .. o[b]
      PROVE  InBlock(r, p)
  <2>a. PICK m : m = NextMarker(lines, b)
    OBVIOUS
  <2>1. /\ b \in 1 .. n /\ ~InBlock(lines, b) /\ m \in 1 .. n /\ b < m
        /\ At(o, b) \in LinesOf(r, {"begin"}) /\ NextMarker(r, At(o, b)) = At(o, m)
    BY <1>4, <1>5, <2>a
  <2>2. At(o, b) \in Nat /\ o[b] \in Nat /\ o[b] < At(o, m) /\ At(o, m) \in Nat
    <3>1. ~InBlock(lines, m)
      BY <1>2, <1>4, <2>a
    <3> QED
      BY <1>3, <2>1, <3>1
  <2>3. At(o, b) < p /\ p < At(o, m)
    BY <2>2
  <2> QED
    BY <2>1, <2>3 DEF InBlock
<1>9. WellMarked(r)
  <2>1. r \in Seq(LineType)
    BY DEF RewrittenAs
  <2>2. ASSUME NEW p \in LinesOf(r, {"begin"})
        PROVE  r[p].name \in Backends /\ NextMarker(r, p) \in LinesOf(r, {"end"})
    BY <1>5, <1>6 DEF WellMarked
  <2>3. ~Malformed(r)
    BY <2>2, NamesAssumption DEF Malformed
  <2> QED
    BY <2>1, <2>2, <2>3 DEF WellMarked
<1> QED
  BY <1>5, <1>6, <1>7, <1>8, <1>9, <1>a DEF SameBlocks

\* What becomes of a config when its blocks are left out and each other line is
\* replaced is the same before and after it is rewritten.
Image(lines, g) == [i \in 1 .. Len(lines) |-> IF InBlock(lines, i) THEN <<>> ELSE g[lines[i]]]

LEMMA ImageType ==
    ASSUME NEW lines \in Seq(LineType), NEW g \in [LineType -> Seq(LineType)]
    PROVE  /\ Image(lines, g) \in Seq(Seq(LineType)) /\ Len(Image(lines, g)) = Len(lines)
           /\ \A i \in 1 .. Len(lines) :
                 Image(lines, g)[i] = IF InBlock(lines, i) THEN <<>> ELSE g[lines[i]]
<1>a. PICK n : n = Len(lines)
  OBVIOUS
<1>b. PICK x : x = Image(lines, g)
  OBVIOUS
<1>1. n \in Nat /\ \A i \in 1 .. n : lines[i] \in LineType
  BY <1>a, LenProperties, ElementOfSeq
<1>2. \A i \in 1 .. n : (IF InBlock(lines, i) THEN <<>> ELSE g[lines[i]]) \in Seq(LineType)
  BY <1>1, EmptySeq
<1>3. x \in [1 .. n -> Seq(LineType)]
  BY <1>2, <1>a, <1>b DEF Image
<1>4. x \in Seq(Seq(LineType))
  BY <1>1, <1>3, IsASeq
<1>5. Len(x) = n
  <2>1. DOMAIN x = 1 .. n
    BY <1>3
  <2> QED
    BY <1>1, <1>4, <2>1, LenProperties
<1>6. \A i \in 1 .. n : x[i] = IF InBlock(lines, i) THEN <<>> ELSE g[lines[i]]
  BY <1>a, <1>b DEF Image
<1> QED
  BY <1>4, <1>5, <1>6, <1>a, <1>b

LEMMA SameImage ==
    ASSUME NEW lines, WellMarked(lines), NEW e \in EntriesType, NEW r, NEW o,
           RewrittenAs(lines, e, r, o), NEW g \in [LineType -> Seq(LineType)]
    PROVE  FlattenSeq(Image(r, g)) = FlattenSeq(Image(lines, g))
<1>a. PICK n, l : n = Len(lines) /\ l = Len(r)
  OBVIOUS
<1>b. PICK x, y : x = Image(lines, g) /\ y = Image(r, g)
  OBVIOUS
<1>0. lines \in Seq(LineType) /\ r \in Seq(LineType) /\ n \in Nat /\ l \in Nat
  BY <1>a, LenProperties DEF WellMarked, RewrittenAs
<1>1. /\ x \in Seq(Seq(LineType)) /\ Len(x) = n
      /\ \A i \in 1 .. n : x[i] = IF InBlock(lines, i) THEN <<>> ELSE g[lines[i]]
  BY <1>0, <1>a, <1>b, ImageType
<1>2. /\ y \in Seq(Seq(LineType)) /\ Len(y) = l
      /\ \A i \in 1 .. l : y[i] = IF InBlock(r, i) THEN <<>> ELSE g[r[i]]
  BY <1>0, <1>a, <1>b, ImageType
<1>3. PICK f : Growing(LineType, x, f) /\ FlattenSeq(x) = f[n]
  BY <1>1, FlattenSeqIs
<1>4. PICK h : Growing(LineType, y, h) /\ FlattenSeq(y) = h[l]
  BY <1>2, FlattenSeqIs
<1>5. /\ \A i \in 0 .. n : f[i] \in Seq(LineType)
      /\ f[0] = <<>> /\ \A i \in 1 .. n : f[i] = f[i - 1] \o x[i]
  BY <1>1, <1>3 DEF Growing
<1>6. /\ \A i \in 0 .. l : h[i] \in Seq(LineType)
      /\ h[0] = <<>> /\ \A i \in 1 .. l : h[i] = h[i - 1] \o y[i]
  BY <1>2, <1>4 DEF Growing
<1>7. SameBlocks(lines, r, o)
  BY BlocksKept
<1>8. o \in [0 .. n -> Nat] /\ o[0] = 0 /\ o[n] = l
  BY <1>a DEF RewrittenAs
\* Lines in a block add nothing.
<1>9. ASSUME NEW i \in 1 .. l, InBlock(r, i)
      PROVE  h[i] = h[i - 1]
  <2>1. i - 1 \in 0 .. l
    BY <1>0
  <2>2. h[i - 1] \in Seq(LineType) /\ y[i] = <<>> /\ h[i] = h[i - 1] \o y[i]
    BY <1>2, <1>6, <1>9, <2>1
  <2> QED
    BY <2>2, ConcatEmptySeq
<1>10. ASSUME NEW b \in LinesOf(lines, {"begin"})
       PROVE  h[o[b]] = h[At(o, b)]
  <2>1. b \in 1 .. n /\ ~InBlock(lines, b)
    BY <1>0, <1>a, LenProperties, MarkersOutside DEF LinesOf, Markers
  <2>a. PICK from, to : from = At(o, b) /\ to = o[b]
    OBVIOUS
  <2>2. from \in 1 .. l /\ to \in Nat /\ from <= to /\ to <= l
    BY <2>1, <2>a, <1>a, Places
  <2>b. PICK T : T = {p \in 0 .. l : from <= p /\ p <= to => h[p] = h[from]}
    OBVIOUS
  <2>3. 0 \in T
    BY <1>0, <2>2, <2>b
  <2>4. ASSUME NEW p \in 1 .. l, p - 1 \in T
        PROVE  p \in T
    <3>1. SUFFICES ASSUME from <= p, p <= to PROVE h[p] = h[from]
      BY <2>b, <1>0
    <3>2. CASE p = from
      BY <3>2
    <3>3. CASE p # from
      <4>1. p \in from + 1 .. to /\ from <= p - 1 /\ p - 1 <= to
        BY <2>2, <3>1, <3>3
      <4>2. InBlock(r, p)
        BY <1>7, <2>a, <4>1 DEF SameBlocks
      <4>3. h[p - 1] = h[from]
        BY <2>4, <2>b, <4>1
      <4> QED
        BY <1>9, <4>2, <4>3
    <3> QED
      BY <3>2, <3>3
  <2>5. T = 0 .. l
    <3>1. T \in SUBSET (0 .. l)
      BY <2>b
    <3> QED
      BY <1>0, <2>3, <2>4, <3>1, Upwards
  <2>6. to \in T
    BY <1>0, <2>2, <2>5
  <2> QED
    BY <2>2, <2>6, <2>a, <2>b
<1>c. PICK T : T = {i \in 0 .. n : h[o[i]] = f[i]}
  OBVIOUS
<1>11. 0 \in T
  BY <1>0, <1>5, <1>6, <1>8, <1>c
<1>12. ASSUME NEW i \in 1 .. n, i - 1 \in T
       PROVE  i \in T
  <2>0. i \in 0 .. n /\ i - 1 \in 0 .. n /\ h[o[i - 1]] = f[i - 1] /\ f[i - 1] \in Seq(LineType)
    BY <1>0, <1>5, <1>12, <1>c
  <2>1. CASE InBlock(lines, i)
    <3>1. o[i] = o[i - 1]
      BY <2>1, <1>a DEF RewrittenAs
    <3>2. x[i] = <<>> /\ f[i] = f[i - 1] \o x[i]
      BY <1>1, <1>5, <2>1
    <3>3. f[i] = f[i - 1]
      BY <2>0, <3>2, ConcatEmptySeq
    <3> QED
      BY <2>0, <3>1, <3>3, <1>c
  <2>2. CASE ~InBlock(lines, i)
    <3>a. PICK p : p = At(o, i)
      OBVIOUS
    <3>1. p \in 1 .. l /\ r[p] = lines[i] /\ ~InBlock(r, p) /\ p - 1 = o[i - 1]
      <4>1. p \in 1 .. l /\ r[p] = lines[i] /\ o[i - 1] \in Nat
        BY <2>2, <3>a, <1>a, Places
      <4>2. ~InBlock(r, p)
        BY <2>2, <3>a, <1>7, <1>a DEF SameBlocks
      <4> QED
        BY <4>1, <4>2, <3>a DEF At
    <3>2. y[p] = x[i]
      BY <1>1, <1>2, <2>2, <3>1
    <3>3. h[p] = f[i]
      <4>1. h[p] = h[p - 1] \o y[p] /\ f[i] = f[i - 1] \o x[i]
        BY <1>5, <1>6, <3>1
      <4> QED
        BY <2>0, <3>1, <3>2, <4>1
    <3>4. h[o[i]] = h[p]
      <4>1. CASE lines[i].kind = "begin"
        <5>1. i \in LinesOf(lines, {"begin"})
          BY <4>1, <1>0, <1>a, LenProperties DEF LinesOf
        <5> QED
          BY <1>10, <3>a, <5>1
      <4>2. CASE lines[i].kind # "begin"
        BY <4>2, <2>2, <3>a, <1>a DEF RewrittenAs, At
      <4> QED
        BY <4>1, <4>2
    <3> QED
      BY <2>0, <3>3, <3>4, <1>c
  <2> QED
    BY <2>1, <2>2
<1>13. T = 0 .. n
  <2>1. T \in SUBSET (0 .. n)
    BY <1>c
  <2> QED
    BY <1>0, <1>11, <1>12, <2>1, Upwards
<1>14. h[l] = f[n]
  <2>1. n \in T
    BY <1>0, <1>13
  <2> QED
    BY <1>8, <1>c, <2>1
<1> QED
  BY <1>3, <1>4, <1>14, <1>b

LEMMA OutsideImage ==
    ASSUME NEW lines \in Seq(LineType)
    PROVE  OutsideBlocks(lines) = FlattenSeq(Image(lines, [l \in LineType |-> <<l>>]))
<1>a. PICK n : n = Len(lines)
  OBVIOUS
<1>b. PICK g : g = [l \in LineType |-> <<l>>]
  OBVIOUS
<1>1. DOMAIN lines = 1 .. n /\ \A i \in 1 .. n : lines[i] \in LineType
  BY <1>a, LenProperties, ElementOfSeq
<1>2. \A i \in 1 .. n : g[lines[i]] = <<lines[i]>>
  BY <1>1, <1>b
<1>3. Image(lines, g) = [i \in DOMAIN lines |-> IF InBlock(lines, i) THEN <<>> ELSE <<lines[i]>>]
  BY <1>1, <1>2, <1>a DEF Image
<1> QED
  BY <1>3, <1>b DEF OutsideBlocks

EntryLinesOf(e, b) == [k \in DOMAIN e[b] |-> Entry(e[b][k])]
Filled(e) ==
    [l \in LineType |-> IF l.kind = "begin" /\ l.name \in Backends
                        THEN <<l>> \o EntryLinesOf(e, l.name) ELSE <<l>>]

LEMMA RewriteImage ==
    ASSUME NEW lines, WellMarked(lines), NEW e \in EntriesType
    PROVE  /\ Filled(e) \in [LineType -> Seq(LineType)]
           /\ Rewrite(lines, e) = FlattenSeq(Image(lines, Filled(e)))
<1>a. PICK n : n = Len(lines)
  OBVIOUS
<1>b. PICK g : g = Filled(e)
  OBVIOUS
<1>1. DOMAIN lines = 1 .. n /\ \A i \in 1 .. n : lines[i] \in LineType
  BY <1>a, LenProperties, ElementOfSeq DEF WellMarked
<1>2. ASSUME NEW l \in LineType
      PROVE  (IF l.kind = "begin" /\ l.name \in Backends
              THEN <<l>> \o EntryLinesOf(e, l.name) ELSE <<l>>) \in Seq(LineType)
  <2>1. <<l>> \in Seq(LineType)
    OBVIOUS
  <2>2. ASSUME l.name \in Backends
        PROVE  <<l>> \o EntryLinesOf(e, l.name) \in Seq(LineType)
    <3>1. e[l.name] \in Seq(Servers)
      BY <2>2 DEF EntriesType
    <3>2. EntryLinesOf(e, l.name) \in Seq(LineType)
      BY <3>1, EntryLines DEF EntryLinesOf
    <3> QED
      BY <2>1, <3>2, ConcatProperties
  <2> QED
    BY <2>1, <2>2
<1>3. g \in [LineType -> Seq(LineType)]
  BY <1>2, <1>b DEF Filled
<1>4. \A l \in LineType : g[l] = IF l.kind = "begin" /\ l.name \in Backends
                                  THEN <<l>> \o EntryLinesOf(e, l.name) ELSE <<l>>
  BY <1>b DEF Filled
<1>5. ASSUME NEW i \in 1 .. n
      PROVE  Piece(lines, e, i) = IF InBlock(lines, i) THEN <<>> ELSE g[lines[i]]
  <2>1. CASE lines[i].kind = "begin"
    <3>1. i \in LinesOf(lines, {"begin"}) /\ i \in Markers(lines)
      BY <1>1, <2>1 DEF LinesOf, Markers
    <3>2. ~InBlock(lines, i) /\ lines[i].name \in Backends
      BY <3>1, MarkersOutside DEF WellMarked
    <3>3. g[lines[i]] = <<lines[i]>> \o EntryLinesOf(e, lines[i].name)
      BY <1>1, <1>4, <2>1, <3>2
    <3> QED
      BY <2>1, <3>2, <3>3 DEF Piece, EntryLinesOf
  <2>2. CASE lines[i].kind # "begin"
    BY <1>1, <1>4, <2>2 DEF Piece
  <2> QED
    BY <2>1, <2>2
<1>c. PICK x : x = [i \in 1 .. n |-> Piece(lines, e, i)]
  OBVIOUS
<1>6. x = Image(lines, g)
  BY <1>5, <1>a, <1>c DEF Image
<1>7. Rewrite(lines, e) = FlattenSeq(x)
  BY <1>1, <1>c DEF Rewrite, Piece
<1> QED
  BY <1>3, <1>6, <1>7, <1>b

\* What rewriting a config leaves: its lines outside the blocks, its blocks, and,
\* if it is done again, everything.
LEMMA RewriteKeeps ==
    ASSUME NEW lines, WellMarked(lines), NEW e \in EntriesType
    PROVE  /\ WellMarked(Rewrite(lines, e))
           /\ BlocksPresent(lines) => BlocksPresent(Rewrite(lines, e))
           /\ OutsideBlocks(Rewrite(lines, e)) = OutsideBlocks(lines)
           /\ Rewrite(Rewrite(lines, e), e) = Rewrite(lines, e)
<1>a. PICK r : r = Rewrite(lines, e)
  OBVIOUS
<1>1. PICK o : RewrittenAs(lines, e, r, o)
  BY <1>a, Rewritten
<1>2. WellMarked(r) /\ SameBlocks(lines, r, o)
  BY <1>1, BlocksKept
<1>3. lines \in Seq(LineType) /\ r \in Seq(LineType)
  BY <1>2 DEF WellMarked
<1>4. BlocksPresent(lines) => BlocksPresent(r)
  BY <1>2 DEF BlocksPresent, SameBlocks
<1>5. OutsideBlocks(r) = OutsideBlocks(lines)
  <2>b. PICK g : g = [l \in LineType |-> <<l>>]
    OBVIOUS
  <2>1. g \in [LineType -> Seq(LineType)]
    <3>1. \A l \in LineType : <<l>> \in Seq(LineType)
      OBVIOUS
    <3> QED
      BY <3>1, <2>b
  <2>2. FlattenSeq(Image(r, g)) = FlattenSeq(Image(lines, g))
    BY <1>1, <2>1, SameImage
  <2> QED
    BY <1>3, <2>2, <2>b, OutsideImage
<1>6. Rewrite(r, e) = r
  <2>b. PICK g : g = Filled(e)
    OBVIOUS
  <2>1. g \in [LineType -> Seq(LineType)] /\ r = FlattenSeq(Image(lines, g))
    BY <1>a, <2>b, RewriteImage
  <2>2. Rewrite(r, e) = FlattenSeq(Image(r, g))
    BY <1>2, <2>b, RewriteImage
  <2>3. FlattenSeq(Image(r, g)) = FlattenSeq(Image(lines, g))
    BY <1>1, <2>1, SameImage
  <2> QED
    BY <2>1, <2>2, <2>3
<1> QED
  BY <1>2, <1>4, <1>5, <1>6, <1>a
----------------------------------------------------------------------------
(* Sections.                                                               *)

Heads(lines, i) == {j \in LinesOf(lines, {"backend"}) : j <= i}

\* The section of a line is the one of the last head before it.
LEMMA GreatestOf ==
    ASSUME NEW n \in Nat, NEW T \in SUBSET (0 .. n), T # {}
    PROVE  \E m \in T : \A k \in T : k <= m
<1>a. PICK away : away = {d \in 0 .. n : n - d \in T}
  OBVIOUS
<1>1. away \in SUBSET Nat
  BY <1>a
<1>2. away # {}
  <2>1. PICK t \in T : TRUE
    OBVIOUS
  <2>2. n - t \in 0 .. n /\ n - (n - t) = t
    BY <2>1
  <2> QED
    BY <1>a, <2>1, <2>2
<1>3. PICK d \in away : \A k \in away : d <= k
  BY <1>1, <1>2, LeastOf
<1>4. d \in 0 .. n /\ n - d \in T
  BY <1>3, <1>a
<1>5. ASSUME NEW k \in T
      PROVE  k <= n - d
  <2>1. k \in 0 .. n
    OBVIOUS
  <2>2. n - k \in 0 .. n /\ n - (n - k) = k
    BY <2>1
  <2>3. n - k \in away
    BY <2>2, <1>a
  <2>4. d <= n - k
    BY <1>3, <2>3
  <2> QED
    BY <1>4, <2>1, <2>4
<1> QED
  BY <1>4, <1>5

LEMMA SectionIs ==
    ASSUME NEW lines, DOMAIN lines \subseteq Nat, NEW i, NEW m \in Heads(lines, i),
           \A j \in Heads(lines, i) : j <= m
    PROVE  Section(lines, i) = lines[m].name
<1>a. PICK heads : heads = Heads(lines, i)
  OBVIOUS
<1>1. m \in heads /\ heads \subseteq Nat /\ \A j \in heads : j <= m
  BY <1>a DEF Heads, LinesOf
<1>2. \A j \in heads : (\A k \in heads : k <= j) => j = m
  BY <1>1
<1>3. (CHOOSE j \in heads : \A k \in heads : k <= j) = m
  BY <1>1, <1>2
<1>4. Section(lines, i) = IF heads = {} THEN NoName
                          ELSE lines[CHOOSE j \in heads : \A k \in heads : k <= j].name
  BY <1>a DEF Section, Heads
<1> QED
  BY <1>1, <1>3, <1>4

\* The lines that a line becomes are in the section it was in.
HeadsOutside(lines) == \A i \in LinesOf(lines, {"backend"}) : ~InBlock(lines, i)

LEMMA SectionsKept ==
    ASSUME NEW lines, WellMarked(lines), HeadsOutside(lines), NEW e \in EntriesType, NEW r, NEW o,
           RewrittenAs(lines, e, r, o)
    PROVE  /\ HeadsOutside(r)
           /\ \A i \in 1 .. Len(lines) : ~InBlock(lines, i) =>
                 \A p \in At(o, i) .. o[i] : Section(r, p) = Section(lines, i)
<1>a. PICK n, l : n = Len(lines) /\ l = Len(r)
  OBVIOUS
<1>0. DOMAIN lines = 1 .. n /\ DOMAIN r = 1 .. l /\ n \in Nat /\ l \in Nat
  BY <1>a, LenProperties DEF WellMarked, RewrittenAs
<1>1. ASSUME NEW j \in LinesOf(lines, {"backend"})
      PROVE  /\ j \in 1 .. n /\ ~InBlock(lines, j)
             /\ At(o, j) \in LinesOf(r, {"backend"}) /\ r[At(o, j)] = lines[j]
  <2>1. j \in 1 .. n /\ ~InBlock(lines, j) /\ lines[j].kind = "backend"
    BY <1>0 DEF LinesOf, HeadsOutside
  <2>2. At(o, j) \in 1 .. l /\ r[At(o, j)] = lines[j]
    BY <2>1, <1>a, Places
  <2> QED
    BY <1>0, <2>1, <2>2 DEF LinesOf
<1>2. ASSUME NEW p \in LinesOf(r, {"backend"})
      PROVE  \E j \in LinesOf(lines, {"backend"}) : p = At(o, j)
  <2>1. p \in 1 .. Len(r) /\ r[p].kind = "backend"
    BY <1>0, <1>a DEF LinesOf
  <2>2. PICK i \in 1 .. Len(lines) :
            /\ ~InBlock(lines, i)
            /\ \/ p = At(o, i)
               \/ i \in LinesOf(lines, {"begin"}) /\ p \in At(o, i) + 1 .. o[i]
    BY <2>1, RewrittenLine
  <2>3. p = At(o, i)
    <3>1. SUFFICES ASSUME i \in LinesOf(lines, {"begin"}), p \in At(o, i) + 1 .. o[i] PROVE FALSE
      BY <2>2
    <3>2. r[p].kind = "server"
      BY <3>1, EntriesAt
    <3> QED
      BY <2>1, <3>2
  <2>4. r[p] = lines[i]
    BY <2>2, <2>3, Places
  <2>5. i \in LinesOf(lines, {"backend"})
    BY <1>0, <1>a, <2>1, <2>4 DEF LinesOf
  <2> QED
    BY <2>3, <2>5
<1>3. HeadsOutside(r)
  <2>1. SameBlocks(lines, r, o)
    BY BlocksKept
  <2>2. ASSUME NEW p \in LinesOf(r, {"backend"})
        PROVE  ~InBlock(r, p)
    <3>1. PICK j \in LinesOf(lines, {"backend"}) : p = At(o, j)
      BY <1>2
    <3> QED
      BY <1>1, <1>a, <2>1, <3>1 DEF SameBlocks
  <2> QED
    BY <2>2 DEF HeadsOutside
<1>4. ASSUME NEW i \in 1 .. n, ~InBlock(lines, i), NEW p \in At(o, i) .. o[i]
      PROVE  Section(r, p) = Section(lines, i)
  <2>1. /\ At(o, i) \in 1 .. l /\ o[i] \in Nat
        /\ \A j \in 1 .. n : i < j => o[i] < At(o, j)
    BY <1>4, <1>a, Places
  <2>2. p \in Nat /\ At(o, i) <= p /\ p <= o[i] /\ At(o, i) \in Nat
    BY <1>0, <2>1
  <2>3. ASSUME NEW j \in LinesOf(lines, {"backend"})
        PROVE  At(o, j) <= p <=> j <= i
    <3>1. j \in 1 .. n /\ ~InBlock(lines, j) /\ At(o, j) \in Nat
      BY <1>0, <1>1 DEF LinesOf
    <3>2. j < i => At(o, j) < At(o, i)
      BY <1>a, <3>1, Places
    <3>3. i < j => o[i] < At(o, j)
      BY <2>1, <3>1
    <3>4. j < i \/ j = i \/ i < j
      BY <3>1
    <3>5. CASE j < i
      BY <2>2, <3>1, <3>2, <3>5
    <3>6. CASE j = i
      BY <2>2, <3>1, <3>6
    <3>7. CASE i < j
      BY <2>1, <2>2, <3>1, <3>3, <3>7
    <3> QED
      BY <3>4, <3>5, <3>6, <3>7
  <2>4. CASE Heads(lines, i) = {}
    <3>1. Heads(r, p) = {}
      <4>1. SUFFICES ASSUME NEW q \in Heads(r, p) PROVE FALSE
        OBVIOUS
      <4>2. PICK j \in LinesOf(lines, {"backend"}) : q = At(o, j)
        BY <1>2 DEF Heads
      <4>3. j <= i
        BY <2>3, <4>2 DEF Heads
      <4> QED
        BY <2>4, <4>3 DEF Heads
    <3> QED
      BY <2>4, <3>1 DEF Section, Heads
  <2>5. CASE Heads(lines, i) # {}
    <3>1. PICK m \in Heads(lines, i) : \A j \in Heads(lines, i) : j <= m
      <4>1. Heads(lines, i) \in SUBSET (0 .. n)
        BY <1>0 DEF Heads, LinesOf
      <4> QED
        BY <1>0, <2>5, <4>1, GreatestOf
    <3>2. m \in LinesOf(lines, {"backend"}) /\ m <= i
      BY DEF Heads
    <3>3. At(o, m) \in Heads(r, p) /\ r[At(o, m)] = lines[m]
      BY <1>1, <2>3, <3>2 DEF Heads
    <3>4. ASSUME NEW q \in Heads(r, p)
          PROVE  q <= At(o, m)
      <4>1. PICK j \in LinesOf(lines, {"backend"}) : q = At(o, j)
        BY <1>2 DEF Heads
      <4>2. j <= i
        BY <2>3, <4>1 DEF Heads
      <4>3. j <= m
        BY <3>1, <4>2 DEF Heads
      <4>4. j \in 1 .. n /\ m \in 1 .. n /\ ~InBlock(lines, j) /\ At(o, j) \in Nat /\ At(o, m) \in Nat
        BY <1>0, <1>1, <3>2 DEF LinesOf
      <4>5. j < m => At(o, j) < At(o, m)
        BY <1>a, <4>4, Places
      <4>6. CASE j < m
        BY <4>1, <4>4, <4>5, <4>6
      <4>7. CASE j = m
        BY <4>1, <4>4, <4>7
      <4> QED
        BY <4>3, <4>4, <4>6, <4>7
    <3>5. Section(r, p) = lines[m].name
      <4>1. DOMAIN r \subseteq Nat
        BY <1>0
      <4>2. Section(r, p) = r[At(o, m)].name
        BY <3>3, <3>4, <4>1, SectionIs
      <4> QED
        BY <3>3, <4>2
    <3>6. Section(lines, i) = lines[m].name
      <4>1. DOMAIN lines \subseteq Nat
        BY <1>0
      <4> QED
        BY <3>1, <4>1, SectionIs
    <3> QED
      BY <3>5, <3>6
  <2> QED
    BY <2>4, <2>5
<1> QED
  BY <1>3, <1>4, <1>a
----------------------------------------------------------------------------
(* State files.                                                            *)

\* The elements of the result are elements of the sequences.
LEMMA FlatType ==
    ASSUME NEW S, NEW seqs \in Seq(Seq(S))
    PROVE  FlattenSeq(seqs) \in Seq(S)
<1>1. PICK o : Laid(S, seqs, FlattenSeq(seqs), o)
  BY LaidOut
<1> QED
  BY <1>1 DEF Laid

Field(file, row, c) == row[IndexOfColumn(file.header, c)]
ServerIn(file, row) ==
    [name |-> Field(file, row, "srv_name"), addr |-> Field(file, row, "srv_addr"),
     port |-> Field(file, row, "srv_port")]
Rows(file, b) ==
    [k \in DOMAIN file.rows |->
        IF Usable(file, file.rows[k]) /\ Field(file, file.rows[k], "be_name") = b
        THEN <<ServerIn(file, file.rows[k])>> ELSE <<>>]

LEMMA UsableServer ==
    ASSUME NEW file, Readable(file), NEW k \in 1 .. Len(file.rows), Usable(file, file.rows[k])
    PROVE  ServerIn(file, file.rows[k]) \in Servers
<1>a. PICK row : row = file.rows[k]
  OBVIOUS
<1>1. row \in ToSet(file.rows)
  <2>1. DOMAIN file.rows = 1 .. Len(file.rows)
    BY LenProperties DEF Readable
  <2> QED
    BY <1>a, <2>1 DEF ToSet
<1>2. /\ Field(file, row, "srv_name") \in ServerNames
      /\ Field(file, row, "srv_addr") \in Addresses \cup {NoAddress}
  BY <1>1, <1>a DEF Readable, Field
<1>3. /\ Field(file, row, "srv_addr") # NoAddress
      /\ Field(file, row, "srv_port") \in UsablePorts
  BY <1>a DEF Usable, Field
<1> QED
  BY <1>2, <1>3, <1>a DEF ServerIn, Servers

LEMMA RowsType ==
    ASSUME NEW file, Readable(file), NEW b
    PROVE  /\ Rows(file, b) \in Seq(Seq(Servers)) /\ Len(Rows(file, b)) = Len(file.rows)
           /\ Len(file.rows) \in Nat
<1>a. PICK n : n = Len(file.rows)
  OBVIOUS
<1>b. PICK q : q = Rows(file, b)
  OBVIOUS
<1>1. DOMAIN file.rows = 1 .. n /\ n \in Nat
  BY <1>a, LenProperties DEF Readable
<1>2. \A k \in 1 .. n :
        (IF Usable(file, file.rows[k]) /\ Field(file, file.rows[k], "be_name") = b
         THEN <<ServerIn(file, file.rows[k])>> ELSE <<>>) \in Seq(Servers)
  <2>1. \A k \in 1 .. n : Usable(file, file.rows[k]) => ServerIn(file, file.rows[k]) \in Servers
    BY <1>a, UsableServer
  <2>2. \A s \in Servers : <<s>> \in Seq(Servers)
    OBVIOUS
  <2> QED
    BY <2>1, <2>2, EmptySeq
<1>3. q \in [1 .. n -> Seq(Servers)]
  BY <1>1, <1>2, <1>b DEF Rows
<1>4. q \in Seq(Seq(Servers))
  BY <1>1, <1>3, IsASeq
<1>5. Len(q) = n
  <2>1. DOMAIN q = 1 .. n
    BY <1>3
  <2> QED
    BY <1>1, <1>4, <2>1, LenProperties
<1> QED
  BY <1>1, <1>4, <1>5, <1>a, <1>b

LEMMA ParseIs ==
    ASSUME NEW file, Readable(file)
    PROVE  /\ Parse(file) \in EntriesType
           /\ \A b \in Backends : Parse(file)[b] = FlattenSeq(Rows(file, b))
<1>a. PICK e : e = Parse(file)
  OBVIOUS
<1>1. e = [b \in Backends |-> FlattenSeq(Rows(file, b))]
  BY <1>a DEF Parse, Rows, ServerIn, Field
<1>2. \A b \in Backends : FlattenSeq(Rows(file, b)) \in Seq(Servers)
  BY RowsType, FlatType
<1>3. e \in EntriesType
  BY <1>1, <1>2 DEF EntriesType
<1> QED
  BY <1>1, <1>3, <1>a

\* Finite sets: images, and SetToSeq, which lists each element once.
LEMMA ImageFinite ==
    ASSUME NEW S, IsFiniteSet(S), NEW f
    PROVE  IsFiniteSet({f[x] : x \in S})
<1>a. PICK T : T = {f[x] : x \in S}
  OBVIOUS
<1>b. PICK g : g = [x \in S |-> f[x]]
  OBVIOUS
<1>1. g \in [S -> T] /\ \A t \in T : \E x \in S : g[x] = t
  BY <1>a, <1>b
<1>2. g \in Surjection(S, T)
  BY <1>1, Fun_IsSurj
<1> QED
  BY <1>2, <1>a, FS_Surjection

Lists(p, S) ==
    /\ p \in Seq(S)
    /\ \A i, j \in 1 .. Len(p) : p[i] = p[j] => i = j
    /\ \A x \in S : \E i \in 1 .. Len(p) : p[i] = x

LEMMA SetListed ==
    ASSUME NEW S, IsFiniteSet(S)
    PROVE  Lists(SetToSeq(S), S)
<1>a. PICK n : n = Cardinality(S)
  OBVIOUS
<1>b. PICK p : p = SetToSeq(S)
  OBVIOUS
<1>1. n \in Nat /\ ExistsBijection(1 .. n, S)
  BY <1>a, FS_CardinalityType
<1>2. PICK f : f \in Bijection(1 .. n, S)
  BY <1>1 DEF ExistsBijection
<1>3. f \in [1 .. n -> S] /\ IsInjective(f)
  <2>1. f \in [1 .. n -> S] /\ \A a, b \in 1 .. n : f[a] = f[b] => a = b
    BY <1>2, Fun_BijectionProperties
  <2> QED
    BY <2>1 DEF IsInjective
<1>4. p \in [1 .. n -> S] /\ IsInjective(p)
  <2>1. p = CHOOSE g \in [1 .. n -> S] : IsInjective(g)
    BY <1>a, <1>b DEF SetToSeq
  <2> QED
    BY <1>3, <2>1
<1>5. \A a, b \in 1 .. n : p[a] = p[b] => a = b
  BY <1>4 DEF IsInjective
<1>6. p \in Injection(1 .. n, S)
  BY <1>4, <1>5, Fun_IsInj
<1>7. Cardinality(1 .. n) = Cardinality(S)
  <2>1. Cardinality(1 .. n) = n
    <3>1. 1 \in Int /\ n \in Int /\ (1 > n => n = 0) /\ n - 1 + 1 = n
      BY <1>1
    <3> QED
      BY <3>1, FS_Interval
  <2> QED
    BY <1>a, <2>1
<1>8. p \in Surjection(1 .. n, S)
  <2>1. Cardinality(1 .. n) = Cardinality(S) <=> p \in Surjection(1 .. n, S)
    BY <1>6, FS_Injection
  <2> QED
    BY <1>7, <2>1
<1>9. \A x \in S : \E i \in 1 .. n : p[i] = x
  BY <1>8 DEF Surjection
<1>10. p \in Seq(S) /\ Len(p) = n
  <2>1. p \in Seq(S)
    BY <1>1, <1>4, IsASeq
  <2>2. DOMAIN p = 1 .. n
    BY <1>4
  <2> QED
    BY <1>1, <2>1, <2>2, LenProperties
<1> QED
  BY <1>5, <1>9, <1>10, <1>b DEF Lists

\* What "show servers state" writes can be read: a row for each server.
Known(servers) ==
    servers \in [Backends -> SUBSET ServerType] /\ \A b \in Backends : IsFiniteSet(servers[b])
Pairs(servers) == UNION {{b} \X servers[b] : b \in Backends}

FieldOf(b, s, c) == CASE c = "be_name" -> b
                      [] c = "srv_name" -> s.name
                      [] c = "srv_addr" -> s.addr
                      [] c = "srv_port" -> s.port
                      [] OTHER -> NoName

LEMMA PairsFinite ==
    ASSUME NEW servers, Known(servers)
    PROVE  IsFiniteSet(Pairs(servers))
<1>a. PICK f : f = [b \in Backends |-> {b} \X servers[b]]
  OBVIOUS
<1>b. PICK all : all = {f[b] : b \in Backends}
  OBVIOUS
<1>1. IsFiniteSet(all)
  BY <1>b, BackendsAssumption, ImageFinite
<1>2. \A b \in Backends : IsFiniteSet(f[b])
  <2>1. ASSUME NEW b \in Backends
        PROVE  IsFiniteSet({b} \X servers[b])
    <3>1. IsFiniteSet({b}) /\ IsFiniteSet(servers[b])
      BY FS_Singleton DEF Known
    <3> QED
      BY <3>1, FS_Product
  <2> QED
    BY <2>1, <1>a
<1>3. IsFiniteSet(UNION all)
  <2>1. \A T \in all : IsFiniteSet(T)
    BY <1>2, <1>b
  <2> QED
    BY <1>1, <2>1, FS_UNION
<1>4. all = {{b} \X servers[b] : b \in Backends}
  BY <1>a, <1>b
<1> QED
  BY <1>3, <1>4 DEF Pairs

LEMMA FieldType ==
    ASSUME NEW b \in Backends, NEW s \in ServerType, NEW c
    PROVE  FieldOf(b, s, c) \in Fields
<1>1. s.name \in ServerNames /\ s.addr \in Addresses \cup {NoAddress} /\ s.port \in Ports
  BY DEF ServerType
<1>2. c = "be_name" => FieldOf(b, s, c) = b
  BY DEF FieldOf
<1>3. c = "srv_name" => FieldOf(b, s, c) = s.name
  BY DEF FieldOf
<1>4. c = "srv_addr" => FieldOf(b, s, c) = s.addr
  BY DEF FieldOf
<1>5. c = "srv_port" => FieldOf(b, s, c) = s.port
  BY DEF FieldOf
<1>6. c \notin {"be_name", "srv_name", "srv_addr", "srv_port"} => FieldOf(b, s, c) = NoName
  BY DEF FieldOf
<1> QED
  BY <1>1, <1>2, <1>3, <1>4, <1>5, <1>6 DEF Fields

\* A row has in a column what the column is named for.
RowOf(header, b, s, row) == row = [i \in DOMAIN header |-> FieldOf(b, s, header[i])]

LEMMA ColumnFound ==
    ASSUME NEW header \in Layouts, NEW c \in Columns, NEW b, NEW s, NEW row,
           RowOf(header, b, s, row)
    PROVE  /\ IndexOfColumn(header, c) \in 1 .. Len(header) /\ Len(row) = Len(header)
           /\ Len(header) \in Nat /\ row[IndexOfColumn(header, c)] = FieldOf(b, s, c)
<1>a. PICK n : n = Len(header)
  OBVIOUS
<1>1. c \in ToSet(header) /\ header \in Seq(ToSet(header))
  BY LayoutsAssumption
<1>2. DOMAIN header = 1 .. n /\ n \in Nat
  BY <1>1, <1>a, LenProperties
<1>b. PICK i : i = IndexOfColumn(header, c)
  OBVIOUS
<1>3. i \in DOMAIN header /\ header[i] = c
  <2>1. \E j \in DOMAIN header : header[j] = c
    BY <1>1 DEF ToSet
  <2>2. i = CHOOSE j \in DOMAIN header : header[j] = c
    BY <1>1, <1>b DEF IndexOfColumn
  <2> QED
    BY <2>1, <2>2
<1>4. row[i] = FieldOf(b, s, c)
  BY <1>3 DEF RowOf
<1>5. Len(row) = n
  <2>1. DOMAIN row = 1 .. n
    BY <1>2 DEF RowOf
  <2>2. row \in Seq({row[j] : j \in 1 .. n})
    <3>1. row \in [1 .. n -> {row[j] : j \in 1 .. n}]
      BY <1>2 DEF RowOf
    <3> QED
      BY <1>2, <3>1, IsASeq
  <2> QED
    BY <1>2, <2>1, <2>2, LenProperties
<1> QED
  BY <1>2, <1>3, <1>4, <1>5, <1>a, <1>b

ShownAs(file, servers, p) ==
    /\ Lists(p, Pairs(servers)) /\ file.version = 1
    /\ Len(file.rows) = Len(p) /\ DOMAIN file.rows = 1 .. Len(p)
    /\ \A k \in 1 .. Len(p) :
          /\ Field(file, file.rows[k], "be_name") = p[k][1]
          /\ ServerIn(file, file.rows[k]) = p[k][2]
          /\ Usable(file, file.rows[k]) <=> p[k][2].addr # NoAddress /\ p[k][2].port \in UsablePorts

LEMMA ShowIs ==
    ASSUME layout \in Layouts, NEW servers, Known(servers)
    PROVE  Readable(Show(servers)) /\ \E p : ShownAs(Show(servers), servers, p)
<1>a. PICK p : p = SetToSeq(Pairs(servers))
  OBVIOUS
<1>b. PICK file : file = Show(servers)
  OBVIOUS
<1>c. PICK n : n = Len(p)
  OBVIOUS
<1>1. Lists(p, Pairs(servers))
  BY <1>a, PairsFinite, SetListed
<1>2. DOMAIN p = 1 .. n /\ n \in Nat /\ p \in Seq(Pairs(servers))
  BY <1>1, <1>c, LenProperties DEF Lists
<1>d. PICK rows : rows = [k \in 1 .. n |-> [i \in DOMAIN layout |-> FieldOf(p[k][1], p[k][2], layout[i])]]
  OBVIOUS
<1>3. file = [version |-> 1, header |-> layout, rows |-> rows]
  BY <1>a, <1>b, <1>d, <1>2 DEF Show, Pairs, FieldOf
<1>4. file.version = 1 /\ file.header = layout /\ file.rows = rows
  BY <1>3
<1>5. ASSUME NEW k \in 1 .. n
      PROVE  /\ p[k][1] \in Backends /\ p[k][2] \in servers[p[k][1]] /\ p[k][2] \in ServerType
             /\ RowOf(layout, p[k][1], p[k][2], rows[k])
  <2>1. p[k] \in Pairs(servers)
    BY <1>2, <1>c, ElementOfSeq
  <2>2. PICK b \in Backends : p[k] \in {b} \X servers[b]
    BY <2>1 DEF Pairs
  <2>3. p[k][1] = b /\ p[k][2] \in servers[b]
    BY <2>2
  <2> QED
    BY <2>2, <2>3, <1>d DEF Known, RowOf
<1>6. ASSUME NEW k \in 1 .. n, NEW c \in Columns
      PROVE  /\ IndexOfColumn(layout, c) <= Len(rows[k])
             /\ Field(file, rows[k], c) = FieldOf(p[k][1], p[k][2], c)
  <2>1. /\ IndexOfColumn(layout, c) \in 1 .. Len(layout) /\ Len(rows[k]) = Len(layout)
        /\ Len(layout) \in Nat
        /\ rows[k][IndexOfColumn(layout, c)] = FieldOf(p[k][1], p[k][2], c)
    BY <1>5, ColumnFound
  <2>2. Field(file, rows[k], c) = rows[k][IndexOfColumn(layout, c)]
    BY <1>4 DEF Field
  <2>3. IndexOfColumn(layout, c) <= Len(rows[k])
    BY <2>1
  <2> QED
    BY <2>1, <2>2, <2>3
<1>7. ASSUME NEW k \in 1 .. n
      PROVE  /\ Field(file, rows[k], "be_name") = p[k][1]
             /\ Field(file, rows[k], "srv_name") = p[k][2].name
             /\ Field(file, rows[k], "srv_addr") = p[k][2].addr
             /\ Field(file, rows[k], "srv_port") = p[k][2].port
  <2>1. {"be_name", "srv_name", "srv_addr", "srv_port"} \subseteq Columns
    BY DEF Columns
  <2>2. \A b, s : /\ FieldOf(b, s, "be_name") = b /\ FieldOf(b, s, "srv_name") = s.name
                  /\ FieldOf(b, s, "srv_addr") = s.addr /\ FieldOf(b, s, "srv_port") = s.port
    BY DEF FieldOf
  <2> QED
    BY <1>6, <2>1, <2>2
<1>8. ASSUME NEW k \in 1 .. n
      PROVE  Usable(file, rows[k]) <=> p[k][2].addr # NoAddress /\ p[k][2].port \in UsablePorts
  BY <1>4, <1>6, <1>7 DEF Usable, Field
<1>9. ASSUME NEW k \in 1 .. n
      PROVE  ServerIn(file, rows[k]) = p[k][2]
  <2>1. p[k][2] = [name |-> p[k][2].name, addr |-> p[k][2].addr, port |-> p[k][2].port]
    BY <1>5 DEF ServerType
  <2> QED
    BY <1>7, <2>1 DEF ServerIn
<1>10. rows \in Seq(Seq(Fields)) /\ Len(rows) = n /\ DOMAIN rows = 1 .. n
  <2>a. PICK m : m = Len(layout)
    OBVIOUS
  <2>1. DOMAIN layout = 1 .. m /\ m \in Nat
    <3>1. layout \in Seq(ToSet(layout))
      BY LayoutsAssumption
    <3> QED
      BY <2>a, <3>1, LenProperties
  <2>2. ASSUME NEW k \in 1 .. n
        PROVE  rows[k] \in Seq(Fields)
    <3>1. \A i \in 1 .. m : FieldOf(p[k][1], p[k][2], layout[i]) \in Fields
      BY <1>5, FieldType
    <3>2. rows[k] \in [1 .. m -> Fields]
      BY <1>5, <2>1, <3>1 DEF RowOf
    <3> QED
      BY <2>1, <3>2, IsASeq
  <2>3. rows \in [1 .. n -> Seq(Fields)]
    <3>1. rows = [k \in 1 .. n |-> rows[k]]
      BY <1>d
    <3> QED
      BY <2>2, <3>1
  <2>4. rows \in Seq(Seq(Fields))
    BY <1>2, <2>3, IsASeq
  <2>5. DOMAIN rows = 1 .. n
    BY <1>d
  <2> QED
    BY <1>2, <2>4, <2>5, LenProperties
<1>11. Readable(file)
  <2>1. ASSUME NEW row \in ToSet(rows), Usable(file, row)
        PROVE  /\ row[IndexOfColumn(file.header, "srv_name")] \in ServerNames
               /\ row[IndexOfColumn(file.header, "srv_addr")] \in Addresses \cup {NoAddress}
    <3>1. PICK k \in 1 .. n : row = rows[k]
      BY <1>10 DEF ToSet
    <3>2. p[k][2].name \in ServerNames /\ p[k][2].addr \in Addresses \cup {NoAddress}
      BY <1>5 DEF ServerType
    <3> QED
      BY <1>7, <3>1, <3>2 DEF Field
  <2> QED
    BY <1>4, <1>10, <2>1 DEF Readable
<1>12. ShownAs(file, servers, p)
  BY <1>1, <1>4, <1>7, <1>8, <1>9, <1>10, <1>c DEF ShownAs
<1> QED
  BY <1>11, <1>12, <1>b
----------------------------------------------------------------------------
(* The inductive invariant.                                                *)

TypeInv ==
    /\ layout \in Layouts /\ pc \in {"up", "read", "parse", "rewrite", "load"}
    /\ alive \in BOOLEAN /\ unsaved \in BOOLEAN /\ synced \in BOOLEAN
    /\ Known(running) /\ Known(saved) /\ entries \in EntriesType
    /\ (pc = "up" => alive) /\ quiet \in {"none", "begun", "synced"}
    /\ restarts \in 0 .. MaxRestarts /\ edits \in 0 .. MaxEdits
    /\ Authored(config) /\ (pc \in {"parse", "rewrite"} => Authored(got))
    /\ (stateFile # NoFile => Readable(stateFile))

FileEntries == IF stateFile = NoFile THEN NoEntries ELSE Parse(stateFile)

\* Since the files are left alone, a sync works on them as they are, and what
\* one has written another would write again.
SyncInv ==
    /\ quiet # "none" /\ pc \in {"parse", "rewrite"} => got = config
    /\ quiet # "none" /\ pc = "rewrite" => entries = FileEntries
    /\ quiet = "synced" =>
          /\ WellMarked(config) /\ BlocksPresent(config)
          /\ Rewrite(config, FileEntries) = config

\* What HAProxy has after it loaded a config.
LEMMA ConfiguredType ==
    ASSUME NEW lines, Authored(lines), NEW b
    PROVE  Configured(lines, b) \subseteq ServerType /\ IsFiniteSet(Configured(lines, b))
<1>a. PICK n : n = Len(lines)
  OBVIOUS
<1>1. DOMAIN lines = 1 .. n /\ n \in Nat /\ \A i \in 1 .. n : lines[i] \in LineType
  BY <1>a, LenProperties, ElementOfSeq DEF Authored
<1>b. PICK at : at = {i \in LinesOf(lines, {"server", "slot"}) : Section(lines, i) = b}
  OBVIOUS
<1>c. PICK f : f = [i \in 1 .. n |-> [name |-> lines[i].name, addr |-> lines[i].addr, port |-> lines[i].port]]
  OBVIOUS
<1>2. at \subseteq 1 .. n
  BY <1>1, <1>b DEF LinesOf
<1>3. Configured(lines, b) = {f[i] : i \in at}
  BY <1>2, <1>b, <1>c DEF Configured
<1>4. IsFiniteSet(at)
  <2>1. \A k \in Nat : k \in Int /\ 1 \in Int
    OBVIOUS
  <2>2. \A k \in Nat : IsFiniteSet(1 .. k)
    BY <2>1, FS_Interval
  <2>3. IsFiniteSet(1 .. n)
    BY <1>1, <2>2
  <2> QED
    BY <1>2, <2>3, FS_Subset
<1>5. ASSUME NEW i \in at
      PROVE  f[i] \in ServerType
  <2>1. lines[i].name \in ServerNames
    BY <1>b DEF Authored
  <2>2. lines[i].addr \in Addresses \cup {NoAddress} /\ lines[i].port \in Ports
    BY <1>1, <1>2 DEF LineType
  <2>3. f[i] = [name |-> lines[i].name, addr |-> lines[i].addr, port |-> lines[i].port]
    BY <1>2, <1>c
  <2> QED
    BY <2>1, <2>2, <2>3 DEF ServerType
<1> QED
  BY <1>3, <1>4, <1>5, ImageFinite

Restored(c, set) == IF \E s \in set : s.name = c.name THEN CHOOSE s \in set : s.name = c.name ELSE c

Loaded(lines) == [b \in Backends |-> {Restored(c, saved[b]) : c \in Configured(lines, b)}]

LEMMA LoadedKnown ==
    ASSUME NEW lines, Authored(lines), Known(saved)
    PROVE  Known(Loaded(lines))
<1>s. PICK servers : servers = Loaded(lines)
  OBVIOUS
<1>1. ASSUME NEW b \in Backends
      PROVE  servers[b] \subseteq ServerType /\ IsFiniteSet(servers[b])
  <2>a. PICK all : all = Configured(lines, b)
    OBVIOUS
  <2>1. all \subseteq ServerType /\ IsFiniteSet(all)
    BY <2>a, ConfiguredType
  <2>b. PICK f : f = [c \in all |-> Restored(c, saved[b])]
    OBVIOUS
  <2>2. servers[b] = {f[c] : c \in all}
    BY <2>a, <2>b, <1>s DEF Loaded
  <2>3. \A c \in all : f[c] \in ServerType
    BY <2>1, <2>b DEF Restored, Known
  <2> QED
    BY <2>1, <2>2, <2>3, ImageFinite
<1>2. servers = [b \in Backends |-> servers[b]]
  BY <1>s DEF Loaded
<1> QED
  BY <1>1, <1>2, <1>s DEF Known

LEMMA RewrittenAuthored ==
    ASSUME NEW lines, Authored(lines), ~Malformed(lines), NEW e \in EntriesType
    PROVE  WellMarked(lines) /\ Authored(Rewrite(lines, e))
<1>1. WellMarked(lines)
  <2>1. ASSUME NEW b \in LinesOf(lines, {"begin"})
        PROVE  lines[b].name \in Backends
    BY DEF Authored, Malformed
  <2> QED
    BY <2>1 DEF Authored, WellMarked
<1>a. PICK r : r = Rewrite(lines, e)
  OBVIOUS
<1>2. PICK o : RewrittenAs(lines, e, r, o)
  BY <1>1, <1>a, Rewritten
<1>3. WellMarked(r)
  BY <1>1, <1>2, BlocksKept
<1>4. ASSUME NEW p \in LinesOf(r, {"server", "slot"})
      PROVE  r[p].name \in ServerNames
  <2>1. p \in 1 .. Len(r) /\ r[p].kind \in {"server", "slot"}
    BY <1>3, LenProperties DEF LinesOf, WellMarked
  <2>2. PICK i \in 1 .. Len(lines) :
            /\ ~InBlock(lines, i)
            /\ \/ p = At(o, i)
               \/ i \in LinesOf(lines, {"begin"}) /\ p \in At(o, i) + 1 .. o[i]
    BY <1>1, <1>2, <2>1, RewrittenLine
  <2>3. CASE p = At(o, i)
    <3>1. r[p] = lines[i]
      BY <1>1, <1>2, <2>2, <2>3, Places
    <3>2. i \in LinesOf(lines, {"server", "slot"})
      BY <1>1, <2>1, <3>1, LenProperties DEF LinesOf, WellMarked
    <3> QED
      BY <3>1, <3>2 DEF Authored
  <2>4. CASE i \in LinesOf(lines, {"begin"}) /\ p \in At(o, i) + 1 .. o[i]
    <3>a. PICK es, k : es = e[lines[i].name] /\ k = p - At(o, i)
      OBVIOUS
    <3>1. k \in 1 .. Len(es) /\ r[p] = Entry(es[k])
      BY <1>1, <1>2, <2>4, <3>a, EntriesAt
    <3>2. es \in Seq(Servers)
      BY <1>1, <2>4, <3>a DEF WellMarked, EntriesType
    <3>3. es[k] \in Servers
      BY <3>1, <3>2, ElementOfSeq
    <3> QED
      BY <3>1, <3>3 DEF Servers, Entry, Line
  <2> QED
    BY <2>2, <2>3, <2>4
<1> QED
  BY <1>1, <1>3, <1>4, <1>a DEF WellMarked, Authored

LEMMA NothingKnown == Known(NoServers) /\ NoEntries \in EntriesType
<1>1. IsFiniteSet({}) /\ <<>> \in Seq(Servers)
  BY FS_EmptySet, EmptySeq
<1> QED
  BY <1>1 DEF Known, NoServers, NoEntries, EntriesType

LEMMA TypeInit == Init => TypeInv
<1>1. HAVE Init
<1>2. Known(running) /\ Known(saved) /\ entries \in EntriesType
  BY <1>1, NothingKnown DEF Init
<1>3. Authored(config)
  BY <1>1, TemplatesAssumption DEF Init
<1>4. 0 \in 0 .. MaxRestarts /\ 0 \in 0 .. MaxEdits
  BY BoundsAssumption
<1>5. (stateFile # NoFile => Readable(stateFile)) /\ (pc \in {"parse", "rewrite"} => Authored(got))
  BY <1>1 DEF Init
<1> QED
  BY <1>1, <1>2, <1>3, <1>4, <1>5 DEF Init, TypeInv

LEMMA TypeReconcile ==
    ASSUME TypeInv, Reconcile
    PROVE  TypeInv'
<1>1. PICK r \in Reconciled :
         running' = [b \in Backends |-> IF r[b] = {} THEN Slots(running[b]) ELSE r[b]]
  BY DEF Reconcile
<1>2. ASSUME NEW b \in Backends
      PROVE  running'[b] \subseteq ServerType /\ IsFiniteSet(running'[b])
  <2>1. r[b] \subseteq ServerType /\ IsFiniteSet(r[b])
    BY ReconciledAssumption
  <2>2. running[b] \subseteq ServerType /\ IsFiniteSet(running[b])
    BY DEF TypeInv, Known
  <2>3. Slots(running[b]) \subseteq ServerType /\ IsFiniteSet(Slots(running[b]))
    BY <2>2, FS_Subset DEF Slots
  <2>4. running'[b] = Slots(running[b]) \/ running'[b] = r[b]
    BY <1>1
  <2> QED
    BY <2>1, <2>3, <2>4
<1>3. Known(running')
  <2>1. running' = [b \in Backends |-> running'[b]]
    BY <1>1
  <2> QED
    BY <1>2, <2>1 DEF Known
<1> QED
  BY <1>3 DEF TypeInv, Reconcile, SystemdFrame, files, syncVars, Known, Authored, Readable, Usable, EntriesType

LEMMA TypeSaveState ==
    ASSUME TypeInv, SaveState
    PROVE  TypeInv'
<1>1. /\ unsaved' = FALSE /\ config' = config /\ running' = running /\ alive' = alive /\ edits' = edits
      /\ layout' = layout /\ pc' = pc /\ got' = got /\ entries' = entries /\ synced' = synced
      /\ restarts' = restarts
  BY DEF SaveState, SystemdFrame, syncVars
<1>2. Known(saved)' /\ (stateFile' # NoFile => Readable(stateFile')) /\ quiet' \in {"none", "begun", "synced"}
  <2>1. CASE stateFile' = Show(running) /\ saved' = running /\ quiet' = "none"
    <3>1. Readable(Show(running))
      BY ShowIs DEF TypeInv
    <3> QED
      BY <2>1, <3>1 DEF TypeInv, Known
  <2>2. CASE UNCHANGED <<stateFile, saved, quiet>>
    BY <2>2 DEF TypeInv, Known
  <2> QED
    BY <2>1, <2>2 DEF SaveState
<1> QED
  BY <1>1, <1>2 DEF TypeInv, Known, Authored

LEMMA TypeEdit ==
    ASSUME TypeInv, Edit
    PROVE  TypeInv'
<1>1. /\ running' = running /\ alive' = alive /\ unsaved' = unsaved /\ quiet' = "none"
      /\ layout' = layout /\ pc' = pc /\ got' = got /\ entries' = entries /\ synced' = synced
      /\ restarts' = restarts
  BY DEF Edit, SystemdFrame, syncVars
<1>2. edits' \in 0 .. MaxEdits
  BY BoundsAssumption DEF TypeInv, Edit
<1>3. Authored(config') /\ Known(saved)' /\ (stateFile' # NoFile => Readable(stateFile'))
  <2>1. CASE config' \in Templates /\ UNCHANGED <<stateFile, saved>>
    BY <2>1, TemplatesAssumption DEF TypeInv, Known
  <2>2. CASE stateFile' \in OddFiles /\ saved' = NoServers /\ UNCHANGED config
    BY <2>2, OddFilesAssumption, NothingKnown DEF TypeInv, Known
  <2> QED
    BY <2>1, <2>2 DEF Edit
<1> QED
  BY <1>1, <1>2, <1>3 DEF TypeInv, Known

LEMMA TypeRestart ==
    ASSUME TypeInv, Restart
    PROVE  TypeInv'
<1>1. /\ config' = config /\ stateFile' = stateFile /\ got' = got /\ entries' = entries
      /\ quiet' = quiet /\ layout' = layout /\ unsaved' = unsaved /\ saved' = saved /\ edits' = edits
      /\ pc' = "read" /\ synced' = FALSE
  BY DEF Restart, GatewayFrame, files
<1>2. restarts' \in 0 .. MaxRestarts
  BY BoundsAssumption DEF TypeInv, Restart
<1>3. Known(running') /\ alive' \in BOOLEAN
  BY NothingKnown DEF TypeInv, Restart, Known
<1> QED
  BY <1>1, <1>2, <1>3 DEF TypeInv, Known

\* What every step of a sync leaves alone.
LEMMA TypeSync ==
    ASSUME TypeInv, SyncFrame, pc' # "up", pc' \in {"up", "read", "parse", "rewrite", "load"},
           synced' \in BOOLEAN, quiet' \in {"none", "begun", "synced"}, entries' \in EntriesType,
           Authored(config'), pc' \in {"parse", "rewrite"} => Authored(got')
    PROVE  TypeInv'
<1>1. /\ stateFile' = stateFile /\ running' = running /\ alive' = alive /\ restarts' = restarts
      /\ layout' = layout /\ unsaved' = unsaved /\ saved' = saved /\ edits' = edits
  BY DEF SyncFrame, GatewayFrame
<1> QED
  BY <1>1 DEF TypeInv, Known

LEMMA TypeFails ==
    ASSUME TypeInv, SyncFails, SyncFrame
    PROVE  TypeInv'
<1>1. /\ pc' = "load" /\ entries' = NoEntries /\ config' = config /\ synced' = synced /\ quiet' = quiet
  BY DEF SyncFails
<1>2. entries' \in EntriesType
  BY <1>1, NothingKnown
<1>3. synced' \in BOOLEAN /\ quiet' \in {"none", "begun", "synced"} /\ Authored(config')
  BY <1>1 DEF TypeInv
<1> QED
  BY <1>1, <1>2, <1>3, TypeSync

LEMMA TypeReadConfig ==
    ASSUME TypeInv, ReadConfig
    PROVE  TypeInv'
<1>1. /\ pc' = "parse" /\ got' = config /\ config' = config /\ entries' = entries /\ synced' = synced
      /\ quiet' = (IF quiet = "none" THEN "begun" ELSE quiet) /\ SyncFrame
  BY DEF ReadConfig
<1>2. /\ quiet' \in {"none", "begun", "synced"} /\ entries' \in EntriesType /\ synced' \in BOOLEAN
      /\ Authored(config') /\ Authored(got')
  BY <1>1 DEF TypeInv
<1> QED
  BY <1>1, <1>2, TypeSync

LEMMA FileEntriesType ==
    ASSUME TypeInv
    PROVE  FileEntries \in EntriesType
BY NothingKnown, ParseIs DEF TypeInv, FileEntries

LEMMA TypeParseStateFile ==
    ASSUME TypeInv, ParseStateFile
    PROVE  TypeInv'
<1>1. SyncFrame
  BY DEF ParseStateFile
<1>2. CASE SyncFails
  BY <1>1, <1>2, TypeFails
<1>3. CASE ~SyncFails
  <2>1. /\ pc = "parse" /\ entries' = FileEntries /\ pc' = "rewrite"
        /\ config' = config /\ got' = got /\ synced' = synced /\ quiet' = quiet
    BY <1>3 DEF ParseStateFile, FileEntries
  <2>2. /\ entries' \in EntriesType /\ Authored(config') /\ Authored(got') /\ synced' \in BOOLEAN
        /\ quiet' \in {"none", "begun", "synced"}
    BY <2>1, FileEntriesType DEF TypeInv
  <2> QED
    BY <1>1, <2>1, <2>2, TypeSync
<1> QED
  BY <1>2, <1>3

\* The two ways for the rewrite to end.
LEMMA WriteConfigIs ==
    ASSUME WriteConfig
    PROVE  /\ SyncFrame /\ pc = "rewrite" /\ pc' = "load" /\ got' = <<>> /\ entries' = NoEntries
           /\ \/ SyncFails
              \/ /\ ~Malformed(got) /\ BlocksPresent(got)
                 /\ Rewrite(got, entries) # got => config' = Rewrite(got, entries)
                 /\ Rewrite(got, entries) = got => config' = config
                 /\ synced' = TRUE /\ quiet' = IF quiet = "none" THEN "none" ELSE "synced"
BY DEF WriteConfig, SyncFails

LEMMA TypeWriteConfig ==
    ASSUME TypeInv, WriteConfig
    PROVE  TypeInv'
<1>1. SyncFrame /\ pc = "rewrite" /\ pc' = "load" /\ entries' = NoEntries
  BY WriteConfigIs
<1>2. CASE SyncFails
  BY <1>1, <1>2, TypeFails
<1>3. CASE ~SyncFails
  <2>1. /\ ~Malformed(got) /\ synced' = TRUE
        /\ quiet' = (IF quiet = "none" THEN "none" ELSE "synced")
        /\ config' = config \/ config' = Rewrite(got, entries)
    BY <1>3, WriteConfigIs
  <2>2. Authored(config')
    <3>1. Authored(got) /\ entries \in EntriesType /\ Authored(config)
      BY <1>1 DEF TypeInv
    <3>2. Authored(Rewrite(got, entries))
      BY <2>1, <3>1, RewrittenAuthored
    <3> QED
      BY <2>1, <3>1, <3>2
  <2>3. entries' \in EntriesType
    BY <1>1, NothingKnown
  <2>4. quiet' \in {"none", "begun", "synced"} /\ synced' \in BOOLEAN
    BY <2>1 DEF TypeInv
  <2> QED
    BY <1>1, <2>2, <2>3, <2>4, TypeSync
<1> QED
  BY <1>2, <1>3

LEMMA LoadIs ==
    ASSUME Load
    PROVE  running' = Loaded(config)
BY DEF Load, Loaded, Restored

LEMMA TypeLoad ==
    ASSUME TypeInv, Load
    PROVE  TypeInv'
<1>1. /\ config' = config /\ stateFile' = stateFile /\ got' = got /\ entries' = entries /\ synced' = synced
      /\ quiet' = quiet /\ layout' = layout /\ unsaved' = unsaved /\ saved' = saved /\ edits' = edits
      /\ restarts' = restarts /\ pc' = "up" /\ alive' = TRUE
  BY DEF Load, GatewayFrame, files, syncVars
<1>2. Known(running')
  <2>1. Known(Loaded(config))
    BY LoadedKnown DEF TypeInv
  <2> QED
    BY <2>1, LoadIs
<1> QED
  BY <1>1, <1>2 DEF TypeInv, Known

LEMMA TypeStep ==
    ASSUME TypeInv, [Next]_vars
    PROVE  TypeInv'
<1>1. CASE Reconcile
  BY <1>1, TypeReconcile
<1>2. CASE SaveState
  BY <1>2, TypeSaveState
<1>3. CASE Edit
  BY <1>3, TypeEdit
<1>4. CASE Restart
  BY <1>4, TypeRestart
<1>5. CASE ReadConfig
  BY <1>5, TypeReadConfig
<1>6. CASE ReadFails
  BY <1>6, TypeFails DEF ReadFails
<1>7. CASE ParseStateFile
  BY <1>7, TypeParseStateFile
<1>8. CASE WriteConfig
  BY <1>8, TypeWriteConfig
<1>9. CASE WriteFails
  BY <1>9, TypeFails DEF WriteFails
<1>10. CASE Load
  BY <1>10, TypeLoad
<1>11. CASE UNCHANGED vars
  BY <1>11 DEF TypeInv, Known, vars, files, syncVars
<1> QED
  BY <1>1, <1>2, <1>3, <1>4, <1>5, <1>6, <1>7, <1>8, <1>9, <1>10, <1>11 DEF Next, SyncNext

\* When a sync begins, ends and is overtaken.
LEMMA SyncKept ==
    ASSUME SyncInv, UNCHANGED <<config, stateFile, got, entries, quiet>>,
           pc' = pc \/ pc' \notin {"parse", "rewrite"}
    PROVE  SyncInv'
<1>1. FileEntries' = FileEntries
  BY DEF FileEntries
<1> QED
  BY <1>1 DEF SyncInv, WellMarked, BlocksPresent

LEMMA SyncFailsInv ==
    ASSUME SyncInv, SyncFails, UNCHANGED stateFile
    PROVE  SyncInv'
<1>1. pc' = "load" /\ config' = config /\ quiet' = quiet
  BY DEF SyncFails
<1>2. FileEntries' = FileEntries
  BY DEF FileEntries
<1> QED
  BY <1>1, <1>2 DEF SyncInv, WellMarked, BlocksPresent

\* What a sync writes that no edit has overtaken.
LEMMA SyncWrites ==
    ASSUME TypeInv, WriteConfig, ~SyncFails, got = config
    PROVE  /\ config' = Rewrite(config, entries)
           /\ WellMarked(config) /\ entries \in EntriesType
           /\ WellMarked(config') /\ BlocksPresent(config')
           /\ OutsideBlocks(config') = OutsideBlocks(config)
           /\ Rewrite(config', entries) = config'
<1>1. /\ pc = "rewrite" /\ ~Malformed(got) /\ BlocksPresent(got)
      /\ Rewrite(got, entries) # got => config' = Rewrite(got, entries)
      /\ Rewrite(got, entries) = got => config' = config
  BY WriteConfigIs
<1>2. Authored(config) /\ entries \in EntriesType /\ ~Malformed(config) /\ BlocksPresent(config)
  BY <1>1 DEF TypeInv
<1>3. WellMarked(config)
  BY <1>2, RewrittenAuthored
<1>4. config' = Rewrite(config, entries)
  BY <1>1
<1>5. /\ WellMarked(Rewrite(config, entries)) /\ BlocksPresent(Rewrite(config, entries))
      /\ OutsideBlocks(Rewrite(config, entries)) = OutsideBlocks(config)
      /\ Rewrite(Rewrite(config, entries), entries) = Rewrite(config, entries)
  BY <1>2, <1>3, RewriteKeeps
<1> QED
  BY <1>2, <1>3, <1>4, <1>5

LEMMA SyncStep ==
    ASSUME TypeInv, SyncInv, [Next]_vars
    PROVE  SyncInv'
<1>1. CASE Reconcile
  BY <1>1, SyncKept DEF Reconcile, SystemdFrame, files, syncVars
<1>2. CASE SaveState
  <2>1. /\ config' = config /\ got' = got /\ entries' = entries /\ pc' = pc
        /\ quiet' = "none" \/ (stateFile' = stateFile /\ quiet' = quiet)
    BY <1>2 DEF SaveState, SystemdFrame, syncVars
  <2>2. CASE quiet' = "none"
    BY <2>2 DEF SyncInv
  <2>3. CASE stateFile' = stateFile /\ quiet' = quiet
    BY <2>1, <2>3, SyncKept
  <2> QED
    BY <2>1, <2>2, <2>3
<1>3. CASE Edit
  BY <1>3 DEF Edit, SyncInv
<1>4. CASE Restart
  BY <1>4, SyncKept DEF Restart, files
<1>5. CASE ReadConfig
  <2>1. /\ pc' = "parse" /\ got' = config /\ config' = config /\ stateFile' = stateFile
        /\ quiet' = IF quiet = "none" THEN "begun" ELSE quiet
    BY <1>5 DEF ReadConfig, SyncFrame
  <2>2. FileEntries' = FileEntries
    BY <2>1 DEF FileEntries
  <2>3. quiet' = "synced" => quiet = "synced"
    BY <2>1
  <2> QED
    BY <2>1, <2>2, <2>3 DEF SyncInv, WellMarked, BlocksPresent
<1>6. CASE ReadFails
  BY <1>6, SyncFailsInv DEF ReadFails, SyncFrame
<1>7. CASE ParseStateFile
  <2>1. stateFile' = stateFile
    BY <1>7 DEF ParseStateFile, SyncFrame
  <2>2. CASE SyncFails
    BY <2>1, <2>2, SyncFailsInv
  <2>3. CASE ~SyncFails
    <3>1. /\ pc = "parse" /\ entries' = FileEntries /\ pc' = "rewrite"
          /\ config' = config /\ got' = got /\ quiet' = quiet
      BY <1>7, <2>3 DEF ParseStateFile, FileEntries
    <3>2. FileEntries' = FileEntries
      BY <2>1 DEF FileEntries
    <3> QED
      BY <3>1, <3>2 DEF SyncInv, WellMarked, BlocksPresent
  <2> QED
    BY <2>2, <2>3
<1>8. CASE WriteConfig
  <2>1. pc = "rewrite" /\ pc' = "load" /\ stateFile' = stateFile
    BY <1>8, WriteConfigIs DEF SyncFrame
  <2>2. CASE SyncFails
    BY <2>1, <2>2, SyncFailsInv
  <2>3. CASE ~SyncFails /\ quiet = "none"
    <3>1. quiet' = "none"
      BY <1>8, <2>3, WriteConfigIs
    <3> QED
      BY <3>1 DEF SyncInv
  <2>4. CASE ~SyncFails /\ quiet # "none"
    <3>1. got = config /\ entries = FileEntries
      BY <2>1, <2>4 DEF SyncInv
    <3>2. WellMarked(config') /\ BlocksPresent(config') /\ Rewrite(config', entries) = config'
      BY <1>8, <2>4, <3>1, SyncWrites
    <3>3. FileEntries' = FileEntries
      BY <2>1 DEF FileEntries
    <3> QED
      BY <2>1, <3>1, <3>2, <3>3 DEF SyncInv, WellMarked, BlocksPresent
  <2> QED
    BY <2>2, <2>3, <2>4
<1>9. CASE WriteFails
  BY <1>9, SyncFailsInv DEF WriteFails, SyncFrame
<1>10. CASE Load
  BY <1>10, SyncKept DEF Load, files, syncVars
<1>11. CASE UNCHANGED vars
  BY <1>11, SyncKept DEF vars, files, syncVars
<1> QED
  BY <1>1, <1>2, <1>3, <1>4, <1>5, <1>6, <1>7, <1>8, <1>9, <1>10, <1>11 DEF Next, SyncNext
----------------------------------------------------------------------------
(* The servers that a sync takes from a state file.                        *)

\* Of sequences with at most one element, the result has those in their order.
PickedFrom(seqs, flat, o) ==
    /\ \A m \in 1 .. Len(flat) :
          \E k \in 1 .. Len(seqs) : Len(seqs[k]) = 1 /\ m = o[k] /\ flat[m] = seqs[k][1]
    /\ \A k \in 1 .. Len(seqs) : Len(seqs[k]) = 1 => o[k] \in 1 .. Len(flat) /\ flat[o[k]] = seqs[k][1]

LEMMA Picked ==
    ASSUME NEW S, NEW seqs \in Seq(Seq(S)), \A k \in 1 .. Len(seqs) : Len(seqs[k]) \in {0, 1}
    PROVE  \E o : PickedFrom(seqs, FlattenSeq(seqs), o)
<1>a. PICK n, flat : n = Len(seqs) /\ flat = FlattenSeq(seqs)
  OBVIOUS
<1>1. PICK o : Offsets(seqs, o) /\ Laid(S, seqs, flat, o)
  BY LaidOut, <1>a
<1>2. /\ n \in Nat
      /\ \A k \in 0 .. n : o[k] \in Nat
      /\ \A k \in 1 .. n : o[k] = o[k - 1] + Len(seqs[k])
  BY <1>1, <1>a, LenProperties DEF Offsets
<1>3. /\ Len(flat) = o[n] /\ Len(flat) \in Nat
      /\ \A i \in 1 .. n : \A k \in 1 .. Len(seqs[i]) : flat[o[i - 1] + k] = seqs[i][k]
  BY <1>1, <1>a, LenProperties DEF Laid
<1>4. ASSUME NEW k \in 1 .. n, Len(seqs[k]) = 1
      PROVE  o[k] \in 1 .. Len(flat) /\ flat[o[k]] = seqs[k][1]
  <2>1. k \in 0 .. n /\ n \in 0 .. n /\ k - 1 \in 0 .. n /\ k <= n
    BY <1>2
  <2>2. o[k] <= o[n]
    BY <1>1, <1>a, <2>1, OffsetsGrow
  <2>3. o[k] = o[k - 1] + 1 /\ o[k - 1] \in Nat /\ o[k] \in Nat
    BY <1>2, <1>4, <2>1
  <2>4. 1 \in 1 .. Len(seqs[k])
    BY <1>4
  <2>5. flat[o[k - 1] + 1] = seqs[k][1]
    BY <1>3, <2>4
  <2> QED
    BY <1>3, <2>2, <2>3, <2>5
<1>5. ASSUME NEW m \in 1 .. Len(flat)
      PROVE  \E k \in 1 .. n : Len(seqs[k]) = 1 /\ m = o[k] /\ flat[m] = seqs[k][1]
  <2>1. PICK k \in 1 .. n : m - o[k - 1] \in 1 .. Len(seqs[k])
    BY <1>1, <1>3, <1>a, PieceOf
  <2>2. Len(seqs[k]) \in {0, 1}
    BY <1>a
  <2>3. Len(seqs[k]) = 1
    BY <2>1, <2>2
  <2>4. k - 1 \in 0 .. n /\ k \in 0 .. n
    BY <1>2
  <2>5. o[k - 1] \in Nat /\ o[k] = o[k - 1] + 1
    BY <1>2, <2>3, <2>4
  <2>6. m = o[k]
    BY <2>1, <2>3, <2>5
  <2> QED
    BY <1>4, <2>3, <2>6
<1> QED
  BY <1>4, <1>5, <1>a DEF PickedFrom

\* The entries of each backend are its usable servers, none of them twice.
Named(servers) ==
    \A b \in Backends : \A s \in servers[b] :
       /\ s.addr = NoAddress <=> s.name \in SlotNames
       /\ \A t \in servers[b] : s.name = t.name => s = t
Distinct(e) ==
    \A b \in Backends : \A i, j \in 1 .. Len(e[b]) : e[b][i].name = e[b][j].name => i = j
HoldsOf(e, servers) ==
    \A b \in Backends :
       /\ \A i \in 1 .. Len(e[b]) : e[b][i] \in UsableServers(servers[b])
       /\ \A s \in UsableServers(servers[b]) : \E i \in 1 .. Len(e[b]) : e[b][i] = s

LEMMA ParsedShown ==
    ASSUME NEW servers, Known(servers), Named(servers), NEW file, Readable(file),
           NEW p, ShownAs(file, servers, p)
    PROVE  Distinct(Parse(file)) /\ HoldsOf(Parse(file), servers)
<1>a. PICK n : n = Len(p)
  OBVIOUS
<1>1. /\ p \in Seq(Pairs(servers)) /\ \A i, j \in 1 .. n : p[i] = p[j] => i = j
      /\ \A x \in Pairs(servers) : \E i \in 1 .. n : p[i] = x
      /\ Len(file.rows) = n /\ DOMAIN file.rows = 1 .. n
      /\ \A k \in 1 .. n :
          /\ Field(file, file.rows[k], "be_name") = p[k][1]
          /\ ServerIn(file, file.rows[k]) = p[k][2]
          /\ Usable(file, file.rows[k]) <=> p[k][2].addr # NoAddress /\ p[k][2].port \in UsablePorts
  BY <1>a DEF ShownAs, Lists
<1>2. ASSUME NEW k \in 1 .. n
      PROVE  p[k][1] \in Backends /\ p[k][2] \in servers[p[k][1]] /\ p[k] = <<p[k][1], p[k][2]>>
  <2>1. p[k] \in Pairs(servers)
    BY <1>1, <1>a, ElementOfSeq
  <2>2. PICK b \in Backends : p[k] \in {b} \X servers[b]
    BY <2>1 DEF Pairs
  <2> QED
    BY <2>2
<1>3. \A x \in Ports : x \in UsablePorts <=> x # 0
  BY PortsAre
<1>4. ASSUME NEW k \in 1 .. n
      PROVE  Usable(file, file.rows[k]) <=> p[k][2] \in UsableServers(servers[p[k][1]])
  <2>1. p[k][2].port \in Ports
    BY <1>2 DEF Known, ServerType
  <2> QED
    BY <1>1, <1>2, <1>3, <2>1 DEF UsableServers
<1>5. SUFFICES ASSUME NEW b \in Backends, NEW es, es = Parse(file)[b]
               PROVE  /\ \A i, j \in 1 .. Len(es) : es[i].name = es[j].name => i = j
                      /\ \A i \in 1 .. Len(es) : es[i] \in UsableServers(servers[b])
                      /\ \A s \in UsableServers(servers[b]) : \E i \in 1 .. Len(es) : es[i] = s
  BY DEF Distinct, HoldsOf
<1>b. PICK q : q = Rows(file, b)
  OBVIOUS
<1>6. q \in Seq(Seq(Servers)) /\ Len(q) = n /\ n \in Nat /\ es = FlattenSeq(q)
  BY <1>1, <1>5, <1>b, RowsType, ParseIs
<1>7. ASSUME NEW k \in 1 .. n
      PROVE  /\ p[k][1] = b /\ p[k][2] \in UsableServers(servers[b]) => Len(q[k]) = 1 /\ q[k][1] = p[k][2]
             /\ ~(p[k][1] = b /\ p[k][2] \in UsableServers(servers[b])) => Len(q[k]) = 0
  <2>1. q[k] = IF Usable(file, file.rows[k]) /\ Field(file, file.rows[k], "be_name") = b
               THEN <<ServerIn(file, file.rows[k])>> ELSE <<>>
    BY <1>1, <1>b DEF Rows
  <2>2. q[k] = IF p[k][1] = b /\ p[k][2] \in UsableServers(servers[b]) THEN <<p[k][2]>> ELSE <<>>
    BY <1>1, <1>4, <2>1
  <2>3. Len(<<p[k][2]>>) = 1 /\ <<p[k][2]>>[1] = p[k][2] /\ Len(<<>>) = 0
    OBVIOUS
  <2> QED
    BY <2>2, <2>3
<1>8. PICK o :
        /\ \A m \in 1 .. Len(es) :
              \E k \in 1 .. n : Len(q[k]) = 1 /\ m = o[k] /\ es[m] = q[k][1]
        /\ \A k \in 1 .. n : Len(q[k]) = 1 => o[k] \in 1 .. Len(es) /\ es[o[k]] = q[k][1]
  <2>1. \A k \in 1 .. Len(q) : Len(q[k]) \in {0, 1}
    BY <1>6, <1>7
  <2>2. PICK o : PickedFrom(q, es, o)
    BY <1>6, <2>1, Picked
  <2> QED
    BY <1>6, <2>2 DEF PickedFrom
<1>9. ASSUME NEW m \in 1 .. Len(es)
      PROVE  \E k \in 1 .. n : /\ p[k][1] = b /\ p[k][2] \in UsableServers(servers[b])
                               /\ m = o[k] /\ es[m] = p[k][2]
  <2>1. PICK k \in 1 .. n : Len(q[k]) = 1 /\ m = o[k] /\ es[m] = q[k][1]
    BY <1>8
  <2>2. p[k][1] = b /\ p[k][2] \in UsableServers(servers[b])
    BY <1>7, <2>1
  <2> QED
    BY <1>7, <2>1, <2>2
<1>10. ASSUME NEW i \in 1 .. Len(es), NEW j \in 1 .. Len(es), es[i].name = es[j].name
       PROVE  i = j
  <2>1. PICK k \in 1 .. n : /\ p[k][1] = b /\ p[k][2] \in UsableServers(servers[b])
                            /\ i = o[k] /\ es[i] = p[k][2]
    BY <1>9
  <2>2. PICK l \in 1 .. n : /\ p[l][1] = b /\ p[l][2] \in UsableServers(servers[b])
                            /\ j = o[l] /\ es[j] = p[l][2]
    BY <1>9
  <2>3. p[k][2] \in servers[b] /\ p[l][2] \in servers[b] /\ p[k][2].name = p[l][2].name
    BY <1>10, <2>1, <2>2 DEF UsableServers
  <2>4. p[k][2] = p[l][2]
    BY <2>3 DEF Named
  <2>5. p[k] = p[l]
    BY <1>2, <2>1, <2>2, <2>4
  <2>6. k = l
    BY <1>1, <2>5
  <2> QED
    BY <2>1, <2>2, <2>6
<1>11. ASSUME NEW s \in UsableServers(servers[b])
       PROVE  \E i \in 1 .. Len(es) : es[i] = s
  <2>1. <<b, s>> \in Pairs(servers)
    BY DEF Pairs, UsableServers
  <2>2. PICK k \in 1 .. n : p[k] = <<b, s>>
    BY <1>1, <2>1
  <2>3. p[k][1] = b /\ p[k][2] = s
    BY <2>2
  <2>4. Len(q[k]) = 1 /\ q[k][1] = s
    BY <1>7, <2>3
  <2> QED
    BY <1>8, <2>4
<1> QED
  BY <1>9, <1>10, <1>11
----------------------------------------------------------------------------
(* A rewritten config can be loaded.                                       *)

\* Line p of the result is line i of the config, or an entry of its block i.
Kept(lines, r, o, p, i) ==
    /\ i \in 1 .. Len(lines) /\ ~InBlock(lines, i)
    /\ p = At(o, i) /\ r[p] = lines[i] /\ Section(r, p) = Section(lines, i)
Entered(lines, e, r, o, p, i) ==
    /\ i \in LinesOf(lines, {"begin"}) /\ i \in 1 .. Len(lines) /\ ~InBlock(lines, i)
    /\ p \in At(o, i) + 1 .. o[i] /\ At(o, i) \in Nat
    /\ p - At(o, i) \in 1 .. Len(e[lines[i].name])
    /\ r[p] = Entry(e[lines[i].name][p - At(o, i)]) /\ Section(r, p) = Section(lines, i)

LEMMA Origin ==
    ASSUME NEW lines, WellMarked(lines), HeadsOutside(lines), NEW e \in EntriesType, NEW r, NEW o,
           RewrittenAs(lines, e, r, o), NEW p \in 1 .. Len(r)
    PROVE  \E i : Kept(lines, r, o, p, i) \/ Entered(lines, e, r, o, p, i)
<1>1. PICK i \in 1 .. Len(lines) :
         /\ ~InBlock(lines, i)
         /\ \/ p = At(o, i)
            \/ i \in LinesOf(lines, {"begin"}) /\ p \in At(o, i) + 1 .. o[i]
  BY RewrittenLine
<1>2. /\ At(o, i) \in 1 .. Len(r) /\ r[At(o, i)] = lines[i]
      /\ o[i] \in Nat /\ At(o, i) <= o[i]
  BY <1>1, Places
<1>3. \A q \in At(o, i) .. o[i] : Section(r, q) = Section(lines, i)
  BY <1>1, SectionsKept
<1>4. CASE p = At(o, i)
  <2>1. p \in At(o, i) .. o[i]
    BY <1>2, <1>4
  <2> QED
    BY <1>1, <1>2, <1>3, <1>4, <2>1 DEF Kept
<1>5. CASE i \in LinesOf(lines, {"begin"}) /\ p \in At(o, i) + 1 .. o[i]
  <2>1. p \in At(o, i) .. o[i] /\ At(o, i) \in Nat
    BY <1>2, <1>5
  <2>2. /\ p - At(o, i) \in 1 .. Len(e[lines[i].name])
        /\ r[p] = Entry(e[lines[i].name][p - At(o, i)])
    BY <1>5, EntriesAt
  <2> QED
    BY <1>1, <1>3, <1>5, <2>1, <2>2 DEF Entered
<1> QED
  BY <1>1, <1>4, <1>5

\* No entry has the name of a slot.
Unslotted(e) == \A b \in Backends : \A i \in 1 .. Len(e[b]) : e[b][i].name \notin SlotNames

\* The two parts of Loadable.
NamedLines(lines) ==
    \A i \in LinesOf(lines, {"server", "slot"}) :
        /\ lines[i].kind = "slot" <=> lines[i].name \in SlotNames
        /\ lines[i].kind = "slot" <=> lines[i].addr = NoAddress
        /\ \A j \in LinesOf(lines, {"server", "slot"}) :
              lines[i].name = lines[j].name /\ Section(lines, i) = Section(lines, j) => i = j
Gathered(lines) ==
    \A b \in LinesOf(lines, {"begin"}) :
        /\ Section(lines, b) = lines[b].name
        /\ \A i \in LinesOf(lines, {"begin", "server"}) :
              Section(lines, i) = lines[b].name => i = b \/ InBlock(lines, i)

LEMMA LoadableIs ==
    ASSUME NEW lines, WellMarked(lines)
    PROVE  Loadable(lines) <=> NamedLines(lines) /\ HeadsOutside(lines) /\ Gathered(lines)
<1>1. ~Malformed(lines)
  BY DEF WellMarked
<1> QED
  BY <1>1 DEF Loadable, NamedLines, HeadsOutside, Gathered

LEMMA EntryIs ==
    ASSUME NEW lines, WellMarked(lines), NEW e \in EntriesType, Unslotted(e), NEW r, NEW o,
           NEW p, NEW i, Entered(lines, e, r, o, p, i)
    PROVE  /\ lines[i].name \in Backends /\ r[p].kind = "server"
           /\ r[p].name = e[lines[i].name][p - At(o, i)].name
           /\ r[p].name \notin SlotNames /\ r[p].addr # NoAddress
<1>a. PICK b, k : b = lines[i].name /\ k = p - At(o, i)
  OBVIOUS
<1>1. b \in Backends
  BY <1>a DEF WellMarked, Entered
<1>2. e[b] \in Seq(Servers) /\ k \in 1 .. Len(e[b])
  BY <1>1, <1>a DEF EntriesType, Entered
<1>3. e[b][k] \in Servers /\ e[b][k].name \notin SlotNames
  BY <1>1, <1>2, ElementOfSeq DEF Unslotted
<1>4. r[p] = Entry(e[b][k])
  BY <1>a DEF Entered
<1>5. r[p].kind = "server" /\ r[p].name = e[b][k].name /\ r[p].addr = e[b][k].addr
  BY <1>4 DEF Entry, Line
<1>6. e[b][k].addr # NoAddress
  BY <1>3, NamesAssumption DEF Servers
<1> QED
  BY <1>1, <1>3, <1>5, <1>6, <1>a

\* There is one block of a backend, and it has all of its server lines.
LEMMA OneBlock ==
    ASSUME NEW lines, WellMarked(lines), Gathered(lines), NEW b \in LinesOf(lines, {"begin"}),
           NEW i \in LinesOf(lines, {"begin", "server"}), ~InBlock(lines, i),
           Section(lines, i) = Section(lines, b)
    PROVE  i = b
BY DEF Gathered

LEMMA RewrittenLoadable ==
    ASSUME NEW lines, WellMarked(lines), Loadable(lines), NEW e \in EntriesType, Distinct(e),
           Unslotted(e)
    PROVE  Loadable(Rewrite(lines, e))
<1>a. PICK r : r = Rewrite(lines, e)
  OBVIOUS
<1>1. PICK o : RewrittenAs(lines, e, r, o)
  BY <1>a, Rewritten
<1>2. NamedLines(lines) /\ HeadsOutside(lines) /\ Gathered(lines)
  BY LoadableIs
<1>3. WellMarked(r) /\ SameBlocks(lines, r, o) /\ HeadsOutside(r)
  BY <1>1, <1>2, BlocksKept, SectionsKept
<1>0. DOMAIN lines = 1 .. Len(lines) /\ DOMAIN r = 1 .. Len(r)
  BY <1>3, LenProperties DEF WellMarked
<1>4. ASSUME NEW p \in 1 .. Len(r)
      PROVE  \E i : Kept(lines, r, o, p, i) \/ Entered(lines, e, r, o, p, i)
  BY <1>1, <1>2, Origin
<1>5. ASSUME NEW p \in LinesOf(r, {"server", "slot"}), NEW i, Kept(lines, r, o, p, i)
      PROVE  i \in LinesOf(lines, {"server", "slot"})
  BY <1>0, <1>5 DEF Kept, LinesOf
<1>6. ASSUME NEW p \in LinesOf(r, {"server", "slot"})
      PROVE  /\ r[p].kind = "slot" <=> r[p].name \in SlotNames
             /\ r[p].kind = "slot" <=> r[p].addr = NoAddress
  <2>1. PICK i : Kept(lines, r, o, p, i) \/ Entered(lines, e, r, o, p, i)
    BY <1>0, <1>4 DEF LinesOf
  <2>2. CASE Kept(lines, r, o, p, i)
    <3>1. i \in LinesOf(lines, {"server", "slot"}) /\ r[p] = lines[i]
      BY <1>5, <2>2 DEF Kept
    <3> QED
      BY <1>2, <3>1 DEF NamedLines
  <2>3. CASE Entered(lines, e, r, o, p, i)
    BY <2>3, EntryIs
  <2> QED
    BY <2>1, <2>2, <2>3
<1>7. ASSUME NEW p \in LinesOf(r, {"server", "slot"}), NEW q \in LinesOf(r, {"server", "slot"}),
             r[p].name = r[q].name, Section(r, p) = Section(r, q),
             NEW i, Kept(lines, r, o, p, i), NEW j, Entered(lines, e, r, o, q, j)
      PROVE  FALSE
  <2>1. i \in LinesOf(lines, {"server", "slot"}) /\ r[p] = lines[i] /\ ~InBlock(lines, i)
    BY <1>5, <1>7 DEF Kept
  <2>2. r[q].name \notin SlotNames
    BY <1>7, EntryIs
  <2>3. lines[i].kind # "slot"
    BY <1>2, <1>7, <2>1, <2>2 DEF NamedLines
  <2>4. i \in LinesOf(lines, {"begin", "server"}) /\ lines[i].kind = "server"
    BY <2>1, <2>3 DEF LinesOf
  <2>5. j \in LinesOf(lines, {"begin"}) /\ Section(lines, i) = Section(lines, j)
    BY <1>7 DEF Kept, Entered
  <2>6. i = j
    BY <1>2, <2>1, <2>4, <2>5, OneBlock
  <2> QED
    BY <2>4, <2>5, <2>6 DEF LinesOf
<1>8. ASSUME NEW p \in LinesOf(r, {"server", "slot"}), NEW q \in LinesOf(r, {"server", "slot"}),
             r[p].name = r[q].name, Section(r, p) = Section(r, q)
      PROVE  p = q
  <2>1. PICK i : Kept(lines, r, o, p, i) \/ Entered(lines, e, r, o, p, i)
    BY <1>0, <1>4 DEF LinesOf
  <2>2. PICK j : Kept(lines, r, o, q, j) \/ Entered(lines, e, r, o, q, j)
    BY <1>0, <1>4 DEF LinesOf
  <2>3. CASE Kept(lines, r, o, p, i) /\ Kept(lines, r, o, q, j)
    <3>1. /\ i \in LinesOf(lines, {"server", "slot"}) /\ j \in LinesOf(lines, {"server", "slot"})
          /\ r[p] = lines[i] /\ r[q] = lines[j] /\ Section(lines, i) = Section(lines, j)
          /\ p = At(o, i) /\ q = At(o, j)
      BY <1>5, <1>8, <2>3 DEF Kept
    <3>2. i = j
      BY <1>2, <1>8, <3>1 DEF NamedLines
    <3> QED
      BY <3>1, <3>2
  <2>4. CASE Entered(lines, e, r, o, p, i) /\ Entered(lines, e, r, o, q, j)
    <3>1. /\ i \in LinesOf(lines, {"begin"}) /\ j \in LinesOf(lines, {"begin"})
          /\ Section(lines, i) = Section(lines, j) /\ ~InBlock(lines, i)
      BY <1>8, <2>4 DEF Entered
    <3>2. i \in LinesOf(lines, {"begin", "server"})
      BY <3>1 DEF LinesOf
    <3>3. i = j
      BY <1>2, <3>1, <3>2, OneBlock
    <3>a. PICK b : b = lines[i].name
      OBVIOUS
    <3>4. /\ b \in Backends /\ r[p].name = e[b][p - At(o, i)].name /\ r[q].name = e[b][q - At(o, i)].name
      BY <2>4, <3>3, <3>a, EntryIs
    <3>5. p - At(o, i) \in 1 .. Len(e[b]) /\ q - At(o, i) \in 1 .. Len(e[b])
      BY <2>4, <3>3, <3>a DEF Entered
    <3>6. p - At(o, i) = q - At(o, i)
      BY <1>8, <3>4, <3>5 DEF Distinct
    <3>7. At(o, i) \in Nat /\ p \in Int /\ q \in Int
      BY <2>4 DEF Entered
    <3> QED
      BY <3>6, <3>7
  <2> QED
    BY <1>7, <1>8, <2>1, <2>2, <2>3, <2>4
<1>9. NamedLines(r)
  BY <1>6, <1>8 DEF NamedLines
<1>10. ASSUME NEW p \in LinesOf(r, {"begin"})
       PROVE  /\ Section(r, p) = r[p].name
              /\ \A q \in LinesOf(r, {"begin", "server"}) :
                    Section(r, q) = r[p].name => q = p \/ InBlock(r, q)
  <2>1. PICK b \in LinesOf(lines, {"begin"}) : p = At(o, b)
    BY <1>3 DEF SameBlocks
  <2>2. b \in Markers(lines) /\ b \in 1 .. Len(lines)
    BY <1>0 DEF Markers, LinesOf
  <2>3. ~InBlock(lines, b)
    BY <2>2, MarkersOutside
  <2>4. r[p] = lines[b] /\ o[b] \in Nat /\ At(o, b) <= o[b] /\ At(o, b) \in 1 .. Len(r)
    BY <1>1, <2>1, <2>2, <2>3, Places
  <2>5. p \in At(o, b) .. o[b]
    BY <2>1, <2>4
  <2>6. Section(r, p) = Section(lines, b)
    BY <1>1, <1>2, <2>2, <2>3, <2>5, SectionsKept
  <2>7. Section(lines, b) = lines[b].name
    BY <1>2 DEF Gathered
  <2>8. ASSUME NEW q \in LinesOf(r, {"begin", "server"}), Section(r, q) = r[p].name
        PROVE  q = p \/ InBlock(r, q)
    <3>1. PICK i : Kept(lines, r, o, q, i) \/ Entered(lines, e, r, o, q, i)
      BY <1>0, <1>4 DEF LinesOf
    <3>2. Section(lines, i) = Section(lines, b) /\ ~InBlock(lines, i) /\ i \in 1 .. Len(lines)
      BY <2>4, <2>7, <2>8, <3>1 DEF Kept, Entered
    <3>3. CASE Kept(lines, r, o, q, i)
      <4>1. i \in LinesOf(lines, {"begin", "server"})
        BY <1>0, <3>2, <3>3 DEF LinesOf, Kept
      <4>2. i = b
        BY <1>2, <3>2, <4>1, OneBlock
      <4> QED
        BY <2>1, <3>3, <4>2 DEF Kept
    <3>4. CASE Entered(lines, e, r, o, q, i)
      <4>1. i \in LinesOf(lines, {"begin"}) /\ q \in At(o, i) + 1 .. o[i]
        BY <3>4 DEF Entered
      <4> QED
        BY <1>3, <4>1 DEF SameBlocks
    <3> QED
      BY <3>1, <3>3, <3>4
  <2> QED
    BY <2>4, <2>6, <2>7, <2>8
<1>11. Gathered(r)
  BY <1>10 DEF Gathered
<1> QED
  BY <1>3, <1>9, <1>11, <1>a, LoadableIs
----------------------------------------------------------------------------
(* A loaded config.                                                        *)

LEMMA RestoredIs ==
    ASSUME NEW set, NEW c, NEW s \in set, s.name = c.name,
           \A t \in set : t.name = s.name => t = s
    PROVE  Restored(c, set) = s
<1>1. \A t \in set : t.name = c.name => t = s
  OBVIOUS
<1>2. (CHOOSE t \in set : t.name = c.name) = s
  BY <1>1
<1> QED
  BY <1>2 DEF Restored

\* A server of the state file, or one of the config that it does not have.
ServerOf(line) == [name |-> line.name, addr |-> line.addr, port |-> line.port]
FromLine(lines, b, x, i) ==
    /\ i \in LinesOf(lines, {"server", "slot"}) /\ Section(lines, i) = b /\ x.name = lines[i].name
    /\ \/ x \in saved[b]
       \/ x = ServerOf(lines[i]) /\ \A s \in saved[b] : s.name # lines[i].name

LEMMA LoadedFrom ==
    ASSUME NEW lines, NEW b \in Backends, NEW x \in Loaded(lines)[b]
    PROVE  \E i : FromLine(lines, b, x, i) /\ x = Restored(ServerOf(lines[i]), saved[b])
<1>1. PICK c \in Configured(lines, b) : x = Restored(c, saved[b])
  BY DEF Loaded
<1>2. PICK i \in LinesOf(lines, {"server", "slot"}) : Section(lines, i) = b /\ c = ServerOf(lines[i])
  BY DEF Configured, ServerOf
<1>3. c.name = lines[i].name
  BY <1>2 DEF ServerOf
<1>4. CASE \E s \in saved[b] : s.name = c.name
  <2>1. x = CHOOSE s \in saved[b] : s.name = c.name
    BY <1>1, <1>4 DEF Restored
  <2>2. x \in saved[b] /\ x.name = c.name
    BY <1>4, <2>1
  <2> QED
    BY <1>1, <1>2, <1>3, <2>2 DEF FromLine
<1>5. CASE ~\E s \in saved[b] : s.name = c.name
  <2>1. x = c
    BY <1>1, <1>5 DEF Restored
  <2> QED
    BY <1>1, <1>2, <1>3, <1>5, <2>1 DEF FromLine
<1> QED
  BY <1>4, <1>5

LEMMA LoadedNamed ==
    ASSUME NEW lines, NamedLines(lines), Named(saved)
    PROVE  Named(Loaded(lines))
<1>1. ASSUME NEW b \in Backends, NEW x \in Loaded(lines)[b]
      PROVE  x.addr = NoAddress <=> x.name \in SlotNames
  <2>1. PICK i : FromLine(lines, b, x, i)
    BY LoadedFrom
  <2>2. CASE x \in saved[b]
    BY <2>2 DEF Named
  <2>3. CASE x = ServerOf(lines[i])
    <3>1. x.addr = lines[i].addr /\ x.name = lines[i].name
      BY <2>3 DEF ServerOf
    <3> QED
      BY <2>1, <3>1 DEF NamedLines, FromLine
  <2> QED
    BY <2>1, <2>2, <2>3 DEF FromLine
<1>2. ASSUME NEW b \in Backends, NEW x \in Loaded(lines)[b], NEW y \in Loaded(lines)[b],
             x.name = y.name
      PROVE  x = y
  <2>1. PICK i : FromLine(lines, b, x, i) /\ x = Restored(ServerOf(lines[i]), saved[b])
    BY LoadedFrom
  <2>2. PICK j : FromLine(lines, b, y, j) /\ y = Restored(ServerOf(lines[j]), saved[b])
    BY LoadedFrom
  <2>3. i = j
    BY <1>2, <2>1, <2>2 DEF FromLine, NamedLines
  <2> QED
    BY <2>1, <2>2, <2>3
<1> QED
  BY <1>1, <1>2 DEF Named

\* The servers of a backend with a block, when the config has been synced.
LEMMA Reloaded ==
    ASSUME NEW lines, WellMarked(lines), Loadable(lines), NEW e \in EntriesType,
           Rewrite(lines, e) = lines, Named(saved), HoldsOf(e, saved),
           NEW b \in Backends, HasBlock(lines, b)
    PROVE  UsableServers(Loaded(lines)[b]) = UsableServers(saved[b])
<1>1. PICK h \in LinesOf(lines, {"begin"}) : lines[h].name = b
  BY DEF HasBlock
<1>2. PICK o : RewrittenAs(lines, e, lines, o)
  BY Rewritten
<1>3. NamedLines(lines) /\ HeadsOutside(lines) /\ Gathered(lines)
  BY LoadableIs
<1>4. Section(lines, h) = b
  BY <1>1, <1>3 DEF Gathered
<1>0. DOMAIN lines = 1 .. Len(lines)
  BY LenProperties DEF WellMarked
<1>5. h \in Markers(lines) /\ h \in 1 .. Len(lines)
  BY <1>0 DEF Markers, LinesOf
<1>6. ~InBlock(lines, h)
  BY <1>5, MarkersOutside
<1>7. ASSUME NEW i \in LinesOf(lines, {"server"}), Section(lines, i) = b, ~InBlock(lines, i)
      PROVE  FALSE
  <2>1. i \in LinesOf(lines, {"begin", "server"})
    BY DEF LinesOf
  <2>2. i = h
    BY <1>3, <1>4, <1>7, <2>1, OneBlock
  <2> QED
    BY <2>2 DEF LinesOf
<1>8. ASSUME NEW s \in UsableServers(saved[b])
      PROVE  s \in Loaded(lines)[b]
  <2>1. PICK k \in 1 .. Len(e[b]) : e[b][k] = s
    BY <1>8 DEF HoldsOf
  <2>a. PICK m, a, p : m = Len(e[b]) /\ a = At(o, h) /\ p = a + k
    OBVIOUS
  <2>2. /\ o[h] = o[h - 1] + 1 + m
        /\ lines[o[h - 1] + 1 + k] = Entry(s)
    BY <1>1, <1>2, <2>1, <2>a DEF RewrittenAs
  <2>3. m \in Nat
    <3>1. e[b] \in Seq(Servers)
      BY DEF EntriesType
    <3> QED
      BY <2>a, <3>1, LenProperties
  <2>4. /\ a \in 1 .. Len(lines) /\ o[h - 1] \in Nat /\ o[h] \in Nat /\ o[h] <= Len(lines)
        /\ Len(lines) \in Nat
    BY <1>2, <1>5, <1>6, <2>a, Places, LenProperties DEF WellMarked
  <2>5. a = o[h - 1] + 1
    BY <2>a DEF At
  <2>6. k \in 1 .. m
    BY <2>a
  <2>7. p \in a .. o[h] /\ p \in 1 .. Len(lines) /\ p = o[h - 1] + 1 + k
    <3>a. PICK x, y, l : x = o[h - 1] /\ y = o[h] /\ l = Len(lines)
      OBVIOUS
    <3>1. /\ x \in Nat /\ y \in Nat /\ l \in Nat /\ m \in Nat /\ k \in 1 .. m
          /\ y = x + 1 + m /\ y <= l /\ a = x + 1 /\ p = a + k
      BY <2>2, <2>3, <2>4, <2>5, <2>6, <2>a, <3>a
    <3>2. p \in a .. y /\ p \in 1 .. l /\ p = x + 1 + k
      BY <3>1
    <3> QED
      BY <3>2, <3>a
  <2>8. Section(lines, p) = b
    BY <1>2, <1>3, <1>4, <1>5, <1>6, <2>7, <2>a, SectionsKept
  <2>9. lines[p] = Entry(s)
    BY <2>2, <2>7
  <2>10. lines[p].kind = "server" /\ lines[p].name = s.name
    BY <2>9 DEF Entry, Line
  <2>11. p \in LinesOf(lines, {"server", "slot"})
    BY <1>0, <2>7, <2>10 DEF LinesOf
  <2>12. ServerOf(lines[p]) \in Configured(lines, b)
    BY <2>8, <2>11 DEF Configured, ServerOf
  <2>13. Restored(ServerOf(lines[p]), saved[b]) = s
    <3>1. s \in saved[b] /\ ServerOf(lines[p]).name = s.name
      BY <2>10 DEF ServerOf, UsableServers
    <3>2. \A t \in saved[b] : t.name = s.name => t = s
      BY <3>1 DEF Named
    <3> QED
      BY <3>1, <3>2, RestoredIs
  <2> QED
    BY <2>12, <2>13 DEF Loaded
<1>9. ASSUME NEW x \in Loaded(lines)[b], x.addr # NoAddress
      PROVE  x \in saved[b]
  <2>1. PICK i : FromLine(lines, b, x, i)
    BY LoadedFrom
  <2>2. SUFFICES ASSUME x = ServerOf(lines[i]), \A s \in saved[b] : s.name # lines[i].name
                 PROVE  FALSE
    BY <2>1 DEF FromLine
  <2>3. i \in LinesOf(lines, {"server", "slot"}) /\ Section(lines, i) = b
    BY <2>1 DEF FromLine
  <2>4. lines[i].addr # NoAddress
    BY <1>9, <2>2 DEF ServerOf
  <2>5. lines[i].kind # "slot"
    BY <1>3, <2>3, <2>4 DEF NamedLines
  <2>6. i \in 1 .. Len(lines) /\ lines[i].kind = "server"
    BY <1>0, <2>3, <2>5 DEF LinesOf
  <2>7. PICK j : Kept(lines, lines, o, i, j) \/ Entered(lines, e, lines, o, i, j)
    BY <1>2, <1>3, <2>6, Origin
  <2>8. CASE Kept(lines, lines, o, i, j)
    <3>1. j \in LinesOf(lines, {"server"}) /\ Section(lines, j) = b /\ ~InBlock(lines, j)
      BY <1>0, <2>3, <2>6, <2>8 DEF Kept, LinesOf
    <3> QED
      BY <1>7, <3>1
  <2>9. CASE Entered(lines, e, lines, o, i, j)
    <3>1. j \in LinesOf(lines, {"begin"}) /\ Section(lines, j) = b /\ ~InBlock(lines, j)
      BY <2>3, <2>9 DEF Entered
    <3>2. j \in LinesOf(lines, {"begin", "server"})
      BY <3>1 DEF LinesOf
    <3>3. j = h
      BY <1>3, <1>4, <3>1, <3>2, OneBlock
    <3>a. PICK k : k = i - At(o, j)
      OBVIOUS
    <3>4. k \in 1 .. Len(e[b]) /\ lines[i] = Entry(e[b][k])
      BY <1>1, <2>9, <3>3, <3>a DEF Entered
    <3>5. e[b][k] \in saved[b]
      BY <3>4 DEF HoldsOf, UsableServers
    <3>6. lines[i].name = e[b][k].name
      BY <3>4 DEF Entry, Line
    <3> QED
      BY <2>2, <3>5, <3>6
  <2> QED
    BY <2>7, <2>8, <2>9
<1> QED
  BY <1>8, <1>9 DEF UsableServers
----------------------------------------------------------------------------
(* Names are distinct, in the configs, in the entries and in HAProxy, and  *)
(* a file that can be parsed holds what the observer says was saved.       *)

Current == stateFile = NoFile \/ stateFile.version = 1

NamesInv ==
    /\ Named(running) /\ Named(saved)
    /\ Loadable(config) /\ (pc \in {"parse", "rewrite"} => Loadable(got))
    /\ Distinct(entries) /\ Unslotted(entries)

FileInv ==
    /\ Current => Distinct(FileEntries) /\ HoldsOf(FileEntries, saved)
    /\ quiet # "none" /\ pc = "rewrite" => Current
    /\ quiet = "synced" => Current

LEMMA Nothing ==
    /\ Named(NoServers) /\ Distinct(NoEntries) /\ Unslotted(NoEntries)
    /\ HoldsOf(NoEntries, NoServers)
<1>1. \A b \in Backends : NoServers[b] = {} /\ NoEntries[b] = <<>>
  BY DEF NoServers, NoEntries
<1>2. \A b \in Backends : Len(NoEntries[b]) = 0
  BY <1>1
<1>3. \A i \in 1 .. 0 : FALSE
  OBVIOUS
<1> QED
  BY <1>1, <1>2, <1>3 DEF Named, Distinct, Unslotted, HoldsOf, UsableServers

\* Slots have no address, so they are not among the entries.
LEMMA HeldUnslotted ==
    ASSUME NEW e, NEW servers, Named(servers), HoldsOf(e, servers)
    PROVE  Unslotted(e)
BY DEF Named, HoldsOf, Unslotted, UsableServers

\* A state file without usable rows.
LEMMA ParsedOdd ==
    ASSUME NEW file \in OddFiles, file.version = 1
    PROVE  Distinct(Parse(file)) /\ HoldsOf(Parse(file), NoServers)
<1>1. Readable(file) /\ \A row \in ToSet(file.rows) : ~Usable(file, row)
  BY OddFilesAssumption, NoServersAssumption
<1>2. ASSUME NEW b \in Backends
      PROVE  \A i \in 1 .. Len(Parse(file)[b]) : FALSE
  <2>a. PICK q, n : q = Rows(file, b) /\ n = Len(file.rows)
    OBVIOUS
  <2>1. q \in Seq(Seq(Servers)) /\ Len(q) = n
    BY <1>1, <2>a, RowsType
  <2>2. DOMAIN file.rows = 1 .. n
    BY <1>1, <2>a, LenProperties DEF Readable
  <2>3. ASSUME NEW k \in 1 .. n
        PROVE  Len(q[k]) = 0
    <3>1. ~Usable(file, file.rows[k])
      BY <1>1, <2>2 DEF ToSet
    <3>2. q[k] = <<>>
      BY <2>2, <2>a, <3>1 DEF Rows
    <3> QED
      BY <3>2
  <2>4. \A k \in 1 .. Len(q) : Len(q[k]) \in {0, 1}
    BY <2>1, <2>3
  <2>5. PICK o : PickedFrom(q, FlattenSeq(q), o)
    BY <2>1, <2>4, Picked
  <2>6. \A i \in 1 .. Len(FlattenSeq(q)) : FALSE
    BY <2>1, <2>3, <2>5 DEF PickedFrom
  <2>7. Parse(file)[b] = FlattenSeq(q)
    BY <1>1, <2>a, ParseIs
  <2> QED
    BY <2>6, <2>7
<1>3. \A b \in Backends : UsableServers(NoServers[b]) = {}
  BY DEF NoServers, UsableServers
<1> QED
  BY <1>2, <1>3 DEF Distinct, HoldsOf

\* What SaveState writes is a state file, and no other than it.
LEMMA ShownHolds ==
    ASSUME layout \in Layouts, NEW servers, Known(servers), Named(servers)
    PROVE  /\ Show(servers) # NoFile /\ Show(servers).version = 1
           /\ Distinct(Parse(Show(servers))) /\ HoldsOf(Parse(Show(servers)), servers)
<1>a. PICK file : file = Show(servers)
  OBVIOUS
<1>1. PICK p : Readable(file) /\ ShownAs(file, servers, p)
  BY <1>a, ShowIs
<1>2. PICK rows : file = [version |-> 1, header |-> layout, rows |-> rows]
  BY <1>a DEF Show
<1>3. file # NoFile
  <2>1. file.rows = rows
    BY <1>2
  <2>2. rows \in Seq(Seq(Fields))
    BY <1>1, <2>1 DEF Readable
  <2>3. file \in [version : {1}, header : Layouts, rows : Seq(Seq(Fields))]
    BY <1>2, <2>2
  <2> QED
    BY <2>3, NoFileAssumption
<1>4. file.version = 1
  BY <1>1 DEF ShownAs
<1> QED
  BY <1>1, <1>3, <1>4, <1>a, ParsedShown

LEMMA NamesInit == Init => NamesInv /\ FileInv
<1>1. HAVE Init
<1>2. NamesInv
  BY <1>1, Nothing, LoadableAssumption DEF Init, NamesInv
<1>3. FileEntries = NoEntries
  BY <1>1 DEF Init, FileEntries
<1>4. FileInv
  BY <1>1, <1>3, Nothing DEF Init, FileInv
<1> QED
  BY <1>2, <1>4

LEMMA NamesFrame ==
    ASSUME NamesInv, UNCHANGED <<running, saved, config, got, entries>>,
           pc' = pc \/ pc' \notin {"parse", "rewrite"}
    PROVE  NamesInv'
BY DEF NamesInv, Named, Distinct, Unslotted

LEMMA NamesReconcile ==
    ASSUME NamesInv, Reconcile
    PROVE  NamesInv'
<1>1. PICK r \in Reconciled :
         running' = [b \in Backends |-> IF r[b] = {} THEN Slots(running[b]) ELSE r[b]]
  BY DEF Reconcile
<1>2. ASSUME NEW b \in Backends, NEW s \in running'[b]
      PROVE  \/ s \in r[b] /\ s.addr # NoAddress /\ s.name \notin SlotNames
             \/ s \in running[b] /\ s.addr = NoAddress /\ s.name \in SlotNames
  <2>1. s \in r[b] \/ s \in Slots(running[b])
    BY <1>1
  <2>2. CASE s \in r[b]
    BY <2>2, ReconciledAssumption
  <2>3. CASE s \in Slots(running[b])
    BY <2>3 DEF NamesInv, Named, Slots
  <2> QED
    BY <2>1, <2>2, <2>3
<1>3. ASSUME NEW b \in Backends, NEW s \in running'[b], NEW t \in running'[b], s.name = t.name
      PROVE  s = t
  <2>1. CASE s \in r[b] /\ t \in r[b]
    BY <1>3, <2>1, ReconciledAssumption
  <2>2. CASE s \in running[b] /\ t \in running[b]
    BY <1>3, <2>2 DEF NamesInv, Named
  <2> QED
    BY <1>2, <1>3, <2>1, <2>2
<1>4. Named(running')
  BY <1>2, <1>3 DEF Named
<1>5. /\ saved' = saved /\ config' = config /\ got' = got /\ entries' = entries /\ pc' = pc
  BY DEF Reconcile, SystemdFrame, files, syncVars
<1> QED
  BY <1>4, <1>5 DEF NamesInv, Named, Distinct, Unslotted

LEMMA NamesSaveState ==
    ASSUME NamesInv, SaveState
    PROVE  NamesInv'
<1>1. /\ running' = running /\ config' = config /\ got' = got /\ entries' = entries /\ pc' = pc
      /\ saved' = running \/ saved' = saved
  BY DEF SaveState, SystemdFrame, syncVars
<1> QED
  BY <1>1 DEF NamesInv, Named, Distinct, Unslotted

LEMMA NamesEdit ==
    ASSUME NamesInv, Edit
    PROVE  NamesInv'
<1>1. /\ running' = running /\ got' = got /\ entries' = entries /\ pc' = pc
      /\ config' = config \/ config' \in Templates
      /\ saved' = saved \/ saved' = NoServers
  BY DEF Edit, SystemdFrame, syncVars
<1>2. Loadable(config')
  BY <1>1, LoadableAssumption DEF NamesInv
<1>3. Named(saved')
  BY <1>1, Nothing DEF NamesInv
<1> QED
  BY <1>1, <1>2, <1>3 DEF NamesInv, Named, Distinct, Unslotted

LEMMA NamesRestart ==
    ASSUME NamesInv, Restart
    PROVE  NamesInv'
<1>1. /\ running' = running \/ running' = NoServers
      /\ config' = config /\ saved' = saved /\ entries' = entries /\ pc' = "read"
  BY DEF Restart, GatewayFrame, files
<1>2. Named(running')
  BY <1>1, Nothing DEF NamesInv
<1> QED
  BY <1>1, <1>2 DEF NamesInv, Named, Distinct, Unslotted

\* The steps of a sync.
LEMMA NamesSync ==
    ASSUME NamesInv, SyncFrame, Loadable(config'), pc' \in {"parse", "rewrite"} => Loadable(got'),
           Distinct(entries'), Unslotted(entries')
    PROVE  NamesInv'
<1>1. running' = running /\ saved' = saved
  BY DEF SyncFrame, GatewayFrame
<1> QED
  BY <1>1 DEF NamesInv, Named, Distinct, Unslotted

LEMMA NamesFails ==
    ASSUME NamesInv, SyncFails, SyncFrame
    PROVE  NamesInv'
<1>1. pc' = "load" /\ entries' = NoEntries /\ config' = config
  BY DEF SyncFails
<1>2. Loadable(config') /\ Distinct(entries') /\ Unslotted(entries')
  BY <1>1, Nothing DEF NamesInv
<1> QED
  BY <1>1, <1>2, NamesSync

LEMMA NamesReadConfig ==
    ASSUME NamesInv, ReadConfig
    PROVE  NamesInv'
<1>1. got' = config /\ config' = config /\ entries' = entries /\ SyncFrame
  BY DEF ReadConfig
<1>2. Loadable(config') /\ Loadable(got') /\ Distinct(entries') /\ Unslotted(entries')
  BY <1>1 DEF NamesInv
<1> QED
  BY <1>1, <1>2, NamesSync

LEMMA ParseIsCurrent ==
    ASSUME ParseStateFile, ~SyncFails
    PROVE  /\ Current /\ pc = "parse" /\ pc' = "rewrite" /\ entries' = FileEntries
           /\ config' = config /\ got' = got /\ quiet' = quiet
BY DEF ParseStateFile, Current, FileEntries

LEMMA NamesParseStateFile ==
    ASSUME NamesInv, FileInv, ParseStateFile
    PROVE  NamesInv'
<1>1. SyncFrame
  BY DEF ParseStateFile
<1>2. CASE SyncFails
  BY <1>1, <1>2, NamesFails
<1>3. CASE ~SyncFails
  <2>1. /\ Current /\ pc = "parse" /\ entries' = FileEntries /\ config' = config /\ got' = got
    BY <1>3, ParseIsCurrent
  <2>2. Distinct(FileEntries) /\ HoldsOf(FileEntries, saved) /\ Named(saved)
    BY <2>1 DEF FileInv, NamesInv
  <2>3. Unslotted(FileEntries)
    BY <2>2, HeldUnslotted
  <2>4. Loadable(config') /\ Loadable(got') /\ Distinct(entries') /\ Unslotted(entries')
    BY <2>1, <2>2, <2>3 DEF NamesInv
  <2> QED
    BY <1>1, <2>4, NamesSync
<1> QED
  BY <1>2, <1>3

LEMMA NamesWriteConfig ==
    ASSUME TypeInv, NamesInv, WriteConfig
    PROVE  NamesInv'
<1>1. SyncFrame /\ pc = "rewrite" /\ pc' = "load" /\ entries' = NoEntries
  BY WriteConfigIs
<1>2. CASE SyncFails
  BY <1>1, <1>2, NamesFails
<1>3. CASE ~SyncFails
  <2>1. ~Malformed(got) /\ (config' = config \/ config' = Rewrite(got, entries))
    BY <1>3, WriteConfigIs
  <2>2. Authored(got) /\ Loadable(got) /\ entries \in EntriesType /\ Distinct(entries) /\ Unslotted(entries)
    BY <1>1 DEF TypeInv, NamesInv
  <2>3. WellMarked(got)
    BY <2>1, <2>2, RewrittenAuthored
  <2>4. Loadable(Rewrite(got, entries))
    BY <2>2, <2>3, RewrittenLoadable
  <2>5. Loadable(config')
    BY <2>1, <2>4 DEF NamesInv
  <2>6. Distinct(entries') /\ Unslotted(entries')
    BY <1>1, Nothing
  <2> QED
    BY <1>1, <2>5, <2>6, NamesSync
<1> QED
  BY <1>2, <1>3

LEMMA NamesLoad ==
    ASSUME NamesInv, Load
    PROVE  NamesInv'
<1>1. /\ config' = config /\ entries' = entries /\ saved' = saved /\ pc' = "up"
  BY DEF Load, GatewayFrame, files, syncVars
<1>2. NamedLines(config) /\ Named(saved)
  BY DEF NamesInv, Loadable, NamedLines
<1>3. Named(running')
  <2>1. Named(Loaded(config))
    BY <1>2, LoadedNamed
  <2> QED
    BY <2>1, LoadIs
<1> QED
  BY <1>1, <1>3 DEF NamesInv, Named, Distinct, Unslotted

LEMMA NamesStep ==
    ASSUME TypeInv, NamesInv, FileInv, [Next]_vars
    PROVE  NamesInv'
<1>1. CASE Reconcile
  BY <1>1, NamesReconcile
<1>2. CASE SaveState
  BY <1>2, NamesSaveState
<1>3. CASE Edit
  BY <1>3, NamesEdit
<1>4. CASE Restart
  BY <1>4, NamesRestart
<1>5. CASE ReadConfig
  BY <1>5, NamesReadConfig
<1>6. CASE ReadFails
  BY <1>6, NamesFails DEF ReadFails
<1>7. CASE ParseStateFile
  BY <1>7, NamesParseStateFile
<1>8. CASE WriteConfig
  BY <1>8, NamesWriteConfig
<1>9. CASE WriteFails
  BY <1>9, NamesFails DEF WriteFails
<1>10. CASE Load
  BY <1>10, NamesLoad
<1>11. CASE UNCHANGED vars
  BY <1>11, NamesFrame DEF vars, files, syncVars
<1> QED
  BY <1>1, <1>2, <1>3, <1>4, <1>5, <1>6, <1>7, <1>8, <1>9, <1>10, <1>11 DEF Next, SyncNext

\* A step that leaves the state file alone.
LEMMA FileKept ==
    ASSUME FileInv, UNCHANGED <<stateFile, saved>>,
           quiet' # "none" /\ pc' = "rewrite" => (quiet # "none" /\ pc = "rewrite") \/ Current,
           quiet' = "synced" => quiet = "synced" \/ Current
    PROVE  FileInv'
<1>1. FileEntries' = FileEntries /\ (Current' <=> Current)
  BY DEF FileEntries, Current
<1>2. Distinct(FileEntries)' <=> Distinct(FileEntries)
  BY <1>1 DEF Distinct
<1>3. HoldsOf(FileEntries, saved)' <=> HoldsOf(FileEntries, saved)
  BY <1>1 DEF HoldsOf
<1> QED
  BY <1>1, <1>2, <1>3 DEF FileInv

LEMMA FileSaveState ==
    ASSUME TypeInv, NamesInv, FileInv, SaveState
    PROVE  FileInv'
<1>1. pc' = pc
  BY DEF SaveState, SystemdFrame
<1>2. CASE stateFile' = Show(running) /\ saved' = running /\ quiet' = "none"
  <2>1. layout \in Layouts /\ Known(running) /\ Named(running)
    BY DEF TypeInv, NamesInv
  <2>2. /\ Show(running) # NoFile
        /\ Distinct(Parse(Show(running))) /\ HoldsOf(Parse(Show(running)), running)
    BY <2>1, ShownHolds
  <2>3. FileEntries' = Parse(Show(running))
    BY <1>2, <2>2 DEF FileEntries
  <2>4. Distinct(FileEntries')
    BY <2>2, <2>3
  <2>5. HoldsOf(FileEntries', saved')
    BY <1>2, <2>2, <2>3
  <2> QED
    BY <1>2, <2>4, <2>5 DEF FileInv, Distinct, HoldsOf
<1>3. CASE UNCHANGED <<stateFile, saved, quiet>>
  BY <1>1, <1>3, FileKept
<1> QED
  BY <1>2, <1>3 DEF SaveState

LEMMA FileEdit ==
    ASSUME FileInv, Edit
    PROVE  FileInv'
<1>1. quiet' = "none"
  BY DEF Edit
<1>2. CASE UNCHANGED <<stateFile, saved>>
  BY <1>1, <1>2, FileKept
<1>3. CASE stateFile' \in OddFiles /\ saved' = NoServers
  <2>1. ASSUME Current'
        PROVE  Distinct(FileEntries') /\ HoldsOf(FileEntries', NoServers)
    <3>1. CASE stateFile' = NoFile
      <4>1. FileEntries' = NoEntries
        BY <3>1 DEF FileEntries
      <4> QED
        BY <4>1, Nothing
    <3>2. CASE stateFile' # NoFile
      <4>1. stateFile'.version = 1
        BY <2>1, <3>2 DEF Current
      <4>2. Distinct(Parse(stateFile')) /\ HoldsOf(Parse(stateFile'), NoServers)
        BY <1>3, <4>1, ParsedOdd
      <4>3. FileEntries' = Parse(stateFile')
        BY <3>2 DEF FileEntries
      <4> QED
        BY <4>2, <4>3
    <3> QED
      BY <3>1, <3>2
  <2>2. Current' => Distinct(FileEntries') /\ HoldsOf(FileEntries', saved')
    BY <1>3, <2>1
  <2> QED
    BY <1>1, <2>2 DEF FileInv, Distinct, HoldsOf
<1> QED
  BY <1>2, <1>3 DEF Edit

LEMMA FileStep ==
    ASSUME TypeInv, NamesInv, FileInv, [Next]_vars
    PROVE  FileInv'
<1>1. CASE Reconcile
  BY <1>1, FileKept DEF Reconcile, SystemdFrame, files
<1>2. CASE SaveState
  BY <1>2, FileSaveState
<1>3. CASE Edit
  BY <1>3, FileEdit
<1>4. CASE Restart
  BY <1>4, FileKept DEF Restart, GatewayFrame, files
<1>5. CASE ReadConfig
  <2>1. /\ stateFile' = stateFile /\ saved' = saved /\ pc' = "parse"
        /\ quiet' = IF quiet = "none" THEN "begun" ELSE quiet
    BY <1>5 DEF ReadConfig, SyncFrame, GatewayFrame
  <2>2. quiet' = "synced" => quiet = "synced"
    BY <2>1
  <2> QED
    BY <2>1, <2>2, FileKept
<1>6. CASE SyncFails /\ SyncFrame
  BY <1>6, FileKept DEF SyncFails, SyncFrame, GatewayFrame
<1>7. CASE ParseStateFile /\ ~SyncFails
  <2>1. Current /\ quiet' = quiet /\ stateFile' = stateFile /\ saved' = saved
    BY <1>7, ParseIsCurrent DEF ParseStateFile, SyncFrame, GatewayFrame
  <2> QED
    BY <2>1, FileKept
<1>8. CASE WriteConfig /\ ~SyncFails
  <2>1. /\ stateFile' = stateFile /\ saved' = saved /\ pc = "rewrite" /\ pc' = "load"
        /\ quiet' = IF quiet = "none" THEN "none" ELSE "synced"
    BY <1>8, WriteConfigIs DEF SyncFrame, GatewayFrame
  <2>2. quiet' = "synced" => Current
    BY <2>1 DEF FileInv
  <2> QED
    BY <2>1, <2>2, FileKept
<1>10. CASE Load
  BY <1>10, FileKept DEF Load, GatewayFrame, files
<1>11. CASE UNCHANGED vars
  BY <1>11, FileKept DEF vars, files
<1> QED
  BY <1>1, <1>2, <1>3, <1>4, <1>5, <1>6, <1>7, <1>8, <1>10, <1>11
  DEF Next, SyncNext, ReadFails, WriteFails, ParseStateFile, WriteConfig
----------------------------------------------------------------------------
(* The theorems.                                                           *)

Inv == TypeInv /\ SyncInv /\ NamesInv /\ FileInv

THEOREM Invariance == Spec => []Inv
<1>1. Init => Inv
  BY TypeInit, NamesInit DEF Init, Inv, SyncInv
<1>2. Inv /\ [Next]_vars => Inv'
  BY TypeStep, SyncStep, NamesStep, FileStep DEF Inv
<1> QED
  BY <1>1, <1>2, PTL DEF Spec

\* Whatever the state file holds, what a sync takes from it can be written as
\* server lines; and the types of everything else.
THEOREM TypeCorrect == Spec => []TypeOK
<1>1. Inv => TypeOK
  BY DEF Inv, TypeInv, TypeOK, Known, EntriesType, Servers
<1> QED
  BY <1>1, Invariance, PTL

\* A sync that no edit overtakes changes nothing outside the blocks
\* (rewriteServerStateConfigBlocks), whatever the config and the entries.
THEOREM OutsideCorrect == Spec => LinesPreserved
<1>1. Inv /\ [Next]_vars =>
         (pc = "rewrite" /\ pc' # pc /\ got = config =>
            OutsideBlocks(config') = OutsideBlocks(config))
  <2>1. SUFFICES ASSUME Inv, [Next]_vars, pc = "rewrite", pc' # pc, got = config
                 PROVE  OutsideBlocks(config') = OutsideBlocks(config)
    OBVIOUS
  <2>2. CASE WriteConfig /\ ~SyncFails
    BY <2>1, <2>2, SyncWrites DEF Inv
  <2>3. CASE SyncFails
    BY <2>3 DEF SyncFails
  <2>4. WriteConfig \/ WriteFails
    BY <2>1 DEF Next, SyncNext, vars, Reconcile, SaveState, Edit, SystemdFrame, Restart, ReadConfig,
                ReadFails, ParseStateFile, Load
  <2> QED
    BY <2>2, <2>3, <2>4 DEF WriteFails
<1> QED
  BY <1>1, Invariance, PTL DEF Spec, LinesPreserved

\* Restarts do not make the blocks grow: a sync whose files an earlier one has
\* left as they are writes nothing.
THEOREM SettlesCorrect == Spec => SyncSettles
<1>1. Inv /\ [Next]_vars => (quiet = "synced" /\ edits' = edits => config' = config)
  <2>1. SUFFICES ASSUME Inv, [Next]_vars, quiet = "synced", edits' = edits
                 PROVE  config' = config
    OBVIOUS
  <2>2. CASE WriteConfig /\ ~SyncFails
    <3>1. got = config /\ entries = FileEntries /\ Rewrite(config, FileEntries) = config
      BY <2>1, <2>2, WriteConfigIs DEF Inv, SyncInv
    <3>2. config' = Rewrite(config, entries)
      BY <2>1, <2>2, <3>1, SyncWrites DEF Inv
    <3> QED
      BY <3>1, <3>2
  <2>3. CASE SyncFails
    BY <2>3 DEF SyncFails
  <2>4. ~Edit
    BY <2>1 DEF Edit, Inv, TypeInv
  <2>5. CASE Reconcile \/ SaveState \/ Restart \/ ReadConfig \/ Load \/ UNCHANGED vars
    BY <2>5 DEF Reconcile, SaveState, Restart, ReadConfig, Load, vars, files
  <2>6. CASE ParseStateFile /\ ~SyncFails
    BY <2>6 DEF ParseStateFile
  <2> QED
    BY <2>1, <2>2, <2>3, <2>4, <2>5, <2>6 DEF Next, SyncNext, ReadFails, WriteFails
<1> QED
  BY <1>1, Invariance, PTL DEF Spec, SyncSettles

\* HAProxy never finds two servers of one name in a backend, whatever a sync has
\* written (rewriteServerStateConfigBlocks), as long as the config's authors leave
\* the server lines of a backend with a block to the block.
THEOREM DistinctCorrect == Spec => []DistinctServers
<1>1. Inv => DistinctServers
  <2>1. SUFFICES ASSUME Inv, NEW i \in LinesOf(config, {"server"}), NEW j \in LinesOf(config, {"server"}),
                        config[i].name = config[j].name, Section(config, i) = Section(config, j)
                 PROVE  i = j
    BY DEF DistinctServers
  <2>2. i \in LinesOf(config, {"server", "slot"}) /\ j \in LinesOf(config, {"server", "slot"})
    BY DEF LinesOf
  <2> QED
    BY <2>1, <2>2 DEF Inv, NamesInv, Loadable
<1> QED
  BY <1>1, Invariance, PTL

\* src/README.md:224: after a sync that nothing overtook, a restarted HAProxy has
\* exactly the saved servers in each backend with a block.
THEOREM RestartCorrect == Spec => RestartKeepsServers
<1>1. Inv /\ [Next]_vars =>
         (pc = "load" /\ synced /\ quiet = "synced" /\ pc' = "up" =>
            \A b \in Backends : HasBlock(config, b) =>
                UsableServers(running'[b]) = UsableServers(saved[b]))
  <2>1. SUFFICES ASSUME Inv, [Next]_vars, pc = "load", quiet = "synced", pc' = "up",
                        NEW b \in Backends, HasBlock(config, b)
                 PROVE  UsableServers(running'[b]) = UsableServers(saved[b])
    OBVIOUS
  <2>2. Load
    BY <2>1 DEF Next, SyncNext, vars, Reconcile, SaveState, Edit, SystemdFrame, Restart, ReadConfig,
                ReadFails, ParseStateFile, WriteConfig, WriteFails
  <2>3. running' = Loaded(config)
    BY <2>2, LoadIs
  <2>4. /\ WellMarked(config) /\ Loadable(config) /\ Named(saved)
        /\ Rewrite(config, FileEntries) = config /\ HoldsOf(FileEntries, saved)
    BY <2>1 DEF Inv, SyncInv, NamesInv, FileInv
  <2>5. FileEntries \in EntriesType
    BY <2>1, FileEntriesType DEF Inv
  <2>6. UsableServers(Loaded(config)[b]) = UsableServers(saved[b])
    BY <2>1, <2>4, <2>5, Reloaded
  <2> QED
    BY <2>3, <2>6
<1> QED
  BY <1>1, Invariance, PTL DEF Spec, RestartKeepsServers
=============================================================================
