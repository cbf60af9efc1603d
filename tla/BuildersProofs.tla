--------------------------- MODULE BuildersProofs ---------------------------
(***************************************************************************)
(* Lemmas about the operators that the builders' answers are made of: what *)
(* a filtered list, a list of pages, a bag and an answer hold, for every   *)
(* listing.  The recursive functions are shown to exist and to have their  *)
(* members by induction over sets of numbers (Induct).                     *)
(***************************************************************************)
EXTENDS Builders, TLAPS, SequenceTheorems, WellFoundedInduction

-----------------------------------------------------------------------------
(* Numbers and sequences *)

(* A set of numbers that is not empty has a least one.                     *)
LEMMA LeastNumber ==
  ASSUME NEW T \in SUBSET Nat, T # {}
  PROVE  \E x \in T : \A y \in T : x <= y
<1>1. PICK x \in T : \A y \in T : ~(<<y, x>> \in OpToRel(<, Nat))
  BY NatLessThanWellFounded, WFMin
<1>2. ASSUME NEW y \in T PROVE x <= y
  <2>1. ~(<<y, x>> \in OpToRel(<, Nat))
    BY <1>1
  <2>2. <<y, x>> \in Nat \X Nat /\ <<y, x>>[1] = y /\ <<y, x>>[2] = x
    OBVIOUS
  <2>3. ~(y < x)
    BY <2>1, <2>2 DEF OpToRel
  <2> QED BY <2>3
<1> QED BY <1>2

(* Induction over the numbers, said of a set of them.                      *)
LEMMA Induct ==
  ASSUME NEW P \in SUBSET Nat, 0 \in P, \A n \in P : n + 1 \in P
  PROVE  P = Nat
<1> SUFFICES ASSUME Nat \ P # {} PROVE FALSE
  OBVIOUS
<1>1. PICK x \in Nat \ P : \A y \in Nat \ P : x <= y
  BY LeastNumber
<1>2. x # 0 /\ x - 1 \in Nat
  OBVIOUS
<1>3. x - 1 \in P
  BY <1>1, <1>2
<1>4. x - 1 + 1 \in P
  BY <1>3
<1> QED BY <1>2, <1>4

(* What a concatenation holds: what its parts hold.                        *)
LEMMA ConcatMembers ==
  ASSUME NEW S, NEW s \in Seq(S), NEW t \in Seq(S)
  PROVE  s \o t \in Seq(S) /\ ToSet(s \o t) = ToSet(s) \union ToSet(t)
<1>1. s \o t \in Seq(S) /\ Len(s \o t) = Len(s) + Len(t)
  OBVIOUS
<1>2. \A i \in 1 .. Len(s) : (s \o t)[i] = s[i]
  OBVIOUS
<1>3. \A i \in 1 .. Len(t) : Len(s) + i \in 1 .. Len(s) + Len(t) /\ (s \o t)[Len(s) + i] = t[i]
  OBVIOUS
<1>4. \A i \in 1 .. Len(s) + Len(t) : i \in 1 .. Len(s) \/ \E j \in 1 .. Len(t) : i = Len(s) + j
  <2>1. SUFFICES ASSUME NEW i \in 1 .. Len(s) + Len(t), ~(i \in 1 .. Len(s))
                 PROVE  \E j \in 1 .. Len(t) : i = Len(s) + j
    OBVIOUS
  <2>2. i - Len(s) \in 1 .. Len(t) /\ i = Len(s) + (i - Len(s))
    BY <2>1
  <2> QED BY <2>2
<1>5. DOMAIN s = 1 .. Len(s) /\ DOMAIN t = 1 .. Len(t) /\ DOMAIN (s \o t) = 1 .. Len(s) + Len(t)
  BY <1>1
<1>6. \A i \in 1 .. Len(s) : i \in 1 .. Len(s) + Len(t)
  OBVIOUS
<1>7. ToSet(s \o t) \subseteq ToSet(s) \union ToSet(t)
  BY <1>2, <1>3, <1>4, <1>5 DEF ToSet
<1>8. ToSet(s) \union ToSet(t) \subseteq ToSet(s \o t)
  BY <1>2, <1>3, <1>5, <1>6 DEF ToSet
<1> QED BY <1>1, <1>7, <1>8

(* What appending adds: the element.                                       *)
LEMMA AppendMembers ==
  ASSUME NEW S, NEW s \in Seq(S), NEW x \in S
  PROVE  Append(s, x) \in Seq(S) /\ ToSet(Append(s, x)) = ToSet(s) \union {x}
<1>1. Append(s, x) = s \o <<x>>
  BY AppendIsConcat
<1>2. <<x>> \in Seq(S) /\ ToSet(<<x>>) = {x}
  BY DEF ToSet
<1>3. s \o <<x>> \in Seq(S) /\ ToSet(s \o <<x>>) = ToSet(s) \union ToSet(<<x>>)
  BY <1>2, ConcatMembers
<1> QED BY <1>1, <1>2, <1>3

(* A sequence is what is below its top, and the top.                       *)
LEMMA SeqParts ==
  ASSUME NEW S, NEW s \in Seq(S), s # <<>>
  PROVE  /\ Len(s) \in Nat \ {0} /\ Top(s) = s[Len(s)] /\ Top(s) \in S /\ Top(s) \in ToSet(s)
         /\ Rest(s) \in Seq(S) /\ Len(Rest(s)) = Len(s) - 1
         /\ \A i \in 1 .. Len(s) - 1 : Rest(s)[i] = s[i]
         /\ ToSet(s) = ToSet(Rest(s)) \union {Top(s)}
<1>1. Len(s) \in Nat /\ Len(s) # 0 /\ DOMAIN s = 1 .. Len(s)
  OBVIOUS
<1>2. Top(s) = s[Len(s)] /\ Top(s) \in S /\ Top(s) \in ToSet(s)
  BY <1>1 DEF Top, ToSet
<1>3. /\ Rest(s) \in Seq(S) /\ Len(Rest(s)) = Len(s) - 1
      /\ \A i \in 1 .. Len(s) - 1 : Rest(s)[i] = s[i]
  BY <1>1 DEF Rest
<1>4. DOMAIN Rest(s) = 1 .. Len(s) - 1
  BY <1>3
<1>5. 1 .. Len(s) = (1 .. Len(s) - 1) \union {Len(s)}
  BY <1>1
<1>6. ToSet(s) = ToSet(Rest(s)) \union {Top(s)}
  BY <1>1, <1>2, <1>3, <1>4, <1>5 DEF ToSet
<1> QED BY <1>1, <1>2, <1>3, <1>6

(* Replacing the top of a sequence by others.                              *)
LEMMA Replaced ==
  ASSUME NEW S, NEW s \in Seq(S), s # <<>>, NEW L \in Seq(S)
  PROVE  /\ Rest(s) \o L \in Seq(S)
         /\ ToSet(Rest(s) \o L) = ToSet(Rest(s)) \union ToSet(L)
         /\ ToSet(s) = ToSet(Rest(s)) \union {Top(s)}
         /\ Top(s) \in S
BY SeqParts, ConcatMembers

(* A sequence made from another one, element by element: its elements are  *)
(* the images of the other one's.                                          *)
LEMMA Mapped ==
  ASSUME NEW T, NEW ids \in Seq(T), NEW U, NEW seq, NEW G,
         seq = [n \in DOMAIN ids |-> seq[n]],
         \A n \in DOMAIN ids : seq[n] = G[ids[n]] /\ seq[n] \in U
  PROVE  /\ seq \in Seq(U)
         /\ \A r \in ToSet(seq) : \E i \in ToSet(ids) : r = G[i]
         /\ \A i \in ToSet(ids) : G[i] \in ToSet(seq)
<1>1. DOMAIN ids = 1 .. Len(ids) /\ Len(ids) \in Nat
  OBVIOUS
<1>2. DOMAIN seq = DOMAIN ids
  OBVIOUS
<1>3. seq \in [1 .. Len(ids) -> U]
  BY <1>1
<1>4. seq \in Seq(U)
  BY <1>1, <1>3, SeqDef
<1>5. /\ \A r \in ToSet(seq) : \E i \in ToSet(ids) : r = G[i]
      /\ \A i \in ToSet(ids) : G[i] \in ToSet(seq)
  BY <1>2 DEF ToSet
<1> QED BY <1>4, <1>5

(* FlattenSeq's recursive function exists, whatever the sequences.         *)
LEMMA FlattenExists ==
  ASSUME NEW seqs, NEW k \in Nat
  PROVE  \E f : f = [i \in 1 .. k |-> IF i = 1 THEN seqs[i] ELSE f[i - 1] \o seqs[i]]
<1> DEFINE P == {n \in Nat : \E f : f = [i \in 1 .. n |->
                                IF i = 1 THEN seqs[i] ELSE f[i - 1] \o seqs[i]]}
<1>1. 0 \in P
  <2>1. [i \in 1 .. 0 |-> <<>>] = [i \in 1 .. 0 |->
           IF i = 1 THEN seqs[i] ELSE [j \in 1 .. 0 |-> <<>>][i - 1] \o seqs[i]]
    OBVIOUS
  <2> QED BY <2>1
<1>2. ASSUME NEW n \in P PROVE n + 1 \in P
  <2>1. PICK f : f = [i \in 1 .. n |-> IF i = 1 THEN seqs[i] ELSE f[i - 1] \o seqs[i]]
    OBVIOUS
  <2> DEFINE g == [i \in 1 .. n + 1 |->
                     IF i <= n THEN f[i]
                     ELSE IF i = 1 THEN seqs[i] ELSE f[n] \o seqs[i]]
  <2>2. ASSUME NEW i \in 1 .. n + 1
        PROVE  g[i] = IF i = 1 THEN seqs[i] ELSE g[i - 1] \o seqs[i]
    <3>1. CASE i <= n
      <4>1. i \in 1 .. n /\ g[i] = f[i]
        BY <3>1
      <4>2. f[i] = IF i = 1 THEN seqs[i] ELSE f[i - 1] \o seqs[i]
        BY <2>1, <4>1
      <4>3. i # 1 => i - 1 \in 1 .. n + 1 /\ i - 1 <= n
        BY <4>1
      <4>4. i # 1 => g[i - 1] = f[i - 1]
        BY <4>3
      <4> QED BY <4>1, <4>2, <4>4
    <3>2. CASE i = n + 1
      <4>1. n \in Nat
        OBVIOUS
      <4>2. ~(i <= n)
        BY <3>2, <4>1
      <4>3. g[i] = IF i = 1 THEN seqs[i] ELSE f[n] \o seqs[i]
        BY <4>2
      <4>4. i # 1 => i - 1 = n /\ n \in 1 .. n + 1 /\ n <= n
        BY <3>2, <4>1
      <4>5. i # 1 => g[i - 1] = f[n]
        BY <4>4
      <4> QED BY <4>3, <4>5
    <3> QED BY <3>1, <3>2
  <2>3. g = [i \in 1 .. n + 1 |-> IF i = 1 THEN seqs[i] ELSE g[i - 1] \o seqs[i]]
    <3> DEFINE h == [i \in 1 .. n + 1 |-> IF i = 1 THEN seqs[i] ELSE g[i - 1] \o seqs[i]]
    <3>1. \A i \in 1 .. n + 1 : g[i] = h[i]
      <4> HIDE DEF g
      <4> QED BY <2>2
    <3> QED BY <3>1
  <2>4. \E x : x = [i \in 1 .. n + 1 |-> IF i = 1 THEN seqs[i] ELSE x[i - 1] \o seqs[i]]
    <3> HIDE DEF g
    <3> QED BY <2>3
  <2>5. n + 1 \in Nat
    OBVIOUS
  <2> QED BY <2>4, <2>5
<1>3. P = Nat
  <2>1. P \in SUBSET Nat
    OBVIOUS
  <2> HIDE DEF P
  <2> QED BY <2>1, <1>1, <1>2, Induct
<1> QED BY <1>3

(* FlattenSeq, which makes one list of the pages of a listing: it holds    *)
(* what the pages hold.                                                    *)
LEMMA FlattenMembers ==
  ASSUME NEW T, NEW seqs \in Seq(Seq(T))
  PROVE  /\ FlattenSeq(seqs) \in Seq(T)
         /\ ToSet(FlattenSeq(seqs)) = UNION {ToSet(seqs[n]) : n \in DOMAIN seqs}
<1>1. CASE Len(seqs) = 0
  <2>1. seqs = <<>>
    BY <1>1
  <2>2. FlattenSeq(seqs) = <<>>
    BY <1>1, <2>1 DEF FlattenSeq
  <2>3. ToSet(<<>>) = {} /\ DOMAIN <<>> = {}
    BY DEF ToSet
  <2>4. UNION {ToSet(seqs[n]) : n \in DOMAIN seqs} = {}
    BY <2>1, <2>3
  <2>5. <<>> \in Seq(T)
    OBVIOUS
  <2> QED BY <2>2, <2>3, <2>4, <2>5
<1>2. CASE Len(seqs) # 0
  <2> DEFINE N == Len(seqs)
             flatten == CHOOSE f : f = [i \in 1 .. N |->
                          IF i = 1 THEN seqs[i] ELSE f[i - 1] \o seqs[i]]
             UpTo(n) == UNION {ToSet(seqs[m]) : m \in 1 .. n}
             P == {n \in Nat : n + 1 \in 1 .. N =>
                     flatten[n + 1] \in Seq(T) /\ ToSet(flatten[n + 1]) = UpTo(n + 1)}
  <2>1. N \in Nat /\ N # 0 /\ DOMAIN seqs = 1 .. N /\ \A i \in 1 .. N : seqs[i] \in Seq(T)
    BY <1>2
  <2>2. flatten = [i \in 1 .. N |-> IF i = 1 THEN seqs[i] ELSE flatten[i - 1] \o seqs[i]]
    BY <2>1, FlattenExists
  <2>3. \A i \in 1 .. N : flatten[i] = IF i = 1 THEN seqs[i] ELSE flatten[i - 1] \o seqs[i]
    <3> HIDE DEF flatten
    <3> QED BY <2>2
  <2>4. FlattenSeq(seqs) = flatten[N]
    BY <1>2 DEF FlattenSeq
  <2> HIDE DEF N, flatten
  <2>5. 0 \in P
    <3>1. 1 \in 1 .. N => flatten[1] = seqs[1]
      BY <2>3
    <3>2. 1 .. 1 = {1}
      OBVIOUS
    <3>3. UpTo(1) = ToSet(seqs[1])
      BY <3>2
    <3> QED BY <2>1, <3>1, <3>3
  <2>6. ASSUME NEW n \in P PROVE n + 1 \in P
    <3>0. n \in Nat
      OBVIOUS
    <3>x. n + 1 \in Nat /\ n + 1 + 1 = n + 2
      BY <3>0
    <3> SUFFICES ASSUME n + 2 \in 1 .. N
                 PROVE  flatten[n + 2] \in Seq(T) /\ ToSet(flatten[n + 2]) = UpTo(n + 2)
      BY <3>x
    <3>1. n + 1 \in 1 .. N
      BY <2>1, <3>0
    <3>2. flatten[n + 1] \in Seq(T) /\ ToSet(flatten[n + 1]) = UpTo(n + 1)
      BY <3>1
    <3>3. flatten[n + 2] = flatten[n + 1] \o seqs[n + 2]
      <4>1. n + 2 # 1 /\ n + 2 - 1 = n + 1
        BY <3>0
      <4>2. flatten[n + 2] = IF n + 2 = 1 THEN seqs[n + 2]
                             ELSE flatten[n + 2 - 1] \o seqs[n + 2]
        BY <2>3
      <4> QED BY <4>1, <4>2
    <3>4. seqs[n + 2] \in Seq(T)
      BY <2>1
    <3> DEFINE u == flatten[n + 1]
               v == seqs[n + 2]
    <3>5. u \o v \in Seq(T) /\ ToSet(u \o v) = ToSet(u) \union ToSet(v)
      <4> HIDE DEF u, v
      <4>1. u \in Seq(T) /\ v \in Seq(T)
        BY <3>2, <3>4 DEF u, v
      <4> QED BY <4>1, ConcatMembers
    <3>6. 1 .. n + 2 = (1 .. n + 1) \union {n + 2}
      BY <3>0
    <3>7. UpTo(n + 2) = UpTo(n + 1) \union ToSet(seqs[n + 2])
      BY <3>6
    <3> QED BY <3>2, <3>3, <3>5, <3>7
  <2>7. P = Nat
    <3>1. P \in SUBSET Nat
      OBVIOUS
    <3> HIDE DEF P
    <3> QED BY <3>1, <2>5, <2>6, Induct
  <2>8. N - 1 \in Nat /\ N - 1 + 1 = N /\ N \in 1 .. N
    BY <2>1
  <2>9. flatten[N] \in Seq(T) /\ ToSet(flatten[N]) = UpTo(N)
    BY <2>7, <2>8
  <2> QED BY <2>1, <2>4, <2>9
<1> QED BY <1>1, <1>2

\* f is Only's recursive function up to k.
IsOnly(f, seq, S, k) ==
  f = [n \in 0 .. k |->
         IF n = 0 THEN <<>> ELSE IF seq[n] \in S THEN Append(f[n - 1], seq[n]) ELSE f[n - 1]]

(* Only's recursive function exists.                                       *)
LEMMA OnlyExists ==
  ASSUME NEW seq, NEW S, NEW k \in Nat
  PROVE  \E f : IsOnly(f, seq, S, k)
<1> DEFINE Step(f, n) == IF n = 0 THEN <<>>
                         ELSE IF seq[n] \in S THEN Append(f[n - 1], seq[n]) ELSE f[n - 1]
           P == {n \in Nat : \E f : f = [m \in 0 .. n |-> Step(f, m)]}
<1>1. 0 \in P
  <2> DEFINE f == [m \in 0 .. 0 |-> <<>>]
  <2>1. \A m \in 0 .. 0 : m = 0 /\ f[m] = <<>>
    OBVIOUS
  <2>2. f = [m \in 0 .. 0 |-> Step(f, m)]
    BY <2>1
  <2> QED BY <2>2
<1>2. ASSUME NEW n \in P PROVE n + 1 \in P
  <2>0. n \in Nat
    OBVIOUS
  <2>1. PICK f : f = [m \in 0 .. n |-> Step(f, m)]
    OBVIOUS
  <2> DEFINE g == [m \in 0 .. n + 1 |-> IF m <= n THEN f[m] ELSE Step(f, m)]
             h == [m \in 0 .. n + 1 |-> Step(g, m)]
  <2>2. ASSUME NEW m \in 0 .. n + 1 PROVE g[m] = Step(g, m)
    <3>1. CASE m <= n
      <4>1. m \in 0 .. n /\ g[m] = f[m]
        BY <2>0, <3>1
      <4>2. f[m] = Step(f, m)
        BY <2>1, <4>1
      <4>3. m # 0 => m - 1 \in 0 .. n + 1 /\ m - 1 <= n
        BY <2>0, <4>1
      <4>4. m # 0 => g[m - 1] = f[m - 1]
        BY <4>3
      <4> HIDE DEF g
      <4> QED BY <4>1, <4>2, <4>4
    <3>2. CASE m = n + 1
      <4>1. ~(m <= n) /\ m # 0 /\ m - 1 \in 0 .. n + 1 /\ m - 1 <= n
        BY <2>0, <3>2
      <4>2. g[m] = Step(f, m)
        BY <4>1
      <4>3. g[m - 1] = f[m - 1]
        BY <4>1
      <4> HIDE DEF g
      <4> QED BY <4>1, <4>2, <4>3
    <3> QED BY <2>0, <3>1, <3>2
  <2>3. g = h
    <3>1. \A m \in 0 .. n + 1 : g[m] = h[m]
      <4> HIDE DEF g
      <4> QED BY <2>2
    <3> QED BY <3>1
  <2>4. \E x : x = [m \in 0 .. n + 1 |-> Step(x, m)]
    <3> HIDE DEF g
    <3> QED BY <2>3
  <2>5. n + 1 \in Nat
    BY <2>0
  <2> QED BY <2>4, <2>5
<1>3. P = Nat
  <2>1. P \in SUBSET Nat
    OBVIOUS
  <2> HIDE DEF P
  <2> QED BY <2>1, <1>1, <1>2, Induct
<1> QED BY <1>3 DEF IsOnly

(* Only keeps exactly the elements that are in the set, so no builder that *)
(* filters a listing drops others with them.                               *)
LEMMA OnlyMembers ==
  ASSUME NEW T, NEW seq \in Seq(T), NEW S
  PROVE  Only(seq, S) \in Seq(T) /\ ToSet(Only(seq, S)) = ToSet(seq) \intersect S
<1> DEFINE N == Len(seq)
           only == CHOOSE f : f = [n \in 0 .. N |->
             IF n = 0 THEN <<>> ELSE IF seq[n] \in S THEN Append(f[n - 1], seq[n]) ELSE f[n - 1]]
           UpTo(n) == {seq[m] : m \in 1 .. n}
           P == {n \in Nat : n \in 0 .. N =>
                   only[n] \in Seq(T) /\ ToSet(only[n]) = UpTo(n) \intersect S}
<1>1. N \in Nat /\ DOMAIN seq = 1 .. N /\ \A i \in 1 .. N : seq[i] \in T
  OBVIOUS
<1>2. only = [n \in 0 .. N |->
        IF n = 0 THEN <<>> ELSE IF seq[n] \in S THEN Append(only[n - 1], seq[n]) ELSE only[n - 1]]
  <2>1. \E f : IsOnly(f, seq, S, N)
    BY <1>1, OnlyExists
  <2> QED BY <2>1 DEF IsOnly
<1>3. \A n \in 0 .. N : only[n] =
        IF n = 0 THEN <<>> ELSE IF seq[n] \in S THEN Append(only[n - 1], seq[n]) ELSE only[n - 1]
  <2> HIDE DEF only
  <2> QED BY <1>2
<1>4. Only(seq, S) = only[N]
  BY DEF Only
<1> HIDE DEF N, only
<1>5. 0 \in P
  <2>1. 0 \in 0 .. N => only[0] = <<>>
    BY <1>3
  <2>2. UpTo(0) = {}
    OBVIOUS
  <2>3. ToSet(<<>>) = {} /\ <<>> \in Seq(T)
    BY DEF ToSet
  <2> QED BY <2>1, <2>2, <2>3
<1>6. ASSUME NEW n \in P PROVE n + 1 \in P
  <2>0. n \in Nat /\ n + 1 \in Nat
    OBVIOUS
  <2> SUFFICES ASSUME n + 1 \in 0 .. N
               PROVE  only[n + 1] \in Seq(T) /\ ToSet(only[n + 1]) = UpTo(n + 1) \intersect S
    BY <2>0
  <2>1. n \in 0 .. N /\ n + 1 # 0 /\ n + 1 - 1 = n /\ n + 1 \in 1 .. N
    BY <1>1, <2>0
  <2>2. only[n] \in Seq(T) /\ ToSet(only[n]) = UpTo(n) \intersect S
    BY <2>1
  <2>3. only[n + 1] = IF n + 1 = 0 THEN <<>>
          ELSE IF seq[n + 1] \in S THEN Append(only[n + 1 - 1], seq[n + 1]) ELSE only[n + 1 - 1]
    BY <1>3
  <2>4. only[n + 1] = IF seq[n + 1] \in S THEN Append(only[n], seq[n + 1]) ELSE only[n]
    BY <2>1, <2>3
  <2>5. 1 .. n + 1 = (1 .. n) \union {n + 1}
    BY <2>0
  <2>6. UpTo(n + 1) = UpTo(n) \union {seq[n + 1]}
    BY <2>5
  <2>7. seq[n + 1] \in T
    BY <1>1, <2>1
  <2>8. Append(only[n], seq[n + 1]) \in Seq(T)
        /\ ToSet(Append(only[n], seq[n + 1])) = ToSet(only[n]) \union {seq[n + 1]}
    BY <2>2, <2>7, AppendMembers
  <2> HIDE DEF UpTo
  <2>9. CASE seq[n + 1] \in S
    BY <2>2, <2>4, <2>6, <2>8, <2>9
  <2>10. CASE seq[n + 1] \notin S
    BY <2>2, <2>4, <2>6, <2>10
  <2> QED BY <2>9, <2>10
<1>7. P = Nat
  <2>1. P \in SUBSET Nat
    OBVIOUS
  <2> HIDE DEF P
  <2> QED BY <2>1, <1>5, <1>6, Induct
<1>8. only[N] \in Seq(T) /\ ToSet(only[N]) = UpTo(N) \intersect S
  <2>1. N \in 0 .. N
    BY <1>1
  <2> QED BY <1>1, <1>7, <2>1
<1>9. ToSet(seq) = UpTo(N)
  BY <1>1 DEF ToSet
<1> QED BY <1>4, <1>8, <1>9

(* Without keeps exactly the elements that are not in the set.             *)
LEMMA WithoutMembers ==
  ASSUME NEW T, NEW seq \in Seq(T), NEW S
  PROVE  Without(seq, S) \in Seq(T) /\ ToSet(Without(seq, S)) = ToSet(seq) \ S
BY OnlyMembers DEF Without

-----------------------------------------------------------------------------
(* Listings and bags *)

(* Every type that has objects is one of Graph, of ARM or a child type.    *)
LEMMA TypesKnown == ToSet(Types) \subseteq GraphTypes \union ArmTypes \union ChildTypes
<1> DEFINE K == GraphTypes \union ArmTypes \union ChildTypes
<1>1. Types \in Seq(K)
  BY BuildersAssumption
<1> HIDE DEF K
<1>2. ToSet(Types) \subseteq K
  BY <1>1 DEF ToSet
<1> QED BY <1>2 DEF K

(* A listing: its pages hold its ids and so does the list that they make.  *)
LEMMA ListingMembers ==
  ASSUME NEW pages, IsListing(pages)
  PROVE  /\ FlattenSeq(pages) \in Seq(IdsOn(pages))
         /\ ToSet(FlattenSeq(pages)) = IdsOn(pages)
         /\ Len(pages) \in Nat /\ Len(pages) # 0 /\ DOMAIN pages = 1 .. Len(pages)
         /\ \A n \in 1 .. Len(pages) : pages[n] \in Seq(IdsOn(pages))
<1>1. pages \in Seq(Seq(IdsOn(pages))) /\ pages # <<>>
  BY DEF IsListing
<1>2. FlattenSeq(pages) \in Seq(IdsOn(pages)) /\ ToSet(FlattenSeq(pages)) = IdsOn(pages)
  BY <1>1, FlattenMembers DEF IdsOn
<1>3. Len(pages) \in Nat /\ Len(pages) # 0 /\ DOMAIN pages = 1 .. Len(pages)
      /\ \A n \in 1 .. Len(pages) : pages[n] \in Seq(IdsOn(pages))
  <2> DEFINE S == Seq(IdsOn(pages))
  <2>1. pages \in Seq(S) /\ pages # <<>>
    BY <1>1
  <2> HIDE DEF S
  <2>2. Len(pages) \in Nat /\ Len(pages) # 0 /\ DOMAIN pages = 1 .. Len(pages)
        /\ \A n \in 1 .. Len(pages) : pages[n] \in S
    BY <2>1
  <2> QED BY <2>2 DEF S
<1> QED BY <1>2, <1>3

(* A sequence of one and another element.                                  *)
LEMMA AppendToOne ==
  ASSUME NEW x, NEW y
  PROVE  Append(<<x>>, y) = <<x, y>>
<1> DEFINE S == {x, y}
           u == Append(<<x>>, y)
           v == <<x, y>>
<1>1. v \in Seq(S) /\ Len(v) = 2 /\ v[1] = x /\ v[2] = y
  OBVIOUS
<1>2. u \in Seq(S) /\ Len(u) = 2 /\ u[1] = x /\ u[2] = y
  OBVIOUS
<1>3. \A i \in 1 .. 2 : i = 1 \/ i = 2
  OBVIOUS
<1> HIDE DEF u, v, S
<1>4. u = v
  BY <1>1, <1>2, <1>3, SeqEqual
<1> QED BY <1>4 DEF u, v

(* Push on an empty bag and on a bag of one listing.                       *)
LEMMA Pushed ==
  ASSUME NEW l
  PROVE  /\ Push(NoPages, l) = <<PageOf(l, 1)>>
         /\ \A k, m : Push(<<PageOf(k, m)>>, l) = <<PageOf(k, m), PageOf(l, 1)>>
<1>1. \A x : Append(<<>>, x) = <<x>>
  OBVIOUS
<1> QED BY <1>1, AppendToOne DEF Push, NoPages, PageOf

(* NextToken on a bag of one listing: its next page or nothing.            *)
LEMMA OnePage ==
  ASSUME NEW l, NEW n \in Nat, NEW link \in Nat
  PROVE  /\ Top(<<PageOf(l, n)>>) = PageOf(l, n)
         /\ Rest(<<PageOf(l, n)>>) = <<>>
         /\ NextToken(<<PageOf(l, n)>>, link) =
              IF link = NoLink THEN NoPages ELSE <<PageOf(l, link)>>
<1> DEFINE b == <<PageOf(l, n)>>
<1>1. Top(b) = PageOf(l, n)
  BY DEF Top
<1>2. Rest(b) = <<>>
  BY DEF Rest
<1>3. [PageOf(l, n) EXCEPT !.page = link] = PageOf(l, link)
  BY DEF PageOf
<1>4. \A x : Append(<<>>, x) = <<x>>
  OBVIOUS
<1>6. NextToken(b, link) =
        IF link = NoLink THEN NoPages ELSE <<PageOf(l, link)>>
  <2> HIDE DEF b
  <2> QED BY <1>1, <1>2, <1>3, <1>4 DEF NextToken, NoPages
<1> QED BY <1>1, <1>2, <1>6

(* NextToken on a bag of two listings: the next page of the upper one, or  *)
(* the lower one alone.                                                    *)
LEMMA TwoPages ==
  ASSUME NEW l, NEW n \in Nat, NEW link \in Nat, NEW k, NEW m \in Nat
  PROVE  /\ Top(<<PageOf(k, m), PageOf(l, n)>>) = PageOf(l, n)
         /\ NextToken(<<PageOf(k, m), PageOf(l, n)>>, link) =
              IF link = NoLink THEN <<PageOf(k, m)>> ELSE <<PageOf(k, m), PageOf(l, link)>>
<1> DEFINE b == <<PageOf(k, m), PageOf(l, n)>>
<1>1. Top(b) = PageOf(l, n)
  BY DEF Top
<1>2. Rest(b) = <<PageOf(k, m)>>
  <2> DEFINE S == {PageOf(k, m), PageOf(l, n)}
             c == <<PageOf(k, m)>>
  <2>1. b \in Seq(S) /\ Len(b) = 2 /\ b[1] = PageOf(k, m) /\ b # <<>>
    OBVIOUS
  <2>2. c \in Seq(S) /\ Len(c) = 1 /\ c[1] = PageOf(k, m)
    OBVIOUS
  <2> HIDE DEF b, c, S
  <2>3. Rest(b) \in Seq(S) /\ Len(Rest(b)) = 2 - 1 /\ \A i \in 1 .. 2 - 1 : Rest(b)[i] = b[i]
    BY <2>1, SeqParts
  <2>4. Len(Rest(b)) = 1 /\ Rest(b)[1] = b[1]
    BY <2>3
  <2>5. \A i \in 1 .. 1 : i = 1
    OBVIOUS
  <2>6. Rest(b) = c
    BY <2>1, <2>2, <2>3, <2>4, <2>5, SeqEqual
  <2> QED BY <2>6 DEF c
<1>3. [PageOf(l, n) EXCEPT !.page = link] = PageOf(l, link)
  BY DEF PageOf
<1>4. \A x, y : Append(<<x>>, y) = <<x, y>>
  BY AppendToOne
<1>6. NextToken(b, link) =
        IF link = NoLink THEN <<PageOf(k, m)>> ELSE <<PageOf(k, m), PageOf(l, link)>>
  <2> HIDE DEF b
  <2> QED BY <1>1, <1>2, <1>3, <1>4 DEF NextToken
<1> QED BY <1>1, <1>6

-----------------------------------------------------------------------------
(* What the builders answer *)

(* The first answer for an application: all its assignments, and no next   *)
(* page.                                                                   *)
LEMMA AppAnswer ==
  ASSUME NEW r
  PROVE  AppGrants(r, NoPages) = Answer({Grant(r, x[2], x[1]) : x \in Assigned[IdOf(r)]}, NoPages)
<1>1. AppBag(NoPages) = <<PageOf("owners", 1), PageOf("assignment", 1)>>
  BY Pushed DEF AppBag
<1>2. 1 \in Nat /\ 0 \in Nat
  OBVIOUS
<1>3. Top(<<PageOf("owners", 1), PageOf("assignment", 1)>>) = PageOf("assignment", 1)
  BY <1>2, TwoPages
<1>4. Top(AppBag(NoPages)).listing = "assignment"
  BY <1>1, <1>3 DEF PageOf
<1> QED BY <1>4 DEF AppGrants

(* Which builder answers.                                                  *)
LEMMA GrantsByType ==
  ASSUME NEW r, NEW bag
  PROVE  /\ TypeOf(r) = "group" => ListGrants(r, bag) = GroupGrants(r, bag)
         /\ TypeOf(r) = "enterprise_application" => ListGrants(r, bag) = AppGrants(r, bag)
         /\ TypeOf(r) \notin {"group", "enterprise_application"} =>
              ListGrants(r, bag) = Answer({}, NoPages)
<1>1. CASE TypeOf(r) = "group"
  BY <1>1, Zenon DEF ListGrants
<1>2. CASE TypeOf(r) = "enterprise_application"
  BY <1>2, Zenon DEF ListGrants
<1>3. CASE TypeOf(r) \notin {"group", "enterprise_application"}
  BY <1>3, Zenon DEF ListGrants
<1> QED BY <1>1, <1>2, <1>3

(* The entitlements of a group.                                            *)
LEMMA GroupSlugs ==
  ASSUME NEW r, TypeOf(r) = "group"
  PROVE  Slugs(r) = {"owners", "members"}
BY Zenon DEF Slugs

(* Managed identities have no entitlements, so SkipsGrants loses none.     *)
LEMMA NoSlugs ==
  ASSUME NEW r, SkipsGrants(TypeOf(r))
  PROVE  ListEntitlements(r) = {}
<1>1. TypeOf(r) = "managed_identity"
  BY DEF SkipsGrants
<1>2. Slugs(r) = {}
  BY <1>1, Zenon DEF Slugs
<1> QED BY <1>2 DEF ListEntitlements
=============================================================================
