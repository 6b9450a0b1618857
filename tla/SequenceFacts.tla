--------------------------- MODULE SequenceFacts ---------------------------
(***************************************************************************)
(* What FlattenSeq computes, for every sequence of sequences. The prover   *)
(* has no induction schema to offer, but a set of numbers that is not      *)
(* empty has a smallest one: a fact that fails for some length fails for a *)
(* smallest length, and holds for the one before it.                       *)
(***************************************************************************)
EXTENDS SequenceOps, SequenceTheorems, WellFoundedInduction, TLAPS

(* A set of natural numbers that is not empty has a smallest one. *)
LEMMA NatMin ==
    ASSUME NEW T, T \subseteq Nat, T # {}
    PROVE  \E x \in T : \A y \in T : x <= y
<1>1. PICK x \in T : \A y \in T : ~(<<y, x>> \in OpToRel(<, Nat))
  BY NatLessThanWellFounded, WFMin, Zenon
<1>2. ASSUME NEW y \in T PROVE x <= y
  <2>1. x \in Nat /\ y \in Nat
    OBVIOUS
  <2>2. ~(y < x)
    BY <1>1, <2>1 DEF OpToRel
  <2> QED BY <2>1, <2>2
<1> QED BY <1>2

(* Induction: a set of natural numbers with 0 in it, and with n + 1 for     *)
(* every n in it, is all of them.                                           *)
LEMMA NatAll ==
    ASSUME NEW T, 0 \in T, \A n \in Nat : n \in T => n + 1 \in T
    PROVE  Nat \subseteq T
<1> DEFINE B == Nat \ T
<1> SUFFICES ASSUME B # {} PROVE FALSE
  OBVIOUS
<1>1. PICK x \in B : \A y \in B : x <= y
  <2>1. B \subseteq Nat
    OBVIOUS
  <2> HIDE DEF B
  <2> QED BY <2>1, NatMin
<1>2. x \in Nat /\ x # 0
  OBVIOUS
<1>3. x - 1 \in Nat /\ ~(x <= x - 1) /\ (x - 1) + 1 = x
  BY <1>2
<1>4. x - 1 \in T
  BY <1>1, <1>3
<1> QED BY <1>3, <1>4

----------------------------------------------------------------------------
(* FlattenSeq is defined by a recursive function: one that satisfies its    *)
(* equation.                                                                *)
IsFlatten(f, ss, n) ==
    f = [i \in 1..n |-> IF i = 1 THEN ss[i] ELSE f[i-1] \o ss[i]]

(* There is one for every length. *)
LEMMA FlattenExists ==
    ASSUME NEW ss
    PROVE  \A n \in Nat : \E f : IsFlatten(f, ss, n)
<1> DEFINE T == {n \in Nat : \E f : IsFlatten(f, ss, n)}
<1>1. 0 \in T
  <2>1. [i \in 1..0 |-> IF i = 1 THEN ss[i] ELSE <<>>[i-1] \o ss[i]] = <<>>
    OBVIOUS
  <2>2. IsFlatten(<<>>, ss, 0)
    BY <2>1 DEF IsFlatten
  <2> QED BY <2>2
<1>2. ASSUME NEW n \in Nat, n \in T
      PROVE  n + 1 \in T
  <2>1. PICK f : IsFlatten(f, ss, n)
    BY <1>2
  <2>2. /\ DOMAIN f = 1..n
        /\ \A i \in 1..n : f[i] = IF i = 1 THEN ss[i] ELSE f[i-1] \o ss[i]
    BY <2>1 DEF IsFlatten
  <2> DEFINE last == IF n + 1 = 1 THEN ss[n + 1] ELSE f[n] \o ss[n + 1]
             g == [i \in 1..(n + 1) |-> IF i = n + 1 THEN last ELSE f[i]]
  <2>3. g[n + 1] = last /\ \A i \in 1..n : g[i] = f[i]
    <3>1. n + 1 \in 1..(n + 1) /\ \A i \in 1..n : i \in 1..(n + 1) /\ i # n + 1
      OBVIOUS
    <3> HIDE DEF last
    <3> QED BY <3>1
  <2>4. DOMAIN g = 1..(n + 1)
    OBVIOUS
  <2>5. \A i \in 1..(n + 1) : i # 1 => i - 1 \in 1..n
    OBVIOUS
  <2>6. (n + 1) - 1 = n
    OBVIOUS
  <2>7. ASSUME NEW i \in 1..(n + 1)
        PROVE  g[i] = IF i = 1 THEN ss[i] ELSE g[i-1] \o ss[i]
    <3> HIDE DEF g
    <3>1. CASE i = n + 1
      BY <2>3, <2>5, <2>6, <3>1
    <3>2. CASE i \in 1..n
      BY <2>2, <2>3, <2>5, <3>2
    <3> QED BY <3>1, <3>2
  <2>8. g = [i \in 1..(n + 1) |-> g[i]]
    BY <2>4
  <2> HIDE DEF g
  <2>9. IsFlatten(g, ss, n + 1)
    BY <2>7, <2>8 DEF IsFlatten
  <2> QED BY <2>9
<1> HIDE DEF T
<1>3. Nat \subseteq T
  BY <1>1, <1>2, NatAll
<1> QED BY <1>3 DEF T

(* So that FlattenSeq is the last value of one. *)
LEMMA FlattenDefined ==
    ASSUME NEW ss, Len(ss) \in Nat, Len(ss) # 0
    PROVE  \E f : IsFlatten(f, ss, Len(ss)) /\ FlattenSeq(ss) = f[Len(ss)]
<1> DEFINE F == CHOOSE f : IsFlatten(f, ss, Len(ss))
<1>1. IsFlatten(F, ss, Len(ss))
  BY FlattenExists
<1>2. FlattenSeq(ss) = F[Len(ss)]
  BY DEF FlattenSeq, IsFlatten
<1> QED BY <1>1, <1>2

(* Nothing is what there is in no sequences. *)
LEMMA FlattenEmpty == FlattenSeq(<<>>) = <<>>
BY DEF FlattenSeq

(* The values of the function are sequences of elements. *)
LEMMA FlattenValues ==
    ASSUME NEW S, NEW ss \in Seq(Seq(S)), NEW n \in Nat, n <= Len(ss), NEW f, IsFlatten(f, ss, n)
    PROVE  \A i \in 1..n : f[i] \in Seq(S)
<1>1. \A i \in 1..n : f[i] = IF i = 1 THEN ss[i] ELSE f[i-1] \o ss[i]
  BY DEF IsFlatten
<1>2. \A i \in 1..n : ss[i] \in Seq(S)
  OBVIOUS
<1> DEFINE T == {k \in Nat : (k \in 1..n => f[k] \in Seq(S))}
<1>3. 0 \in T
  OBVIOUS
<1>4. ASSUME NEW k \in Nat, k \in T
      PROVE  k + 1 \in T
  <2>1. CASE k + 1 \in 1..n /\ k + 1 = 1
    BY <1>1, <1>2, <2>1
  <2>2. CASE k + 1 \in 1..n /\ k + 1 # 1
    <3>1. k \in 1..n /\ (k + 1) - 1 = k
      BY <2>2
    <3>2. f[k] \in Seq(S) /\ ss[k + 1] \in Seq(S) /\ f[k + 1] = f[k] \o ss[k + 1]
      BY <1>1, <1>2, <1>4, <2>2, <3>1
    <3>3. f[k] \o ss[k + 1] \in Seq(S)
      BY <3>2, ConcatProperties
    <3>4. f[k + 1] \in Seq(S) /\ k + 1 \in Nat
      BY <3>2, <3>3
    <3> QED BY <3>4
  <2> QED BY <2>1, <2>2
<1> HIDE DEF T
<1>5. Nat \subseteq T
  BY <1>3, <1>4, NatAll
<1> QED BY <1>5 DEF T

(* Sequences of elements are flattened to a sequence of elements. *)
LEMMA FlattenType ==
    ASSUME NEW S, NEW ss \in Seq(Seq(S))
    PROVE  FlattenSeq(ss) \in Seq(S)
<1>1. Len(ss) \in Nat
  OBVIOUS
<1>2. CASE Len(ss) = 0
  <2>1. ss = <<>>
    BY <1>2
  <2>2. <<>> \in Seq(S)
    OBVIOUS
  <2>3. FlattenSeq(ss) = <<>>
    BY <2>1, FlattenEmpty
  <2> QED BY <2>2, <2>3
<1>3. CASE Len(ss) # 0
  <2>1. PICK f : IsFlatten(f, ss, Len(ss)) /\ FlattenSeq(ss) = f[Len(ss)]
    BY <1>1, <1>3, FlattenDefined
  <2>2. \A i \in 1..Len(ss) : f[i] \in Seq(S)
    BY <1>1, <2>1, FlattenValues
  <2> QED BY <1>1, <1>3, <2>1, <2>2
<1> QED BY <1>2, <1>3

(* One more sequence is put at the end. *)
LEMMA FlattenAppend ==
    ASSUME NEW S, NEW ss \in Seq(Seq(S)), NEW s \in Seq(S)
    PROVE  FlattenSeq(Append(ss, s)) = FlattenSeq(ss) \o s
<1> DEFINE n == Len(ss)
           tt == Append(ss, s)
<1>1. /\ n \in Nat /\ tt \in Seq(Seq(S)) /\ Len(tt) = n + 1
      /\ \A i \in 1..n : tt[i] = ss[i]
      /\ tt[n + 1] = s
  BY AppendProperties
<1>a. n + 1 # 0 /\ n + 1 \in 1..(n + 1) /\ \A i \in 1..n : i \in 1..(n + 1)
  BY <1>1
<1>2. PICK g : IsFlatten(g, tt, n + 1) /\ FlattenSeq(tt) = g[n + 1]
  <2> HIDE DEF n, tt
  <2>1. Len(tt) \in Nat /\ Len(tt) # 0
    BY <1>1
  <2>2. \E g : IsFlatten(g, tt, Len(tt)) /\ FlattenSeq(tt) = g[Len(tt)]
    BY <2>1, FlattenDefined
  <2> QED BY <1>1, <2>2
<1>3. \A i \in 1..(n + 1) : g[i] = IF i = 1 THEN tt[i] ELSE g[i-1] \o tt[i]
  BY <1>2 DEF IsFlatten
<1>4. CASE n = 0
  <2>1. ss = <<>> /\ FlattenSeq(ss) = <<>>
    BY <1>4, FlattenEmpty
  <2>2. g[n + 1] = s
    BY <1>1, <1>3, <1>4
  <2>3. <<>> \o s = s
    OBVIOUS
  <2> QED BY <1>2, <2>1, <2>2, <2>3
<1>5. CASE n # 0
  <2>1. PICK f : IsFlatten(f, ss, n) /\ FlattenSeq(ss) = f[n]
    BY <1>1, <1>5, FlattenDefined
  <2>2. \A i \in 1..n : f[i] = IF i = 1 THEN ss[i] ELSE f[i-1] \o ss[i]
    BY <2>1 DEF IsFlatten
  <2> DEFINE T == {k \in Nat : (k \in 1..n => g[k] = f[k])}
  <2> HIDE DEF n, tt
  <2>3. 0 \in T
    OBVIOUS
  <2>4. ASSUME NEW k \in Nat, k \in T
        PROVE  k + 1 \in T
    <3>1. CASE k + 1 \in 1..n /\ k + 1 = 1
      BY <1>1, <1>3, <1>a, <2>2, <3>1
    <3>2. CASE k + 1 \in 1..n /\ k + 1 # 1
      <4>1. k \in 1..n /\ (k + 1) - 1 = k
        BY <1>1, <3>2
      <4>2. g[k] = f[k]
        BY <2>4, <4>1
      <4> QED BY <1>1, <1>3, <1>a, <2>2, <3>2, <4>1, <4>2
    <3> QED BY <3>1, <3>2
  <2> HIDE DEF T
  <2>5. Nat \subseteq T
    BY <2>3, <2>4, NatAll
  <2>6. g[n] = f[n]
    BY <1>1, <1>5, <2>5 DEF T
  <2>7. (n + 1) - 1 = n /\ n + 1 # 1
    BY <1>1, <1>5
  <2>8. g[n + 1] = g[n] \o s
    BY <1>1, <1>3, <1>a, <2>7
  <2> QED BY <1>2, <2>1, <2>6, <2>8 DEF tt
<1> QED BY <1>4, <1>5

(* Appending to the second of two sequences appends to both together. *)
LEMMA ConcatAppend ==
    ASSUME NEW S, NEW s \in Seq(S), NEW t \in Seq(S), NEW e \in S
    PROVE  s \o Append(t, e) = Append(s \o t, e)
<1>1. /\ Append(t, e) = t \o <<e>> /\ <<e>> \in Seq(S) /\ s \o t \in Seq(S)
      /\ Append(s \o t, e) = (s \o t) \o <<e>>
  <2>1. <<e>> \in Seq(S) /\ s \o t \in Seq(S)
    BY ConcatProperties
  <2> QED BY <2>1, AppendIsConcat
<1> QED BY <1>1, ConcatAssociative

(* What is in two lists of sequences is what is in the first, then what is  *)
(* in the second.                                                           *)
LEMMA FlattenConcat ==
    ASSUME NEW S, NEW ss \in Seq(Seq(S)), NEW tt \in Seq(Seq(S))
    PROVE  FlattenSeq(ss \o tt) = FlattenSeq(ss) \o FlattenSeq(tt)
<1> DEFINE Holds(u) == FlattenSeq(ss \o u) = FlattenSeq(ss) \o FlattenSeq(u)
           T == {n \in Nat : \A u \in Seq(Seq(S)) : Len(u) = n => Holds(u)}
<1>1. 0 \in T
  <2>1. ASSUME NEW u \in Seq(Seq(S)), Len(u) = 0 PROVE Holds(u)
    <3>1. u = <<>> /\ ss \o u = ss
      BY <2>1, ConcatEmptySeq
    <3>2. FlattenSeq(ss) \in Seq(S)
      BY FlattenType
    <3>3. FlattenSeq(ss) \o <<>> = FlattenSeq(ss)
      BY <3>2, ConcatEmptySeq
    <3> QED BY <3>1, <3>3, FlattenEmpty
  <2> QED BY <2>1
<1>2. ASSUME NEW n \in Nat, n \in T
      PROVE  n + 1 \in T
  <2>1. ASSUME NEW u \in Seq(Seq(S)), Len(u) = n + 1 PROVE Holds(u)
    <3>1. u # <<>>
      BY <2>1
    <3>2. PICK v \in Seq(Seq(S)), s \in Seq(S) : u = Append(v, s)
      BY <3>1, SequenceEmptyOrAppend
    <3>3. Len(v) = n
      BY <2>1, <3>2
    <3>4. Holds(v)
      BY <1>2, <3>3
    <3>5. ss \o u = Append(ss \o v, s) /\ ss \o v \in Seq(Seq(S))
      <4>1. ss \o v \in Seq(Seq(S))
        BY ConcatProperties
      <4> QED BY <3>2, <4>1, ConcatAppend
    <3>6. FlattenSeq(ss \o u) = FlattenSeq(ss \o v) \o s
      BY <3>5, FlattenAppend
    <3>7. FlattenSeq(u) = FlattenSeq(v) \o s
      BY <3>2, FlattenAppend
    <3>8. FlattenSeq(ss) \in Seq(S) /\ FlattenSeq(v) \in Seq(S)
      BY FlattenType
    <3>9. (FlattenSeq(ss) \o FlattenSeq(v)) \o s = FlattenSeq(ss) \o (FlattenSeq(v) \o s)
      BY <3>8, ConcatAssociative
    <3> QED BY <3>4, <3>6, <3>7, <3>9
  <2>2. n + 1 \in Nat
    OBVIOUS
  <2> HIDE DEF Holds
  <2> QED BY <2>1, <2>2
<1> HIDE DEF T
<1>3. Nat \subseteq T
  BY <1>1, <1>2, NatAll
<1>4. Len(tt) \in Nat
  OBVIOUS
<1>5. Holds(tt)
  BY <1>3, <1>4 DEF T
<1> QED BY <1>5

(* What is in one sequence. *)
LEMMA FlattenOne ==
    ASSUME NEW S, NEW s \in Seq(S)
    PROVE  FlattenSeq(<<s>>) = s
<1>1. <<s>> = Append(<<>>, s) /\ <<>> \in Seq(Seq(S)) /\ <<>> \o s = s
  OBVIOUS
<1>2. FlattenSeq(Append(<<>>, s)) = FlattenSeq(<<>>) \o s
  BY <1>1, FlattenAppend
<1> QED BY <1>1, <1>2, FlattenEmpty

(* What is in a list of sequences is what is in the first of them, then     *)
(* what is in the others.                                                   *)
LEMMA FlattenHead ==
    ASSUME NEW S, NEW ss \in Seq(Seq(S)), ss # <<>>
    PROVE  FlattenSeq(ss) = Head(ss) \o FlattenSeq(Tail(ss))
<1>1. Head(ss) \in Seq(S) /\ Tail(ss) \in Seq(Seq(S))
  OBVIOUS
<1>2. ss = <<Head(ss)>> \o Tail(ss)
  <2>1. <<Head(ss)>> \o Tail(ss) \in Seq(Seq(S))
    BY <1>1
  <2> QED BY <1>1, <2>1, SeqEqual
<1>3. FlattenSeq(<<Head(ss)>> \o Tail(ss)) = FlattenSeq(<<Head(ss)>>) \o FlattenSeq(Tail(ss))
  <2>1. <<Head(ss)>> \in Seq(Seq(S))
    BY <1>1
  <2> QED BY <1>1, <2>1, FlattenConcat
<1>4. FlattenSeq(<<Head(ss)>>) = Head(ss)
  BY <1>1, FlattenOne
<1> QED BY <1>2, <1>3, <1>4

(* Concatenation, under a name that the provers do not rewrite. *)
Cat(a, b) == a \o b

(* What is known of concatenation. *)
LEMMA CatFacts ==
    ASSUME NEW S
    PROVE  /\ \A a, b \in Seq(S) : Cat(a, b) \in Seq(S)
           /\ \A a, b, c \in Seq(S) : Cat(Cat(a, b), c) = Cat(a, Cat(b, c))
           /\ \A a \in Seq(S) : Cat(a, <<>>) = a /\ Cat(<<>>, a) = a
           /\ \A a, b \in Seq(S) : \A e \in S : Cat(a, Append(b, e)) = Append(Cat(a, b), e)
<1>1. ASSUME NEW a \in Seq(S), NEW b \in Seq(S) PROVE a \o b \in Seq(S)
  BY ConcatProperties
<1>2. ASSUME NEW a \in Seq(S), NEW b \in Seq(S), NEW c \in Seq(S)
      PROVE  (a \o b) \o c = a \o (b \o c)
  BY ConcatAssociative
<1>3. ASSUME NEW a \in Seq(S) PROVE a \o <<>> = a /\ <<>> \o a = a
  BY ConcatEmptySeq
<1>4. ASSUME NEW a \in Seq(S), NEW b \in Seq(S), NEW e \in S
      PROVE  a \o Append(b, e) = Append(a \o b, e)
  BY ConcatAppend
<1> QED BY <1>1, <1>2, <1>3, <1>4 DEF Cat


(* A function applied to every element. *)
Maps(S, T) == [S -> T]
Mapped(s, F) == [k \in DOMAIN s |-> F[s[k]]]

(* The result is as long, and has the values for its elements. *)
LEMMA MapType ==
    ASSUME NEW S, NEW T, NEW F \in Maps(S, T), NEW s \in Seq(S)
    PROVE  /\ Mapped(s, F) \in Seq(T) /\ Len(Mapped(s, F)) = Len(s)
           /\ \A k \in 1..Len(s) : Mapped(s, F)[k] = F[s[k]]
<1>1. DOMAIN s = 1..Len(s) /\ Len(s) \in Nat /\ \A k \in 1..Len(s) : s[k] \in S
  OBVIOUS
<1>2. \A k \in 1..Len(s) : F[s[k]] \in T
  BY <1>1 DEF Maps
<1>3. Mapped(s, F) = [k \in 1..Len(s) |-> F[s[k]]]
  BY <1>1 DEF Mapped
<1>4. [k \in 1..Len(s) |-> F[s[k]]] \in Seq(T)
  BY <1>1, <1>2
<1>5. Len(Mapped(s, F)) = Len(s)
  BY <1>1, <1>3
<1> QED BY <1>3, <1>4, <1>5

(* Of nothing, nothing. *)
LEMMA MapEmpty == ASSUME NEW F PROVE Mapped(<<>>, F) = <<>>
BY DEF Mapped

(* Of one more element, its value at the end. *)
LEMMA MapAppend ==
    ASSUME NEW S, NEW T, NEW F \in Maps(S, T), NEW s \in Seq(S), NEW e \in S
    PROVE  Mapped(Append(s, e), F) = Append(Mapped(s, F), F[e])
<1> DEFINE n == Len(s)
           t == Append(s, e)
           m == Mapped(s, F)
           mt == Mapped(t, F)
           a == Append(m, F[e])
<1>1. n \in Nat /\ t \in Seq(S) /\ Len(t) = n + 1 /\ (\A k \in 1..n : t[k] = s[k]) /\ t[n + 1] = e
  BY AppendProperties
<1>2. m \in Seq(T) /\ Len(m) = n /\ \A k \in 1..n : m[k] = F[s[k]]
  BY MapType
<1> HIDE DEF t, m
<1>3. mt \in Seq(T) /\ Len(mt) = n + 1 /\ \A k \in 1..(n + 1) : mt[k] = F[t[k]]
  BY <1>1, MapType
<1>4. a \in Seq(T) /\ Len(a) = n + 1 /\ (\A k \in 1..n : a[k] = m[k]) /\ a[n + 1] = F[e]
  <2>1. F[e] \in T
    BY DEF Maps
  <2> QED BY <1>2, <2>1, AppendProperties
<1> HIDE DEF mt, a, n
<1>5. \A k \in 1..(n + 1) : mt[k] = a[k]
  BY <1>1, <1>2, <1>3, <1>4
<1>6. mt = a
  BY <1>3, <1>4, <1>5, SeqEqual
<1> QED BY <1>6 DEF mt, a, m, t

(* Of the first element and of the others. *)
LEMMA MapTail ==
    ASSUME NEW S, NEW T, NEW F \in Maps(S, T), NEW s \in Seq(S), s # <<>>
    PROVE  /\ Mapped(s, F) # <<>> /\ Head(Mapped(s, F)) = F[Head(s)]
           /\ Mapped(Tail(s), F) = Tail(Mapped(s, F))
<1> DEFINE n == Len(s)
           t == Tail(s)
           m == Mapped(s, F)
           mt == Mapped(t, F)
           a == Tail(m)
<1>1. /\ n \in Nat \ {0} /\ t \in Seq(S) /\ Len(t) = n - 1 /\ Head(s) = s[1]
      /\ \A k \in 1..(n - 1) : t[k] = s[k + 1]
  OBVIOUS
<1>2. m \in Seq(T) /\ Len(m) = n /\ \A k \in 1..n : m[k] = F[s[k]]
  BY MapType
<1> HIDE DEF t, m
<1>3. mt \in Seq(T) /\ Len(mt) = n - 1 /\ \A k \in 1..(n - 1) : mt[k] = F[t[k]]
  BY <1>1, MapType
<1>4. m # <<>> /\ Head(m) = m[1]
  BY <1>1, <1>2
<1>5. a \in Seq(T) /\ Len(a) = n - 1 /\ \A k \in 1..(n - 1) : a[k] = m[k + 1]
  BY <1>1, <1>2, <1>4
<1> HIDE DEF mt, a, n
<1>6. \A k \in 1..(n - 1) : k + 1 \in 1..n
  BY <1>1
<1>7. ASSUME NEW k \in 1..(n - 1) PROVE mt[k] = a[k]
  BY <1>1, <1>2, <1>3, <1>5, <1>6
<1>8. mt = a
  BY <1>3, <1>5, <1>7, SeqEqual
<1> QED BY <1>1, <1>2, <1>4, <1>8 DEF mt, a, m, t

----------------------------------------------------------------------------
(* Selected *)

(* The pieces that Selected puts together. *)
Pieces(s, S) == [i \in DOMAIN s |-> IF s[i] \in S THEN <<s[i]>> ELSE <<>>]

(* They are sequences of elements that were selected. *)
LEMMA PiecesType ==
    ASSUME NEW U, NEW s \in Seq(U), NEW S, NEW V, \A e \in U : e \in S => e \in V
    PROVE  /\ Pieces(s, S) \in Seq(Seq(V)) /\ Len(Pieces(s, S)) = Len(s)
           /\ \A i \in 1..Len(s) : Pieces(s, S)[i] = IF s[i] \in S THEN <<s[i]>> ELSE <<>>
<1>1. DOMAIN s = 1..Len(s) /\ Len(s) \in Nat /\ \A i \in 1..Len(s) : s[i] \in U
  OBVIOUS
<1> DEFINE Piece(i) == IF s[i] \in S THEN <<s[i]>> ELSE <<>>
<1>2. ASSUME NEW i \in 1..Len(s) PROVE Piece(i) \in Seq(V)
  <2>1. s[i] \in S => <<s[i]>> \in Seq(V)
    BY <1>1
  <2> QED BY <2>1
<1>3. Pieces(s, S) = [i \in 1..Len(s) |-> Piece(i)]
  BY <1>1 DEF Pieces
<1> HIDE DEF Piece
<1>4. [i \in 1..Len(s) |-> Piece(i)] \in Seq(Seq(V))
  BY <1>1, <1>2
<1>5. Len(Pieces(s, S)) = Len(s)
  BY <1>1, <1>3
<1> QED BY <1>3, <1>4, <1>5 DEF Piece

(* What is selected of a sequence is in it and in the set. *)
LEMMA SelectedType ==
    ASSUME NEW U, NEW s \in Seq(U), NEW S, NEW V, \A e \in U : e \in S => e \in V
    PROVE  Selected(s, S) \in Seq(V)
<1>1. Selected(s, S) = FlattenSeq(Pieces(s, S))
  BY DEF Selected, Pieces
<1> QED BY <1>1, PiecesType, FlattenType

(* Of nothing, nothing. *)
LEMMA SelectedEmpty == ASSUME NEW S PROVE Selected(<<>>, S) = <<>>
<1>1. [i \in DOMAIN <<>> |-> IF <<>>[i] \in S THEN <<<<>>[i]>> ELSE <<>>] = <<>>
  OBVIOUS
<1> QED BY <1>1, FlattenEmpty DEF Selected

(* Of two sequences, what is selected of each. *)
LEMMA SelectedConcat ==
    ASSUME NEW U, NEW s \in Seq(U), NEW t \in Seq(U), NEW S
    PROVE  Selected(s \o t, S) = Selected(s, S) \o Selected(t, S)
<1> DEFINE st == s \o t
           ps == Pieces(s, S)
           pt == Pieces(t, S)
           pst == Pieces(st, S)
<1>1. /\ st \in Seq(U) /\ Len(st) = Len(s) + Len(t)
      /\ \A i \in 1..(Len(s) + Len(t)) : st[i] = IF i <= Len(s) THEN s[i] ELSE t[i - Len(s)]
  BY ConcatProperties
<1> HIDE DEF st
<1>2. /\ ps \in Seq(Seq(U)) /\ Len(ps) = Len(s)
      /\ \A i \in 1..Len(s) : ps[i] = IF s[i] \in S THEN <<s[i]>> ELSE <<>>
  BY PiecesType
<1>3. /\ pt \in Seq(Seq(U)) /\ Len(pt) = Len(t)
      /\ \A i \in 1..Len(t) : pt[i] = IF t[i] \in S THEN <<t[i]>> ELSE <<>>
  BY PiecesType
<1>4. /\ pst \in Seq(Seq(U)) /\ Len(pst) = Len(st)
      /\ \A i \in 1..Len(st) : pst[i] = IF st[i] \in S THEN <<st[i]>> ELSE <<>>
  <2>1. st \in Seq(U) /\ \A e \in U : e \in S => e \in U
    BY <1>1
  <2> QED BY <2>1, PiecesType
<1> HIDE DEF ps, pt, pst
<1>5. /\ ps \o pt \in Seq(Seq(U)) /\ Len(ps \o pt) = Len(s) + Len(t)
      /\ \A i \in 1..(Len(s) + Len(t)) :
            (ps \o pt)[i] = IF i <= Len(s) THEN ps[i] ELSE pt[i - Len(s)]
  <2>1. ps \in Seq(Seq(U)) /\ pt \in Seq(Seq(U)) /\ Len(ps) = Len(s) /\ Len(pt) = Len(t)
    BY <1>2, <1>3
  <2>2. /\ ps \o pt \in Seq(Seq(U)) /\ Len(ps \o pt) = Len(ps) + Len(pt)
        /\ \A i \in 1..(Len(ps) + Len(pt)) :
              (ps \o pt)[i] = IF i <= Len(ps) THEN ps[i] ELSE pt[i - Len(ps)]
    BY <2>1, ConcatProperties
  <2> QED BY <2>1, <2>2
<1>6. ASSUME NEW i \in 1..Len(pst)
      PROVE  pst[i] = (ps \o pt)[i]
  <2>1. /\ i \in 1..(Len(s) + Len(t)) /\ Len(s) \in Nat /\ Len(t) \in Nat
    BY <1>1, <1>4
  <2>2. CASE i <= Len(s)
    <3>1. i \in 1..Len(s)
      BY <2>1, <2>2
    <3> QED BY <1>1, <1>2, <1>4, <1>5, <2>1, <2>2, <3>1
  <2>3. CASE ~(i <= Len(s))
    <3>1. i - Len(s) \in 1..Len(t)
      BY <2>1, <2>3
    <3> QED BY <1>1, <1>3, <1>4, <1>5, <2>1, <2>3, <3>1
  <2> QED BY <2>2, <2>3
<1>7. pst = ps \o pt
  BY <1>1, <1>4, <1>5, <1>6, SeqEqual
<1>8. FlattenSeq(ps \o pt) = FlattenSeq(ps) \o FlattenSeq(pt)
  BY <1>2, <1>3, FlattenConcat
<1> QED BY <1>7, <1>8 DEF Selected, ps, pt, pst, st, Pieces

(* Of one element. *)
LEMMA SelectedOne ==
    ASSUME NEW e, NEW S
    PROVE  Selected(<<e>>, S) = IF e \in S THEN <<e>> ELSE <<>>
<1> DEFINE x == IF e \in S THEN <<e>> ELSE <<>>
           s == <<e>>
<1>1. s \in Seq({e}) /\ Len(s) = 1 /\ s[1] = e
  OBVIOUS
<1>2. x \in Seq({e})
  <2>1. <<e>> \in Seq({e}) /\ <<>> \in Seq({e})
    OBVIOUS
  <2> QED BY <2>1
<1>3. Pieces(s, S) \in Seq(Seq({e})) /\ Len(Pieces(s, S)) = 1 /\ Pieces(s, S)[1] = x
  <2> HIDE DEF s
  <2> QED BY <1>1, PiecesType
<1> HIDE DEF x
<1>4. Pieces(s, S) = <<x>>
  <2>1. <<x>> \in Seq(Seq({e})) /\ Len(<<x>>) = 1 /\ <<x>>[1] = x
    BY <1>2
  <2> QED BY <1>3, <2>1, SeqEqual
<1> QED BY <1>2, <1>4, FlattenOne DEF Selected, Pieces, x

(* Of a longer sequence. *)
LEMMA SelectedAppend ==
    ASSUME NEW U, NEW s \in Seq(U), NEW e \in U, NEW S
    PROVE  Selected(Append(s, e), S) = Selected(s, S) \o Selected(<<e>>, S)
<1> DEFINE one == <<e>>
<1>1. Append(s, e) = s \o one /\ one \in Seq(U)
  BY AppendIsConcat
<1> HIDE DEF one
<1>2. Selected(s \o one, S) = Selected(s, S) \o Selected(one, S)
  BY <1>1, SelectedConcat
<1> QED BY <1>1, <1>2 DEF one

(* Of a sequence and its first element. *)
LEMMA SelectedTail ==
    ASSUME NEW U, NEW s \in Seq(U), s # <<>>, NEW S
    PROVE  Selected(s, S) = Selected(<<Head(s)>>, S) \o Selected(Tail(s), S)
<1> DEFINE one == <<Head(s)>>
           rest == Tail(s)
<1>1. s = one \o rest /\ one \in Seq(U) /\ rest \in Seq(U)
  <2>1. Head(s) \in U /\ Tail(s) \in Seq(U)
    OBVIOUS
  <2>2. <<Head(s)>> \in Seq(U) /\ <<Head(s)>> \o Tail(s) \in Seq(U)
    BY <2>1
  <2> QED BY <2>1, <2>2, SeqEqual
<1> HIDE DEF one, rest
<1>2. Selected(one \o rest, S) = Selected(one, S) \o Selected(rest, S)
  BY <1>1, SelectedConcat
<1> QED BY <1>1, <1>2 DEF one, rest

(* Only what is in the sequence matters of the set. *)
LEMMA SelectedSame ==
    ASSUME NEW U, NEW s \in Seq(U), NEW S, NEW T, \A e \in U : e \in S <=> e \in T
    PROVE  Selected(s, S) = Selected(s, T)
<1>1. \A i \in DOMAIN s : s[i] \in U
  OBVIOUS
<1>2. [i \in DOMAIN s |-> IF s[i] \in S THEN <<s[i]>> ELSE <<>>]
        = [i \in DOMAIN s |-> IF s[i] \in T THEN <<s[i]>> ELSE <<>>]
  BY <1>1
<1> QED BY <1>2 DEF Selected

(* Nothing is selected of a sequence that has none. *)
LEMMA SelectedNone ==
    ASSUME NEW U, NEW s \in Seq(U), NEW S, U \cap S = {}
    PROVE  Selected(s, S) = <<>>
<1>1. \A e \in U : e \in S => e \in {}
  OBVIOUS
<1>2. Selected(s, S) \in Seq({})
  BY <1>1, SelectedType
<1> QED BY <1>2

----------------------------------------------------------------------------
(* Sequences of all packets of a channel *)

(* What is selected are the elements of both. *)
LEMMA SelectedToSet ==
    ASSUME NEW U, NEW S
    PROVE  \A s \in Seq(U) : ToSet(Selected(s, S)) = {x \in ToSet(s) : x \in S}
<1> DEFINE Holds(s) == ToSet(Selected(s, S)) = {x \in ToSet(s) : x \in S}
           T == {n \in Nat : \A s \in Seq(U) : Len(s) = n => Holds(s)}
<1>1. ToSet(<<>>) = {}
  BY DEF ToSet
<1>2. 0 \in T
  <2>1. ASSUME NEW s \in Seq(U), Len(s) = 0 PROVE Holds(s)
    <3>1. s = <<>>
      BY <2>1
    <3> QED BY <1>1, <3>1, SelectedEmpty
  <2> QED BY <2>1
<1>3. ASSUME NEW a \in Seq(U), NEW b \in Seq(U)
      PROVE  ToSet(a \o b) = ToSet(a) \cup ToSet(b)
  <2> DEFINE ab == a \o b
  <2>1. /\ Len(a) \in Nat /\ Len(b) \in Nat /\ DOMAIN a = 1..Len(a) /\ DOMAIN b = 1..Len(b)
        /\ DOMAIN ab = 1..(Len(a) + Len(b))
        /\ \A i \in 1..(Len(a) + Len(b)) : ab[i] = IF i <= Len(a) THEN a[i] ELSE b[i - Len(a)]
    BY ConcatProperties
  <2> HIDE DEF ab
  <2>2. ASSUME NEW i \in DOMAIN ab PROVE ab[i] \in ToSet(a) \cup ToSet(b)
    <3>1. CASE i <= Len(a)
      BY <2>1, <3>1 DEF ToSet
    <3>2. CASE ~(i <= Len(a))
      <4>1. i - Len(a) \in 1..Len(b)
        BY <2>1, <3>2
      <4> QED BY <2>1, <3>2, <4>1 DEF ToSet
    <3> QED BY <3>1, <3>2
  <2>3. ASSUME NEW i \in DOMAIN a PROVE a[i] \in ToSet(ab)
    <3>1. i \in 1..(Len(a) + Len(b)) /\ i <= Len(a)
      BY <2>1
    <3> QED BY <2>1, <3>1 DEF ToSet
  <2>4. ASSUME NEW i \in DOMAIN b PROVE b[i] \in ToSet(ab)
    <3>1. i + Len(a) \in 1..(Len(a) + Len(b)) /\ ~(i + Len(a) <= Len(a)) /\ (i + Len(a)) - Len(a) = i
      BY <2>1
    <3> QED BY <2>1, <3>1 DEF ToSet
  <2> QED BY <2>2, <2>3, <2>4 DEF ToSet, ab
<1>4. ASSUME NEW n \in T PROVE n + 1 \in T
  <2>1. ASSUME NEW s \in Seq(U), Len(s) = n + 1 PROVE Holds(s)
    <3> DEFINE h == <<Head(s)>>
               r == Tail(s)
               e == Head(s)
    <3>1. s # <<>> /\ e \in U /\ r \in Seq(U) /\ Len(r) = n /\ h \in Seq(U) /\ h = <<e>>
      BY <1>4, <2>1
    <3>2. s = h \o r
      <4>1. h \o r \in Seq(U)
        BY <3>1
      <4> QED BY <3>1, <4>1, SeqEqual
    <3>3. ToSet(Selected(r, S)) = {x \in ToSet(r) : x \in S}
      BY <1>4, <3>1
    <3>4. Selected(s, S) = Selected(h, S) \o Selected(r, S)
      BY <3>1, SelectedTail
    <3>5. Selected(h, S) = IF e \in S THEN h ELSE <<>>
      BY SelectedOne
    <3>6. ToSet(h) = {e}
      BY DEF ToSet
    <3> HIDE DEF h, r, e
    <3>7. Selected(h, S) \in Seq(U) /\ Selected(r, S) \in Seq(U)
      BY <3>1, SelectedType
    <3>8. ToSet(s) = ToSet(h) \cup ToSet(r)
      BY <1>3, <3>1, <3>2
    <3>9. ToSet(Selected(s, S)) = ToSet(Selected(h, S)) \cup ToSet(Selected(r, S))
      BY <1>3, <3>4, <3>7
    <3>10. ToSet(Selected(h, S)) = {x \in ToSet(h) : x \in S}
      BY <1>1, <3>5, <3>6
    <3> QED BY <3>3, <3>8, <3>9, <3>10
  <2> HIDE DEF Holds
  <2> QED BY <2>1
<1> HIDE DEF T
<1>5. Nat \subseteq T
  BY <1>2, <1>4, NatAll
<1>6. ASSUME NEW s \in Seq(U) PROVE Holds(s)
  <2> HIDE DEF Holds
  <2>1. Len(s) \in T
    BY <1>5
  <2> QED BY <2>1 DEF T
<1> QED BY <1>6
=============================================================================
