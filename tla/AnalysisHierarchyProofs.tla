---------------------- MODULE AnalysisHierarchyProofs ----------------------
(***************************************************************************)
(* Proofs about AnalysisHierarchy, for any number of algorithms, any names *)
(* and any lists: an algorithm is placed after what it depends on, and the *)
(* hierarchy is built exactly when the dependencies can be satisfied.      *)
(*                                                                         *)
(* The second rests on a count.  As long as the configuration can be       *)
(* satisfied one of the r algorithms in the queue is ready, and is reached *)
(* after at most r rounds; each of these passes places one algorithm, so   *)
(* that all of them take no more than N + (N - 1) + ... + 1 rounds.        *)
(***************************************************************************)
EXTENDS AnalysisHierarchy, SequenceTheorems, WellFoundedInduction, TLAPS

----------------------------------------------------------------------------
(* The inductive invariant *)

(* The queue holds every algorithm that is not placed, once. *)
QueueInv ==
    /\ \A k, l \in 1..Len(indices) : indices[k] = indices[l] => k = l
    /\ \A i \in Index : tierOf[i] = Unplaced <=> \E k \in 1..Len(indices) : indices[k] = i

(* A name has a tier when an algorithm of that name does; it is the tier of *)
(* one of them, and at most the number of rounds.                           *)
TierInv ==
    /\ \A n \in Names : Placed(n) => \E i \in Index : name[i] = n /\ tierOf[i] = tierMap[n]
    /\ \A i \in Index : tierOf[i] # Unplaced => Placed(name[i])
    /\ \A n \in Names : tierMap[n] <= loopcnt

(* All that the algorithm waits for is placed. *)
Ready(j) == HasDependOn(j) => \A n \in Upstream(j) : Placed(n)

(* With r algorithms queued and a ready one at position d, at most r - d    *)
(* rounds have gone by since the last algorithm was placed.                 *)
CountInv ==
    /\ status = "running" => loopcnt <= MaxLoops
    /\ status = "running" /\ WellFounded =>
          /\ Len(indices) = 0 => 2 * loopcnt <= N * (N + 1)
          /\ Len(indices) # 0 =>
                \E d \in 1..Len(indices) :
                    /\ Ready(indices[d])
                    /\ 2 * loopcnt <= N * (N + 1) - Len(indices) * (Len(indices) + 1)
                                        + 2 * (Len(indices) - d)
    /\ status = "failed" => ~WellFounded
    /\ status = "built" => Len(indices) = 0

IInv == TypeOK /\ QueueInv /\ TierInv /\ TierAfterUpstream /\ CountInv

----------------------------------------------------------------------------
(* Lemmas on numbers *)

(* A set of natural numbers has a least one. *)
LEMMA NatMin ==
    ASSUME NEW T, T \subseteq Nat, T # {}
    PROVE  \E x \in T : \A y \in T : x <= y
<1>1. PICK x \in T : \A y \in T : ~(<<y, x>> \in OpToRel(<, Nat))
  BY NatLessThanWellFounded, WFMin, Zenon
<1>2. ASSUME NEW y \in T PROVE x <= y
  <2>1. x \in Nat /\ y \in Nat
    OBVIOUS
  <2>2. ~(y < x)
    BY <1>1, <2>1 DEF OpToRel
  <2> QED BY <2>1, <2>2
<1> QED BY <1>2

(* n (n + 1) / 2 is the sum of the first n numbers, one step of it. *)
LEMMA SumStep ==
    ASSUME NEW r \in Nat
    PROVE  (r - 1) * ((r - 1) + 1) = r * (r + 1) - 2 * r
OBVIOUS

(* The round that places an algorithm, in these terms. *)
LEMMA RoundCount ==
    ASSUME NEW c \in Nat, NEW r \in Nat, NEW q \in Nat, NEW s \in Nat, NEW d \in 1..r,
           2 * c <= q - s + 2 * (r - d)
    PROVE  2 * (c + 1) <= q - (s - 2 * r)
OBVIOUS

(* The count that is allowed is that sum. *)
LEMMA LoopLimit ==
    ASSUME NEW c \in Nat
    PROVE  /\ MaxLoops \in Nat
           /\ 2 * c <= N * (N + 1) => c <= MaxLoops
<1>1. N \in Nat
  BY HierarchyAssumption
<1>2. /\ N * (N + 1) \in Nat
      /\ (N + 1) * N = N * (N + 1)
  BY <1>1
<1> DEFINE p == N * (N + 1)
<1>3. MaxLoops = p \div 2
  BY <1>2 DEF MaxLoops
<1>4. p \in Nat
  BY <1>2
<1> HIDE DEF p
<1>5. p \div 2 \in Nat /\ (2 * c <= p => c <= p \div 2)
  BY <1>4
<1> QED BY <1>3, <1>5 DEF p

----------------------------------------------------------------------------
(* Lemmas on the operators of the model *)

(* A list is made of names. *)
LEMMA UpstreamNames ==
    ASSUME TypeOK, NEW j \in Index, HasDependOn(j)
    PROVE  /\ dependOn[j] \in Seq(Names)
           /\ Upstream(j) \subseteq Names
<1>1. dependOn[j] \in Seq(Names)
  BY HierarchyAssumption DEF TypeOK, HasDependOn
<1>2. \A k \in DOMAIN dependOn[j] : dependOn[j][k] \in Names
  BY <1>1, LenProperties, ElementOfSeq
<1> QED BY <1>1, <1>2 DEF Upstream

(* maxuptier is the largest of the upstream tiers, or 0. *)
LEMMA MaxTier ==
    ASSUME TypeOK, TierInv, NEW j \in Index, HasDependOn(j), Ready(j)
    PROVE  /\ MaxUpTier(j) \in Nat
           /\ MaxUpTier(j) <= loopcnt
           /\ \A n \in Upstream(j) : tierMap[n] <= MaxUpTier(j)
<1>1. loopcnt \in Nat /\ \A n \in Upstream(j) : tierMap[n] \in Nat /\ tierMap[n] <= loopcnt
  BY UpstreamNames DEF TypeOK, TierInv, Ready, Placed
<1> DEFINE Bounds == {m \in Nat : \A n \in Upstream(j) : tierMap[n] <= m}
           Tiers  == {0} \cup {tierMap[n] : n \in Upstream(j)}
<1>2. PICK m \in Bounds : \A b \in Bounds : m <= b
  <2>1. Bounds \subseteq Nat /\ loopcnt \in Bounds
    BY <1>1
  <2> HIDE DEF Bounds
  <2> QED BY <2>1, NatMin
<1>3. m \in Tiers
  <2>1. CASE m = 0
    BY <2>1
  <2>2. CASE m # 0
    <3>1. m \in Nat /\ m - 1 \in Nat /\ m - 1 \notin Bounds
      BY <1>2, <2>2
    <3>2. PICK n \in Upstream(j) : ~(tierMap[n] <= m - 1)
      BY <3>1
    <3>3. tierMap[n] = m
      BY <1>1, <1>2, <3>1, <3>2
    <3> QED BY <3>3
  <2> QED BY <2>1, <2>2
<1>4. /\ MaxUpTier(j) \in Tiers
      /\ MaxUpTier(j) >= 0
      /\ \A n \in Upstream(j) : tierMap[n] <= MaxUpTier(j)
  <2>1. /\ m >= 0
        /\ \A n \in Upstream(j) : tierMap[n] <= m
    BY <1>2
  <2> HIDE DEF Bounds
  <2> QED BY <1>3, <2>1 DEF MaxUpTier
<1> QED BY <1>1, <1>4

(* While the dependencies can be satisfied and something is queued, an      *)
(* algorithm in the queue is ready.                                         *)
LEMMA SomeReady ==
    TypeOK /\ QueueInv /\ TierInv /\ WellFounded /\ Len(indices) # 0
        => \E d \in 1..Len(indices) : Ready(indices[d])
<1> SUFFICES ASSUME TypeOK, QueueInv, TierInv, WellFounded, Len(indices) # 0
             PROVE  \E d \in 1..Len(indices) : Ready(indices[d])
  OBVIOUS
<1> DEFINE S == {i \in Index : tierOf[i] = Unplaced}
<1>1. Len(indices) \in Nat /\ indices[1] \in Index
  BY LenProperties, ElementOfSeq DEF TypeOK
<1>2. S \in (SUBSET Index) \ {{}}
  BY <1>1 DEF QueueInv
<1>3. PICK j \in S : HasDependOn(j) =>
                        \A n \in Upstream(j) : \E i \in Index \ S : name[i] = n
  BY <1>2 DEF WellFounded
<1>4. Ready(j)
  BY <1>3 DEF Ready, TierInv
<1>5. PICK d \in 1..Len(indices) : indices[d] = j
  BY <1>3 DEF QueueInv
<1> QED BY <1>4, <1>5

----------------------------------------------------------------------------
(* The initial state *)

(* Every configuration starts with all its algorithms queued, and with a    *)
(* ready one if it can be satisfied.                                        *)
LEMMA InitInv == Init => IInv
<1> SUFFICES ASSUME Init PROVE IInv
  OBVIOUS
<1>1. N \in Nat
  BY HierarchyAssumption
<1>2. /\ indices \in Seq(Index) /\ Len(indices) = N
      /\ \A k \in 1..N : indices[k] = k
  BY <1>1 DEF Init, Index
<1>3. TypeOK
  <2>1. name \in [Index -> Names] /\ dependOn \in [Index -> DependLists]
    BY HierarchyAssumption DEF Init
  <2>2. tierMap \in [Names -> Nat \cup {Unplaced}] /\ tierOf \in [Index -> Nat \cup {Unplaced}]
    BY DEF Init
  <2>3. loopcnt \in Nat /\ status \in {"running", "built", "failed"}
    BY DEF Init
  <2> QED BY <1>2, <2>1, <2>2, <2>3 DEF TypeOK
<1>4. QueueInv
  <2>1. \A i \in Index : tierOf[i] = Unplaced
    BY DEF Init
  <2> QED BY <1>2, <2>1 DEF QueueInv, Index
<1>5. TierInv
  BY DEF Init, TierInv, Placed, Unplaced
<1>6. TierAfterUpstream
  BY DEF Init, TierAfterUpstream
<1>7. CountInv
  <2>1. loopcnt = 0 /\ status = "running"
    BY DEF Init
  <2>2. 0 <= MaxLoops
    BY LoopLimit
  <2>3. N * (N + 1) \in Nat
    BY <1>1
  <2>4. ASSUME WellFounded, N # 0
        PROVE  \E d \in 1..N : /\ Ready(indices[d])
                               /\ 2 * loopcnt <= N * (N + 1) - N * (N + 1) + 2 * (N - d)
    <3>1. PICK d \in 1..N : Ready(indices[d])
      BY <1>2, <1>3, <1>4, <1>5, <2>4, SomeReady
    <3>2. 2 * loopcnt <= N * (N + 1) - N * (N + 1) + 2 * (N - d)
      BY <1>1, <2>1, <2>3
    <3> QED BY <3>1, <3>2
  <2> QED BY <1>2, <2>1, <2>2, <2>3, <2>4 DEF CountInv
<1> QED BY <1>3, <1>4, <1>5, <1>6, <1>7 DEF IInv

----------------------------------------------------------------------------
(* The steps *)

(* The configuration stays, and with it what it can satisfy. *)
LEMMA ConfigFacts ==
    ASSUME UNCHANGED config
    PROVE  /\ name' = name /\ dependOn' = dependOn
           /\ WellFounded' <=> WellFounded
           /\ \A i \in Index : HasDependOn(i)' <=> HasDependOn(i)
           /\ \A i \in Index : Upstream(i)' = Upstream(i)
<1>1. name' = name /\ dependOn' = dependOn
  BY DEF config
<1>2. /\ \A i \in Index : HasDependOn(i)' <=> HasDependOn(i)
      /\ \A i \in Index : Upstream(i)' = Upstream(i)
  BY <1>1 DEF HasDependOn, Upstream
<1>3. WellFounded' <=> WellFounded
  <2>1. \A n : Known(n)' <=> Known(n)
    BY <1>1 DEF Known
  <2>2. (\A i \in Index : HasDependOn(i) => \A n \in Upstream(i) : Known(n))'
          <=> \A i \in Index : HasDependOn(i) => \A n \in Upstream(i) : Known(n)
    BY <1>2, <2>1
  <2> DEFINE P(S, i) == HasDependOn(i) =>
                          \A n \in Upstream(i) : \E k \in Index \ S : name[k] = n
  <2>3. \A S \in (SUBSET Index) \ {{}} : \A i \in S : P(S, i)' <=> P(S, i)
    BY <1>1, <1>2
  <2>4. (\A S \in (SUBSET Index) \ {{}} : \E i \in S : P(S, i))'
          <=> \A S \in (SUBSET Index) \ {{}} : \E i \in S : P(S, i)
    <3> HIDE DEF P
    <3> QED BY <2>3, Zenon
  <2> QED BY <2>2, <2>4, Zenon DEF WellFounded
<1> QED BY <1>1, <1>2, <1>3

(* Taking the head leaves the configuration, and what it can satisfy. *)
LEMMA TakeFacts ==
    ASSUME IInv, NEW j, Take(j)
    PROVE  /\ status = "running" /\ name' = name /\ dependOn' = dependOn
           /\ WellFounded' <=> WellFounded
           /\ \A i \in Index : HasDependOn(i)' <=> HasDependOn(i)
           /\ \A i \in Index : Upstream(i)' = Upstream(i)
           /\ j \in Index /\ j = indices[1]
           /\ Len(indices) \in Nat \ {0}
           /\ Tail(indices) \in Seq(Index)
           /\ Len(Tail(indices)) = Len(indices) - 1
           /\ \A k \in 1..(Len(indices) - 1) : Tail(indices)[k] = indices[k + 1]
           /\ tierOf[j] = Unplaced
<1>1. /\ status = "running" /\ name' = name /\ dependOn' = dependOn
      /\ WellFounded' <=> WellFounded
      /\ \A i \in Index : HasDependOn(i)' <=> HasDependOn(i)
      /\ \A i \in Index : Upstream(i)' = Upstream(i)
  BY ConfigFacts DEF Take
<1>4. indices \in Seq(Index) /\ indices # <<>> /\ j = Head(indices)
  BY DEF IInv, TypeOK, Take
<1>5. /\ Len(indices) \in Nat \ {0}
      /\ Tail(indices) \in Seq(Index)
      /\ Len(Tail(indices)) = Len(indices) - 1
      /\ \A k \in 1..(Len(indices) - 1) : Tail(indices)[k] = indices[k + 1]
      /\ j = indices[1] /\ j \in Index
  BY <1>4, EmptySeq, HeadTailProperties
<1>6. tierOf[j] = Unplaced
  BY <1>5 DEF IInv, QueueInv
<1> QED BY <1>1, <1>5, <1>6

(* PlaceFirst and Place: a ready algorithm leaves the queue for a tier      *)
(* after those of all that it depends on.                                   *)
LEMMA PlacedInv ==
    ASSUME IInv, NEW j, NEW tier \in Nat, Take(j), PlaceAt(j, tier), CountLoop,
           tier <= loopcnt + 1,
           HasDependOn(j) => \A n \in Upstream(j) : Placed(n) /\ tierMap[n] < tier
    PROVE  IInv'
<1> DEFINE r == Len(indices)
<1>1. /\ status = "running" /\ name' = name /\ dependOn' = dependOn
      /\ WellFounded' <=> WellFounded
      /\ \A i \in Index : HasDependOn(i)' <=> HasDependOn(i)
      /\ \A i \in Index : Upstream(i)' = Upstream(i)
      /\ j \in Index /\ j = indices[1]
      /\ tierOf[j] = Unplaced
  BY TakeFacts
<1>2. /\ indices' \in Seq(Index) /\ r \in Nat \ {0} /\ Len(indices') = r - 1
      /\ \A k \in 1..(r - 1) : indices'[k] = indices[k + 1]
  BY TakeFacts DEF PlaceAt
<1>3. /\ tierMap' = [tierMap EXCEPT ![name[j]] = tier]
      /\ tierOf' = [tierOf EXCEPT ![j] = tier]
      /\ loopcnt' = loopcnt + 1
      /\ status' = IF loopcnt + 1 > MaxLoops THEN "failed" ELSE status
  BY DEF PlaceAt, CountLoop
<1>4. /\ name \in [Index -> Names]
      /\ tierMap \in [Names -> Nat \cup {Unplaced}]
      /\ tierOf \in [Index -> Nat \cup {Unplaced}]
      /\ loopcnt \in Nat
      /\ N \in Nat /\ MaxLoops \in Nat
  BY HierarchyAssumption, LoopLimit DEF IInv, TypeOK
<1>5. tier # Unplaced /\ name[j] \in Names
  BY <1>1, <1>4 DEF Unplaced
<1> HIDE DEF r
<1>6. TypeOK'
  <2>1. /\ tierMap' \in [Names -> Nat \cup {Unplaced}]
        /\ tierOf' \in [Index -> Nat \cup {Unplaced}]
    BY <1>1, <1>3, <1>4
  <2>2. loopcnt' \in Nat /\ status' \in {"running", "built", "failed"}
    BY <1>1, <1>3, <1>4
  <2> QED BY <1>1, <1>2, <2>1, <2>2 DEF IInv, TypeOK
<1>7. QueueInv'
  <2>1. \A k, l \in 1..r : indices[k] = indices[l] => k = l
    BY DEF IInv, QueueInv, r
  <2>2. ASSUME NEW k \in 1..(r - 1), NEW l \in 1..(r - 1), indices'[k] = indices'[l]
        PROVE  k = l
    <3>1. k + 1 \in 1..r /\ l + 1 \in 1..r /\ indices[k + 1] = indices[l + 1]
      BY <1>2, <2>2
    <3>2. k + 1 = l + 1
      BY <2>1, <3>1
    <3> QED BY <3>2
  <2>3. ASSUME NEW i \in Index
        PROVE  tierOf'[i] = Unplaced <=> \E k \in 1..(r - 1) : indices'[k] = i
    <3>1. CASE i = j
      <4>1. tierOf'[i] # Unplaced
        BY <1>1, <1>3, <1>4, <1>5, <3>1
      <4>2. ASSUME NEW k \in 1..(r - 1), indices'[k] = i PROVE FALSE
        <5>1. k + 1 \in 1..r /\ 1 \in 1..r /\ indices[k + 1] = indices[1]
          BY <1>1, <1>2, <3>1, <4>2
        <5>2. k + 1 = 1
          BY <2>1, <5>1
        <5> QED BY <5>2
      <4> QED BY <4>1, <4>2
    <3>2. CASE i # j
      <4>1. tierOf'[i] = tierOf[i]
        BY <1>3, <1>4, <3>2
      <4>2. tierOf[i] = Unplaced <=> \E k \in 1..r : indices[k] = i
        BY DEF IInv, QueueInv, r
      <4>3. ASSUME NEW k \in 1..r, indices[k] = i
            PROVE  \E l \in 1..(r - 1) : indices'[l] = i
        <5>1. k # 1
          BY <1>1, <3>2, <4>3
        <5>2. k - 1 \in 1..(r - 1) /\ indices'[k - 1] = indices[k]
          BY <1>2, <5>1
        <5> QED BY <4>3, <5>2
      <4>4. ASSUME NEW k \in 1..(r - 1), indices'[k] = i
            PROVE  \E l \in 1..r : indices[l] = i
        <5>1. k + 1 \in 1..r /\ indices[k + 1] = i
          BY <1>2, <4>4
        <5> QED BY <5>1
      <4> QED BY <4>1, <4>2, <4>3, <4>4
    <3> QED BY <3>1, <3>2
  <2> QED BY <1>2, <2>2, <2>3 DEF QueueInv
<1>8. TierInv'
  <2>1. ASSUME NEW n \in Names, tierMap'[n] # Unplaced
        PROVE  \E i \in Index : name[i] = n /\ tierOf'[i] = tierMap'[n]
    <3>1. CASE n = name[j]
      BY <1>1, <1>3, <1>4, <3>1
    <3>2. CASE n # name[j]
      <4>1. tierMap'[n] = tierMap[n]
        BY <1>3, <1>4, <3>2
      <4>2. PICK i \in Index : name[i] = n /\ tierOf[i] = tierMap[n]
        BY <2>1, <4>1 DEF IInv, TierInv, Placed
      <4>3. tierOf'[i] = tierOf[i]
        BY <1>3, <1>4, <3>2, <4>2
      <4> QED BY <4>1, <4>2, <4>3
    <3> QED BY <3>1, <3>2
  <2>2. ASSUME NEW i \in Index, tierOf'[i] # Unplaced PROVE tierMap'[name[i]] # Unplaced
    BY <1>1, <1>3, <1>4, <1>5, <2>2 DEF IInv, TierInv, Placed
  <2>3. ASSUME NEW n \in Names PROVE tierMap'[n] <= loopcnt'
    BY <1>1, <1>3, <1>4, <1>5 DEF IInv, TierInv, Unplaced
  <2> QED BY <1>1, <2>1, <2>2, <2>3 DEF TierInv, Placed, Unplaced
<1>9. TierAfterUpstream'
  <2> SUFFICES ASSUME NEW i \in Index, tierOf'[i] # Unplaced, HasDependOn(i), NEW n \in Upstream(i)
               PROVE  \E k \in Index : /\ name[k] = n
                                       /\ tierOf'[k] # Unplaced
                                       /\ tierOf'[k] < tierOf'[i]
    BY <1>1 DEF TierAfterUpstream, Unplaced
  <2>1. CASE i = j
    <3>1. n \in Names
      BY UpstreamNames DEF IInv
    <3>2. tierMap[n] # Unplaced /\ tierMap[n] < tier
      BY <2>1 DEF Placed
    <3>3. PICK k \in Index : name[k] = n /\ tierOf[k] = tierMap[n]
      BY <3>1, <3>2 DEF IInv, TierInv, Placed
    <3>4. k # j
      BY <1>1, <3>2, <3>3
    <3> QED BY <1>3, <1>4, <2>1, <3>2, <3>3, <3>4
  <2>2. CASE i # j
    <3>1. tierOf'[i] = tierOf[i]
      BY <1>3, <1>4, <2>2
    <3>2. PICK k \in Index : name[k] = n /\ tierOf[k] # Unplaced /\ tierOf[k] < tierOf[i]
      BY <3>1 DEF IInv, TierAfterUpstream
    <3>3. k # j
      BY <1>1, <3>2
    <3> QED BY <1>3, <1>4, <3>1, <3>2, <3>3
  <2> QED BY <2>1, <2>2
<1>10. CountInv'
  <2> DEFINE q == N * (N + 1)
             s == r * (r + 1)
             s1 == (r - 1) * ((r - 1) + 1)
  <2>1. s1 = s - 2 * r /\ s1 \in Nat /\ q \in Nat /\ s \in Nat
    BY <1>2, <1>4, SumStep
  <2>2. status' = "running" => loopcnt' <= MaxLoops
    BY <1>1, <1>3, <1>4
  <2>3. status' # "built"
    BY <1>1, <1>3
  <2>4. ASSUME WellFounded
        PROVE  /\ 2 * loopcnt' <= q - s1
               /\ status' = "running"
    <3>1. PICK d \in 1..r : 2 * loopcnt <= q - s + 2 * (r - d)
      BY <1>1, <1>2, <2>4 DEF IInv, CountInv, r
    <3> HIDE DEF q, s, s1
    <3>2. 2 * (loopcnt + 1) <= q - s1
      BY <1>2, <1>4, <2>1, <3>1, RoundCount
    <3>3. 2 * (loopcnt + 1) <= q
      BY <1>4, <2>1, <3>2
    <3>4. loopcnt + 1 <= MaxLoops
      BY <1>4, <3>3, LoopLimit DEF q
    <3> QED BY <1>1, <1>3, <1>4, <3>2, <3>4
  <2>5. ASSUME WellFounded', r - 1 # 0
        PROVE  \E d \in 1..(r - 1) :
                  /\ Ready(indices[d])'
                  /\ 2 * loopcnt' <= q - s1 + 2 * ((r - 1) - d)
    <3>1. (TypeOK /\ QueueInv /\ TierInv /\ WellFounded /\ Len(indices) # 0
             => \E d \in 1..Len(indices) : Ready(indices[d]))'
      BY SomeReady, PTL
    <3>2. PICK d \in 1..(r - 1) : Ready(indices[d])'
      BY <1>2, <1>6, <1>7, <1>8, <2>5, <3>1
    <3>3. 2 * loopcnt' <= q - s1
      BY <1>1, <2>4, <2>5
    <3> HIDE DEF q, s, s1
    <3>4. 2 * loopcnt' <= q - s1 + 2 * ((r - 1) - d)
      BY <1>2, <1>3, <1>4, <2>1, <3>3
    <3> QED BY <3>2, <3>4
  <2>6. WellFounded' /\ r - 1 = 0 => 2 * loopcnt' <= q
    <3> HIDE DEF q, s, s1
    <3> QED BY <1>1, <1>3, <1>4, <2>1, <2>4
  <2> QED BY <1>1, <1>2, <2>2, <2>3, <2>4, <2>5, <2>6 DEF CountInv
<1> QED BY <1>6, <1>7, <1>8, <1>9, <1>10 DEF IInv

(* Requeue: the queue is rotated by one, so that a ready algorithm is one   *)
(* round closer to its head.                                                *)
LEMMA RequeueInv ==
    ASSUME IInv, NEW j, Requeue(j)
    PROVE  IInv'
<1> DEFINE r == Len(indices)
<1>0. Take(j)
  BY DEF Requeue
<1>1. /\ status = "running" /\ name' = name /\ dependOn' = dependOn
      /\ WellFounded' <=> WellFounded
      /\ \A i \in Index : HasDependOn(i)' <=> HasDependOn(i)
      /\ \A i \in Index : Upstream(i)' = Upstream(i)
      /\ j \in Index /\ j = indices[1]
  BY <1>0, TakeFacts
<1>2. /\ indices' \in Seq(Index) /\ r \in Nat \ {0} /\ Len(indices') = r
      /\ \A k \in 1..(r - 1) : indices'[k] = indices[k + 1]
      /\ indices'[r] = j
  <2>1. /\ r \in Nat \ {0}
        /\ Tail(indices) \in Seq(Index)
        /\ Len(Tail(indices)) = r - 1
        /\ \A k \in 1..(r - 1) : Tail(indices)[k] = indices[k + 1]
    BY <1>0, TakeFacts
  <2>2. indices' = Append(Tail(indices), j)
    BY DEF Requeue
  <2>3. /\ indices' \in Seq(Index) /\ Len(indices') = (r - 1) + 1
        /\ \A k \in 1..(r - 1) : indices'[k] = Tail(indices)[k]
        /\ indices'[(r - 1) + 1] = j
    BY <1>1, <2>1, <2>2, AppendProperties
  <2> QED BY <2>1, <2>3
<1>3. /\ tierMap' = tierMap /\ tierOf' = tierOf
      /\ loopcnt' = loopcnt + 1
      /\ status' = IF loopcnt + 1 > MaxLoops THEN "failed" ELSE status
  BY DEF Requeue, CountLoop
<1>4. /\ loopcnt \in Nat /\ N \in Nat /\ MaxLoops \in Nat
      /\ tierMap \in [Names -> Nat \cup {Unplaced}]
  BY HierarchyAssumption, LoopLimit DEF IInv, TypeOK
<1>5. ~Ready(j)
  BY DEF Requeue, Ready
<1> HIDE DEF r
<1>6. TypeOK'
  <2>1. loopcnt' \in Nat /\ status' \in {"running", "built", "failed"}
    BY <1>1, <1>3, <1>4
  <2> QED BY <1>1, <1>2, <1>3, <2>1 DEF IInv, TypeOK
<1>7. QueueInv'
  <2>1. \A k, l \in 1..r : indices[k] = indices[l] => k = l
    BY DEF IInv, QueueInv, r
  <2> DEFINE rot(k) == IF k = r THEN 1 ELSE k + 1
  <2>2. \A k \in 1..r : rot(k) \in 1..r /\ indices'[k] = indices[rot(k)]
    BY <1>1, <1>2
  <2>3. \A k, l \in 1..r : rot(k) = rot(l) => k = l
    BY <1>2
  <2>4. \A l \in 1..r : \E k \in 1..r : rot(k) = l
    <3> TAKE l \in 1..r
    <3>1. CASE l = 1
      BY <1>2, <3>1
    <3>2. CASE l # 1
      <4>1. l - 1 \in 1..r /\ rot(l - 1) = l
        BY <1>2, <3>2
      <4> QED BY <4>1
    <3> QED BY <3>1, <3>2
  <2> HIDE DEF rot
  <2>5. \A k, l \in 1..r : indices'[k] = indices'[l] => k = l
    BY <2>1, <2>2, <2>3
  <2>6. \A i \in Index : (\E k \in 1..r : indices'[k] = i) <=> (\E k \in 1..r : indices[k] = i)
    BY <2>2, <2>4
  <2> QED BY <1>2, <1>3, <2>5, <2>6 DEF IInv, QueueInv, r
<1>8. TierInv'
  <2>1. \A n \in Names : tierMap[n] <= loopcnt + 1
    BY <1>4 DEF IInv, TierInv, Unplaced
  <2> QED BY <1>1, <1>3, <2>1 DEF IInv, TierInv, Placed, Unplaced
<1>9. TierAfterUpstream'
  BY <1>1, <1>3 DEF IInv, TierAfterUpstream
<1>10. CountInv'
  <2> DEFINE q == N * (N + 1)
             s == r * (r + 1)
  <2>1. q \in Nat /\ s \in Nat /\ s >= 2 * r
    BY <1>2, <1>4
  <2>2. status' = "running" => loopcnt' <= MaxLoops
    BY <1>1, <1>3, <1>4
  <2>3. status' # "built"
    BY <1>1, <1>3
  <2>4. ASSUME WellFounded
        PROVE  /\ \E d \in 1..r : Ready(indices[d])' /\ 2 * loopcnt' <= q - s + 2 * (r - d)
               /\ status' = "running"
    <3>1. PICK d \in 1..r : Ready(indices[d]) /\ 2 * loopcnt <= q - s + 2 * (r - d)
      BY <1>1, <1>2, <2>4 DEF IInv, CountInv, r
    <3>2. d # 1
      BY <1>1, <1>5, <3>1
    <3>3. d - 1 \in 1..r /\ d - 1 \in 1..(r - 1) /\ indices'[d - 1] = indices[d]
      BY <1>2, <3>2
    <3>4. indices[d] \in Index
      BY ElementOfSeq DEF IInv, TypeOK, r
    <3>5. Ready(indices[d - 1])'
      BY <1>1, <1>3, <3>1, <3>3, <3>4 DEF Ready, Placed, Unplaced
    <3> HIDE DEF q, s
    <3>6. 2 * loopcnt' <= q - s + 2 * (r - (d - 1))
      BY <1>2, <1>3, <1>4, <2>1, <3>1
    <3>7. 2 * (loopcnt + 1) <= q
      <4> HIDE DEF r
      <4>1. r \in Nat /\ d \in Nat /\ d - 1 >= 1 /\ loopcnt' = loopcnt + 1 /\ loopcnt \in Nat
        BY <1>2, <1>3, <1>4, <3>3
      <4>2. 2 * (r - (d - 1)) <= 2 * r - 2
        BY <4>1
      <4> QED BY <2>1, <3>6, <4>1, <4>2
    <3>8. loopcnt + 1 <= MaxLoops
      BY <1>4, <3>7, LoopLimit DEF q
    <3>9. status' = "running"
      BY <1>1, <1>3, <1>4, <3>8
    <3> QED BY <3>3, <3>5, <3>6, <3>9
  <2> QED BY <1>1, <1>2, <2>2, <2>3, <2>4 DEF CountInv
<1> QED BY <1>6, <1>7, <1>8, <1>9, <1>10 DEF IInv

(* Fail: a name that no algorithm has can never be satisfied. *)
LEMMA FailInv ==
    ASSUME IInv, NEW j, Fail(j)
    PROVE  IInv'
<1>1. Take(j) /\ HasDependOn(j) /\ FindsUnknown(j)
  BY DEF Fail
<1>2. UNCHANGED <<indices, tierMap, tierOf, loopcnt>> /\ status' = "failed"
  BY DEF Fail
<1>3. /\ name' = name /\ dependOn' = dependOn
      /\ WellFounded' <=> WellFounded
      /\ \A i \in Index : HasDependOn(i)' <=> HasDependOn(i)
      /\ \A i \in Index : Upstream(i)' = Upstream(i)
      /\ j \in Index
  BY <1>1, TakeFacts
<1>4. ~WellFounded
  BY <1>1, <1>3 DEF FindsUnknown, WellFounded, Upstream
<1>5. TypeOK'
  BY <1>2, <1>3 DEF IInv, TypeOK
<1>6. QueueInv'
  BY <1>2 DEF IInv, QueueInv, Unplaced
<1>7. TierInv'
  BY <1>2, <1>3 DEF IInv, TierInv, Placed, Unplaced
<1>8. TierAfterUpstream'
  BY <1>2, <1>3 DEF IInv, TierAfterUpstream, Unplaced
<1>9. CountInv'
  BY <1>2, <1>3, <1>4 DEF CountInv
<1> QED BY <1>5, <1>6, <1>7, <1>8, <1>9 DEF IInv

(* Finish and stuttering: what is built had an empty queue. *)
LEMMA FinishInv ==
    ASSUME IInv, Finish \/ UNCHANGED vars
    PROVE  IInv'
<1>1. UNCHANGED <<config, indices, tierMap, tierOf, loopcnt>>
  BY DEF Finish, vars
<1>2. /\ name' = name /\ dependOn' = dependOn
      /\ WellFounded' <=> WellFounded
      /\ \A i \in Index : HasDependOn(i)' <=> HasDependOn(i)
      /\ \A i \in Index : Upstream(i)' = Upstream(i)
  BY <1>1, ConfigFacts
<1>3. status' \in {"running", "built", "failed"}
  BY DEF Finish, vars, IInv, TypeOK
<1>4. TypeOK'
  BY <1>1, <1>2, <1>3 DEF IInv, TypeOK
<1>5. QueueInv'
  BY <1>1 DEF IInv, QueueInv, Unplaced
<1>6. TierInv'
  BY <1>1, <1>2 DEF IInv, TierInv, Placed, Unplaced
<1>7. TierAfterUpstream'
  BY <1>1, <1>2 DEF IInv, TierAfterUpstream, Unplaced
<1>8. CountInv'
  <2>1. CASE Finish
    <3>1. indices = <<>> /\ indices' = indices
      BY <1>1, <2>1 DEF Finish
    <3>2. Len(indices') = 0
      BY <3>1
    <3>3. status' = "built"
      BY <2>1 DEF Finish
    <3> QED BY <3>2, <3>3 DEF CountInv
  <2>2. CASE UNCHANGED vars
    <3>1. status' = status
      BY <2>2 DEF vars
    <3>2. \A d \in 1..Len(indices) : Ready(indices[d])' <=> Ready(indices[d])
      <4> TAKE d \in 1..Len(indices)
      <4>1. indices[d] \in Index
        BY ElementOfSeq DEF IInv, TypeOK
      <4> QED BY <1>1, <1>2, <4>1 DEF Ready, Placed, Unplaced
    <3> QED BY <1>1, <1>2, <3>1, <3>2 DEF IInv, CountInv
  <2> QED BY <2>1, <2>2
<1> QED BY <1>4, <1>5, <1>6, <1>7, <1>8 DEF IInv

(* Every step keeps the invariant. *)
LEMMA NextInv == IInv /\ [Next]_vars => IInv'
<1> SUFFICES ASSUME IInv, [Next]_vars PROVE IInv'
  OBVIOUS
<1>1. ASSUME NEW j \in Index, PlaceFirst(j) PROVE IInv'
  <2>1. Take(j) /\ PlaceAt(j, 0) /\ CountLoop /\ ~HasDependOn(j)
    BY <1>1 DEF PlaceFirst
  <2>2. 0 \in Nat /\ 0 <= loopcnt + 1
    BY DEF IInv, TypeOK
  <2> QED BY <2>1, <2>2, PlacedInv
<1>2. ASSUME NEW j \in Index, Place(j) PROVE IInv'
  <2> DEFINE tier == MaxUpTier(j) + 1
  <2>1. /\ Take(j) /\ PlaceAt(j, tier) /\ CountLoop
        /\ HasDependOn(j) /\ \A n \in Upstream(j) : Placed(n)
    BY <1>2 DEF Place
  <2>2. /\ MaxUpTier(j) \in Nat
        /\ MaxUpTier(j) <= loopcnt
        /\ \A n \in Upstream(j) : tierMap[n] <= MaxUpTier(j)
    BY <2>1, MaxTier DEF IInv, Ready
  <2>3. tier \in Nat /\ tier <= loopcnt + 1
    BY <2>2 DEF IInv, TypeOK
  <2>4. \A n \in Upstream(j) : tierMap[n] < tier
    <3>1. \A n \in Upstream(j) : tierMap[n] \in Int
      BY <2>1, UpstreamNames DEF IInv, TypeOK, Unplaced
    <3> QED BY <2>2, <3>1
  <2> HIDE DEF tier
  <2> QED BY <2>1, <2>3, <2>4, PlacedInv
<1>3. ASSUME NEW j \in Index, Requeue(j) PROVE IInv'
  BY <1>3, RequeueInv
<1>4. ASSUME NEW j \in Index, Fail(j) PROVE IInv'
  BY <1>4, FailInv
<1>5. CASE Finish \/ UNCHANGED vars
  BY <1>5, FinishInv
<1> QED BY <1>1, <1>2, <1>3, <1>4, <1>5 DEF Next

----------------------------------------------------------------------------
(* The theorems *)

(* The queue, the tiers and the count of buildAnalysisHierarchy keep their  *)
(* types; MaxUpTier is always one of the tiers.                             *)
THEOREM TypeCorrect == Spec => []TypeOK
<1>1. IInv => TypeOK
  BY DEF IInv
<1> QED BY <1>1, InitInv, NextInv, PTL DEF Spec

(* An algorithm that buildAnalysisHierarchy has placed is in a later tier   *)
(* than an algorithm of every name in its "dependOn" list, even when a name *)
(* is used twice.                                                           *)
THEOREM UpstreamFirst == Spec => []TierAfterUpstream
<1>1. IInv => TierAfterUpstream
  BY DEF IInv
<1> QED BY <1>1, InitInv, NextInv, PTL DEF Spec

(* buildAnalysisHierarchy returns a hierarchy only of dependencies that can *)
(* be satisfied, and throws only for those that cannot be: n(n+1)/2 rounds  *)
(* are enough for every other configuration.                                *)
THEOREM BuiltExactly == Spec => []BuiltIffWellFounded
<1>1. IInv => BuiltIffWellFounded
  <2> SUFFICES ASSUME IInv PROVE BuiltIffWellFounded
    OBVIOUS
  <2>1. status = "failed" => ~WellFounded
    BY DEF IInv, CountInv
  <2>2. ASSUME status = "built" PROVE WellFounded /\ \A j \in Index : tierOf[j] # Unplaced
    <3>1. \A j \in Index : tierOf[j] # Unplaced /\ tierOf[j] \in Nat
      BY <2>2 DEF IInv, TypeOK, CountInv, QueueInv
    <3>2. \A j \in Index : HasDependOn(j) => \A n \in Upstream(j) : Known(n)
      BY <3>1 DEF IInv, TierAfterUpstream, Known
    <3>3. ASSUME NEW S \in (SUBSET Index) \ {{}}
          PROVE  \E j \in S : HasDependOn(j) =>
                    \A n \in Upstream(j) : \E i \in Index \ S : name[i] = n
      <4> DEFINE T == {tierOf[i] : i \in S}
      <4>1. T \subseteq Nat /\ T # {}
        BY <3>1
      <4>2. PICK x \in T : \A y \in T : x <= y
        <5> HIDE DEF T
        <5> QED BY <4>1, NatMin
      <4>3. PICK j \in S : tierOf[j] = x
        BY <4>2
      <4>4. ASSUME HasDependOn(j), NEW n \in Upstream(j)
            PROVE  \E i \in Index \ S : name[i] = n
        <5>1. PICK i \in Index : name[i] = n /\ tierOf[i] < tierOf[j]
          BY <3>1, <4>4 DEF IInv, TierAfterUpstream
        <5>2. i \in S => tierOf[j] <= tierOf[i]
          BY <4>2, <4>3
        <5>3. tierOf[i] \in Nat /\ tierOf[j] \in Nat
          BY <3>1
        <5>4. i \notin S
          BY <5>1, <5>2, <5>3
        <5> QED BY <5>1, <5>4
      <4> QED BY <4>4
    <3> QED BY <3>1, <3>2, <3>3 DEF WellFounded
  <2> QED BY <2>1, <2>2 DEF BuiltIffWellFounded
<1> QED BY <1>1, InitInv, NextInv, PTL DEF Spec

(* loopcnt is checked in every round: the loop never goes on with more than *)
(* n(n+1)/2 of them behind it.                                              *)
RoundsBounded == status = "running" => loopcnt <= MaxLoops

(* The limit that makes the loop of buildAnalysisHierarchy end, whatever    *)
(* the configuration says.                                                  *)
THEOREM LoopLimited == Spec => []RoundsBounded
<1>1. IInv => RoundsBounded
  BY DEF IInv, CountInv, RoundsBounded
<1> QED BY <1>1, InitInv, NextInv, PTL DEF Spec

============================================================================
