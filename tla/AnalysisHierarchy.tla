------------------------- MODULE AnalysisHierarchy -------------------------
(***************************************************************************)
(* ScanHelper::buildAnalysisHierarchy: the algorithms of a scan's analysis *)
(* configuration are sorted into tiers, so that an algorithm runs after    *)
(* the ones it depends on.  The algorithm takes indices from a queue,      *)
(* requeues those with an unplaced dependency, and gives up after          *)
(* n(n+1)/2 rounds.                                                        *)
(*                                                                         *)
(* The configuration is chosen in the initial state.  Every step handles   *)
(* one index.                                                              *)
(***************************************************************************)
EXTENDS Integers, Sequences

CONSTANTS N,             \* number of algorithms in the configuration
          Names,         \* names of algorithms
          NameMaps,      \* the names the algorithms of a configuration may have
          NoDependOn,    \* the configuration has no "dependOn"
          DependLists    \* the "dependOn" lists an algorithm may have

Index == 1..N

ASSUME HierarchyAssumption ==
    /\ N \in Nat
    /\ NameMaps \subseteq [Index -> Names]
    /\ NoDependOn \notin Seq(Names)
    /\ DependLists \subseteq Seq(Names) \cup {NoDependOn}

VARIABLES
    name,       \* the name of each algorithm
    dependOn,   \* its "dependOn" list
    indices,    \* the deque of indices to be placed
    tierMap,    \* the tier of each name, or Unplaced
    tierOf,     \* the tier of indexTiers that holds each index, or Unplaced
    loopcnt,    \* indices taken so far
    status      \* "running", "built", "failed" (an exception)

config == <<name, dependOn>>
vars == <<config, indices, tierMap, tierOf, loopcnt, status>>

Unplaced == -1

(* Mutation: the indices are those of an array that starts at zero. *)
InitFromZero ==
    /\ name \in NameMaps
    /\ dependOn \in [Index -> DependLists]
    /\ indices = [i \in Index |-> i - 1]
    /\ tierMap = [n \in Names |-> Unplaced]
    /\ tierOf = [i \in Index |-> Unplaced]
    /\ loopcnt = 0
    /\ status = "running"

Init ==
    /\ name \in NameMaps
    /\ dependOn \in [Index -> DependLists]
    /\ indices = [i \in Index |-> i]
    /\ tierMap = [n \in Names |-> Unplaced]
    /\ tierOf = [i \in Index |-> Unplaced]
    /\ loopcnt = 0
    /\ status = "running"

----------------------------------------------------------------------------
MaxLoops == ((N + 1) * N) \div 2

HasDependOn(j) == dependOn[j] # NoDependOn
Upstream(j)    == {dependOn[j][k] : k \in DOMAIN dependOn[j]}
Known(n)       == \E i \in Index : name[i] = n
Placed(n)      == tierMap[n] # Unplaced

(* Whether the scan of the list gets to an unknown name, before it is cut   *)
(* short by a name that has no tier yet.                                    *)
FindsUnknown(j) ==
    \E k \in DOMAIN dependOn[j] :
        /\ ~Known(dependOn[j][k])
        /\ \A l \in 1..(k - 1) : Placed(dependOn[j][l])

(* Mutation: the limit is one round for each pair of algorithms. *)
CountLoopShort ==
    /\ loopcnt' = loopcnt + 1
    /\ status' = IF loopcnt + 1 > (N * (N - 1)) \div 2 THEN "failed" ELSE status

(* The end of the loop body: the count is checked last. *)
CountLoop ==
    /\ loopcnt' = loopcnt + 1
    /\ status' = IF loopcnt + 1 > MaxLoops THEN "failed" ELSE status

Take(j) ==
    /\ status = "running"
    /\ indices # <<>>
    /\ j = Head(indices)
    /\ UNCHANGED config

(* fillIndexVector, and the entry of tierMap. *)
PlaceAt(j, tier) ==
    /\ tierMap' = [tierMap EXCEPT ![name[j]] = tier]
    /\ tierOf' = [tierOf EXCEPT ![j] = tier]
    /\ indices' = Tail(indices)

(* No "dependOn": first tier. *)
PlaceFirst(j) ==
    /\ Take(j)
    /\ ~HasDependOn(j)
    /\ PlaceAt(j, 0)
    /\ CountLoop

(* maxuptier starts at 0, so that an empty list counts as one of tier 0. *)
MaxUpTier(j) ==
    CHOOSE m \in {0} \cup {tierMap[n] : n \in Upstream(j)} :
        /\ m >= 0
        /\ \A n \in Upstream(j) : tierMap[n] <= m

(* Mutation: the algorithm goes into the tier of its upstream ones. *)
PlaceSameTier(j) ==
    /\ Take(j)
    /\ HasDependOn(j)
    /\ \A n \in Upstream(j) : Placed(n)
    /\ PlaceAt(j, MaxUpTier(j))
    /\ CountLoop

(* All upstream names have a tier: one after the last of them. *)
Place(j) ==
    /\ Take(j)
    /\ HasDependOn(j)
    /\ \A n \in Upstream(j) : Placed(n)
    /\ PlaceAt(j, MaxUpTier(j) + 1)
    /\ CountLoop

(* Mutation: the loop is not counted. *)
RequeueUncounted(j) ==
    /\ Take(j)
    /\ HasDependOn(j)
    /\ ~FindsUnknown(j)
    /\ \E n \in Upstream(j) : ~Placed(n)
    /\ indices' = Append(Tail(indices), j)
    /\ UNCHANGED <<tierMap, tierOf, loopcnt, status>>

(* One has none: back to the end of the queue. *)
Requeue(j) ==
    /\ Take(j)
    /\ HasDependOn(j)
    /\ ~FindsUnknown(j)
    /\ \E n \in Upstream(j) : ~Placed(n)
    /\ indices' = Append(Tail(indices), j)
    /\ CountLoop
    /\ UNCHANGED <<tierMap, tierOf>>

(* An unknown name: std::runtime_error. *)
Fail(j) ==
    /\ Take(j)
    /\ HasDependOn(j)
    /\ FindsUnknown(j)
    /\ status' = "failed"
    /\ UNCHANGED <<indices, tierMap, tierOf, loopcnt>>

(* The queue is empty. *)
Finish ==
    /\ status = "running"
    /\ indices = <<>>
    /\ status' = "built"
    /\ UNCHANGED <<config, indices, tierMap, tierOf, loopcnt>>

Next ==
    \/ \E j \in Index : PlaceFirst(j) \/ Place(j) \/ Requeue(j) \/ Fail(j)
    \/ Finish

Spec == Init /\ [][Next]_vars

(* It is a sequential function: it runs until it returns or throws. *)
FairSpec == Spec /\ WF_vars(Next)

----------------------------------------------------------------------------
(* Every variable has its type. *)
TypeOK ==
    /\ name \in [Index -> Names]
    /\ dependOn \in [Index -> DependLists]
    /\ indices \in Seq(Index)
    /\ tierMap \in [Names -> Nat \cup {Unplaced}]
    /\ tierOf \in [Index -> Nat \cup {Unplaced}]
    /\ loopcnt \in Nat
    /\ status \in {"running", "built", "failed"}

(* What is placed is placed after an algorithm of every name it depends on. *)
TierAfterUpstream ==
    \A j \in Index : tierOf[j] # Unplaced /\ HasDependOn(j) =>
        \A n \in Upstream(j) :
            \E i \in Index : /\ name[i] = n
                             /\ tierOf[i] # Unplaced
                             /\ tierOf[i] < tierOf[j]

(* The dependencies can be satisfied: all names are known, and every set of *)
(* algorithms has one that waits for no name found only inside the set.     *)
WellFounded ==
    /\ \A j \in Index : HasDependOn(j) => \A n \in Upstream(j) : Known(n)
    /\ \A S \in (SUBSET Index) \ {{}} :
          \E j \in S : HasDependOn(j) =>
             \A n \in Upstream(j) : \E i \in Index \ S : name[i] = n

(* The hierarchy is built exactly when there is one: the limit on the       *)
(* number of rounds never rejects a configuration that only needs many.     *)
BuiltIffWellFounded ==
    /\ (status = "built") => WellFounded /\ \A j \in Index : tierOf[j] # Unplaced
    /\ (status = "failed") => ~WellFounded

(* It returns or throws, whatever the configuration says. *)
Terminates == <>(status # "running")
============================================================================
