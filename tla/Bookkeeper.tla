----------------------------- MODULE Bookkeeper -----------------------------
(***************************************************************************)
(* The Bookkeeper's tables of front ends: the entries, whose position is   *)
(* the front end's id, and the two maps derived from them, from a front    *)
(* end to its id and from a receiver channel to the ids it carries, which  *)
(* the data loops use to route what they read.                             *)
(***************************************************************************)
EXTENDS SequenceOps

CONSTANTS FrontEnds,   \* the front end objects
          Channels,    \* the receiver channels
          MaxDel       \* bound on the calls of delFe

ASSUME BookkeeperAssumption == MaxDel \in Nat

VARIABLES
    bookEntries,   \* sequence of entries; an entry's id is its position - 1
    idMap,         \* from front ends to ids
    rxToIdMap,     \* from receiver channels to sequences of ids
    deletions      \* calls of delFe so far (bounds the model)

vars == <<bookEntries, idMap, rxToIdMap, deletions>>

Init ==
    /\ bookEntries = <<>>
    /\ idMap = <<>>
    /\ rxToIdMap = [c \in Channels |-> <<>>]
    /\ deletions = 0

BookEntry(fe, rx) == [fe |-> fe, rxChannel |-> rx]

Id(i) == i - 1
Ids == {Id(i) : i \in DOMAIN bookEntries}

----------------------------------------------------------------------------
(* addFe takes ownership, so that no front end is added twice. *)
AddFe(fe, rx) ==
    /\ \A i \in DOMAIN bookEntries : bookEntries[i].fe # fe
    /\ LET uid == Len(bookEntries)
       IN  /\ bookEntries' = Append(bookEntries, BookEntry(fe, rx))
           /\ idMap' = [x \in DOMAIN idMap \cup {fe} |-> IF x = fe THEN uid ELSE idMap[x]]
           /\ rxToIdMap' = [rxToIdMap EXCEPT ![rx] = Append(@, uid)]
    /\ UNCHANGED deletions

(* Mutations: the ids are not remapped; all of them are lowered by one. *)
RemapNot(entries, map) == map

RemapAll(entries, map) == [x \in DOMAIN map |-> map[x] - 1]

(* Every entry that is left is mapped to its new id. *)
Remap(entries, map) ==
    [x \in DOMAIN map |->
        IF \E i \in DOMAIN entries : entries[i].fe = x
        THEN Id(CHOOSE i \in DOMAIN entries : entries[i].fe = x)
        ELSE map[x]]

(* The entry and its id are removed, and "everything" is remapped. *)
Erase(id, map) ==
    IF id \in Ids
    THEN LET rx == bookEntries[id + 1].rxChannel
             entries == RemoveAt(bookEntries, id + 1)
         IN  /\ rxToIdMap' = [rxToIdMap EXCEPT ![rx] = Selected(@, Nat \ {id})]
             /\ bookEntries' = entries
             /\ idMap' = Remap(entries, map)
    ELSE /\ idMap' = Remap(bookEntries, map)
         /\ UNCHANGED <<bookEntries, rxToIdMap>>

(* delFe by id *)
DelFe(id) ==
    /\ deletions < MaxDel
    /\ deletions' = deletions + 1
    /\ Erase(id, idMap)

(* delFe by pointer looks the id up; a pointer that is not in the map gets  *)
(* the id 0.                                                                *)
DelFePtr(fe) ==
    /\ deletions < MaxDel
    /\ deletions' = deletions + 1
    /\ IF fe \in DOMAIN idMap THEN Erase(idMap[fe], idMap)
       ELSE Erase(0, [x \in DOMAIN idMap \cup {fe} |-> IF x = fe THEN 0 ELSE idMap[x]])

Next ==
    \/ \E fe \in FrontEnds, rx \in Channels : AddFe(fe, rx)
    \/ \E id \in 0..Len(bookEntries) : DelFe(id)
    \/ \E fe \in FrontEnds : DelFePtr(fe)

Spec == Init /\ [][Next]_vars

----------------------------------------------------------------------------
(* Every variable has its type. *)
TypeOK ==
    /\ bookEntries \in Seq([fe : FrontEnds, rxChannel : Channels])
    /\ DOMAIN idMap \subseteq FrontEnds
    /\ \A fe \in DOMAIN idMap : idMap[fe] \in Nat
    /\ rxToIdMap \in [Channels -> Seq(Nat)]
    /\ deletions \in 0..MaxDel

(* getId of a front end in use is the id getEntry finds it under, whatever  *)
(* was added and deleted before.                                            *)
IdMapConsistent ==
    \A i \in DOMAIN bookEntries :
        /\ bookEntries[i].fe \in DOMAIN idMap
        /\ idMap[bookEntries[i].fe] = Id(i)

============================================================================
