---------------------------- MODULE WorldProofs ----------------------------
(***************************************************************************)
(* Proofs about World, for any number of structs, floors, subscriptions    *)
(* and portals: what a lease finds, and who listens to its floors.         *)
(***************************************************************************)
EXTENDS World, FiniteSetTheorems, TLAPS

-----------------------------------------------------------------------------
(* Sequences: taking an element out of the list of subscriptions.           *)

Without(s, i) == Front([s EXCEPT ![i] = Last(s)])

LEMMA WithoutIs ==
  ASSUME NEW S, NEW s \in Seq(S), NEW i \in DOMAIN s
  PROVE  /\ Without(s, i) \in Seq(S)
         /\ DOMAIN Without(s, i) = 1..Len(s) - 1
         /\ \A j \in 1..Len(s) - 1 : Without(s, i)[j] = IF j = i THEN s[Len(s)] ELSE s[j]
<1> DEFINE t == [s EXCEPT ![i] = s[Len(s)]]
<1>1. t \in Seq(S) /\ Len(t) = Len(s) /\ Len(s) \in Nat \ {0}
  OBVIOUS
<1>2. Without(s, i) = SubSeq(t, 1, Len(s) - 1)
  BY <1>1 DEF Without, Front, Last
<1>3. \A j \in 1..Len(s) - 1 : t[j] = IF j = i THEN s[Len(s)] ELSE s[j]
  OBVIOUS
<1> HIDE DEF t
<1>4. /\ SubSeq(t, 1, Len(s) - 1) \in Seq(S)
      /\ DOMAIN SubSeq(t, 1, Len(s) - 1) = 1..Len(s) - 1
      /\ \A j \in 1..Len(s) - 1 : SubSeq(t, 1, Len(s) - 1)[j] = t[j]
  BY <1>1
<1> QED BY <1>2, <1>3, <1>4

(* Its elements stay below a bound, and distinct.                           *)
LEMMA WithoutKeeps ==
  ASSUME NEW S, NEW s \in Seq(S), NEW i \in DOMAIN s, NEW next,
         \A j \in DOMAIN s : s[j] < next,
         \A j, k \in DOMAIN s : s[j] = s[k] => j = k
  PROVE  /\ \A j \in DOMAIN Without(s, i) : Without(s, i)[j] < next
         /\ \A j, k \in DOMAIN Without(s, i) : Without(s, i)[j] = Without(s, i)[k] => j = k
<1> DEFINE n == Len(s)
           q == Without(s, i)
           m(x) == IF x = i THEN n ELSE x
<1>1. n \in Nat /\ DOMAIN s = 1..n
  OBVIOUS
<1>2. DOMAIN q = 1..n - 1 /\ \A j \in 1..n - 1 : q[j] = s[m(j)]
  BY WithoutIs
<1> HIDE DEF n, q
<1>3. \A j \in 1..n - 1 : m(j) \in DOMAIN s
  BY <1>1
<1>4. \A j, k \in 1..n - 1 : m(j) = m(k) => j = k
  BY <1>1
<1> HIDE DEF m
<1>5. \A j \in DOMAIN q : q[j] < next
  BY <1>2, <1>3
<1>6. \A j, k \in DOMAIN q : q[j] = q[k] => j = k
  BY <1>2, <1>3, <1>4
<1> QED BY <1>5, <1>6 DEF q

-----------------------------------------------------------------------------
(* Types.                                                                   *)

(* The steps of one struct.                                                 *)
StepOf(w) ==
  \/ NewVirtualWorld(w) \/ SubChanges(w) \/ BeginRelease(w) \/ FinishRelease(w) \/ Collect(w)
  \/ \E f \in Floors : Floor(w, f) \/ Write(w, f)
  \/ \E i \in DOMAIN worldSubs[w] : TakeSub(w, i)
  \/ \E id \in DOMAIN handles[w] : \E h \in handles[w][id] : CloseFloorSub(w, id, h)
  \/ \E p \in Portals : AddLocalPortal(w, p) \/ RemoveLocalPortal(w, p)

LEMMA InitType == ASSUME Init PROVE TypeOK
<1> USE WorldAssumption DEF Init, SubIds, NoPortals
<1>1. /\ status \in [Worlds -> {"fresh", "leased", "closing", "pooled", "dropped"}]
      /\ linked \in [Worlds -> SUBSET Floors] /\ dirty \in [Worlds -> SUBSET Floors]
      /\ content \in [Worlds -> [Floors -> {"none", "own", "left"}]]
  OBVIOUS
<1>2. /\ worldSubs \in [Worlds -> Seq(SubIds)] /\ nextSubId \in [Worlds -> Nat]
      /\ handles \in [Worlds -> [SubIds -> SUBSET (Floors \X Nat)]]
      /\ collected \in [Worlds -> SUBSET SubIds]
  OBVIOUS
<1>3. /\ nextGridId \in [Worlds -> [Floors -> Nat]]
      /\ gridSubs = [w \in Worlds |-> [f \in Floors |-> gridSubs[w][f]]]
      /\ portals \in [Worlds -> [Portals -> Nat]] /\ portalsTo \in [Worlds -> [Portals -> Nat]]
  OBVIOUS
<1> QED BY <1>1, <1>2, <1>3 DEF TypeOK

LEMMA TypeStep == ASSUME TypeOK, NEW w \in Worlds, StepOf(w) PROVE TypeOK'
<1> USE WorldAssumption DEF TypeOK, NoPortals, floorVars, subVars, portalVars
<1>1. CASE NewVirtualWorld(w)
  BY <1>1 DEF NewVirtualWorld
<1>2. CASE SubChanges(w)
  <2>1. nextSubId[w] \in SubIds
    BY <1>2 DEF SubChanges, SubIds
  <2>2. worldSubs' \in [Worlds -> Seq(SubIds)]
    BY <1>2, <2>1 DEF SubChanges
  <2>3. handles' \in [Worlds -> [SubIds -> SUBSET (Floors \X Nat)]]
    BY <1>2, <2>1 DEF SubChanges
  <2>4. nextGridId' \in [Worlds -> [Floors -> Nat]]
    BY <1>2 DEF SubChanges
  <2>5. gridSubs' = [v \in Worlds |-> [f \in Floors |-> gridSubs'[v][f]]]
    BY <1>2 DEF SubChanges
  <2> QED BY <1>2, <2>2, <2>3, <2>4, <2>5 DEF SubChanges
<1>3. CASE BeginRelease(w)
  BY <1>3 DEF BeginRelease, ToSet
<1>4. CASE FinishRelease(w)
  <2>1. content' \in [Worlds -> [Floors -> {"none", "own", "left"}]]
    BY <1>4 DEF FinishRelease
  <2>2. worldSubs' \in [Worlds -> Seq(SubIds)] /\ collected' \in [Worlds -> SUBSET SubIds]
    BY <1>4 DEF FinishRelease
  <2>3. gridSubs' = [v \in Worlds |-> [f \in Floors |-> gridSubs'[v][f]]]
    BY <1>4 DEF FinishRelease
  <2>4. status' \in [Worlds -> {"fresh", "leased", "closing", "pooled", "dropped"}]
    BY <1>4 DEF FinishRelease
  <2> QED BY <1>4, <2>1, <2>2, <2>3, <2>4 DEF FinishRelease
<1>5. CASE Collect(w)
  BY <1>5 DEF Collect
<1>6. ASSUME NEW f \in Floors, Floor(w, f) PROVE TypeOK'
  <2>1. Len(worldSubs[w]) \in Nat /\ DOMAIN worldSubs[w] = 1..Len(worldSubs[w])
    OBVIOUS
  <2>2. nextGridId' \in [Worlds -> [Floors -> Nat]]
    BY <1>6, <2>1 DEF Floor, Link
  <2>3. HandlesWith(handles[w], f, nextGridId[w][f], worldSubs[w]) \in [SubIds -> SUBSET (Floors \X Nat)]
    BY <2>1 DEF HandlesWith
  <2>4. handles' \in [Worlds -> [SubIds -> SUBSET (Floors \X Nat)]]
    BY <1>6, <2>3 DEF Floor, Link
  <2>5. gridSubs' = [v \in Worlds |-> [g \in Floors |-> gridSubs'[v][g]]]
    BY <1>6 DEF Floor, Link
  <2> QED BY <1>6, <2>2, <2>4, <2>5 DEF Floor, Link
<1>7. ASSUME NEW f \in Floors, Write(w, f) PROVE TypeOK'
  BY <1>7 DEF Write
<1>8. ASSUME NEW i \in DOMAIN worldSubs[w], TakeSub(w, i) PROVE TypeOK'
  <2>1. Without(worldSubs[w], i) \in Seq(SubIds)
    BY WithoutIs
  <2>2. worldSubs' = [worldSubs EXCEPT ![w] = Without(worldSubs[w], i)]
    BY <1>8 DEF TakeSub, Without
  <2> QED BY <1>8, <2>1, <2>2 DEF TakeSub
<1>9. ASSUME NEW id \in DOMAIN handles[w], NEW h \in handles[w][id], CloseFloorSub(w, id, h) PROVE TypeOK'
  <2>1. handles' \in [Worlds -> [SubIds -> SUBSET (Floors \X Nat)]]
    BY <1>9 DEF CloseFloorSub
  <2>2. gridSubs' = [v \in Worlds |-> [g \in Floors |-> gridSubs'[v][g]]]
    BY <1>9 DEF CloseFloorSub
  <2> QED BY <1>9, <2>1, <2>2 DEF CloseFloorSub
<1>10. ASSUME NEW p \in Portals, AddLocalPortal(w, p) \/ RemoveLocalPortal(w, p) PROVE TypeOK'
  <2>1. PICK m \in Nat, n \in Nat : /\ portals' = [portals EXCEPT ![w][p] = m]
                                 /\ portalsTo' = [portalsTo EXCEPT ![w][p] = n]
    <3>1. portals[w][p] \in Nat /\ portalsTo[w][p] \in Nat
      OBVIOUS
    <3>2. CASE AddLocalPortal(w, p)
      <4>1. portals[w][p] + 1 \in Nat /\ portalsTo[w][p] + 1 \in Nat
        BY <3>1
      <4> QED BY <3>2, <4>1 DEF AddLocalPortal
    <3>3. CASE RemoveLocalPortal(w, p)
      <4>1. /\ portals[w][p] - 1 \in Nat
            /\ (IF portalsTo[w][p] > 0 THEN portalsTo[w][p] - 1 ELSE 0) \in Nat
        BY <3>1, <3>3 DEF RemoveLocalPortal
      <4> QED BY <3>3, <4>1 DEF RemoveLocalPortal
    <3> QED BY <1>10, <3>2, <3>3
  <2>2. portals' \in [Worlds -> [Portals -> Nat]] /\ portalsTo' \in [Worlds -> [Portals -> Nat]]
    BY <2>1
  <2>3. UNCHANGED <<status, floorVars, subVars>>
    BY <1>10 DEF AddLocalPortal, RemoveLocalPortal
  <2> QED BY <2>2, <2>3
<1> QED BY <1>1, <1>2, <1>3, <1>4, <1>5, <1>6, <1>7, <1>8, <1>9, <1>10 DEF StepOf

-----------------------------------------------------------------------------
(* A step of one struct leaves the others alone.                            *)

Struct(w) == <<status[w], linked[w], dirty[w], content[w], worldSubs[w], nextSubId[w], handles[w],
               gridSubs[w], nextGridId[w], portals[w], portalsTo[w]>>

LEMMA Elsewhere ==
  ASSUME TypeOK, NEW w \in Worlds, StepOf(w), NEW v \in Worlds, v # w PROVE UNCHANGED Struct(v)
<1> USE DEF TypeOK, Struct, floorVars, subVars, portalVars
<1>1. CASE NewVirtualWorld(w) \/ SubChanges(w) \/ BeginRelease(w)
  BY <1>1 DEF NewVirtualWorld, SubChanges, BeginRelease
<1>2. CASE FinishRelease(w) \/ Collect(w)
  BY <1>2 DEF FinishRelease, Collect
<1>3. ASSUME NEW f \in Floors, Floor(w, f) \/ Write(w, f) PROVE UNCHANGED Struct(v)
  BY <1>3 DEF Floor, Link, Write
<1>4. ASSUME NEW i \in DOMAIN worldSubs[w], TakeSub(w, i) PROVE UNCHANGED Struct(v)
  BY <1>4 DEF TakeSub
<1>5. ASSUME NEW id \in DOMAIN handles[w], NEW h \in handles[w][id], CloseFloorSub(w, id, h)
      PROVE  UNCHANGED Struct(v)
  BY <1>5 DEF CloseFloorSub
<1>6. ASSUME NEW p \in Portals, AddLocalPortal(w, p) \/ RemoveLocalPortal(w, p) PROVE UNCHANGED Struct(v)
  BY <1>6 DEF AddLocalPortal, RemoveLocalPortal
<1> QED BY <1>1, <1>2, <1>3, <1>4, <1>5, <1>6 DEF StepOf

-----------------------------------------------------------------------------
(* Portals and objects.                                                     *)

Mirror(w) == /\ portals[w] = portalsTo[w]
             /\ status[w] \notin {"leased", "closing"} => portals[w] = NoPortals

Fresh(w) == status[w] = "leased" => \A f \in Ready(w) : content[w][f] # "left"

LEMMA MirrorStep == ASSUME TypeOK, NEW w \in Worlds, Mirror(w), StepOf(w) PROVE Mirror(w)'
<1> USE DEF TypeOK, Mirror, portalVars
<1>0. NoPortals' = NoPortals
  BY DEF NoPortals, Portals
<1>1. CASE NewVirtualWorld(w) \/ FinishRelease(w)
  BY <1>0, <1>1 DEF NewVirtualWorld, FinishRelease
<1>2. CASE SubChanges(w) \/ BeginRelease(w) \/ Collect(w)
  BY <1>0, <1>2 DEF SubChanges, BeginRelease, Collect
<1>3. ASSUME NEW f \in Floors, Floor(w, f) \/ Write(w, f) PROVE Mirror(w)'
  BY <1>0, <1>3 DEF Floor, Write
<1>4. ASSUME NEW i \in DOMAIN worldSubs[w], TakeSub(w, i) PROVE Mirror(w)'
  BY <1>0, <1>4 DEF TakeSub
<1>5. ASSUME NEW id \in DOMAIN handles[w], NEW h \in handles[w][id], CloseFloorSub(w, id, h) PROVE Mirror(w)'
  BY <1>0, <1>5 DEF CloseFloorSub
<1>6. ASSUME NEW p \in Portals, AddLocalPortal(w, p) PROVE Mirror(w)'
  BY <1>0, <1>6 DEF AddLocalPortal
<1>7. ASSUME NEW p \in Portals, RemoveLocalPortal(w, p) PROVE Mirror(w)'
  <2>1. portals'[w] = [portals[w] EXCEPT ![p] = portals[w][p] - 1] /\ UNCHANGED status /\ status[w] = "leased"
    BY <1>7 DEF RemoveLocalPortal
  <2>2. portalsTo'[w] = [portalsTo[w] EXCEPT ![p] = portalsTo[w][p] - 1]
    BY <1>7 DEF RemoveLocalPortal
  <2> QED BY <2>1, <2>2
<1> QED BY <1>1, <1>2, <1>3, <1>4, <1>5, <1>6, <1>7 DEF StepOf

LEMMA FreshStep == ASSUME TypeOK, NEW w \in Worlds, Fresh(w), StepOf(w) PROVE Fresh(w)'
<1> USE DEF TypeOK, Fresh, Ready, floorVars
<1>1. CASE NewVirtualWorld(w) \/ FinishRelease(w)
  BY <1>1 DEF NewVirtualWorld, FinishRelease
<1>2. CASE SubChanges(w) \/ BeginRelease(w) \/ Collect(w)
  BY <1>2 DEF SubChanges, BeginRelease, Collect
<1>3. ASSUME NEW f \in Floors, Floor(w, f) PROVE Fresh(w)'
  BY <1>3 DEF Floor, Link
<1>4. ASSUME NEW f \in Floors, Write(w, f) PROVE Fresh(w)'
  BY <1>4 DEF Write
<1>5. ASSUME NEW i \in DOMAIN worldSubs[w], TakeSub(w, i) PROVE Fresh(w)'
  BY <1>5 DEF TakeSub
<1>6. ASSUME NEW id \in DOMAIN handles[w], NEW h \in handles[w][id], CloseFloorSub(w, id, h) PROVE Fresh(w)'
  BY <1>6 DEF CloseFloorSub
<1>7. ASSUME NEW p \in Portals, AddLocalPortal(w, p) \/ RemoveLocalPortal(w, p) PROVE Fresh(w)'
  BY <1>7 DEF AddLocalPortal, RemoveLocalPortal
<1> QED BY <1>1, <1>2, <1>3, <1>4, <1>5, <1>6, <1>7 DEF StepOf

-----------------------------------------------------------------------------
(* The list of subscriptions.                                               *)

LEMMA ListStep == ASSUME TypeOK, NEW w \in Worlds, ListInv(w), StepOf(w) PROVE ListInv(w)'
<1> USE DEF TypeOK, ListInv, floorVars, subVars
<1>1. CASE NewVirtualWorld(w) \/ FinishRelease(w)
  <2>1. worldSubs'[w] = <<>>
    BY <1>1 DEF NewVirtualWorld, FinishRelease
  <2> QED BY <2>1
<1>2. CASE SubChanges(w)
  <2> DEFINE s == worldSubs[w]
             id == nextSubId[w]
  <2>1. s \in Seq(SubIds) /\ id \in Nat
    OBVIOUS
  <2>2. worldSubs'[w] = Append(s, id) /\ nextSubId'[w] = id + 1 /\ status'[w] = "leased"
    BY <1>2 DEF SubChanges
  <2>3. \A i \in 1..Len(s) : s[i] < id /\ s[i] \in Nat
    BY WorldAssumption DEF SubIds
  <2>4. \A i, j \in 1..Len(s) : s[i] = s[j] => i = j
    OBVIOUS
  <2> HIDE DEF s, id
  <2>5. /\ DOMAIN Append(s, id) = 1..Len(s) + 1 /\ Len(s) \in Nat
        /\ Append(s, id)[Len(s) + 1] = id /\ \A i \in 1..Len(s) : Append(s, id)[i] = s[i]
    BY <2>1
  <2>6. \A i \in DOMAIN Append(s, id) : Append(s, id)[i] < id + 1
    BY <2>1, <2>3, <2>5
  <2>7. \A i, j \in DOMAIN Append(s, id) : Append(s, id)[i] = Append(s, id)[j] => i = j
    BY <2>1, <2>3, <2>4, <2>5
  <2> QED BY <2>2, <2>6, <2>7
<1>3. CASE BeginRelease(w) \/ Collect(w)
  BY <1>3 DEF BeginRelease, Collect
<1>4. ASSUME NEW f \in Floors, Floor(w, f) \/ Write(w, f) PROVE ListInv(w)'
  BY <1>4 DEF Floor, Write
<1>5. ASSUME NEW i \in DOMAIN worldSubs[w], TakeSub(w, i) PROVE ListInv(w)'
  <2>1. worldSubs'[w] = Without(worldSubs[w], i) /\ UNCHANGED <<status, nextSubId>>
    BY <1>5 DEF TakeSub, Without
  <2>2. status[w] \in {"leased", "closing"}
    BY <1>5 DEF TakeSub
  <2>3. /\ \A j \in DOMAIN Without(worldSubs[w], i) : Without(worldSubs[w], i)[j] < nextSubId[w]
        /\ \A j, k \in DOMAIN Without(worldSubs[w], i) :
             Without(worldSubs[w], i)[j] = Without(worldSubs[w], i)[k] => j = k
    <3>1. worldSubs[w] \in Seq(SubIds)
      OBVIOUS
    <3> QED BY <3>1, WithoutKeeps
  <2> QED BY <2>1, <2>2, <2>3
<1>6. ASSUME NEW id \in DOMAIN handles[w], NEW h \in handles[w][id], CloseFloorSub(w, id, h) PROVE ListInv(w)'
  BY <1>6 DEF CloseFloorSub
<1>7. ASSUME NEW p \in Portals, AddLocalPortal(w, p) \/ RemoveLocalPortal(w, p) PROVE ListInv(w)'
  BY <1>7 DEF AddLocalPortal, RemoveLocalPortal
<1> QED BY <1>1, <1>2, <1>3, <1>4, <1>5, <1>6, <1>7 DEF StepOf

LEMMA SilentStep ==
  ASSUME TypeOK, NEW w \in Worlds, SilentInv(w), StepOf(w) PROVE SilentInv(w)'
<1> USE DEF TypeOK, SilentInv, floorVars, subVars
<1>1. CASE NewVirtualWorld(w)
  BY <1>1 DEF NewVirtualWorld
<1>2. CASE FinishRelease(w)
  BY <1>2 DEF FinishRelease
<1>3. CASE SubChanges(w)
  BY <1>3 DEF SubChanges
<1>4. CASE BeginRelease(w) \/ Collect(w)
  BY <1>4 DEF BeginRelease, Collect
<1>5. ASSUME NEW f \in Floors, Floor(w, f) PROVE SilentInv(w)'
  BY <1>5 DEF Floor, Link
<1>6. ASSUME NEW f \in Floors, Write(w, f) PROVE SilentInv(w)'
  BY <1>6 DEF Write
<1>7. ASSUME NEW i \in DOMAIN worldSubs[w], TakeSub(w, i) PROVE SilentInv(w)'
  BY <1>7 DEF TakeSub
<1>8. ASSUME NEW id \in DOMAIN handles[w], NEW h \in handles[w][id], CloseFloorSub(w, id, h) PROVE SilentInv(w)'
  <2>1. UNCHANGED <<status, dirty>>
    BY <1>8 DEF CloseFloorSub
  <2>2. \A f \in Floors : gridSubs[w][f] = <<>> => gridSubs'[w][f] = <<>>
    <3>1. ASSUME NEW f \in Floors, gridSubs[w][f] = <<>> PROVE gridSubs'[w][f] = <<>>
      <4>1. CASE f # h[1]
        BY <1>8, <3>1, <4>1 DEF CloseFloorSub
      <4>2. CASE f = h[1]
        <5>1. gridSubs'[w][f] = [k \in {} |-> gridSubs[w][f][k]]
          BY <1>8, <3>1, <4>2 DEF CloseFloorSub
        <5> QED BY <5>1
      <4> QED BY <4>1, <4>2
    <3> QED BY <3>1
  <2> QED BY <2>1, <2>2
<1>9. ASSUME NEW p \in Portals, AddLocalPortal(w, p) \/ RemoveLocalPortal(w, p) PROVE SilentInv(w)'
  BY <1>9 DEF AddLocalPortal, RemoveLocalPortal
<1> QED BY <1>1, <1>2, <1>3, <1>4, <1>5, <1>6, <1>7, <1>8, <1>9 DEF StepOf

-----------------------------------------------------------------------------
(* The handles of floor subscriptions.                                      *)

(* What linking a floor, or subscribing to it, adds.                        *)
LEMMA AttachedNew ==
  ASSUME NEW old, NEW next \in Nat, NEW subs \in Seq(SubIds), NEW i \in 1..Len(subs),
         next + i - 1 \notin DOMAIN old
  PROVE  next + i - 1 \in DOMAIN Attached(old, next, subs) /\ Attached(old, next, subs)[next + i - 1] = subs[i]
<1> DEFINE new == Attached(old, next, subs)
           D == DOMAIN old \cup {next + j - 1 : j \in DOMAIN subs}
<1>1. DOMAIN subs = 1..Len(subs) /\ Len(subs) \in Nat
  OBVIOUS
<1>2. DOMAIN new = D /\ \A k \in D : new[k] = IF k \in DOMAIN old THEN old[k] ELSE subs[k - next + 1]
  BY DEF Attached
<1>3. next + i - 1 \in D
  BY <1>1
<1>4. (next + i - 1) - next + 1 = i
  OBVIOUS
<1> HIDE DEF new
<1>5. next + i - 1 \in DOMAIN new /\ new[next + i - 1] = subs[i]
  BY <1>2, <1>3, <1>4
<1> QED BY <1>5 DEF new

LEMMA AttachedOld ==
  ASSUME NEW old, NEW next \in Nat, NEW subs \in Seq(SubIds), NEW k \in DOMAIN Attached(old, next, subs)
  PROVE  \/ k \in DOMAIN old /\ Attached(old, next, subs)[k] = old[k]
         \/ \E i \in 1..Len(subs) : k = next + i - 1
<1>1. DOMAIN subs = 1..Len(subs)
  OBVIOUS
<1> QED BY <1>1 DEF Attached

(* The subscriptions s have been added to a floor that had old, from id m. *)
Added(old, new, m, s) ==
  /\ \A i \in 1..Len(s) : m + i - 1 \in DOMAIN new /\ new[m + i - 1] = s[i]
  /\ \A k \in DOMAIN new : \/ k \in DOMAIN old /\ new[k] = old[k]
                          \/ \E i \in 1..Len(s) : k = m + i - 1

LEMMA AttachedAdds ==
  ASSUME NEW old, NEW m \in Nat, NEW s \in Seq(SubIds), \A k \in DOMAIN old : k \in Nat /\ k < m
  PROVE  Added(old, Attached(old, m, s), m, s)
<1> DEFINE new == Attached(old, m, s)
<1>1. ASSUME NEW i \in 1..Len(s) PROVE m + i - 1 \in DOMAIN new /\ new[m + i - 1] = s[i]
  <2>1. m + i - 1 \notin DOMAIN old
    OBVIOUS
  <2> QED BY <2>1, AttachedNew
<1>2. ASSUME NEW k \in DOMAIN new
      PROVE  \/ k \in DOMAIN old /\ new[k] = old[k]
             \/ \E i \in 1..Len(s) : k = m + i - 1
  BY AttachedOld
<1> HIDE DEF new
<1>3. Added(old, new, m, s)
  BY <1>1, <1>2 DEF Added
<1> QED BY <1>3 DEF new

LEMMA LinkedAdds ==
  ASSUME NEW old, NEW m \in Nat, NEW s \in Seq(SubIds)
  PROVE  Added(old, Attached(<<>>, m, s), m, s)
<1> DEFINE new == Attached(<<>>, m, s)
<1>1. DOMAIN <<>> = {}
  OBVIOUS
<1>2. Added(<<>>, new, m, s)
  BY <1>1, AttachedAdds
<1> HIDE DEF new
<1>3. Added(old, new, m, s)
  BY <1>1, <1>2 DEF Added
<1> QED BY <1>3 DEF new

(* HandleInv as a fact about any handles H, floor subscriptions G and the   *)
(* next ids of floors and subscriptions.                                    *)
HandlesOK(H, G, n, next) ==
  /\ \A id \in SubIds : \A h \in H[id] : id < next /\ h[2] < n[h[1]]
  /\ \A f \in Floors : \A k \in DOMAIN G[f] :
       k \in Nat /\ G[f][k] \in SubIds /\ <<f, k>> \in H[G[f][k]]
  /\ \A id \in SubIds : \A h \in H[id] : h[2] \in DOMAIN G[h[1]] => G[h[1]][h[2]] = id

HandleSets == [SubIds -> SUBSET (Floors \X Nat)]

(* Subscriptions are put on the floors R, under ids not used before.        *)
Attaching(H, G, n, next, R, s, H2, G2, n2, next2) ==
  /\ H \in HandleSets /\ H2 \in HandleSets /\ n \in [Floors -> Nat]
  /\ next \in Nat /\ next2 \in Nat /\ next <= next2
  /\ R \in SUBSET Floors /\ s \in Seq(SubIds) /\ \A i \in 1..Len(s) : s[i] < next2
  /\ \A f \in Floors \ R : G2[f] = G[f] /\ n2[f] = n[f]
  /\ \A f \in R : Added(G[f], G2[f], n[f], s) /\ n2[f] = n[f] + Len(s)
  /\ \A id \in SubIds : H2[id] = H[id] \cup {h \in R \X Nat :
                           \E i \in 1..Len(s) : s[i] = id /\ h[2] = n[h[1]] + i - 1}

LEMMA AttachKeeps ==
  ASSUME NEW H, NEW G, NEW n, NEW next, NEW R, NEW s, NEW H2, NEW G2, NEW n2, NEW next2,
         Attaching(H, G, n, next, R, s, H2, G2, n2, next2), HandlesOK(H, G, n, next)
  PROVE  HandlesOK(H2, G2, n2, next2)
<1> USE DEF Attaching
<1>1. Len(s) \in Nat /\ \A i \in 1..Len(s) : s[i] \in SubIds
  OBVIOUS
<1>2. SubIds \subseteq Nat
  BY WorldAssumption DEF SubIds
<1>3. ASSUME NEW f \in Floors, NEW k \in DOMAIN G[f]
      PROVE  k \in Nat /\ k < n[f] /\ G[f][k] \in SubIds /\ <<f, k>> \in H[G[f][k]]
  <2>1. k \in Nat /\ G[f][k] \in SubIds /\ <<f, k>> \in H[G[f][k]]
    BY DEF HandlesOK
  <2>2. <<f, k>>[2] < n[<<f, k>>[1]]
    BY <2>1 DEF HandlesOK
  <2> QED BY <2>1, <2>2
<1>4. ASSUME NEW f \in R
      PROVE  /\ \A i \in 1..Len(s) : n[f] + i - 1 \in DOMAIN G2[f] /\ G2[f][n[f] + i - 1] = s[i]
             /\ \A k \in DOMAIN G2[f] : \/ k \in DOMAIN G[f] /\ G2[f][k] = G[f][k]
                                       \/ \E i \in 1..Len(s) : k = n[f] + i - 1
  BY DEF Added
<1>5. ASSUME NEW id \in SubIds, NEW h \in H2[id], h \notin H[id]
      PROVE  /\ h[1] \in R
             /\ \E i \in 1..Len(s) : s[i] = id /\ h[2] = n[h[1]] + i - 1
  BY <1>5
<1>6. ASSUME NEW id \in SubIds, NEW h \in H[id]
      PROVE  /\ h = <<h[1], h[2]>> /\ h[1] \in Floors /\ h[2] \in Nat
             /\ id < next /\ h[2] < n[h[1]]
  <2>1. h \in Floors \X Nat
    BY DEF HandleSets
  <2> QED BY <2>1 DEF HandlesOK
<1>7. ASSUME NEW f \in Floors PROVE n[f] \in Nat /\ n2[f] \in Nat /\ n[f] <= n2[f]
  <2>1. n[f] \in Nat
    OBVIOUS
  <2> QED BY <1>1, <2>1
<1>8. ASSUME NEW id \in SubIds, NEW h \in H2[id] PROVE id < next2 /\ h[2] < n2[h[1]]
  <2>1. CASE h \in H[id]
    BY <1>2, <1>6, <1>7, <2>1
  <2>2. CASE h \notin H[id]
    <3>1. PICK i \in 1..Len(s) : s[i] = id /\ h[2] = n[h[1]] + i - 1
      BY <1>5, <2>2
    <3>2. h[1] \in R /\ n[h[1]] \in Nat /\ n2[h[1]] = n[h[1]] + Len(s)
      BY <1>5, <2>2
    <3> QED BY <1>1, <3>1, <3>2
  <2> QED BY <2>1, <2>2
<1>9. ASSUME NEW f \in Floors, NEW k \in DOMAIN G2[f]
      PROVE  k \in Nat /\ G2[f][k] \in SubIds /\ <<f, k>> \in H2[G2[f][k]]
  <2>1. CASE k \in DOMAIN G[f] /\ G2[f][k] = G[f][k]
    BY <1>3, <2>1
  <2>2. CASE f \in R /\ \E i \in 1..Len(s) : k = n[f] + i - 1
    <3>1. PICK i \in 1..Len(s) : k = n[f] + i - 1
      BY <2>2
    <3>2. k \in Nat /\ G2[f][k] = s[i] /\ s[i] \in SubIds
      BY <1>1, <1>4, <1>7, <2>2, <3>1
    <3>3. <<f, k>> \in R \X Nat /\ <<f, k>>[1] = f /\ <<f, k>>[2] = k
      BY <2>2, <3>2
    <3> QED BY <3>1, <3>2, <3>3
  <2>3. CASE f \notin R
    BY <2>1, <2>3
  <2> QED BY <1>4, <2>1, <2>2, <2>3
<1>10. ASSUME NEW id \in SubIds, NEW h \in H2[id], h[2] \in DOMAIN G2[h[1]] PROVE G2[h[1]][h[2]] = id
  <2>1. CASE h \in H[id]
    <3>1. h[1] \in Floors /\ h[2] \in Nat /\ h[2] < n[h[1]] /\ n[h[1]] \in Nat
      BY <1>6, <1>7, <2>1
    <3>2. h[2] \in DOMAIN G[h[1]] /\ G2[h[1]][h[2]] = G[h[1]][h[2]]
      <4>1. CASE h[1] \notin R
        BY <1>10, <3>1, <4>1
      <4>2. CASE h[1] \in R
        <5>1. \A i \in 1..Len(s) : h[2] # n[h[1]] + i - 1
          BY <1>1, <3>1
        <5>2. \/ h[2] \in DOMAIN G[h[1]] /\ G2[h[1]][h[2]] = G[h[1]][h[2]]
              \/ \E i \in 1..Len(s) : h[2] = n[h[1]] + i - 1
          BY <1>4, <1>10, <4>2
        <5> QED BY <5>1, <5>2
      <4> QED BY <4>1, <4>2
    <3> QED BY <2>1, <3>2 DEF HandlesOK
  <2>2. CASE h \notin H[id]
    <3>1. h[1] \in R /\ \E i \in 1..Len(s) : s[i] = id /\ h[2] = n[h[1]] + i - 1
      BY <1>5, <2>2
    <3> QED BY <1>4, <3>1
  <2> QED BY <2>1, <2>2
<1> QED BY <1>8, <1>9, <1>10 DEF HandlesOK

(* A floor subscription is closed.                                          *)
Closing(H, G, id, h, H2, G2) ==
  /\ H \in HandleSets /\ id \in SubIds /\ h \in H[id]
  /\ H2 = [H EXCEPT ![id] = @ \ {h}]
  /\ \A f \in Floors \ {h[1]} : G2[f] = G[f]
  /\ G2[h[1]] = [k \in DOMAIN G[h[1]] \ {h[2]} |-> G[h[1]][k]]

LEMMA CloseKeeps ==
  ASSUME NEW H, NEW G, NEW n, NEW next, NEW id, NEW h, NEW H2, NEW G2,
         Closing(H, G, id, h, H2, G2), HandlesOK(H, G, n, next)
  PROVE  HandlesOK(H2, G2, n, next)
<1> USE DEF Closing
<1>1. \A i \in SubIds : H2[i] \subseteq H[i] /\ \A x \in H[i] : x # h => x \in H2[i]
  BY DEF HandleSets
<1>2. ASSUME NEW f \in Floors, NEW k \in DOMAIN G2[f]
      PROVE  k \in DOMAIN G[f] /\ G2[f][k] = G[f][k] /\ <<f, k>> # h
  OBVIOUS
<1>3. ASSUME NEW f \in Floors, NEW k \in DOMAIN G2[f]
      PROVE  k \in Nat /\ G2[f][k] \in SubIds /\ <<f, k>> \in H2[G2[f][k]]
  BY <1>1, <1>2 DEF HandlesOK
<1>4. ASSUME NEW i \in SubIds, NEW x \in H2[i], x[2] \in DOMAIN G2[x[1]] PROVE G2[x[1]][x[2]] = i
  <2>1. x \in H[i] /\ x[1] \in Floors
    BY <1>1 DEF HandleSets
  <2> QED BY <1>2, <1>4, <2>1 DEF HandlesOK
<1> QED BY <1>1, <1>3, <1>4 DEF HandlesOK

LEMMA HandleParts == ASSUME NEW w PROVE HandleInv(w) <=> HandlesOK(handles[w], gridSubs[w], nextGridId[w], nextSubId[w])
BY DEF HandleInv, HandlesOK

LEMMA FloorHandles ==
  ASSUME TypeOK, NEW w \in Worlds, ListInv(w), HandleInv(w), NEW f \in Floors, Floor(w, f), TypeOK'
  PROVE  HandleInv(w)'
<1> DEFINE s == worldSubs[w]
           n == nextGridId[w][f]
<1>1. /\ handles[w] \in HandleSets /\ handles'[w] \in HandleSets /\ nextGridId[w] \in [Floors -> Nat]
      /\ nextSubId[w] \in Nat /\ nextSubId'[w] = nextSubId[w] /\ s \in Seq(SubIds)
      /\ n \in Nat /\ DOMAIN s = 1..Len(s)
  BY DEF TypeOK, HandleSets, Floor, subVars
<1>2. \A i \in 1..Len(s) : s[i] < nextSubId[w]
  BY <1>1 DEF ListInv
<1>3. \A g \in Floors \ {f} : gridSubs'[w][g] = gridSubs[w][g] /\ nextGridId'[w][g] = nextGridId[w][g]
  BY DEF TypeOK, Floor, Link
<1>4. gridSubs'[w][f] = Attached(<<>>, n, s) /\ nextGridId'[w][f] = n + Len(s)
  BY DEF TypeOK, Floor, Link
<1>5. Added(gridSubs[w][f], gridSubs'[w][f], n, s)
  BY <1>1, <1>4, LinkedAdds
<1>6. \A id \in SubIds : handles'[w][id] = handles[w][id] \cup {h \in {f} \X Nat :
                              \E i \in 1..Len(s) : s[i] = id /\ h[2] = nextGridId[w][h[1]] + i - 1}
  <2>1. handles'[w] = HandlesWith(handles[w], f, n, s)
    BY DEF TypeOK, Floor, Link
  <2>2. \A id \in SubIds : handles'[w][id]
                = handles[w][id] \cup {<<f, n + k - 1>> : k \in {j \in DOMAIN s : s[j] = id}}
    BY <2>1 DEF TypeOK, HandlesWith
  <2>3. ASSUME NEW id \in SubIds
        PROVE  {<<f, n + k - 1>> : k \in {j \in DOMAIN s : s[j] = id}}
                = {h \in {f} \X Nat : \E i \in 1..Len(s) : s[i] = id /\ h[2] = nextGridId[w][h[1]] + i - 1}
    BY <1>1
  <2> QED BY <2>2, <2>3
<1>7. HandlesOK(handles[w], gridSubs[w], nextGridId[w], nextSubId[w])
  BY HandleParts
<1> DEFINE H == handles[w]
           G == gridSubs[w]
           N == nextGridId[w]
           H2 == handles'[w]
           G2 == gridSubs'[w]
           N2 == nextGridId'[w]
           next == nextSubId[w]
           R == {f}
<1>8. /\ R \in SUBSET Floors /\ next <= next
      /\ \A g \in R : Added(G[g], G2[g], N[g], s) /\ N2[g] = N[g] + Len(s)
  BY <1>1, <1>4, <1>5
<1> HIDE DEF s, n, H, G, N, H2, G2, N2, next, R
<1>9. /\ H \in HandleSets /\ H2 \in HandleSets /\ N \in [Floors -> Nat] /\ next \in Nat
      /\ s \in Seq(SubIds) /\ HandlesOK(H, G, N, next)
  BY <1>1, <1>7 DEF H, G, N, H2, next
<1>10. /\ \A i \in 1..Len(s) : s[i] < next
       /\ \A g \in Floors \ R : G2[g] = G[g] /\ N2[g] = N[g]
  BY <1>2, <1>3 DEF G, G2, N, N2, next, R
<1>11. \A id \in SubIds : H2[id] = H[id] \cup {h \in R \X Nat :
                               \E i \in 1..Len(s) : s[i] = id /\ h[2] = N[h[1]] + i - 1}
  BY <1>6 DEF H, H2, N, R
<1>12. Attaching(H, G, N, next, R, s, H2, G2, N2, next)
  BY <1>8, <1>9, <1>10, <1>11 DEF Attaching
<1>13. HandlesOK(H2, G2, N2, next)
  BY <1>9, <1>12, AttachKeeps
<1> QED BY <1>1, <1>13 DEF HandleInv, HandlesOK, H2, G2, N2, next

(* The subscription ids in use are below the next one.                      *)
LEMMA UsedIds ==
  ASSUME TypeOK, NEW w \in Worlds, HandleInv(w), NEW f \in Floors, NEW k \in DOMAIN gridSubs[w][f]
  PROVE  /\ k \in Nat /\ k < nextGridId[w][f]
         /\ gridSubs[w][f][k] \in SubIds /\ gridSubs[w][f][k] < nextSubId[w]
<1>1. k \in Nat /\ gridSubs[w][f][k] \in SubIds /\ <<f, k>> \in handles[w][gridSubs[w][f][k]]
  BY DEF HandleInv
<1>2. gridSubs[w][f][k] < nextSubId[w] /\ <<f, k>>[2] < nextGridId[w][<<f, k>>[1]]
  BY <1>1 DEF HandleInv
<1> QED BY <1>1, <1>2

LEMMA SubAdds ==
  ASSUME TypeOK, NEW w \in Worlds, HandleInv(w), SubChanges(w), NEW f \in Ready(w)
  PROVE  /\ f \in Floors /\ nextSubId[w] \in SubIds /\ nextSubId[w] \in Nat /\ nextGridId[w][f] \in Nat
         /\ gridSubs'[w][f] = Attached(gridSubs[w][f], nextGridId[w][f], <<nextSubId[w]>>)
         /\ Added(gridSubs[w][f], gridSubs'[w][f], nextGridId[w][f], <<nextSubId[w]>>)
<1>0. /\ f \in Floors /\ nextSubId[w] \in Nat /\ nextGridId[w][f] \in Nat
  BY DEF TypeOK, Ready
<1>1. nextSubId[w] \in SubIds
  BY <1>0, WorldAssumption DEF SubChanges, SubIds
<1>2. gridSubs'[w][f] = Attached(gridSubs[w][f], nextGridId[w][f], <<nextSubId[w]>>)
  BY <1>0 DEF TypeOK, Ready, SubChanges
<1>3. \A k \in DOMAIN gridSubs[w][f] : k \in Nat /\ k < nextGridId[w][f]
  BY <1>0, UsedIds
<1>4. <<nextSubId[w]>> \in Seq(SubIds)
  BY <1>1
<1> QED BY <1>0, <1>1, <1>2, <1>3, <1>4, AttachedAdds

LEMMA SubHandles ==
  ASSUME TypeOK, NEW w \in Worlds, HandleInv(w), SubChanges(w), TypeOK'
  PROVE  HandleInv(w)'
<1> DEFINE H == handles[w]
           G == gridSubs[w]
           N == nextGridId[w]
           H2 == handles'[w]
           G2 == gridSubs'[w]
           N2 == nextGridId'[w]
           next == nextSubId[w]
           next2 == nextSubId'[w]
           R == Ready(w)
           s == <<next>>
<1>1. /\ H \in HandleSets /\ H2 \in HandleSets /\ N \in [Floors -> Nat]
      /\ next \in Nat /\ next2 = next + 1 /\ next \in SubIds /\ R \in SUBSET Floors
  BY DEF TypeOK, HandleSets, SubChanges, SubIds, Ready
<1>2. s \in Seq(SubIds) /\ Len(s) = 1 /\ s[1] = next
  BY <1>1
<1>3. \A f \in Floors \ R : G2[f] = G[f] /\ N2[f] = N[f]
  BY DEF TypeOK, SubChanges, Ready
<1>4. \A f \in R : Added(G[f], G2[f], N[f], s)
  BY SubAdds
<1>5. \A f \in R : N2[f] = N[f] + 1
  BY <1>1 DEF TypeOK, SubChanges, Ready
<1>6. HandlesOK(H, G, N, next)
  BY HandleParts
<1>7. /\ H2[next] = {<<f, N[f]>> : f \in R}
      /\ \A i \in SubIds \ {next} : H2[i] = H[i]
  BY <1>1 DEF TypeOK, SubChanges, Ready
<1> HIDE DEF H, G, N, H2, G2, N2, next, next2, R, s
<1>8. H[next] = {}
  BY <1>1, <1>6 DEF HandlesOK, HandleSets
<1>9. ASSUME NEW id \in SubIds
      PROVE  H2[id] = H[id] \cup {h \in R \X Nat :
                                \E i \in 1..Len(s) : s[i] = id /\ h[2] = N[h[1]] + i - 1}
  <2>1. CASE id = next
    <3>1. ASSUME NEW h \in H2[id]
          PROVE  h \in R \X Nat /\ \E i \in 1..Len(s) : s[i] = id /\ h[2] = N[h[1]] + i - 1
      BY <1>1, <1>2, <1>7, <2>1
    <3>2. ASSUME NEW h \in R \X Nat, NEW i \in 1..Len(s), s[i] = id, h[2] = N[h[1]] + i - 1
          PROVE  h \in H2[id]
      <4>1. i = 1 /\ h[1] \in R /\ N[h[1]] \in Nat
        BY <1>1, <1>2
      <4>2. h = <<h[1], N[h[1]]>>
        BY <3>2, <4>1
      <4> QED BY <1>7, <2>1, <4>1, <4>2
    <3> QED BY <1>8, <2>1, <3>1, <3>2
  <2>2. CASE id # next
    <3>1. \A i \in 1..Len(s) : s[i] # id
      BY <1>2, <2>2
    <3> QED BY <1>7, <2>2, <3>1
  <2> QED BY <2>1, <2>2
<1>10. /\ next2 \in Nat /\ next <= next2 /\ \A i \in 1..Len(s) : s[i] < next2
       /\ \A f \in R : N2[f] = N[f] + Len(s)
  BY <1>1, <1>2, <1>5
<1>11. Attaching(H, G, N, next, R, s, H2, G2, N2, next2)
  BY <1>1, <1>2, <1>3, <1>4, <1>9, <1>10 DEF Attaching
<1>12. HandlesOK(H2, G2, N2, next2)
  BY <1>6, <1>11, AttachKeeps
<1> QED BY <1>12 DEF HandleInv, HandlesOK, H2, G2, N2, next2

LEMMA HandleStep ==
  ASSUME TypeOK, NEW w \in Worlds, ListInv(w), HandleInv(w), SilentInv(w), StepOf(w), TypeOK'
  PROVE  HandleInv(w)'
<1> USE DEF floorVars, subVars
<1>1. CASE NewVirtualWorld(w) \/ BeginRelease(w)
  BY <1>1 DEF NewVirtualWorld, BeginRelease, HandleInv
<1>2. CASE SubChanges(w)
  BY <1>2, SubHandles
<1>3. CASE FinishRelease(w)
  <2>1. /\ UNCHANGED <<handles, nextGridId, nextSubId>>
        /\ \A f \in Floors : gridSubs'[w][f] = <<>>
    BY <1>3 DEF FinishRelease, TypeOK
  <2>2. \A id \in SubIds : \A h \in handles[w][id] : h[1] \in Floors
    BY DEF TypeOK
  <2> QED BY <2>1, <2>2 DEF HandleInv
<1>4. CASE Collect(w)
  <2>1. \A id \in SubIds : handles'[w][id] = {}
    BY <1>4 DEF Collect, TypeOK
  <2>2. \A f \in Floors : gridSubs'[w][f] = <<>>
    BY <1>4 DEF Collect, SilentInv
  <2> QED BY <2>1, <2>2 DEF HandleInv
<1>5. ASSUME NEW f \in Floors, Floor(w, f) PROVE HandleInv(w)'
  BY <1>5, FloorHandles
<1>6. ASSUME NEW f \in Floors, Write(w, f) PROVE HandleInv(w)'
  BY <1>6 DEF Write, HandleInv
<1>7. ASSUME NEW i \in DOMAIN worldSubs[w], TakeSub(w, i) PROVE HandleInv(w)'
  BY <1>7 DEF TakeSub, HandleInv
<1>8. ASSUME NEW id \in DOMAIN handles[w], NEW h \in handles[w][id], CloseFloorSub(w, id, h) PROVE HandleInv(w)'
  <2>1. /\ handles[w] \in HandleSets /\ handles'[w] \in HandleSets /\ id \in SubIds /\ h[1] \in Floors
    BY DEF TypeOK, HandleSets
  <2>2. handles'[w] = [handles[w] EXCEPT ![id] = @ \ {h}] /\ UNCHANGED <<nextGridId, nextSubId>>
    BY <1>8 DEF CloseFloorSub, TypeOK
  <2>3. /\ \A f \in Floors \ {h[1]} : gridSubs'[w][f] = gridSubs[w][f]
        /\ gridSubs'[w][h[1]] = [k \in DOMAIN gridSubs[w][h[1]] \ {h[2]} |-> gridSubs[w][h[1]][k]]
    BY <1>8, <2>1 DEF CloseFloorSub, TypeOK
  <2>4. HandlesOK(handles[w], gridSubs[w], nextGridId[w], nextSubId[w])
    BY HandleParts
  <2>5. HandlesOK(handles'[w], gridSubs'[w], nextGridId[w], nextSubId[w])
    <3>1. Closing(handles[w], gridSubs[w], id, h, handles'[w], gridSubs'[w])
      BY <2>1, <2>2, <2>3 DEF Closing
    <3> QED BY <2>4, <3>1, CloseKeeps
  <2> QED BY <2>2, <2>5 DEF HandleInv, HandlesOK
<1>9. ASSUME NEW p \in Portals, AddLocalPortal(w, p) \/ RemoveLocalPortal(w, p) PROVE HandleInv(w)'
  BY <1>9 DEF AddLocalPortal, RemoveLocalPortal, HandleInv
<1> QED BY <1>1, <1>2, <1>3, <1>4, <1>5, <1>6, <1>7, <1>8, <1>9 DEF StepOf

-----------------------------------------------------------------------------
(* Every open subscription is on every floor of the lease, once.            *)

(* One key of g has the value id.                                           *)
Once(g, id) == \E k \in DOMAIN g : \A n \in DOMAIN g : g[n] = id <=> n = k

LEMMA AttachStep ==
  ASSUME TypeOK, NEW w \in Worlds, ListInv(w), HandleInv(w), AttachInv(w), StepOf(w), TypeOK'
  PROVE  AttachInv(w)'
<1> USE DEF floorVars, subVars
<1>0. AttachInv(w) <=> (status[w] = "leased" => \A f \in Ready(w), i \in DOMAIN worldSubs[w] :
                                                  Once(gridSubs[w][f], worldSubs[w][i]))
  BY DEF AttachInv, Once
<1>a. SUFFICES ASSUME status'[w] = "leased", NEW f \in Ready(w)', NEW i \in DOMAIN worldSubs'[w]
               PROVE  Once(gridSubs'[w][f], worldSubs'[w][i])
  BY DEF AttachInv, Once
<1>b. f \in Floors /\ Ready(w) \subseteq Floors
  BY DEF Ready, TypeOK
<1>1. CASE NewVirtualWorld(w) \/ BeginRelease(w) \/ FinishRelease(w) \/ Collect(w)
  BY <1>1, <1>a DEF NewVirtualWorld, BeginRelease, FinishRelease, Collect, Ready, TypeOK
<1>2. CASE SubChanges(w)
  <2> DEFINE id == nextSubId[w]
             g == gridSubs[w][f]
             s == worldSubs[w]
             m == nextGridId[w][f]
  <2>1. f \in Ready(w) /\ status[w] = "leased" /\ worldSubs'[w] = Append(s, id) /\ s \in Seq(SubIds)
    BY <1>2 DEF SubChanges, Ready, TypeOK
  <2>2. id \in Nat /\ m \in Nat /\ Added(g, gridSubs'[w][f], m, <<id>>)
    BY <1>2, <2>1, SubAdds
  <2>3. gridSubs'[w][f] = Attached(g, m, <<id>>)
    BY <1>2, <2>1, SubAdds
  <2>4. \A k \in DOMAIN g : k \in Nat /\ k < m /\ g[k] \in SubIds /\ g[k] < id
    BY <1>b, UsedIds
  <2>5. /\ DOMAIN gridSubs'[w][f] = DOMAIN g \cup {m} /\ gridSubs'[w][f][m] = id
        /\ \A k \in DOMAIN g : gridSubs'[w][f][k] = g[k]
    <3>1. DOMAIN <<id>> = {1} /\ <<id>>[1] = id /\ m + 1 - 1 = m /\ m - m + 1 = 1
      BY <2>2
    <3>2. m \notin DOMAIN g
      BY <2>2, <2>4
    <3>3. {m + j - 1 : j \in DOMAIN <<id>>} = {m}
      BY <3>1
    <3> QED BY <2>3, <3>1, <3>2, <3>3 DEF Attached
  <2>6. CASE i = Len(s) + 1
    <3>1. worldSubs'[w][i] = id
      BY <2>1, <2>6
    <3>2. \A k \in DOMAIN g : g[k] # id /\ k # m
      BY <2>2, <2>4
    <3> QED BY <2>5, <3>1, <3>2 DEF Once
  <2>7. CASE i # Len(s) + 1
    <3>1. i \in DOMAIN s /\ worldSubs'[w][i] = s[i]
      BY <2>1, <2>7
    <3>2. Once(g, s[i])
      BY <1>0, <2>1, <3>1
    <3>3. s[i] \in Nat /\ s[i] < id
      BY <2>1, <3>1, WorldAssumption DEF ListInv, SubIds
    <3>4. PICK k \in DOMAIN g : \A n \in DOMAIN g : g[n] = s[i] <=> n = k
      BY <3>2 DEF Once
    <3>5. m # k /\ id # s[i]
      BY <2>2, <2>4, <3>3
    <3> QED BY <2>5, <3>1, <3>4, <3>5 DEF Once
  <2> QED BY <2>6, <2>7
<1>3. ASSUME NEW h \in Floors, Floor(w, h) PROVE Once(gridSubs'[w][f], worldSubs'[w][i])
  <2> DEFINE s == worldSubs[w]
             m == nextGridId[w][f]
  <2>1. worldSubs'[w] = s /\ status[w] = "leased" /\ s \in Seq(SubIds) /\ m \in Nat
    BY <1>3, <1>b DEF Floor, TypeOK
  <2>2. CASE f = h
    <3>1. gridSubs'[w][f] = Attached(<<>>, m, s)
      BY <1>3, <2>2 DEF Floor, Link, TypeOK
    <3>2. Added(<<>>, gridSubs'[w][f], m, s)
      BY <2>1, <3>1, LinkedAdds
    <3>3. DOMAIN s = 1..Len(s) /\ Len(s) \in Nat /\ DOMAIN <<>> = {}
      BY <2>1
    <3>4. \A j \in 1..Len(s) : s[j] = s[i] => j = i
      BY <2>1, <3>3 DEF ListInv
    <3> DEFINE g == gridSubs'[w][f]
    <3> HIDE DEF g, s, m
    <3>5. m + i - 1 \in DOMAIN g /\ g[m + i - 1] = s[i]
      BY <2>1, <3>2, <3>3 DEF Added, g
    <3>6. ASSUME NEW n \in DOMAIN g, g[n] = s[i] PROVE n = m + i - 1
      <4>1. PICK j \in 1..Len(s) : n = m + j - 1
        BY <3>2, <3>3 DEF Added, g
      <4>2. g[n] = s[j]
        BY <3>2, <4>1 DEF Added, g
      <4> QED BY <3>4, <3>6, <4>1, <4>2
    <3> QED BY <2>1, <3>5, <3>6 DEF Once, g
  <2>3. CASE f # h
    <3>1. f \in Ready(w) /\ gridSubs'[w][f] = gridSubs[w][f]
      BY <1>3, <2>3 DEF Floor, Link, Ready, TypeOK
    <3> QED BY <1>0, <2>1, <3>1
  <2> QED BY <2>2, <2>3
<1>4. ASSUME NEW h \in Floors, Write(w, h) PROVE Once(gridSubs'[w][f], worldSubs'[w][i])
  BY <1>0, <1>4 DEF Write, Ready
<1>5. ASSUME NEW j \in DOMAIN worldSubs[w], TakeSub(w, j) PROVE Once(gridSubs'[w][f], worldSubs'[w][i])
  <2> DEFINE s == worldSubs[w]
  <2>1. UNCHANGED <<status, linked, dirty, gridSubs>> /\ worldSubs'[w] = Without(s, j) /\ s \in Seq(SubIds)
    BY <1>5 DEF TakeSub, Without, TypeOK
  <2>2. status[w] = "leased" /\ f \in Ready(w) /\ gridSubs'[w][f] = gridSubs[w][f]
    BY <1>a, <2>1 DEF Ready
  <2>3. /\ DOMAIN Without(s, j) = 1..Len(s) - 1
        /\ \A k \in 1..Len(s) - 1 : Without(s, j)[k] = IF k = j THEN s[Len(s)] ELSE s[k]
    BY <2>1, WithoutIs
  <2>4. i \in 1..Len(s) - 1 /\ worldSubs'[w][i] = IF i = j THEN s[Len(s)] ELSE s[i]
    BY <1>a, <2>1, <2>3
  <2>5. PICK n \in DOMAIN s : worldSubs'[w][i] = s[n]
    BY <2>1, <2>4
  <2> QED BY <1>0, <2>2, <2>5
<1>6. ASSUME NEW id \in DOMAIN handles[w], NEW h \in handles[w][id], CloseFloorSub(w, id, h)
      PROVE  Once(gridSubs'[w][f], worldSubs'[w][i])
  <2> DEFINE g == gridSubs[w][f]
             s == worldSubs[w]
  <2>1. UNCHANGED <<status, worldSubs, linked, dirty>> /\ id \in SubIds /\ h[1] \in Floors
    BY <1>6 DEF CloseFloorSub, TypeOK
  <2>0. status[w] = "leased" /\ f \in Ready(w) /\ i \in DOMAIN s
    BY <1>a, <2>1 DEF Ready
  <2>2. Once(g, s[i]) /\ i \in DOMAIN s
    BY <1>0, <2>0
  <2>3. CASE f # h[1]
    <3>1. gridSubs'[w][f] = g
      BY <1>6, <1>b, <2>3 DEF CloseFloorSub, TypeOK
    <3> QED BY <2>1, <2>2, <3>1
  <2>4. CASE f = h[1]
    <3>1. gridSubs'[w][f] = [k \in DOMAIN g \ {h[2]} |-> g[k]]
      BY <1>6, <1>b, <2>4 DEF CloseFloorSub, TypeOK
    <3>2. h[2] \in DOMAIN g => g[h[2]] = id
      BY <2>1, <2>4 DEF HandleInv
    <3>3. s[i] # id
      BY <1>6, <2>2 DEF CloseFloorSub, ToSet
    <3>4. PICK k \in DOMAIN g : \A n \in DOMAIN g : g[n] = s[i] <=> n = k
      BY <2>2 DEF Once
    <3>5. k # h[2]
      BY <3>2, <3>3, <3>4
    <3> QED BY <2>1, <3>1, <3>4, <3>5 DEF Once
  <2> QED BY <2>3, <2>4
<1>7. ASSUME NEW p \in Portals, AddLocalPortal(w, p) \/ RemoveLocalPortal(w, p)
      PROVE  Once(gridSubs'[w][f], worldSubs'[w][i])
  BY <1>0, <1>7 DEF AddLocalPortal, RemoveLocalPortal, Ready
<1> QED BY <1>1, <1>2, <1>3, <1>4, <1>5, <1>6, <1>7 DEF StepOf

-----------------------------------------------------------------------------
(* Every struct, from the first lease on.                                   *)

StructInv(w) ==
  /\ Mirror(w) /\ Fresh(w) /\ ListInv(w)
  /\ HandleInv(w) /\ AttachInv(w) /\ SilentInv(w)

Invariant == TypeOK /\ \A w \in Worlds : StructInv(w)

LEMMA InitStruct == ASSUME Init, NEW w \in Worlds PROVE StructInv(w)
<1> USE DEF Init
<1>1. Mirror(w) /\ Fresh(w)
  BY DEF Mirror, Fresh, Ready
<1>2. ListInv(w)
  BY DEF ListInv
<1>3. AttachInv(w) /\ SilentInv(w)
  BY DEF AttachInv, SilentInv
<1>4. HandleInv(w)
  <2>1. \A id \in SubIds : handles[w][id] = {}
    BY DEF SubIds
  <2>2. \A f \in Floors : DOMAIN gridSubs[w][f] = {}
    OBVIOUS
  <2> QED BY <2>1, <2>2 DEF HandleInv
<1> QED BY <1>1, <1>2, <1>3, <1>4 DEF StructInv

LEMMA SameStruct ==
  ASSUME NEW v \in Worlds, StructInv(v), UNCHANGED Struct(v) PROVE StructInv(v)'
<1>1. Mirror(v)' /\ Fresh(v)'
  BY DEF StructInv, Struct, Mirror, Fresh, Ready, NoPortals, Portals
<1>2. ListInv(v)'
  BY DEF StructInv, Struct, ListInv
<1>3. AttachInv(v)' /\ SilentInv(v)'
  BY DEF StructInv, Struct, AttachInv, SilentInv, Ready
<1>4. HandleInv(v)'
  BY DEF StructInv, Struct, HandleInv
<1> QED BY <1>1, <1>2, <1>3, <1>4 DEF StructInv

LEMMA StructStep == ASSUME TypeOK, NEW w \in Worlds, StructInv(w), StepOf(w) PROVE StructInv(w)'
<1>0. Mirror(w) /\ Fresh(w) /\ ListInv(w) /\ HandleInv(w) /\ AttachInv(w) /\ SilentInv(w)
  BY DEF StructInv
<1>1. TypeOK'
  BY TypeStep
<1>2. Mirror(w)' /\ Fresh(w)' /\ ListInv(w)' /\ SilentInv(w)'
  BY <1>0, MirrorStep, FreshStep, ListStep, SilentStep
<1>3. HandleInv(w)'
  BY <1>0, <1>1, HandleStep
<1>4. AttachInv(w)'
  BY <1>0, <1>1, AttachStep
<1> QED BY <1>2, <1>3, <1>4 DEF StructInv

LEMMA NextIs == ASSUME Next PROVE \E w \in Worlds : StepOf(w)
  BY DEF Next, StepOf

(* The types and the invariants of all structs hold in every state.         *)
THEOREM Invariance == Spec => []Invariant
<1>1. Init => Invariant
  BY InitType, InitStruct DEF Invariant
<1>2. Invariant /\ [Next]_vars => Invariant'
  <2> SUFFICES ASSUME Invariant, [Next]_vars PROVE Invariant'
    OBVIOUS
  <2>1. CASE Next
    <3>1. PICK w \in Worlds : StepOf(w)
      BY <2>1, NextIs
    <3>2. TypeOK /\ StructInv(w)
      BY DEF Invariant
    <3>3. TypeOK' /\ StructInv(w)'
      BY <3>1, <3>2, TypeStep, StructStep
    <3>4. ASSUME NEW v \in Worlds, v # w PROVE StructInv(v)'
      <4>1. UNCHANGED Struct(v)
        BY <3>1, <3>2, <3>4, Elsewhere
      <4>2. StructInv(v)
        BY DEF Invariant
      <4> QED BY <4>1, <4>2, SameStruct
    <3> QED BY <3>3, <3>4 DEF Invariant
  <2>2. CASE UNCHANGED vars
    <3>1. TypeOK'
      BY <2>2 DEF Invariant, TypeOK, vars, floorVars, subVars, portalVars
    <3>2. ASSUME NEW v \in Worlds PROVE StructInv(v)'
      <4>1. StructInv(v) /\ UNCHANGED Struct(v)
        BY <2>2 DEF Invariant, Struct, vars, floorVars, subVars, portalVars
      <4> QED BY <4>1, SameStruct
    <3> QED BY <3>1, <3>2 DEF Invariant
  <2> QED BY <2>1, <2>2
<1> QED BY <1>1, <1>2, PTL DEF Spec

(* Ids, handles, floors and portals keep their types.                       *)
THEOREM TypeCorrect == Spec => []TypeOK
<1>1. Invariant => TypeOK
  BY DEF Invariant
<1> QED BY <1>1, Invariance, PTL

(* Both directories of local portals agree, and a lease ends with none.     *)
THEOREM PortalsAreMirrored == Spec => []PortalsMirror
<1>1. Invariant => PortalsMirror
  BY DEF Invariant, StructInv, Mirror, PortalsMirror
<1> QED BY <1>1, Invariance, PTL

(* A lease finds no objects of an earlier one, however structs are reused.  *)
THEOREM FloorsStayFresh == Spec => []FloorsAreFresh
<1>1. Invariant => FloorsAreFresh
  BY DEF Invariant, StructInv, Fresh, Ready, FloorsAreFresh
<1> QED BY <1>1, Invariance, PTL

(* Every open subscription hears each change of a floor of the lease once,  *)
(* nobody else does but who is being closed, and a floor that is not the    *)
(* lease's is silent.                                                       *)
THEOREM SubscribersFollow == Spec => []SubscriptionsFollowLease
<1>1. Invariant => SubscriptionsFollowLease
  <2> SUFFICES ASSUME Invariant, NEW w \in Worlds, NEW f \in Floors
               PROVE  /\ status[w] = "leased" /\ f \in linked[w] \ dirty[w] =>
                           /\ \A id \in ToSet(worldSubs[w]) :
                                Cardinality({k \in DOMAIN gridSubs[w][f] : gridSubs[w][f][k] = id}) = 1
                           /\ \A id \in Subscribers(w, f) \ ToSet(worldSubs[w]) :
                                \E h \in handles[w][id] : h[1] = f
                      /\ status[w] \notin {"leased", "closing"} \/ f \in dirty[w] => gridSubs[w][f] = <<>>
    BY DEF SubscriptionsFollowLease
  <2>1. HandleInv(w) /\ AttachInv(w) /\ SilentInv(w)
    BY DEF Invariant, StructInv
  <2>2. ASSUME status[w] = "leased", f \in linked[w] \ dirty[w], NEW id \in ToSet(worldSubs[w])
        PROVE  Cardinality({k \in DOMAIN gridSubs[w][f] : gridSubs[w][f][k] = id}) = 1
    <3>1. PICK i \in DOMAIN worldSubs[w] : worldSubs[w][i] = id
      BY DEF ToSet
    <3>2. PICK k \in DOMAIN gridSubs[w][f] :
             \A n \in DOMAIN gridSubs[w][f] : gridSubs[w][f][n] = id <=> n = k
      BY <2>1, <2>2, <3>1 DEF AttachInv, Ready
    <3>3. {n \in DOMAIN gridSubs[w][f] : gridSubs[w][f][n] = id} = {k}
      BY <3>2
    <3> QED BY <3>3, FS_Singleton
  <2>3. ASSUME NEW id \in Subscribers(w, f) PROVE \E h \in handles[w][id] : h[1] = f
    <3>1. PICK k \in DOMAIN gridSubs[w][f] : gridSubs[w][f][k] = id
      BY DEF Subscribers
    <3>2. <<f, k>> \in handles[w][id]
      BY <2>1, <3>1 DEF HandleInv
    <3> QED BY <3>2
  <2>4. status[w] \notin {"leased", "closing"} \/ f \in dirty[w] => gridSubs[w][f] = <<>>
    BY <2>1 DEF SilentInv
  <2> QED BY <2>2, <2>3, <2>4
<1> QED BY <1>1, Invariance, PTL
=============================================================================
