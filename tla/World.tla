-------------------------------- MODULE World --------------------------------
(* Virtual worlds (internal/grid/worldGrid.go): leased to one run after    *)
(* another from a pool, with floors that are linked to those of the global *)
(* world when they are first asked for, subscriptions to the changes of    *)
(* all floors, present and to come, and local portals.                     *)
EXTENDS Integers, SequencesExt

CONSTANTS
  Worlds,        \* World structs
  Floors,        \* the floors of the global world
  MaxLinked,     \* MaxReusableWorldLinkedFloors
  Cells,         \* the ends of portals
  PortalCosts,   \* their costs
  MaxSubs,       \* bound: subscriptions in the life of a struct
  MaxPortals     \* bound: portals of a world at a time

ASSUME WorldAssumption ==
  /\ MaxLinked \in Nat /\ MaxSubs \in Nat /\ MaxPortals \in Nat
  /\ PortalCosts \subseteq Nat \ {0}

VARIABLES
  status,     \* of each struct: fresh, leased, closing (in release), pooled, dropped
  linked,     \* the floors it has linked
  dirty,      \* floorDirty
  content,    \* what the objects of a linked floor are: none, the lease's own, left over
  worldSubs,  \* the ids of worldSubs, in their order
  nextSubId,  \* of each world
  handles,    \* the floor subscriptions <<floor, id>> that a world's one still has to close
  collected,  \* the subscriptions that a release is closing
  gridSubs,   \* the subscriptions of each linked floor, as id |-> the world's id
  nextGridId, \* nextSubId of each linked floor
  portals,    \* localPortals: the copies of each portal <<from, to, cost>>
  portalsTo   \* localPortalsTo: the same, as it is found from its destination

floorVars == <<linked, dirty, content, gridSubs, nextGridId>>
subVars == <<worldSubs, nextSubId, handles, collected>>
portalVars == <<portals, portalsTo>>
vars == <<status, floorVars, subVars, portalVars>>

-----------------------------------------------------------------------------
Portals == {p \in Cells \X Cells \X PortalCosts : p[1] # p[2]}
NoPortals == [p \in Portals |-> 0]

Init ==
  /\ status = [w \in Worlds |-> "fresh"]
  /\ linked = [w \in Worlds |-> {}] /\ dirty = [w \in Worlds |-> {}]
  /\ content = [w \in Worlds |-> [f \in Floors |-> "none"]]
  /\ worldSubs = [w \in Worlds |-> <<>>] /\ nextSubId = [w \in Worlds |-> 0]
  /\ handles = [w \in Worlds |-> [i \in 0..MaxSubs - 1 |-> {}]]
  /\ collected = [w \in Worlds |-> {}]
  /\ gridSubs = [w \in Worlds |-> [f \in Floors |-> <<>>]]
  /\ nextGridId = [w \in Worlds |-> [f \in Floors |-> 0]]
  /\ portals = [w \in Worlds |-> NoPortals] /\ portalsTo = [w \in Worlds |-> NoPortals]

(* NewVirtualWorld: a world of the pool, which may have forgotten it, or a *)
(* new one; what is left of an earlier lease is dirty.                     *)
NewVirtualWorld(w) ==
  /\ status[w] \in {"pooled", "fresh"}
  /\ status' = [status EXCEPT ![w] = "leased"]
  /\ dirty' = [dirty EXCEPT ![w] = linked[w]]
  /\ worldSubs' = [worldSubs EXCEPT ![w] = <<>>]
  /\ portals' = [portals EXCEPT ![w] = NoPortals]
  /\ portalsTo' = [portalsTo EXCEPT ![w] = NoPortals]
  /\ UNCHANGED <<linked, content, gridSubs, nextGridId, nextSubId, handles, collected>>

-----------------------------------------------------------------------------
(* The subscriptions of a floor after those of subs were added to it, and  *)
(* the handles to close them by.                                           *)
Attached(old, next, subs) ==
  [k \in DOMAIN old \cup {next + i - 1 : i \in DOMAIN subs} |->
     IF k \in DOMAIN old THEN old[k] ELSE subs[k - next + 1]]

HandlesWith(hs, f, next, subs) ==
  [i \in DOMAIN hs |-> hs[i] \cup {<<f, next + k - 1>> : k \in {j \in DOMAIN subs : subs[j] = i}}]

\* Mutant: a floor that is reset counts its subscriptions from zero again.
LinkRecounting(w, f) ==
  /\ linked' = [linked EXCEPT ![w] = @ \cup {f}]
  /\ dirty' = [dirty EXCEPT ![w] = @ \ {f}]
  /\ content' = [content EXCEPT ![w][f] = "none"]
  /\ gridSubs' = [gridSubs EXCEPT ![w][f] = Attached(<<>>, 0, worldSubs[w])]
  /\ nextGridId' = [nextGridId EXCEPT ![w][f] = Len(worldSubs[w])]
  /\ handles' = [handles EXCEPT ![w] = HandlesWith(@, f, 0, worldSubs[w])]

\* Mutant: the objects of a floor are not cleared.
LinkAsLeft(w, f) ==
  /\ linked' = [linked EXCEPT ![w] = @ \cup {f}]
  /\ dirty' = [dirty EXCEPT ![w] = @ \ {f}]
  /\ gridSubs' = [gridSubs EXCEPT ![w][f] = Attached(<<>>, nextGridId[w][f], worldSubs[w])]
  /\ nextGridId' = [nextGridId EXCEPT ![w][f] = @ + Len(worldSubs[w])]
  /\ handles' = [handles EXCEPT ![w] = HandlesWith(@, f, nextGridId[w][f], worldSubs[w])]
  /\ UNCHANGED content

(* newLinkedGrid or resetLinked, and the callbacks of the lease.           *)
Link(w, f) ==
  /\ linked' = [linked EXCEPT ![w] = @ \cup {f}]
  /\ dirty' = [dirty EXCEPT ![w] = @ \ {f}]
  /\ content' = [content EXCEPT ![w][f] = "none"]
  /\ gridSubs' = [gridSubs EXCEPT ![w][f] = Attached(<<>>, nextGridId[w][f], worldSubs[w])]
  /\ nextGridId' = [nextGridId EXCEPT ![w][f] = @ + Len(worldSubs[w])]
  /\ handles' = [handles EXCEPT ![w] = HandlesWith(@, f, nextGridId[w][f], worldSubs[w])]

(* A floor is asked for that is not there or not the lease's yet.          *)
Floor(w, f) ==
  /\ status[w] = "leased" /\ f \in (Floors \ linked[w]) \cup dirty[w]
  /\ Link(w, f)
  /\ UNCHANGED <<status, worldSubs, nextSubId, collected, portalVars>>

(* The run's objects are put on a floor.                                   *)
Write(w, f) ==
  /\ status[w] = "leased" /\ f \in linked[w] \ dirty[w]
  /\ content' = [content EXCEPT ![w][f] = "own"]
  /\ UNCHANGED <<status, linked, dirty, gridSubs, nextGridId, subVars, portalVars>>

SubChanges(w) ==
  LET id == nextSubId[w]
      ready == linked[w] \ dirty[w]
  IN /\ status[w] = "leased" /\ id < MaxSubs
     /\ worldSubs' = [worldSubs EXCEPT ![w] = Append(@, id)]
     /\ nextSubId' = [nextSubId EXCEPT ![w] = id + 1]
     /\ gridSubs' = [gridSubs EXCEPT ![w] = [f \in Floors |->
          IF f \in ready THEN Attached(@[f], nextGridId[w][f], <<id>>) ELSE @[f]]]
     /\ handles' = [handles EXCEPT ![w][id] = {<<f, nextGridId[w][f]>> : f \in ready}]
     /\ nextGridId' = [nextGridId EXCEPT ![w] = [f \in Floors |-> IF f \in ready THEN @[f] + 1 ELSE @[f]]]
     /\ UNCHANGED <<status, linked, dirty, content, collected, portalVars>>

(* Close of a world's subscription, by its owner or by the release: it is  *)
(* taken out of the list (the last one fills its place), then its floor    *)
(* subscriptions are closed one by one without the world's lock.           *)
TakeSub(w, i) ==
  /\ status[w] \in {"leased", "closing"} /\ i \in DOMAIN worldSubs[w]
  /\ worldSubs' = [worldSubs EXCEPT ![w] = Front([@ EXCEPT ![i] = Last(worldSubs[w])])]
  /\ UNCHANGED <<status, floorVars, nextSubId, handles, collected, portalVars>>

CloseFloorSub(w, id, h) ==
  /\ id \notin ToSet(worldSubs[w]) /\ h \in handles[w][id]
  /\ handles' = [handles EXCEPT ![w][id] = @ \ {h}]
  /\ gridSubs' = [gridSubs EXCEPT ![w][h[1]] = [k \in DOMAIN @ \ {h[2]} |-> @[k]]]
  /\ UNCHANGED <<status, linked, dirty, content, nextGridId, worldSubs, nextSubId, collected, portalVars>>

-----------------------------------------------------------------------------
(* ReleaseVirtualWorld: the lease ends, its subscriptions are closed, and  *)
(* under the lock again the struct is cleared and pooled if it is small.   *)
BeginRelease(w) ==
  /\ status[w] = "leased"
  /\ status' = [status EXCEPT ![w] = "closing"]
  /\ collected' = [collected EXCEPT ![w] = ToSet(worldSubs[w])]
  /\ UNCHANGED <<floorVars, worldSubs, nextSubId, handles, portalVars>>

FinishRelease(w) ==
  /\ status[w] = "closing"
  /\ \A id \in collected[w] : id \notin ToSet(worldSubs[w]) /\ handles[w][id] = {}
  /\ status' = [status EXCEPT ![w] =
       IF MaxLinked > 0 /\ Cardinality(linked[w]) <= MaxLinked THEN "pooled" ELSE "dropped"]
  /\ gridSubs' = [gridSubs EXCEPT ![w] = [f \in Floors |-> <<>>]]
  /\ dirty' = [dirty EXCEPT ![w] = linked[w]]
  /\ content' = [content EXCEPT ![w] = [f \in Floors |-> IF @[f] = "own" THEN "left" ELSE @[f]]]
  /\ portals' = [portals EXCEPT ![w] = NoPortals]
  /\ portalsTo' = [portalsTo EXCEPT ![w] = NoPortals]
  /\ worldSubs' = [worldSubs EXCEPT ![w] = <<>>]
  /\ collected' = [collected EXCEPT ![w] = {}]
  /\ UNCHANGED <<linked, nextGridId, nextSubId, handles>>

(* A struct that is not pooled is garbage; later ones are new.             *)
Collect(w) ==
  /\ status[w] = "dropped" /\ \A i \in DOMAIN handles[w] : handles[w][i] = {}
  /\ status' = [status EXCEPT ![w] = "fresh"]
  /\ linked' = [linked EXCEPT ![w] = {}] /\ dirty' = [dirty EXCEPT ![w] = {}]
  /\ content' = [content EXCEPT ![w] = [f \in Floors |-> "none"]]
  /\ nextGridId' = [nextGridId EXCEPT ![w] = [f \in Floors |-> 0]]
  /\ nextSubId' = [nextSubId EXCEPT ![w] = 0]
  /\ UNCHANGED <<gridSubs, worldSubs, handles, collected, portalVars>>

-----------------------------------------------------------------------------
(* Portals. A portal is found by its ends, whatever it costs.              *)
AddLocalPortal(w, p) ==
  /\ status[w] = "leased" /\ Cardinality({q \in Portals : portals[w][q] > 0}) + portals[w][p] < MaxPortals
  /\ portals' = [portals EXCEPT ![w][p] = @ + 1]
  /\ portalsTo' = [portalsTo EXCEPT ![w][p] = @ + 1]
  /\ UNCHANGED <<status, floorVars, subVars>>

\* Mutant: the incoming portal is found without regard to its cost.
RemoveLocalPortalAnyCost(w, p) ==
  /\ status[w] = "leased" /\ portals[w][p] > 0
  /\ portals' = [portals EXCEPT ![w][p] = @ - 1]
  /\ \E c \in PortalCosts :
       LET q == <<p[1], p[2], c>> IN
       /\ portalsTo[w][q] > 0
       /\ portalsTo' = [portalsTo EXCEPT ![w][q] = @ - 1]
  /\ UNCHANGED <<status, floorVars, subVars>>

(* The first portal between the two cells goes, at whatever place it is,   *)
(* and with it an incoming one of the same cost, if there is one.          *)
RemoveLocalPortal(w, p) ==
  /\ status[w] = "leased" /\ portals[w][p] > 0
  /\ portals' = [portals EXCEPT ![w][p] = @ - 1]
  /\ portalsTo' = [portalsTo EXCEPT ![w][p] = IF @ > 0 THEN @ - 1 ELSE 0]
  /\ UNCHANGED <<status, floorVars, subVars>>

Next == \E w \in Worlds :
  \/ NewVirtualWorld(w) \/ SubChanges(w) \/ BeginRelease(w) \/ FinishRelease(w) \/ Collect(w)
  \/ \E f \in Floors : Floor(w, f) \/ Write(w, f)
  \/ \E i \in DOMAIN worldSubs[w] : TakeSub(w, i)
  \/ \E id \in DOMAIN handles[w] : \E h \in handles[w][id] : CloseFloorSub(w, id, h)
  \/ \E p \in Portals : AddLocalPortal(w, p) \/ RemoveLocalPortal(w, p)

Spec == Init /\ [][Next]_vars

-----------------------------------------------------------------------------
Subscribers(w, f) == {gridSubs[w][f][k] : k \in DOMAIN gridSubs[w][f]}

(* On a floor of the lease every open subscription is called exactly once  *)
(* about a change, whether the floor was there before it, was linked after *)
(* it or is left over from another lease; nobody else is called but those  *)
(* whose close is under way, and no one at all on a floor not yet the      *)
(* lease's own or after the release.                                       *)
SubscriptionsFollowLease ==
  \A w \in Worlds, f \in Floors :
    /\ status[w] = "leased" /\ f \in linked[w] \ dirty[w] =>
         /\ \A id \in ToSet(worldSubs[w]) :
              Cardinality({k \in DOMAIN gridSubs[w][f] : gridSubs[w][f][k] = id}) = 1
         /\ \A id \in Subscribers(w, f) \ ToSet(worldSubs[w]) : \E h \in handles[w][id] : h[1] = f
    /\ status[w] \notin {"leased", "closing"} \/ f \in dirty[w] => gridSubs[w][f] = <<>>

(* A run finds no objects of an earlier one on the floors it is given.     *)
FloorsAreFresh ==
  \A w \in Worlds, f \in Floors :
    status[w] = "leased" /\ f \in linked[w] \ dirty[w] => content[w][f] # "left"

(* Both directories of portals hold the same ones, and none outlives its   *)
(* lease.                                                                  *)
PortalsMirror ==
  \A w \in Worlds : /\ portals[w] = portalsTo[w]
                    /\ status[w] \notin {"leased", "closing"} => portals[w] = NoPortals

-----------------------------------------------------------------------------
(* What the proofs of WorldProofs rest on.                                  *)

SubIds == 0..MaxSubs - 1

TypeOK ==
  /\ status \in [Worlds -> {"fresh", "leased", "closing", "pooled", "dropped"}]
  /\ linked \in [Worlds -> SUBSET Floors] /\ dirty \in [Worlds -> SUBSET Floors]
  /\ content \in [Worlds -> [Floors -> {"none", "own", "left"}]]
  /\ worldSubs \in [Worlds -> Seq(SubIds)] /\ nextSubId \in [Worlds -> Nat]
  /\ handles \in [Worlds -> [SubIds -> SUBSET (Floors \X Nat)]]
  /\ collected \in [Worlds -> SUBSET SubIds]
  /\ nextGridId \in [Worlds -> [Floors -> Nat]]
  /\ gridSubs = [w \in Worlds |-> [f \in Floors |-> gridSubs[w][f]]]
  /\ portals \in [Worlds -> [Portals -> Nat]] /\ portalsTo \in [Worlds -> [Portals -> Nat]]

Ready(w) == linked[w] \ dirty[w]

(* The list of subscriptions names each one once.                          *)
ListInv(w) ==
  /\ \A i \in DOMAIN worldSubs[w] : worldSubs[w][i] < nextSubId[w]
  /\ \A i, j \in DOMAIN worldSubs[w] : worldSubs[w][i] = worldSubs[w][j] => i = j
  /\ status[w] \notin {"leased", "closing"} => worldSubs[w] = <<>>

(* A handle closes the subscription it was made for or, after the release  *)
(* has cleared the floor, none: floors never count from zero again.        *)
HandleInv(w) ==
  /\ \A id \in SubIds : \A h \in handles[w][id] : /\ id < nextSubId[w]
                                                 /\ h[2] < nextGridId[w][h[1]]
  /\ \A f \in Floors : \A k \in DOMAIN gridSubs[w][f] :
       /\ k \in Nat /\ gridSubs[w][f][k] \in SubIds
       /\ <<f, k>> \in handles[w][gridSubs[w][f][k]]
  /\ \A id \in SubIds : \A h \in handles[w][id] :
       h[2] \in DOMAIN gridSubs[w][h[1]] => gridSubs[w][h[1]][h[2]] = id

(* Every open subscription is on every floor of the lease, once.           *)
AttachInv(w) ==
  status[w] = "leased" =>
    \A f \in Ready(w), i \in DOMAIN worldSubs[w] :
      \E k \in DOMAIN gridSubs[w][f] :
        \A n \in DOMAIN gridSubs[w][f] : gridSubs[w][f][n] = worldSubs[w][i] <=> n = k

(* Nobody listens to a floor that is not the lease's.                      *)
SilentInv(w) ==
  \A f \in Floors : status[w] \notin {"leased", "closing"} \/ f \in dirty[w] => gridSubs[w][f] = <<>>
=============================================================================
