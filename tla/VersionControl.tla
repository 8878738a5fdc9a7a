--------------------------- MODULE VersionControl ---------------------------
(***************************************************************************)
(* The version list that every versioned member of the in-memory database  *)
(* is built from (src/src/version_control.hpp): the names, properties and  *)
(* inheritance links of classes, the end points of edges and the adjacency *)
(* entries of vertices.                                                    *)
(*                                                                         *)
(* A list holds the committed ("stable") versions, oldest first, and at    *)
(* most one uncommitted ("unstable") version.  The visibility flag of the  *)
(* code is the length of `unstable': << >> is INVISIBLE, one element is    *)
(* VISIBLE; what the code leaves in an invisible slot is never read.       *)
(* The code's pair<T, bool> results are sets: {} is "not found".           *)
(***************************************************************************)
EXTENDS Integers, Sequences

ACTIVE   == "ACTIVE"
INACTIVE == "INACTIVE"

ControlObject(T) == [versionId : Nat, status : {ACTIVE, INACTIVE}, object : T]

VersionList(T) == [stable   : Seq(ControlObject(T)),
                   unstable : {u \in Seq(ControlObject(T)) : Len(u) <= 1}]

NewVersionList == [stable |-> << >>, unstable |-> << >>]

isVisible(vc) == vc.unstable # << >>

lastStable(vc) == vc.stable[Len(vc.stable)]

-----------------------------------------------------------------------------
(* Changes made inside a read-write transaction.                           *)

addLatestVersion(vc, obj) ==
  [vc EXCEPT !.unstable = <<[versionId |-> 0, status |-> ACTIVE, object |-> obj]>>]

\* Deleting copies the last stable version into an empty slot and marks it
\* INACTIVE; with neither a slot nor a stable version nothing becomes visible.
deleteLatestVersion(vc) ==
  IF isVisible(vc)
  THEN [vc EXCEPT !.unstable = <<[Head(vc.unstable) EXCEPT !.status = INACTIVE]>>]
  ELSE IF vc.stable = << >>
  THEN vc
  ELSE [vc EXCEPT !.unstable = <<[versionId |-> 0, status |-> INACTIVE,
                                  object |-> lastStable(vc).object]>>]

keepsUnstableVersion(vc) == vc               \* mutant of disableUnstableVersion

disableUnstableVersion(vc) == [vc EXCEPT !.unstable = << >>]

upgradeWithoutStamp(vc, versionId) ==        \* mutant of upgradeStableVersion
  IF isVisible(vc) THEN [stable |-> vc.stable \o vc.unstable, unstable |-> << >>] ELSE vc

upgradeTooEarly(vc, versionId) ==            \* mutant of upgradeStableVersion
  IF isVisible(vc)
  THEN [stable   |-> Append(vc.stable, [Head(vc.unstable) EXCEPT !.versionId = versionId - 1]),
        unstable |-> << >>]
  ELSE vc

upgradeStableVersion(vc, versionId) ==
  IF isVisible(vc)
  THEN [stable   |-> Append(vc.stable, [Head(vc.unstable) EXCEPT !.versionId = versionId]),
        unstable |-> << >>]
  ELSE vc

-----------------------------------------------------------------------------
(* Reads.                                                                  *)

getUnstableVersion(vc) ==
  {vc.unstable[i].object : i \in {j \in 1 .. Len(vc.unstable) : vc.unstable[j].status = ACTIVE}}

\* The last stable version, whatever its status.
lastStableObject(vc) == {vc.stable[i].object : i \in {j \in 1 .. Len(vc.stable) : j = Len(vc.stable)}}

isLastStableActive(vc) == vc.stable # << >> /\ lastStable(vc).status = ACTIVE

getLatestVersion(vc) ==
  IF isVisible(vc) THEN getUnstableVersion(vc)
  ELSE {o \in lastStableObject(vc) : isLastStableActive(vc)}

isOldestAt(stable, i, versionId) ==          \* mutant of isNewestAt
  /\ stable[i].versionId <= versionId
  /\ \A j \in 1 .. Len(stable) : j < i => stable[j].versionId > versionId

\* The index the backward scan of getStableVersion(currentVersionId) stops at.
isNewestAt(stable, i, versionId) ==
  /\ stable[i].versionId <= versionId
  /\ \A j \in 1 .. Len(stable) : j > i => stable[j].versionId > versionId

getStableVersion(vc, versionId) ==
  {vc.stable[i].object : i \in {j \in 1 .. Len(vc.stable) :
                                  /\ isNewestAt(vc.stable, j, versionId)
                                  /\ vc.stable[j].status = ACTIVE}}

-----------------------------------------------------------------------------
(* Garbage collection.                                                     *)

\* The first index the erasing loop of clearStableVersion leaves in place: it
\* stops at the last version or at one that is not older than the base.
isFirstKept(stable, i, baseVersionId) ==
  /\ i = Len(stable) \/ stable[i].versionId >= baseVersionId
  /\ \A j \in 1 .. Len(stable) : j < i => stable[j].versionId < baseVersionId

keptFrom(stable, baseVersionId) ==
  CHOOSE i \in 1 .. Len(stable) : isFirstKept(stable, i, baseVersionId)

clearStableVersion(vc, baseVersionId) ==
  IF vc.stable = << >> THEN vc
  ELSE LET kept == SubSeq(vc.stable, keptFrom(vc.stable, baseVersionId), Len(vc.stable))
           gone == /\ Len(kept) = 1
                   /\ kept[1].versionId < baseVersionId
                   /\ kept[1].status = INACTIVE
       IN  [vc EXCEPT !.stable = IF gone THEN << >> ELSE kept]

\* What clearStableVersion and clearUnstableVersion return: a multi-version map
\* drops an entry whose size is zero.
versionSize(vc) == Len(vc.stable) + Len(vc.unstable)
=============================================================================
