------------------------ MODULE VersionControlProofs ------------------------
(***************************************************************************)
(* What the operations on a version list return, for lists of any length.  *)
(***************************************************************************)
EXTENDS VersionControl, SequenceTheorems, WellFoundedInduction, TLAPS

\* Every non-empty set of natural numbers has a least element.
LEMMA LeastNatural ==
  ASSUME NEW S \in SUBSET Nat, S # {}
  PROVE  \E m \in S : \A n \in S : m <= n
<1>1. PICK m \in S : \A n \in S : ~(<<n, m>> \in OpToRel(<, Nat))
  BY WFMin, NatLessThanWellFounded
<1>2. \A n \in S : ~(n < m)
  BY <1>1 DEF OpToRel
<1> QED BY <1>2

\* The erasing loop of clearStableVersion stops inside the list.
LEMMA KeptFromInside ==
  ASSUME NEW T, NEW s \in Seq(ControlObject(T)), s # << >>, NEW base \in Nat
  PROVE  keptFrom(s, base) \in 1 .. Len(s) /\ isFirstKept(s, keptFrom(s, base), base)
<1> DEFINE Stops == {i \in 1 .. Len(s) : i = Len(s) \/ s[i].versionId >= base}
<1>1. Len(s) \in Nat /\ Len(s) \in 1 .. Len(s)
  BY EmptySeq, LenProperties
<1>2. PICK k \in Stops : \A n \in Stops : k <= n
  <2>1. Len(s) \in Stops /\ Stops \in SUBSET Nat
    BY <1>1
  <2> HIDE DEF Stops
  <2> QED BY <2>1, LeastNatural
<1>3. \A j \in 1 .. Len(s) : s[j].versionId \in Nat
  <2>1. \A j \in 1 .. Len(s) : s[j] \in ControlObject(T)
    BY ElementOfSeq
  <2> QED BY <2>1 DEF ControlObject
<1>4. isFirstKept(s, k, base)
  BY <1>1, <1>2, <1>3 DEF isFirstKept
<1> QED BY <1>2, <1>4 DEF keptFrom

\* clearStableVersion leaves a suffix of the stable versions, and nothing else of
\* the list changes.
LEMMA ClearIsSuffix ==
  ASSUME NEW T, NEW vc \in VersionList(T), NEW base \in Nat
  PROVE  /\ clearStableVersion(vc, base) \in VersionList(T)
         /\ clearStableVersion(vc, base).unstable = vc.unstable
         /\ \E k \in 0 .. Len(vc.stable) :
              /\ Len(clearStableVersion(vc, base).stable) = Len(vc.stable) - k
              /\ \A i \in 1 .. Len(vc.stable) - k :
                   clearStableVersion(vc, base).stable[i] = vc.stable[i + k]
              /\ \A j \in 1 .. k : vc.stable[j].versionId < base
<1> DEFINE s == vc.stable
<1>0. s \in Seq(ControlObject(T)) /\ Len(s) \in Nat
  BY LenProperties DEF VersionList
<1>1. CASE s = << >>
  <2>1. clearStableVersion(vc, base) = vc /\ Len(s) = 0
    BY <1>1 DEF clearStableVersion
  <2>2. 0 \in 0 .. Len(s) /\ Len(s) - 0 = Len(s) /\ 1 .. 0 = {}
    BY <2>1
  <2> QED BY <2>1, <2>2
<1>2. CASE s # << >>
  <2> DEFINE k == keptFrom(s, base)
             kept == SubSeq(s, k, Len(s))
  <2>1. k \in 1 .. Len(s) /\ isFirstKept(s, k, base)
    BY <1>0, <1>2, KeptFromInside
  <2>2. /\ kept \in Seq(ControlObject(T))
        /\ Len(kept) = Len(s) - k + 1
        /\ \A i \in 1 .. Len(s) - k + 1 : kept[i] = s[k + i - 1]
    BY <1>0, <2>1, SubSeqProperties
  <2> HIDE DEF k, kept
  <2>3. \/ /\ clearStableVersion(vc, base) = [vc EXCEPT !.stable = << >>]
           /\ Len(kept) = 1 /\ kept[1].versionId < base
        \/ clearStableVersion(vc, base) = [vc EXCEPT !.stable = kept]
    BY <1>2 DEF clearStableVersion, kept, k
  <2>4. CASE /\ clearStableVersion(vc, base) = [vc EXCEPT !.stable = << >>]
             /\ Len(kept) = 1 /\ kept[1].versionId < base
    <3>1. /\ clearStableVersion(vc, base) \in VersionList(T)
          /\ clearStableVersion(vc, base).unstable = vc.unstable
          /\ clearStableVersion(vc, base).stable = << >>
      BY <2>4, EmptySeq DEF VersionList
    <3>2. Len(s) \in 0 .. Len(s) /\ Len(s) - Len(s) = 0 /\ Len(<< >>) = 0 /\ 1 .. 0 = {}
      BY <1>0
    <3>3. k = Len(s) /\ s[k].versionId < base
      <4>0. Len(s) - k + 1 = 1
        BY <2>2, <2>4, Zenon
      <4>1. k = Len(s)
        BY <1>0, <2>1, <4>0
      <4>2. 1 \in 1 .. Len(s) - k + 1 /\ k + 1 - 1 = k
        BY <1>0, <4>1
      <4> QED BY <2>2, <2>4, <4>1, <4>2
    <3>4. \A j \in 1 .. Len(s) : s[j].versionId < base
      BY <1>0, <2>1, <3>3 DEF isFirstKept
    <3> QED BY <3>1, <3>2, <3>4
  <2>5. CASE clearStableVersion(vc, base) = [vc EXCEPT !.stable = kept]
    <3>1. k - 1 \in 0 .. Len(s)
      BY <1>0, <2>1
    <3>2. /\ clearStableVersion(vc, base).stable = kept
          /\ clearStableVersion(vc, base).unstable = vc.unstable
          /\ clearStableVersion(vc, base) \in VersionList(T)
      BY <2>2, <2>5 DEF VersionList
    <3>3. Len(kept) = Len(s) - (k - 1) /\ \A i \in 1 .. Len(s) - (k - 1) : kept[i] = s[i + (k - 1)]
      BY <1>0, <2>1, <2>2
    <3>4. \A j \in 1 .. k - 1 : s[j].versionId < base
      BY <1>0, <2>1 DEF isFirstKept
    <3> QED BY <3>1, <3>2, <3>3, <3>4
  <2> QED BY <2>3, <2>4, <2>5
<1> QED BY <1>1, <1>2

\* The version a cleared list gives for v is the one the full list gave for v.
LEMMA ClearReads ==
  ASSUME NEW T, NEW vc \in VersionList(T), NEW base \in Nat, NEW v \in Nat,
         NEW i \in 1 .. Len(clearStableVersion(vc, base).stable),
         isNewestAt(clearStableVersion(vc, base).stable, i, v)
  PROVE  \E j \in 1 .. Len(vc.stable) :
           /\ isNewestAt(vc.stable, j, v)
           /\ vc.stable[j] = clearStableVersion(vc, base).stable[i]
<1> DEFINE s == vc.stable
           c == clearStableVersion(vc, base).stable
<1>0. Len(s) \in Nat
  BY LenProperties DEF VersionList
<1>1. PICK k \in 0 .. Len(s) : /\ Len(c) = Len(s) - k
                               /\ \A n \in 1 .. Len(s) - k : c[n] = s[n + k]
  BY ClearIsSuffix
<1>2. i + k \in 1 .. Len(s) /\ s[i + k] = c[i]
  BY <1>0, <1>1
<1>3. isNewestAt(s, i + k, v)
  <2>1. ASSUME NEW j \in 1 .. Len(s), j > i + k PROVE s[j].versionId > v
    <3>1. j - k \in 1 .. Len(c) /\ j - k > i /\ c[j - k] = s[j]
      <4>1. j - k \in 1 .. Len(s) - k /\ j - k > i /\ (j - k) + k = j
        BY <1>0, <1>1, <2>1
      <4> QED BY <1>1, <4>1
    <3> QED BY <3>1 DEF isNewestAt
  <2> QED BY <1>2, <2>1 DEF isNewestAt
<1> QED BY <1>2, <1>3

\* What is read in s, at any version, is what is read in t.
ReadsWithin(s, t) ==
  \A v \in Nat : \A i \in 1 .. Len(s) :
    isNewestAt(s, i, v) => \E j \in 1 .. Len(t) : isNewestAt(t, j, v) /\ t[j] = s[i]

LEMMA ClearedReads ==
  ASSUME NEW T, NEW vc \in VersionList(T), NEW base \in Nat
  PROVE  ReadsWithin(clearStableVersion(vc, base).stable, vc.stable)
BY ClearReads DEF ReadsWithin

\* Collecting versions can lose a read but never makes one up.
THEOREM ClearNeverInvents ==
  ASSUME NEW T, NEW vc \in VersionList(T), NEW base \in Nat, NEW v \in Nat
  PROVE  getStableVersion(clearStableVersion(vc, base), v) \subseteq getStableVersion(vc, v)
BY ClearReads DEF getStableVersion

\* A reader keeps what it reads when the version it reads is not older than the
\* base that clearStableVersion is called with (and may lose it otherwise, even
\* when the reader itself is at the base or above).
THEOREM ClearKeepsFromBase ==
  ASSUME NEW T, NEW vc \in VersionList(T), NEW base \in Nat, NEW v \in Nat,
         \A i, j \in 1 .. Len(vc.stable) :
           i < j => vc.stable[i].versionId < vc.stable[j].versionId,
         NEW m \in 1 .. Len(vc.stable),
         base <= vc.stable[m].versionId, vc.stable[m].versionId <= v
  PROVE  getStableVersion(clearStableVersion(vc, base), v) = getStableVersion(vc, v)
<1> DEFINE s == vc.stable
           c == clearStableVersion(vc, base).stable
<1>0. Len(s) \in Nat /\ \A j \in 1 .. Len(s) : s[j].versionId \in Nat
  <2>1. s \in Seq(ControlObject(T))
    BY DEF VersionList
  <2>2. \A j \in 1 .. Len(s) : s[j] \in ControlObject(T)
    BY <2>1, ElementOfSeq
  <2> QED BY <2>1, <2>2, LenProperties DEF ControlObject
<1>1. PICK k \in 0 .. Len(s) : /\ Len(c) = Len(s) - k
                               /\ \A n \in 1 .. Len(s) - k : c[n] = s[n + k]
                               /\ \A j \in 1 .. k : s[j].versionId < base
  BY ClearIsSuffix
<1>2. ASSUME NEW j \in 1 .. Len(s), isNewestAt(s, j, v)
      PROVE  j - k \in 1 .. Len(c) /\ isNewestAt(c, j - k, v) /\ c[j - k] = s[j]
  <2>1. m <= j
    BY <1>0, <1>2 DEF isNewestAt
  <2>2. s[j].versionId >= base
    BY <1>0, <2>1
  <2>3. j > k
    BY <1>0, <1>1, <2>2, SMTT(30)
  <2>4. j - k \in 1 .. Len(c) /\ c[j - k] = s[j]
    BY <1>0, <1>1, <2>3
  <2>5. ASSUME NEW n \in 1 .. Len(c), n > j - k PROVE c[n].versionId > v
    <3>1. n + k \in 1 .. Len(s) /\ n + k > j /\ c[n] = s[n + k]
      BY <1>0, <1>1, <2>5
    <3> QED BY <1>2, <3>1 DEF isNewestAt
  <2> QED BY <1>2, <2>4, <2>5 DEF isNewestAt
<1>3. getStableVersion(vc, v) \subseteq getStableVersion(clearStableVersion(vc, base), v)
  BY <1>2 DEF getStableVersion
<1> QED BY <1>3, ClearNeverInvents

-----------------------------------------------------------------------------
(* The changes a transaction makes to a list.                              *)

LEMMA NewListType == ASSUME NEW T PROVE NewVersionList \in VersionList(T)
BY EmptySeq DEF NewVersionList, VersionList

LEMMA SlotChange ==
  ASSUME NEW T, NEW vc \in VersionList(T), NEW u \in Seq(ControlObject(T)), Len(u) <= 1
  PROVE  /\ [vc EXCEPT !.unstable = u] \in VersionList(T)
         /\ [vc EXCEPT !.unstable = u].stable = vc.stable
         /\ [vc EXCEPT !.unstable = u].unstable = u
<1> DEFINE Slot == {x \in Seq(ControlObject(T)) : Len(x) <= 1}
<1>1. vc \in [stable : Seq(ControlObject(T)), unstable : Slot] /\ u \in Slot
  BY DEF VersionList
<1> HIDE DEF Slot
<1>2. [vc EXCEPT !.unstable = u] \in [stable : Seq(ControlObject(T)), unstable : Slot]
  BY <1>1
<1>3. [vc EXCEPT !.unstable = u].stable = vc.stable /\ [vc EXCEPT !.unstable = u].unstable = u
  BY <1>1
<1> QED BY <1>2, <1>3 DEF VersionList, Slot

\* addLatestVersion fills the unstable slot and leaves the committed versions.
LEMMA AddLatest ==
  ASSUME NEW T, NEW vc \in VersionList(T), NEW obj \in T
  PROVE  /\ addLatestVersion(vc, obj) \in VersionList(T)
         /\ addLatestVersion(vc, obj).stable = vc.stable
         /\ addLatestVersion(vc, obj).unstable # << >>
         /\ addLatestVersion(vc, obj).unstable[1].object = obj
<1> DEFINE u == [versionId |-> 0, status |-> ACTIVE, object |-> obj]
           slot == <<u>>
<1>1. u \in ControlObject(T)
  BY DEF ControlObject
<1> HIDE DEF u
<1>2. slot \in Seq(ControlObject(T)) /\ Len(slot) <= 1 /\ slot # << >> /\ slot[1] = u
  BY <1>1
<1>3. addLatestVersion(vc, obj) = [vc EXCEPT !.unstable = slot]
  BY DEF addLatestVersion, u
<1>4. u.object = obj
  BY DEF u
<1> HIDE DEF slot
<1>5. /\ addLatestVersion(vc, obj).stable = vc.stable
      /\ addLatestVersion(vc, obj).unstable = slot
      /\ addLatestVersion(vc, obj) \in VersionList(T)
  <2>1. /\ [vc EXCEPT !.unstable = slot] \in VersionList(T)
        /\ [vc EXCEPT !.unstable = slot].stable = vc.stable
        /\ [vc EXCEPT !.unstable = slot].unstable = slot
    BY <1>2, SlotChange, ZenonT(30)
  <2> QED BY <1>3, <2>1, Zenon
<1> QED BY <1>2, <1>4, <1>5

\* Rolling back empties the slot and leaves the committed versions.
LEMMA DisableUnstable ==
  ASSUME NEW T, NEW vc \in VersionList(T)
  PROVE  /\ disableUnstableVersion(vc) \in VersionList(T)
         /\ disableUnstableVersion(vc).stable = vc.stable
         /\ disableUnstableVersion(vc).unstable = << >>
<1>1. << >> \in Seq(ControlObject(T)) /\ Len(<< >>) <= 1
  OBVIOUS
<1> QED BY <1>1, SlotChange, ZenonT(30) DEF disableUnstableVersion

\* Committing appends the slot's version, stamped, and empties the slot.
LEMMA UpgradeStable ==
  ASSUME NEW T, NEW vc \in VersionList(T), NEW v \in Nat
  PROVE  /\ upgradeStableVersion(vc, v) \in VersionList(T)
         /\ upgradeStableVersion(vc, v).unstable = << >>
         /\ vc.unstable = << >> => upgradeStableVersion(vc, v).stable = vc.stable
         /\ vc.unstable # << >> =>
              /\ Len(upgradeStableVersion(vc, v).stable) = Len(vc.stable) + 1
              /\ \A i \in 1 .. Len(vc.stable) :
                   upgradeStableVersion(vc, v).stable[i] = vc.stable[i]
              /\ upgradeStableVersion(vc, v).stable[Len(vc.stable) + 1].versionId = v
              /\ upgradeStableVersion(vc, v).stable[Len(vc.stable) + 1].object
                   = vc.unstable[1].object
<1>0. vc.stable \in Seq(ControlObject(T)) /\ vc.unstable \in Seq(ControlObject(T))
  BY DEF VersionList
<1>1. CASE vc.unstable = << >>
  BY <1>1 DEF upgradeStableVersion, isVisible
<1>2. CASE vc.unstable # << >>
  <2> DEFINE u == [Head(vc.unstable) EXCEPT !.versionId = v]
             up == Append(vc.stable, u)
  <2>1. Head(vc.unstable) \in ControlObject(T) /\ Head(vc.unstable) = vc.unstable[1]
    BY <1>0, <1>2, HeadTailProperties
  <2>2. u \in ControlObject(T) /\ u.versionId = v /\ u.object = vc.unstable[1].object
    BY <2>1 DEF ControlObject
  <2> HIDE DEF u
  <2>3. /\ up \in Seq(ControlObject(T))
        /\ Len(up) = Len(vc.stable) + 1
        /\ \A i \in 1 .. Len(vc.stable) : up[i] = vc.stable[i]
        /\ up[Len(vc.stable) + 1] = u
    BY <1>0, <2>2, AppendProperties
  <2>4. upgradeStableVersion(vc, v) = [stable |-> up, unstable |-> << >>]
    BY <1>2 DEF upgradeStableVersion, isVisible, u
  <2> HIDE DEF up
  <2>5. upgradeStableVersion(vc, v).stable = up /\ upgradeStableVersion(vc, v).unstable = << >>
    BY <2>4
  <2>6. upgradeStableVersion(vc, v) \in VersionList(T)
    BY <2>3, <2>4, EmptySeq DEF VersionList
  <2> QED BY <1>2, <2>2, <2>3, <2>5, <2>6
<1> QED BY <1>1, <1>2

-----------------------------------------------------------------------------
(* Order of a version list, and reads at a version older than an append.   *)

Increasing(s)   == \A i, j \in 1 .. Len(s) : i < j => s[i].versionId < s[j].versionId
NoneAfter(s, v) == \A i \in 1 .. Len(s) : s[i].versionId <= v

LEMMA VersionsAreNat ==
  ASSUME NEW T, NEW vc \in VersionList(T)
  PROVE  Len(vc.stable) \in Nat /\ \A i \in 1 .. Len(vc.stable) : vc.stable[i].versionId \in Nat
<1>1. vc.stable \in Seq(ControlObject(T))
  BY DEF VersionList
<1>2. \A i \in 1 .. Len(vc.stable) : vc.stable[i] \in ControlObject(T)
  BY <1>1, ElementOfSeq
<1> QED BY <1>1, <1>2, LenProperties DEF ControlObject

LEMMA ClearKeepsOrder ==
  ASSUME NEW T, NEW vc \in VersionList(T), NEW base \in Nat, NEW v \in Nat,
         Increasing(vc.stable), NoneAfter(vc.stable, v)
  PROVE  /\ Increasing(clearStableVersion(vc, base).stable)
         /\ NoneAfter(clearStableVersion(vc, base).stable, v)
<1> DEFINE s == vc.stable
           c == clearStableVersion(vc, base).stable
<1>0. Len(s) \in Nat
  BY VersionsAreNat
<1>1. PICK k \in 0 .. Len(s) : /\ Len(c) = Len(s) - k
                               /\ \A n \in 1 .. Len(s) - k : c[n] = s[n + k]
  BY ClearIsSuffix
<1>2. \A n \in 1 .. Len(c) : n + k \in 1 .. Len(s) /\ c[n] = s[n + k]
  BY <1>0, <1>1
<1> HIDE DEF s, c
<1>3. Increasing(s) /\ NoneAfter(s, v)
  BY DEF s
<1>4. Increasing(c)
  <2> SUFFICES ASSUME NEW i \in 1 .. Len(c), NEW j \in 1 .. Len(c), i < j
               PROVE  c[i].versionId < c[j].versionId
    BY DEF Increasing
  <2>1. i + k < j + k
    BY <1>0, <1>1
  <2> QED BY <1>2, <1>3, <2>1 DEF Increasing
<1>5. NoneAfter(c, v)
  BY <1>2, <1>3 DEF NoneAfter
<1> QED BY <1>4, <1>5 DEF c

LEMMA UpgradeKeepsOrder ==
  ASSUME NEW T, NEW vc \in VersionList(T), NEW v \in Nat,
         Increasing(vc.stable), NoneAfter(vc.stable, v)
  PROVE  /\ Increasing(upgradeStableVersion(vc, v + 1).stable)
         /\ NoneAfter(upgradeStableVersion(vc, v + 1).stable, v + 1)
<1> DEFINE s == vc.stable
           t == upgradeStableVersion(vc, v + 1).stable
<1>0. Len(s) \in Nat /\ \A i \in 1 .. Len(s) : s[i].versionId \in Nat
  BY VersionsAreNat
<1>1. CASE vc.unstable = << >>
  <2>1. t = s
    BY <1>1, UpgradeStable
  <2>2. NoneAfter(s, v + 1)
    BY <1>0 DEF NoneAfter
  <2> QED BY <2>1, <2>2, Zenon
<1>2. CASE vc.unstable # << >>
  <2>1. /\ Len(t) = Len(s) + 1
        /\ \A i \in 1 .. Len(s) : t[i] = s[i]
        /\ t[Len(s) + 1].versionId = v + 1
    <3>1. v + 1 \in Nat
      OBVIOUS
    <3> QED BY <1>2, <3>1, UpgradeStable
  <2> HIDE DEF s, t
  <2>2. Increasing(s) /\ NoneAfter(s, v)
    BY DEF s
  <2>3. \A i \in 1 .. Len(t) : i \in 1 .. Len(s) \/ i = Len(s) + 1
    BY <1>0, <2>1
  <2>4. NoneAfter(t, v + 1)
    BY <1>0, <2>1, <2>2, <2>3 DEF NoneAfter
  <2>5. Increasing(t)
    <3> SUFFICES ASSUME NEW i \in 1 .. Len(t), NEW j \in 1 .. Len(t), i < j
                 PROVE  t[i].versionId < t[j].versionId
      BY DEF Increasing
    <3>1. i \in 1 .. Len(s)
      BY <1>0, <2>1
    <3>2. CASE j \in 1 .. Len(s)
      BY <2>1, <2>2, <3>1, <3>2 DEF Increasing
    <3>3. CASE j = Len(s) + 1
      BY <1>0, <2>1, <2>2, <3>1, <3>3 DEF NoneAfter
    <3> QED BY <2>3, <3>2, <3>3
  <2> QED BY <2>4, <2>5 DEF t
<1> QED BY <1>1, <1>2

\* A read at a version older than the one just appended finds what it found.
LEMMA UpgradeReads ==
  ASSUME NEW T, NEW vc \in VersionList(T), NEW v \in Nat, NEW x \in Nat, x < v,
         NEW i \in 1 .. Len(upgradeStableVersion(vc, v).stable),
         isNewestAt(upgradeStableVersion(vc, v).stable, i, x)
  PROVE  /\ i \in 1 .. Len(vc.stable)
         /\ isNewestAt(vc.stable, i, x)
         /\ vc.stable[i] = upgradeStableVersion(vc, v).stable[i]
<1> DEFINE s == vc.stable
           t == upgradeStableVersion(vc, v).stable
<1>0. Len(s) \in Nat /\ \A n \in 1 .. Len(s) : s[n].versionId \in Nat
  BY VersionsAreNat
<1>1. CASE vc.unstable = << >>
  <2>1. t = s
    BY <1>1, UpgradeStable
  <2> QED BY <2>1, Zenon
<1>2. CASE vc.unstable # << >>
  <2>1. /\ Len(t) = Len(s) + 1
        /\ \A n \in 1 .. Len(s) : t[n] = s[n]
        /\ t[Len(s) + 1].versionId = v
    BY <1>2, UpgradeStable
  <2>2. isNewestAt(t, i, x) /\ i \in 1 .. Len(t)
    OBVIOUS
  <2> HIDE DEF s, t
  <2>3. t[i].versionId <= x
    BY <2>2 DEF isNewestAt
  <2>4. i # Len(s) + 1
    BY <2>1, <2>3
  <2>5. i \in 1 .. Len(s)
    BY <1>0, <2>1, <2>2, <2>4
  <2>6. \A n \in 1 .. Len(s) : n \in 1 .. Len(t)
    BY <1>0, <2>1
  <2>7. isNewestAt(s, i, x)
    BY <2>1, <2>2, <2>5, <2>6 DEF isNewestAt
  <2> QED BY <2>1, <2>5, <2>7 DEF s, t
<1> QED BY <1>1, <1>2

\* Right after a merge nothing is left in the slot.
LEMMA UpgradeEmpties ==
  ASSUME NEW T, NEW vc \in VersionList(T), NEW v \in Nat
  PROVE  upgradeStableVersion(vc, v).unstable = << >>
BY UpgradeStable

\* With no version after v the read at v is the last one.
LEMMA NewestIsLast ==
  ASSUME NEW T, NEW vc \in VersionList(T), NEW v \in Nat, NoneAfter(vc.stable, v),
         NEW i \in 1 .. Len(vc.stable)
  PROVE  isNewestAt(vc.stable, i, v) <=> i = Len(vc.stable)
<1>0. Len(vc.stable) \in Nat /\ \A n \in 1 .. Len(vc.stable) : vc.stable[n].versionId \in Nat
  BY VersionsAreNat
<1>1. Len(vc.stable) \in 1 .. Len(vc.stable)
  BY <1>0
<1> QED BY <1>0, <1>1 DEF isNewestAt, NoneAfter
=============================================================================
