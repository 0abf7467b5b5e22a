------------------------ MODULE UpdateCheckerProofs ------------------------
(***************************************************************************)
(* Proofs about the release lookup: the version comparison is the order of *)
(* the SemVer standard on versions of any size, and the shared cache gives *)
(* recent and correct answers for any number of callers, any lifetimes and *)
(* any sequence of releases.                                               *)
(***************************************************************************)
EXTENDS UpdateChecker, WellFoundedInduction, TLAPS

-----------------------------------------------------------------------------
(* The first difference of two sequences. *)

LEMMA LeastExists ==
    ASSUME NEW S \in SUBSET Nat, S # {}
    PROVE  \E x \in S : \A y \in S : x <= y
<1> DEFINE below == {ss \in Nat \X Nat : ss[1] < ss[2]}
<1>1. IsWellFoundedOn(below, Nat)
  <2>1. OpToRel(<, Nat) = below
    BY Zenon DEF OpToRel
  <2>2. QED
    BY <2>1, NatLessThanWellFounded, Zenon
<1>2. ASSUME NEW x \in Nat, NEW y \in Nat, <<y, x>> \notin below PROVE x <= y
    BY <1>2
<1> HIDE DEF below
<1>3. \E x \in S : \A y \in S : <<y, x>> \notin below
    BY <1>1, WFMin, Zenon
<1>4. QED
    BY <1>2, <1>3, Zenon

LEMMA MinIsLeast ==
    ASSUME NEW S \in SUBSET Nat, S # {}
    PROVE  Min(S) \in S /\ \A y \in S : Min(S) <= y
BY LeastExists, Zenon DEF Min

(* The place where two sequences differ first. *)
IsFirst(i, left, right) ==
    /\ i \in DOMAIN left \cap DOMAIN right
    /\ left[i] # right[i]
    /\ \A j \in 1..(i - 1) : left[j] = right[j]

LEMMA FirstDifference ==
    ASSUME NEW m \in Nat, NEW n \in Nat, NEW s, NEW t,
           DOMAIN s = 1..m, DOMAIN t = 1..n, Differences(s, t) # {}
    PROVE  IsFirst(Min(Differences(s, t)), s, t)
<1> DEFINE D == Differences(s, t)
<1>1. D \in SUBSET Nat /\ D = {i \in 1..m \cap 1..n : s[i] # t[i]}
    BY DEF Differences
<1>2. D # {}
    BY Zenon
<1>3. PICK i : i = Min(D)
    BY Zenon
<1> HIDE DEF D
<1>4. i \in D /\ \A y \in D : i <= y
    BY <1>1, <1>2, <1>3, MinIsLeast, Zenon
<1>5. \A j \in 1..(i - 1) : s[j] = t[j]
    BY <1>1, <1>4
<1>6. IsFirst(i, s, t)
    BY <1>1, <1>4, <1>5, Zenon DEF IsFirst
<1>7. QED
    BY <1>3, <1>6, Zenon DEF D

(* The lexical order is decided at the first difference. *)
LEMMA LexAtFirst ==
    ASSUME NEW n \in Nat, NEW s \in [1..n -> Nat], NEW t \in [1..n -> Nat],
           NEW i, IsFirst(i, s, t)
    PROVE  LexBelow(s, t) <=> s[i] < t[i]
<1>1. i \in 1..n /\ s[i] \in Nat /\ t[i] \in Nat /\ s[i] # t[i]
    BY Zenon DEF IsFirst
<1>2. ASSUME s[i] < t[i] PROVE LexBelow(s, t)
    BY <1>1, <1>2, Zenon DEF LexBelow, IsFirst
<1>3. ASSUME NEW k \in 1..n, s[k] < t[k], \A j \in 1..(k - 1) : s[j] = t[j]
      PROVE  s[i] < t[i]
  <2>1. s[k] \in Nat /\ t[k] \in Nat /\ s[k] # t[k]
    BY <1>3
  <2>2. k = i
    BY <1>1, <1>3, <2>1 DEF IsFirst
  <2>3. QED
    BY <1>3, <2>2, Zenon
<1>4. QED
    BY <1>2, <1>3, Zenon DEF LexBelow

(* Below one another, as compareInt and its kind say it. *)
Sign(below, above) == IF below THEN -1 ELSE IF above THEN 1 ELSE 0

LEMMA CoreOrder ==
    ASSUME NEW s \in [1..3 -> Nat], NEW t \in [1..3 -> Nat]
    PROVE  /\ Differences(s, t) = {} => s = t /\ ~LexBelow(s, t) /\ ~LexBelow(t, s)
           /\ Differences(s, t) # {} =>
                /\ s # t
                /\ LexBelow(s, t) # LexBelow(t, s)
                /\ compareInt(s[Min(Differences(s, t))], t[Min(Differences(s, t))])
                     = Sign(LexBelow(s, t), LexBelow(t, s))
<1>1. ASSUME Differences(s, t) = {}
      PROVE  s = t /\ ~LexBelow(s, t) /\ ~LexBelow(t, s)
  <2>1. s = t
    BY <1>1 DEF Differences
  <2>2. \A i \in 1..3 : ~(s[i] < s[i])
    OBVIOUS
  <2>3. QED
    BY <2>1, <2>2, Zenon DEF LexBelow
<1>2. ASSUME Differences(s, t) # {}
      PROVE  /\ s # t
             /\ LexBelow(s, t) # LexBelow(t, s)
             /\ compareInt(s[Min(Differences(s, t))], t[Min(Differences(s, t))])
                  = Sign(LexBelow(s, t), LexBelow(t, s))
  <2>1. PICK i : i = Min(Differences(s, t))
    BY Zenon
  <2>2. IsFirst(i, s, t)
    BY <1>2, <2>1, FirstDifference, Zenon
  <2>3. IsFirst(i, t, s)
    BY <2>2, Zenon DEF IsFirst
  <2>4. (LexBelow(s, t) <=> s[i] < t[i]) /\ (LexBelow(t, s) <=> t[i] < s[i])
    BY <2>2, <2>3, LexAtFirst, Zenon
  <2>5. i \in 1..3 /\ s[i] # t[i]
    BY <2>2, Zenon DEF IsFirst
  <2>6. LexBelow(s, t) \in BOOLEAN /\ LexBelow(t, s) \in BOOLEAN
    BY Zenon DEF LexBelow
  <2>7. QED
    BY <2>1, <2>4, <2>5, <2>6 DEF compareInt, Sign
<1>3. QED
    BY <1>1, <1>2, Zenon

-----------------------------------------------------------------------------
(* Prereleases, by the keys of the standard. *)

LEMMA VersionType ==
    ASSUME NEW v \in SemanticVersions
    PROVE  /\ v.core \in [1..3 -> Nat]
           /\ \E n \in 0..MaxIdentifiers : v.prerelease \in [1..n -> Identifiers(Nat)]
           /\ v = [core |-> v.core, prerelease |-> v.prerelease]
<1>1. v.core \in Cores
      /\ \E n \in 0..MaxIdentifiers : v.prerelease \in [1..n -> Identifiers(Values)]
      /\ v = [core |-> v.core, prerelease |-> v.prerelease]
    BY Zenon DEF SemanticVersions
<1>2. Identifiers(Values) \subseteq Identifiers(Nat)
    BY VersionsAssumption, Zenon DEF Identifiers
<1>3. QED
    BY <1>1, <1>2, VersionsAssumption, Zenon

LEMMA PairBelow ==
    ASSUME NEW a \in Nat, NEW b \in Nat, NEW c \in Nat, NEW d \in Nat
    PROVE  LexBelow(<<a, b>>, <<c, d>>) <=> a < c \/ (a = c /\ b < d)
<1> DEFINE s == <<a, b>>
           t == <<c, d>>
<1>1. DOMAIN s = {1, 2} /\ s[1] = a /\ s[2] = b /\ t[1] = c /\ t[2] = d
    OBVIOUS
<1> HIDE DEF s, t
<1>2. LexBelow(s, t) <=> (s[1] < t[1] /\ \A j \in 1..(1 - 1) : s[j] = t[j])
                         \/ (s[2] < t[2] /\ \A j \in 1..(2 - 1) : s[j] = t[j])
    BY <1>1, Zenon DEF LexBelow
<1>3. 1..(1 - 1) = {} /\ 1..(2 - 1) = {1}
    OBVIOUS
<1>4. LexBelow(s, t) <=> a < c \/ (a = c /\ b < d)
    BY <1>1, <1>2, <1>3, Zenon
<1>5. QED
    BY <1>4, Zenon DEF s, t

(* What the key of a place is, for a prerelease of n identifiers. *)
LEMMA KeyOf ==
    ASSUME NEW v, NEW n \in Nat, v.prerelease \in [1..n -> Identifiers(Nat)],
           NEW i \in Nat \ {0}
    PROVE  /\ n = 0 <=> v.prerelease = <<>>
           /\ n = 0 => Key(v, i) = <<3, 0>>
           /\ n # 0 /\ i > n => Key(v, i) = <<0, 0>>
           /\ i \in 1..n => /\ v.prerelease[i] \in Identifiers(Nat)
                            /\ Key(v, i) = <<IF v.prerelease[i].numeric THEN 1 ELSE 2,
                                             v.prerelease[i].value>>
           /\ Key(v, i) \in Nat \X Nat
<1>1. Len(v.prerelease) = n /\ (n = 0 <=> v.prerelease = <<>>)
    OBVIOUS
<1>2. i \in 1..n => v.prerelease[i] \in Identifiers(Nat) /\ v.prerelease[i].value \in Nat
    BY Zenon DEF Identifiers
<1>3. n = 0 => Key(v, i) = <<3, 0>>
    BY <1>1, Zenon DEF Key
<1>4. n # 0 /\ i > n => Key(v, i) = <<0, 0>>
    BY <1>1, Zenon DEF Key
<1>5. i \in 1..n => Key(v, i) = <<IF v.prerelease[i].numeric THEN 1 ELSE 2,
                                  v.prerelease[i].value>>
    BY <1>1 DEF Key
<1>6. QED
    BY <1>1, <1>2, <1>3, <1>4, <1>5

(* The second part of Precedes: the keys of the first place that differs. *)
PrereleaseBelow(v, w) ==
    \E i \in 1..MaxIdentifiers :
        /\ LexBelow(Key(v, i), Key(w, i))
        /\ \A j \in 1..(i - 1) : Key(v, j) = Key(w, j)

IsPrerelease(v) == \E n \in 0..MaxIdentifiers : v.prerelease \in [1..n -> Identifiers(Nat)]

LEMMA KeyIsPair ==
    ASSUME NEW v, IsPrerelease(v), NEW i \in Nat \ {0}
    PROVE  Key(v, i) \in Nat \X Nat
<1>1. PICK n \in 0..MaxIdentifiers : v.prerelease \in [1..n -> Identifiers(Nat)]
    BY Zenon DEF IsPrerelease
<1>2. n \in Nat
    BY VersionsAssumption
<1>3. QED
    BY <1>1, <1>2, KeyOf, Zenon

LEMMA KeysAreOrdered ==
    ASSUME NEW v, NEW w, IsPrerelease(v), IsPrerelease(w), NEW i \in Nat \ {0}
    PROVE  /\ Key(v, i) = Key(w, i) => ~LexBelow(Key(v, i), Key(w, i))
           /\ Key(v, i) # Key(w, i) => LexBelow(Key(v, i), Key(w, i)) \/ LexBelow(Key(w, i), Key(v, i))
           /\ ~(LexBelow(Key(v, i), Key(w, i)) /\ LexBelow(Key(w, i), Key(v, i)))
<1>1. Key(v, i) \in Nat \X Nat /\ Key(w, i) \in Nat \X Nat
    BY KeyIsPair, Zenon
<1>2. PICK a \in Nat, b \in Nat, c \in Nat, d \in Nat :
         Key(v, i) = <<a, b>> /\ Key(w, i) = <<c, d>>
    BY <1>1
<1>3. /\ LexBelow(<<a, b>>, <<c, d>>) <=> a < c \/ (a = c /\ b < d)
      /\ LexBelow(<<c, d>>, <<a, b>>) <=> c < a \/ (c = a /\ d < b)
    BY PairBelow, Zenon
<1>4. <<a, b>> = <<c, d>> <=> a = c /\ b = d
    BY Zenon
<1>5. QED
    BY <1>2, <1>3, <1>4

(* The first place whose keys differ decides. *)
LEMMA KeyDecides ==
    ASSUME NEW v, NEW w, IsPrerelease(v), IsPrerelease(w),
           NEW m \in 1..MaxIdentifiers, Key(v, m) # Key(w, m),
           \A j \in 1..(m - 1) : Key(v, j) = Key(w, j)
    PROVE  PrereleaseBelow(v, w) <=> LexBelow(Key(v, m), Key(w, m))
<1>1. ASSUME LexBelow(Key(v, m), Key(w, m)) PROVE PrereleaseBelow(v, w)
    BY <1>1, Zenon DEF PrereleaseBelow
<1>2. ASSUME NEW i \in 1..MaxIdentifiers, LexBelow(Key(v, i), Key(w, i)),
             \A j \in 1..(i - 1) : Key(v, j) = Key(w, j)
      PROVE  LexBelow(Key(v, m), Key(w, m))
  <2>1. Key(v, i) # Key(w, i)
    BY <1>2, KeysAreOrdered, VersionsAssumption
  <2>2. i = m
    BY <1>2, <2>1, VersionsAssumption
  <2>3. QED
    BY <1>2, <2>2, Zenon
<1>3. QED
    BY <1>1, <1>2, Zenon DEF PrereleaseBelow

LEMMA SameKeys ==
    ASSUME NEW v, NEW w, IsPrerelease(v), IsPrerelease(w), v.prerelease = w.prerelease
    PROVE  ~PrereleaseBelow(v, w)
<1>1. \A i \in 1..MaxIdentifiers : Key(v, i) = Key(w, i)
    BY Zenon DEF Key
<1>2. QED
    BY <1>1, KeysAreOrdered, VersionsAssumption DEF PrereleaseBelow

(* comparePrerelease is the order of the keys. *)
LEMMA PrereleaseOrder ==
    ASSUME NEW v, NEW w, IsPrerelease(v), IsPrerelease(w)
    PROVE  /\ comparePrerelease(v.prerelease, w.prerelease)
                = Sign(PrereleaseBelow(v, w), PrereleaseBelow(w, v))
           /\ ~(PrereleaseBelow(v, w) /\ PrereleaseBelow(w, v))
           /\ v.prerelease # w.prerelease => PrereleaseBelow(v, w) \/ PrereleaseBelow(w, v)
<1> DEFINE Goal == /\ comparePrerelease(v.prerelease, w.prerelease)
                        = Sign(PrereleaseBelow(v, w), PrereleaseBelow(w, v))
                   /\ ~(PrereleaseBelow(v, w) /\ PrereleaseBelow(w, v))
                   /\ v.prerelease # w.prerelease => PrereleaseBelow(v, w) \/ PrereleaseBelow(w, v)
           D == Differences(v.prerelease, w.prerelease)
<1>1. PICK m \in 0..MaxIdentifiers : v.prerelease \in [1..m -> Identifiers(Nat)]
    BY Zenon DEF IsPrerelease
<1>2. PICK n \in 0..MaxIdentifiers : w.prerelease \in [1..n -> Identifiers(Nat)]
    BY Zenon DEF IsPrerelease
<1>3. m \in Nat /\ n \in Nat /\ MaxIdentifiers \in Nat
    BY VersionsAssumption
<1>4. /\ m = 0 <=> v.prerelease = <<>>
      /\ n = 0 <=> w.prerelease = <<>>
      /\ Len(v.prerelease) = m /\ Len(w.prerelease) = n
      /\ DOMAIN v.prerelease = 1..m /\ DOMAIN w.prerelease = 1..n
    BY <1>1, <1>2, <1>3
<1> DEFINE First(i) == /\ i \in 1..MaxIdentifiers /\ Key(v, i) # Key(w, i)
                       /\ \A j \in 1..(i - 1) : Key(v, j) = Key(w, j)
<1>5. ASSUME NEW i, First(i)
      PROVE  /\ PrereleaseBelow(v, w) <=> LexBelow(Key(v, i), Key(w, i))
             /\ PrereleaseBelow(w, v) <=> LexBelow(Key(w, i), Key(v, i))
    BY <1>5, KeyDecides, Zenon
<1>6. \A i \in Nat \ {0} :
        /\ m = 0 => Key(v, i) = <<3, 0>>
        /\ m # 0 /\ i > m => Key(v, i) = <<0, 0>>
        /\ i \in 1..m => Key(v, i) = <<IF v.prerelease[i].numeric THEN 1 ELSE 2,
                                       v.prerelease[i].value>>
    BY <1>1, <1>3, KeyOf, ZenonT(60)
<1>7. \A i \in Nat \ {0} :
        /\ n = 0 => Key(w, i) = <<3, 0>>
        /\ n # 0 /\ i > n => Key(w, i) = <<0, 0>>
        /\ i \in 1..n => Key(w, i) = <<IF w.prerelease[i].numeric THEN 1 ELSE 2,
                                       w.prerelease[i].value>>
    BY <1>2, <1>3, KeyOf, ZenonT(60)
<1>8. \A i \in 1..m : v.prerelease[i].value \in Nat /\ v.prerelease[i].numeric \in BOOLEAN
                      /\ v.prerelease[i] = [numeric |-> v.prerelease[i].numeric,
                                            value |-> v.prerelease[i].value]
    BY <1>1, Zenon DEF Identifiers
<1>9. \A i \in 1..n : w.prerelease[i].value \in Nat /\ w.prerelease[i].numeric \in BOOLEAN
                      /\ w.prerelease[i] = [numeric |-> w.prerelease[i].numeric,
                                            value |-> w.prerelease[i].value]
    BY <1>2, Zenon DEF Identifiers
<1>0. ASSUME NEW i, First(i),
             comparePrerelease(v.prerelease, w.prerelease)
               = Sign(LexBelow(Key(v, i), Key(w, i)), LexBelow(Key(w, i), Key(v, i)))
      PROVE  Goal
    BY <1>0, <1>3, <1>5, KeysAreOrdered DEF Sign
<1> SUFFICES Goal
    BY Zenon
<1>a. \A i \in 1..m : \E x \in {1, 2}, y \in Nat : Key(v, i) = <<x, y>>
  <2> TAKE i \in 1..m
  <2>1. v.prerelease[i].value \in Nat
    BY <1>8, Zenon
  <2>2. Key(v, i) = <<IF v.prerelease[i].numeric THEN 1 ELSE 2, v.prerelease[i].value>>
    BY <1>3, <1>6
  <2>3. QED
    BY <2>1, <2>2, Zenon
<1>b. \A i \in 1..n : \E x \in {1, 2}, y \in Nat : Key(w, i) = <<x, y>>
  <2> TAKE i \in 1..n
  <2>1. w.prerelease[i].value \in Nat
    BY <1>9, Zenon
  <2>2. Key(w, i) = <<IF w.prerelease[i].numeric THEN 1 ELSE 2, w.prerelease[i].value>>
    BY <1>3, <1>7
  <2>3. QED
    BY <2>1, <2>2, Zenon
<1>c. \A j \in 1..m \cap 1..n : v.prerelease[j] = w.prerelease[j] => Key(v, j) = Key(w, j)
  <2> TAKE j \in 1..m \cap 1..n
  <2>1. /\ Key(v, j) = <<IF v.prerelease[j].numeric THEN 1 ELSE 2, v.prerelease[j].value>>
        /\ Key(w, j) = <<IF w.prerelease[j].numeric THEN 1 ELSE 2, w.prerelease[j].value>>
    BY <1>3, <1>6, <1>7
  <2>2. QED
    BY <2>1
<1> HIDE DEF Goal
<1>10. CASE m = 0 /\ n = 0
  <2>1. v.prerelease = w.prerelease /\ D = {}
    BY <1>4, <1>10, Zenon DEF Differences
  <2>2. ~PrereleaseBelow(v, w) /\ ~PrereleaseBelow(w, v)
    BY <2>1, SameKeys, Zenon
  <2>3. comparePrerelease(v.prerelease, w.prerelease) = 0
    BY <1>4, <1>10, <2>1 DEF comparePrerelease, compareInt
  <2>4. QED
    BY <2>1, <2>2, <2>3, Zenon DEF Goal, Sign
<1>11. CASE m = 0 /\ n # 0
  <2>1. PICK x \in {1, 2}, y \in Nat : Key(w, 1) = <<x, y>>
    BY <1>3, <1>11, <1>b
  <2>2. Key(v, 1) = <<3, 0>>
    BY <1>6, <1>11
  <2>3. First(1)
    BY <1>2, <1>3, <1>11, <2>1, <2>2
  <2>4. ~LexBelow(Key(v, 1), Key(w, 1)) /\ LexBelow(Key(w, 1), Key(v, 1))
    BY <2>1, <2>2, PairBelow
  <2>5. comparePrerelease(v.prerelease, w.prerelease) = 1
    BY <1>4, <1>11, Zenon DEF comparePrerelease
  <2>6. QED
    BY <1>0, <2>3, <2>4, <2>5, Zenon DEF Sign
<1>12. CASE m # 0 /\ n = 0
  <2>1. PICK x \in {1, 2}, y \in Nat : Key(v, 1) = <<x, y>>
    BY <1>3, <1>12, <1>a
  <2>2. Key(w, 1) = <<3, 0>>
    BY <1>7, <1>12
  <2>3. First(1)
    BY <1>1, <1>3, <1>12, <2>1, <2>2
  <2>4. LexBelow(Key(v, 1), Key(w, 1))
    BY <2>1, <2>2, PairBelow
  <2>5. comparePrerelease(v.prerelease, w.prerelease) = -1
    BY <1>4, <1>12, Zenon DEF comparePrerelease
  <2>6. QED
    BY <1>0, <2>3, <2>4, <2>5, Zenon DEF Sign
<1>13. CASE m # 0 /\ n # 0 /\ D = {} /\ m = n
  <2>1. v.prerelease = w.prerelease
    BY <1>1, <1>2, <1>4, <1>13 DEF Differences
  <2>2. ~PrereleaseBelow(v, w) /\ ~PrereleaseBelow(w, v)
    BY <2>1, SameKeys, Zenon
  <2>3. comparePrerelease(v.prerelease, w.prerelease) = 0
    BY <1>3, <1>4, <1>13 DEF comparePrerelease, compareInt
  <2>4. QED
    BY <2>1, <2>2, <2>3, Zenon DEF Goal, Sign
<1>14. CASE m # 0 /\ n # 0 /\ D = {} /\ m < n
  <2>1. PICK x \in {1, 2}, y \in Nat : Key(w, m + 1) = <<x, y>>
    BY <1>3, <1>14, <1>b
  <2>2. Key(v, m + 1) = <<0, 0>>
    BY <1>3, <1>6, <1>14
  <2>3. \A j \in 1..m : Key(v, j) = Key(w, j)
    BY <1>3, <1>4, <1>14, <1>c DEF Differences
  <2>4. First(m + 1)
    BY <1>2, <1>3, <1>14, <2>1, <2>2, <2>3
  <2>5. LexBelow(Key(v, m + 1), Key(w, m + 1))
    BY <2>1, <2>2, PairBelow
  <2>6. comparePrerelease(v.prerelease, w.prerelease) = -1
    BY <1>3, <1>4, <1>14, Zenon DEF comparePrerelease, compareInt
  <2>7. QED
    BY <1>0, <2>4, <2>5, <2>6, Zenon DEF Sign
<1>15. CASE m # 0 /\ n # 0 /\ D = {} /\ m > n
  <2>1. PICK x \in {1, 2}, y \in Nat : Key(v, n + 1) = <<x, y>>
    BY <1>3, <1>15, <1>a
  <2>2. Key(w, n + 1) = <<0, 0>>
    BY <1>3, <1>7, <1>15
  <2>3. \A j \in 1..n : Key(v, j) = Key(w, j)
    BY <1>3, <1>4, <1>15, <1>c DEF Differences
  <2>4. First(n + 1)
    BY <1>1, <1>3, <1>15, <2>1, <2>2, <2>3
  <2>5. ~LexBelow(Key(v, n + 1), Key(w, n + 1)) /\ LexBelow(Key(w, n + 1), Key(v, n + 1))
    BY <2>1, <2>2, PairBelow
  <2>6. comparePrerelease(v.prerelease, w.prerelease) = 1
    BY <1>3, <1>4, <1>15 DEF comparePrerelease, compareInt
  <2>7. QED
    BY <1>0, <2>4, <2>5, <2>6, Zenon DEF Sign
<1>16. CASE m # 0 /\ n # 0 /\ D # {}
  <2>1. PICK i : i = Min(D)
    BY Zenon
  <2>2. IsFirst(i, v.prerelease, w.prerelease)
    BY <1>3, <1>4, <1>16, <2>1, FirstDifference, Zenon
  <2>3. /\ i \in 1..m /\ i \in 1..n /\ i \in 1..MaxIdentifiers
        /\ v.prerelease[i] # w.prerelease[i]
        /\ \A j \in 1..(i - 1) : v.prerelease[j] = w.prerelease[j]
    BY <1>3, <1>4, <2>2 DEF IsFirst
  <2>4. PICK p \in BOOLEAN, x \in Nat : p = v.prerelease[i].numeric /\ x = v.prerelease[i].value
    BY <1>8, <2>3, Zenon
  <2>5. PICK q \in BOOLEAN, y \in Nat : q = w.prerelease[i].numeric /\ y = w.prerelease[i].value
    BY <1>9, <2>3, Zenon
  <2>6. p # q \/ x # y
    BY <1>8, <1>9, <2>3, <2>4, <2>5, Zenon
  <2>7. /\ Key(v, i) = <<IF p THEN 1 ELSE 2, x>>
        /\ Key(w, i) = <<IF q THEN 1 ELSE 2, y>>
    BY <1>3, <1>6, <1>7, <2>3, <2>4, <2>5
  <2>8. \A j \in 1..(i - 1) : Key(v, j) = Key(w, j)
    BY <1>3, <1>c, <2>3
  <2>9. First(i)
    BY <2>3, <2>6, <2>7, <2>8
  <2>10. /\ LexBelow(Key(v, i), Key(w, i)) <=> (p /\ ~q) \/ (p = q /\ x < y)
         /\ LexBelow(Key(w, i), Key(v, i)) <=> (q /\ ~p) \/ (p = q /\ y < x)
    BY <2>7, PairBelow
  <2>11. comparePrerelease(v.prerelease, w.prerelease)
           = IF p = q THEN compareInt(x, y) ELSE IF p THEN -1 ELSE 1
    BY <1>4, <1>16, <2>1, <2>4, <2>5, Zenon DEF comparePrerelease, compareIdentifier
  <2>12. comparePrerelease(v.prerelease, w.prerelease)
           = Sign(LexBelow(Key(v, i), Key(w, i)), LexBelow(Key(w, i), Key(v, i)))
    BY <2>6, <2>10, <2>11, Zenon DEF Sign, compareInt
  <2>13. QED
    BY <1>0, <2>9, <2>12, Zenon
<1>17. QED
    BY <1>3, <1>10, <1>11, <1>12, <1>13, <1>14, <1>15, <1>16 DEF Goal

-----------------------------------------------------------------------------
(* Versions. *)

LEMMA PrecedesIs ==
    ASSUME NEW v, NEW w
    PROVE  Precedes(v, w) <=> \/ LexBelow(v.core, w.core)
                              \/ v.core = w.core /\ PrereleaseBelow(v, w)
BY Zenon DEF Precedes, PrereleaseBelow

LEMMA VersionParts ==
    ASSUME NEW v \in SemanticVersions
    PROVE  v.core \in [1..3 -> Nat] /\ IsPrerelease(v)
BY VersionType, Zenon DEF IsPrerelease

(* compareSemVer is the order of the standard, for two versions. *)
LEMMA ComparesAsStandard ==
    ASSUME NEW a \in SemanticVersions, NEW b \in SemanticVersions
    PROVE  /\ compareSemVer(a, b) = Sign(Precedes(a, b), Precedes(b, a))
           /\ ~(Precedes(a, b) /\ Precedes(b, a))
           /\ a # b => Precedes(a, b) \/ Precedes(b, a)
           /\ ~Precedes(a, a)
<1> DEFINE D == Differences(a.core, b.core)
<1>1. a.core \in [1..3 -> Nat] /\ IsPrerelease(a) /\ b.core \in [1..3 -> Nat] /\ IsPrerelease(b)
    BY VersionParts, Zenon
<1>2. /\ D = {} => a.core = b.core /\ ~LexBelow(a.core, b.core) /\ ~LexBelow(b.core, a.core)
      /\ D # {} => /\ a.core # b.core
                   /\ LexBelow(a.core, b.core) # LexBelow(b.core, a.core)
                   /\ compareInt(a.core[Min(D)], b.core[Min(D)])
                        = Sign(LexBelow(a.core, b.core), LexBelow(b.core, a.core))
    BY <1>1, CoreOrder, Zenon
<1>3. /\ comparePrerelease(a.prerelease, b.prerelease)
           = Sign(PrereleaseBelow(a, b), PrereleaseBelow(b, a))
      /\ ~(PrereleaseBelow(a, b) /\ PrereleaseBelow(b, a))
      /\ a.prerelease # b.prerelease => PrereleaseBelow(a, b) \/ PrereleaseBelow(b, a)
    BY <1>1, PrereleaseOrder, Zenon
<1>4. compareSemVer(a, b) = IF D # {} THEN compareInt(a.core[Min(D)], b.core[Min(D)])
                            ELSE comparePrerelease(a.prerelease, b.prerelease)
    BY Zenon DEF compareSemVer
<1>5. LexBelow(a.core, b.core) \in BOOLEAN /\ LexBelow(b.core, a.core) \in BOOLEAN
    BY Zenon DEF LexBelow
<1>6. a # b => a.core # b.core \/ a.prerelease # b.prerelease
    BY VersionType, Zenon
<1>7. ~Precedes(a, a)
  <2>1. ~LexBelow(a.core, a.core)
    BY <1>1, CoreOrder, Zenon DEF Differences
  <2>2. ~PrereleaseBelow(a, a)
    BY <1>1, SameKeys, Zenon
  <2>3. QED
    BY <2>1, <2>2, PrecedesIs, Zenon
<1> HIDE DEF D
<1>8. CASE D = {}
    BY <1>2, <1>3, <1>4, <1>6, <1>7, <1>8, PrecedesIs, Zenon DEF Sign
<1>9. CASE D # {}
    BY <1>2, <1>4, <1>5, <1>7, <1>9, PrecedesIs, Zenon DEF Sign
<1>10. QED
    BY <1>8, <1>9, Zenon

LEMMA LexTransitive ==
    ASSUME NEW n \in Nat, NEW r \in [1..n -> Nat], NEW s \in [1..n -> Nat], NEW t \in [1..n -> Nat],
           LexBelow(r, s), LexBelow(s, t)
    PROVE  LexBelow(r, t)
<1>1. PICK i \in 1..n : r[i] < s[i] /\ \A j \in 1..(i - 1) : r[j] = s[j]
    BY Zenon DEF LexBelow
<1>2. PICK k \in 1..n : s[k] < t[k] /\ \A j \in 1..(k - 1) : s[j] = t[j]
    BY Zenon DEF LexBelow
<1>3. r[i] \in Nat /\ s[i] \in Nat /\ t[i] \in Nat /\ r[k] \in Nat /\ s[k] \in Nat /\ t[k] \in Nat
    BY Zenon
<1>4. CASE i <= k
  <2>1. \A j \in 1..(i - 1) : j \in 1..(k - 1)
    BY <1>4
  <2>2. i = k \/ i \in 1..(k - 1)
    BY <1>4
  <2>3. r[i] < t[i]
    BY <1>1, <1>2, <1>3, <2>2
  <2>4. \A j \in 1..(i - 1) : r[j] = t[j]
    BY <1>1, <1>2, <2>1, Zenon
  <2>5. QED
    BY <2>3, <2>4, Zenon DEF LexBelow
<1>5. CASE k < i
  <2>1. k \in 1..(i - 1) /\ \A j \in 1..(k - 1) : j \in 1..(i - 1)
    BY <1>5
  <2>2. r[k] < t[k] /\ \A j \in 1..(k - 1) : r[j] = t[j]
    BY <1>1, <1>2, <2>1, Zenon
  <2>3. QED
    BY <2>2, Zenon DEF LexBelow
<1>6. QED
    BY <1>4, <1>5

LEMMA KeyTransitive ==
    ASSUME NEW u, NEW v, NEW w, IsPrerelease(u), IsPrerelease(v), IsPrerelease(w),
           NEW i \in Nat \ {0}, LexBelow(Key(u, i), Key(v, i)), LexBelow(Key(v, i), Key(w, i))
    PROVE  LexBelow(Key(u, i), Key(w, i))
<1>1. \A p \in Nat \X Nat : p \in [1..2 -> Nat]
    OBVIOUS
<1>2. Key(u, i) \in [1..2 -> Nat] /\ Key(v, i) \in [1..2 -> Nat] /\ Key(w, i) \in [1..2 -> Nat]
    BY <1>1, KeyIsPair, Zenon
<1>3. QED
    BY <1>2, LexTransitive, Zenon

LEMMA PrereleaseTransitive ==
    ASSUME NEW u, NEW v, NEW w, IsPrerelease(u), IsPrerelease(v), IsPrerelease(w),
           PrereleaseBelow(u, v), PrereleaseBelow(v, w)
    PROVE  PrereleaseBelow(u, w)
<1>1. PICK i \in 1..MaxIdentifiers :
         LexBelow(Key(u, i), Key(v, i)) /\ \A j \in 1..(i - 1) : Key(u, j) = Key(v, j)
    BY Zenon DEF PrereleaseBelow
<1>2. PICK k \in 1..MaxIdentifiers :
         LexBelow(Key(v, k), Key(w, k)) /\ \A j \in 1..(k - 1) : Key(v, j) = Key(w, j)
    BY Zenon DEF PrereleaseBelow
<1>3. i \in Nat \ {0} /\ k \in Nat \ {0}
    BY VersionsAssumption
<1>4. CASE i < k
  <2>1. LexBelow(Key(u, i), Key(w, i)) /\ \A j \in 1..(i - 1) : Key(u, j) = Key(w, j)
    BY <1>1, <1>2, <1>3, <1>4
  <2>2. QED
    BY <2>1, Zenon DEF PrereleaseBelow
<1>5. CASE i = k
  <2>1. LexBelow(Key(u, i), Key(w, i))
    BY <1>1, <1>2, <1>3, <1>5, KeyTransitive, Zenon
  <2>2. \A j \in 1..(i - 1) : Key(u, j) = Key(w, j)
    BY <1>1, <1>2, <1>5, Zenon
  <2>3. QED
    BY <2>1, <2>2, Zenon DEF PrereleaseBelow
<1>6. CASE k < i
  <2>1. LexBelow(Key(u, k), Key(w, k)) /\ \A j \in 1..(k - 1) : Key(u, j) = Key(w, j)
    BY <1>1, <1>2, <1>3, <1>6
  <2>2. QED
    BY <2>1, Zenon DEF PrereleaseBelow
<1>7. QED
    BY <1>3, <1>4, <1>5, <1>6

LEMMA PrecedesTransitive ==
    ASSUME NEW a \in SemanticVersions, NEW b \in SemanticVersions, NEW c \in SemanticVersions,
           Precedes(a, b), Precedes(b, c)
    PROVE  Precedes(a, c)
<1>1. /\ a.core \in [1..3 -> Nat] /\ b.core \in [1..3 -> Nat] /\ c.core \in [1..3 -> Nat]
      /\ IsPrerelease(a) /\ IsPrerelease(b) /\ IsPrerelease(c)
    BY VersionParts, Zenon
<1>2. LexBelow(a.core, b.core) /\ LexBelow(b.core, c.core) => LexBelow(a.core, c.core)
    BY <1>1, LexTransitive, Zenon
<1>3. PrereleaseBelow(a, b) /\ PrereleaseBelow(b, c) => PrereleaseBelow(a, c)
    BY <1>1, PrereleaseTransitive, Zenon
<1>4. /\ LexBelow(a.core, b.core) \/ (a.core = b.core /\ PrereleaseBelow(a, b))
      /\ LexBelow(b.core, c.core) \/ (b.core = c.core /\ PrereleaseBelow(b, c))
    BY PrecedesIs, Zenon
<1>5. LexBelow(a.core, c.core) \/ (a.core = c.core /\ PrereleaseBelow(a, c))
    BY <1>2, <1>3, <1>4, Zenon
<1>6. QED
    BY <1>5, PrecedesIs, Zenon

LEMMA AvailableIsAbove ==
    ASSUME NEW a \in SemanticVersions, NEW b \in SemanticVersions
    PROVE  updateAvailable(a, b) <=> Precedes(b, a)
BY ComparesAsStandard DEF updateAvailable, Sign

(***************************************************************************)
(* compareSemVer orders all versions as the SemVer standard does, whatever *)
(* their numbers and however many prerelease identifiers they have, and    *)
(* that order is total: equal only for the same version, and transitive.   *)
(***************************************************************************)
THEOREM VersionsOrdered == OrdersAsStandard(SemanticVersions)
<1> SUFFICES ASSUME NEW a \in SemanticVersions, NEW b \in SemanticVersions
             PROVE  /\ compareSemVer(a, b)
                         = IF Precedes(a, b) THEN -1 ELSE IF Precedes(b, a) THEN 1 ELSE 0
                    /\ compareSemVer(a, b) = 0 <=> a = b
                    /\ \A c \in SemanticVersions :
                         updateAvailable(a, b) /\ updateAvailable(b, c) => updateAvailable(a, c)
    BY Zenon DEF OrdersAsStandard
<1>1. compareSemVer(a, b) = IF Precedes(a, b) THEN -1 ELSE IF Precedes(b, a) THEN 1 ELSE 0
    BY ComparesAsStandard, Zenon DEF Sign
<1>2. compareSemVer(a, b) = 0 <=> a = b
    BY <1>1, ComparesAsStandard
<1>3. ASSUME NEW c \in SemanticVersions, updateAvailable(a, b), updateAvailable(b, c)
      PROVE  updateAvailable(a, c)
    BY <1>3, AvailableIsAbove, PrecedesTransitive, Zenon
<1>4. QED
    BY <1>1, <1>2, <1>3, Zenon

-----------------------------------------------------------------------------
(* The inductive invariant of the checker. *)

Held == Results \cup {None}

TypeOK ==
    /\ clock \in Times /\ released \in DOMAIN Releases
    /\ cached \in Held /\ expires \in Nat
    /\ fetcher \in Callers \cup {None}
    /\ lastForced \in Times \cup {None}
    /\ pc \in [Callers -> {"idle", "lookup", "wait", "released", "fetch", "store"}]
    /\ force \in [Callers -> BOOLEAN]
    /\ now \in [Callers -> Times]
    /\ saw \in [Callers -> Held] /\ answer \in [Callers -> Held]

(* Neither stale nor unavailable. *)
Good(r) == r # None /\ r.status \in {"current", "update_available"}

(* A good result is what resultFor made of the release it names. *)
Compared(r) == Good(r) => r = resultFor(r.latest, r.at)

(* What is cached names no release that is not published yet, and expires  *)
(* within TTL of the upstream call when it is good.                        *)
CacheInv ==
    /\ Compared(cached)
    /\ Good(cached) => expires <= cached.at + TTL
    /\ cached # None /\ cached.latest # None => cached.latest <= released

(* One caller at a time asks upstream.  Until it writes, nobody else does, *)
(* so its copy is still what is cached, and its answer is at least as new. *)
FetchInv ==
    \A c \in Callers :
        /\ pc[c] \in {"fetch", "store"} => fetcher = c
        /\ pc[c] = "fetch" => saw[c] = cached
        /\ pc[c] = "store" =>
              /\ Good(saw[c]) /\ Compared(saw[c])
              /\ now[c] <= saw[c].at
              /\ saw[c].latest <= released
              /\ cached # None /\ cached.latest # None => cached.latest <= saw[c].latest

(* An answer is the last call's. *)
AnswerInv ==
    \A c \in Callers :
        /\ now[c] <= clock
        /\ pc[c] # "idle" => answer[c] = None
        /\ Compared(answer[c])
        /\ Good(answer[c]) => now[c] < answer[c].at + TTL \/ now[c] <= answer[c].at

CheckerInv == TypeOK /\ CacheInv /\ FetchInv /\ AnswerInv

LEMMA ResultFacts ==
    ASSUME NEW r \in Held
    PROVE  /\ r # None => r \in Results
           /\ r # None /\ r.latest # None => r.latest \in DOMAIN Releases /\ r.at \in Times
                                             /\ r.status \in {"current", "update_available", "stale"}
           /\ Good(r) => r # None /\ r.latest # None /\ r.latest \in DOMAIN Releases /\ r.at \in Times
<1>1. r # None => r = Unavailable \/ r \in [status : {"current", "update_available", "stale"},
                                            latest : DOMAIN Releases, at : Times]
    BY Zenon DEF Held, Results
<1>2. Unavailable.latest = None /\ Unavailable.status = "unavailable"
    BY Zenon DEF Unavailable
<1>3. None \notin DOMAIN Releases
    BY NoneAssumption, Zenon
<1>4. r # None => r \in Results
    BY Zenon DEF Held
<1>5. QED
    BY <1>1, <1>2, <1>3, <1>4, Zenon DEF Good

(* fallbackResult keeps the release and is never a good answer. *)
LEMMA FallbackFacts ==
    ASSUME NEW r \in Held
    PROVE  /\ fallbackResult(r) \in Results
           /\ fallbackResult(r) # None
           /\ ~Good(fallbackResult(r))
           /\ r = None => fallbackResult(r).latest = None
           /\ r # None => fallbackResult(r).latest = r.latest
<1>1. Unavailable \in Results /\ None \notin Results /\ ~Good(Unavailable) /\ Unavailable.latest = None
    BY NoneAssumption, Zenon DEF Results, Unavailable, Good
<1>2. CASE r = None
    BY <1>1, <1>2, Zenon DEF fallbackResult
<1>3. CASE r # None /\ r.latest = None
  <2>1. fallbackResult(r) = r /\ ~Good(r) /\ r \in Results
    BY <1>3, ResultFacts, Zenon DEF fallbackResult
  <2>2. QED
    BY <1>1, <1>3, <2>1, Zenon
<1>4. CASE r # None /\ r.latest # None
  <2>1. r \in [status : {"current", "update_available", "stale"}, latest : DOMAIN Releases, at : Times]
    BY <1>1, <1>4, ResultFacts, Zenon DEF Results
  <2>2. fallbackResult(r) = [r EXCEPT !.status = "stale"]
    BY <1>4, Zenon DEF fallbackResult
  <2>3. [r EXCEPT !.status = "stale"] = [status |-> "stale", latest |-> r.latest, at |-> r.at]
    BY <2>1
  <2>4. [status |-> "stale", latest |-> r.latest, at |-> r.at] \in Results
    BY <2>1, Zenon DEF Results
  <2>5. QED
    BY <1>1, <1>4, <2>2, <2>3, <2>4, Zenon DEF Good
<1>5. QED
    BY <1>2, <1>3, <1>4, Zenon

(* resultFor is a good result. *)
LEMMA ResultForFacts ==
    ASSUME NEW r \in DOMAIN Releases, NEW t \in Times
    PROVE  /\ resultFor(r, t) \in Results /\ resultFor(r, t) # None
           /\ Good(resultFor(r, t)) /\ Compared(resultFor(r, t))
           /\ resultFor(r, t).latest = r /\ resultFor(r, t).at = t
<1>1. PICK s \in {"current", "update_available"} :
         resultFor(r, t) = [status |-> s, latest |-> r, at |-> t]
    BY Zenon DEF resultFor
<1>2. resultFor(r, t) \in Results
    BY <1>1 DEF Results
<1>3. resultFor(r, t) # None
    BY <1>2, NoneAssumption, Zenon
<1>4. resultFor(r, t).latest = r /\ resultFor(r, t).at = t
    BY <1>1
<1>5. Good(resultFor(r, t))
    BY <1>1, <1>3 DEF Good
<1>6. Compared(resultFor(r, t))
    BY <1>4, Zenon DEF Compared
<1>7. QED
    BY <1>2, <1>3, <1>4, <1>5, <1>6, Zenon

LEMMA CheckerInit == Init => CheckerInv
<1> SUFFICES ASSUME Init PROVE CheckerInv
    BY Zenon
<1> USE DEF Init
<1>1. 1 \in DOMAIN Releases
    BY CheckerAssumption
<1>2. TypeOK
    BY <1>1, CheckerAssumption DEF TypeOK, Held, Times
<1>3. CacheInv
    BY Zenon DEF CacheInv, Compared, Good
<1>4. FetchInv
    BY Zenon DEF FetchInv
<1>5. AnswerInv
    BY DEF AnswerInv, Compared, Good
<1>6. QED
    BY <1>2, <1>3, <1>4, <1>5, Zenon DEF CheckerInv

(* The clock and the releases only go forward. *)
LEMMA TimeStep ==
    ASSUME CheckerInv, Tick \/ Publish
    PROVE  CheckerInv'
<1> USE DEF CheckerInv
<1>1. UNCHANGED <<shared, local>> /\ clock' \in Times /\ clock <= clock'
      /\ released' \in DOMAIN Releases /\ released <= released'
    BY CheckerAssumption DEF Tick, Publish, TypeOK, Times, shared, local
<1> USE DEF shared, local
<1>2. TypeOK'
    BY <1>1, Zenon DEF TypeOK
<1>3. released \in Nat /\ released' \in Nat /\ clock \in Nat /\ clock' \in Nat
    BY <1>1, CheckerAssumption DEF TypeOK, Times
<1>4. CacheInv'
  <2>1. cached # None /\ cached.latest # None => cached.latest \in Nat
    BY ResultFacts, CheckerAssumption DEF TypeOK
  <2>2. QED
    BY <1>1, <1>3, <2>1 DEF CacheInv, Compared, Good
<1>5. FetchInv'
  <2>1. ASSUME NEW c \in Callers, Good(saw[c]) PROVE saw[c].latest \in Nat
    BY <2>1, ResultFacts, CheckerAssumption DEF TypeOK
  <2>2. QED
    BY <1>1, <1>3, <2>1 DEF FetchInv, Compared, Good
<1>6. AnswerInv'
  <2>1. \A c \in Callers : now[c] \in Nat
    BY CheckerAssumption DEF TypeOK, Times
  <2>2. QED
    BY <1>1, <1>3, <2>1 DEF AnswerInv, Compared, Good
<1>7. QED
    BY <1>2, <1>4, <1>5, <1>6, Zenon

(* What c may return: recent enough when it is good. *)
MayReturn(c, result) ==
    /\ result \in Results
    /\ Compared(result)
    /\ Good(result) => now[c] < result.at + TTL \/ now[c] <= result.at

LEMMA ReturnStep ==
    ASSUME CheckerInv, NEW c \in Callers, NEW result, MayReturn(c, result), Return(c, result),
           pc[c] \notin {"fetch", "store"}, UNCHANGED <<clock, released, shared, now>>
    PROVE  CheckerInv'
<1> USE DEF CheckerInv, shared
<1>1. TypeOK'
    BY Zenon DEF TypeOK, Return, MayReturn, Held
<1>2. CacheInv'
    BY Zenon DEF CacheInv, Compared, Good
<1>3. FetchInv'
  <2> SUFFICES ASSUME NEW d \in Callers, pc'[d] \in {"fetch", "store"}
               PROVE  d # c /\ pc'[d] = pc[d] /\ saw'[d] = saw[d]
    BY Zenon DEF FetchInv, Compared, Good
  <2>1. QED
    BY Zenon DEF Return, TypeOK
<1>4. AnswerInv'
  <2> SUFFICES ASSUME NEW d \in Callers
               PROVE  /\ now'[d] <= clock'
                      /\ pc'[d] # "idle" => answer'[d] = None
                      /\ Compared(answer'[d])
                      /\ Good(answer'[d]) => now'[d] < answer'[d].at + TTL \/ now'[d] <= answer'[d].at
    BY Zenon DEF AnswerInv, Compared, Good
  <2>1. CASE d = c
    BY <2>1, Zenon DEF Return, MayReturn, TypeOK, AnswerInv
  <2>2. CASE d # c
    BY <2>2, Zenon DEF Return, TypeOK, AnswerInv
  <2>3. QED
    BY <2>1, <2>2, Zenon
<1>5. QED
    BY <1>1, <1>2, <1>3, <1>4, Zenon

(* A result that is not good may be returned. *)
LEMMA MayFallBack ==
    ASSUME NEW c \in Callers, NEW r \in Held
    PROVE  MayReturn(c, fallbackResult(r))
BY FallbackFacts, Zenon DEF MayReturn, Compared

(* What is fresh for c may be returned to it. *)
LEMMA MayServe ==
    ASSUME CheckerInv, NEW c \in Callers, Fresh(c)
    PROVE  MayReturn(c, cached)
<1> USE DEF CheckerInv
<1>1. cached \in Results /\ Compared(cached)
    BY Zenon DEF TypeOK, Held, Fresh, CacheInv
<1>2. ASSUME Good(cached) PROVE now[c] < cached.at + TTL
  <2>1. cached.at \in Times
    BY <1>2, ResultFacts, Zenon DEF TypeOK
  <2>2. now[c] < expires /\ expires <= cached.at + TTL
    BY <1>2, Zenon DEF Fresh, CacheInv
  <2>3. QED
    BY <2>1, <2>2, CheckerAssumption DEF TypeOK, Times
<1>3. QED
    BY <1>1, <1>2, Zenon DEF MayReturn

LEMMA AnswersStep ==
    ASSUME CheckerInv, NEW c \in Callers, Serve(c) \/ Throttle(c) \/ GiveUp(c)
    PROVE  CheckerInv'
<1>1. CASE Serve(c)
    BY <1>1, MayServe, ReturnStep, Zenon DEF Serve
<1>2. CASE Throttle(c)
  <2>1. PICK r : r = IF Fresh(c) THEN cached ELSE fallbackResult(cached)
    BY Zenon
  <2>2. MayReturn(c, r)
    BY <2>1, MayServe, MayFallBack, Zenon DEF CheckerInv, TypeOK
  <2>3. Return(c, r) /\ pc[c] = "lookup" /\ UNCHANGED <<clock, released, shared, now>>
    BY <1>2, <2>1, Zenon DEF Throttle, Misses
  <2>4. QED
    BY <2>2, <2>3, ReturnStep, Zenon
<1>3. CASE GiveUp(c)
  <2>1. MayReturn(c, fallbackResult(saw[c]))
    BY MayFallBack, Zenon DEF CheckerInv, TypeOK
  <2>2. QED
    BY <1>3, <2>1, ReturnStep, Zenon DEF GiveUp
<1>4. QED
    BY <1>1, <1>2, <1>3, Zenon

(* A caller that starts, wakes up or waits. *)
LEMMA WaitingStep ==
    ASSUME CheckerInv, NEW c \in Callers,
           (\E f \in BOOLEAN : Call(c, f)) \/ Join(c) \/ Wake(c)
    PROVE  CheckerInv'
<1> USE DEF CheckerInv, shared
<1>1. /\ UNCHANGED <<clock, released, shared>>
      /\ pc' \in [Callers -> {"idle", "lookup", "wait", "released", "fetch", "store"}]
      /\ pc'[c] \in {"lookup", "wait"}
      /\ \A d \in Callers \ {c} : pc'[d] = pc[d] /\ saw'[d] = saw[d] /\ now'[d] = now[d]
                                  /\ answer'[d] = answer[d]
      /\ now'[c] \in {now[c], clock} /\ answer'[c] = None
  <2>1. CASE \E f \in BOOLEAN : Call(c, f)
    BY <2>1, Zenon DEF Call, TypeOK
  <2>2. CASE Join(c)
    BY <2>2, Zenon DEF Join, Misses, TypeOK, AnswerInv
  <2>3. CASE Wake(c)
    BY <2>3, Zenon DEF Wake, TypeOK, AnswerInv
  <2>4. QED
    BY <2>1, <2>2, <2>3, Zenon
<1>2. TypeOK'
  <2>1. CASE \E f \in BOOLEAN : Call(c, f)
    BY <2>1 DEF Call, TypeOK, Held
  <2>2. CASE Join(c)
    BY <2>2, Zenon DEF Join, TypeOK
  <2>3. CASE Wake(c)
    BY <2>3, Zenon DEF Wake, TypeOK
  <2>4. QED
    BY <2>1, <2>2, <2>3, Zenon
<1>3. CacheInv'
    BY <1>1, Zenon DEF CacheInv, Compared, Good
<1>4. FetchInv'
    BY <1>1 DEF FetchInv, Compared, Good
<1>5. AnswerInv'
  <2>1. now'[c] <= clock'
    BY <1>1, CheckerAssumption DEF AnswerInv, TypeOK, Times
  <2>2. QED
    BY <1>1, <2>1, Zenon DEF AnswerInv, Compared, Good
<1>6. QED
    BY <1>2, <1>3, <1>4, <1>5, Zenon

(* The caller that asks upstream: nobody else does. *)
LEMMA FetchStep ==
    ASSUME CheckerInv, NEW c \in Callers, Fetch(c)
    PROVE  CheckerInv'
<1> USE DEF CheckerInv, Fetch
<1>1. TypeOK'
    BY Zenon DEF TypeOK
<1>2. CacheInv'
    BY Zenon DEF CacheInv, Compared, Good
<1>3. FetchInv'
  <2>1. \A d \in Callers : pc[d] \notin {"fetch", "store"}
    BY CheckerAssumption, Zenon DEF FetchInv
  <2>2. QED
    BY <2>1, Zenon DEF FetchInv, TypeOK
<1>4. AnswerInv'
    BY Zenon DEF AnswerInv, Misses, TypeOK, Compared, Good
<1>5. QED
    BY <1>1, <1>2, <1>3, <1>4, Zenon

(* Upstream names the newest release of this moment, at this moment. *)
LEMMA AnsweredStep ==
    ASSUME CheckerInv, NEW c \in Callers, Answered(c)
    PROVE  CheckerInv'
<1> USE DEF CheckerInv, shared
<1>1. PICK r : r = resultFor(released, clock)
    BY Zenon
<1>2. r \in Results /\ r # None /\ Good(r) /\ Compared(r) /\ r.latest = released /\ r.at = clock
    BY <1>1, ResultForFacts, Zenon DEF TypeOK
<1>3. /\ UNCHANGED <<clock, released, shared, force, now, answer>>
      /\ pc[c] = "fetch"
      /\ pc' = [pc EXCEPT ![c] = "store"] /\ saw' = [saw EXCEPT ![c] = r]
    BY <1>1, Zenon DEF Answered
<1>4. TypeOK'
    BY <1>2, <1>3, Zenon DEF TypeOK, Held
<1>5. CacheInv'
    BY <1>3, Zenon DEF CacheInv, Compared, Good
<1>6. FetchInv'
  <2>1. released <= released
    BY CheckerAssumption DEF TypeOK
  <2>2. pc'[c] = "store" /\ saw'[c] = r /\ fetcher' = c
    BY <1>3, Zenon DEF TypeOK, FetchInv
  <2>3. /\ now'[c] <= r.at /\ r.latest <= released'
        /\ cached' # None /\ cached'.latest # None => cached'.latest <= r.latest
    BY <1>2, <1>3, <2>1, Zenon DEF AnswerInv, CacheInv
  <2>4. \A d \in Callers \ {c} : pc'[d] = pc[d] /\ saw'[d] = saw[d]
    BY <1>3, Zenon DEF TypeOK
  <2>5. QED
    BY <1>2, <1>3, <2>2, <2>3, <2>4, ZenonT(60) DEF FetchInv, Good, Compared
<1>7. AnswerInv'
    BY <1>3, Zenon DEF AnswerInv, TypeOK, Compared, Good
<1>8. QED
    BY <1>4, <1>5, <1>6, <1>7, Zenon

(* The caller that asked writes the cache; the waiting ones are released. *)
LEMMA ReleaseStep ==
    ASSUME CheckerInv, NEW c \in Callers, NEW result, MayReturn(c, result), Release(c, result),
           pc[c] \in {"fetch", "store"}, UNCHANGED <<clock, released, lastForced, now>>,
           cached' = result, expires' \in Nat, Good(result) => expires' <= result.at + TTL,
           result.latest # None => result.latest <= released
    PROVE  CheckerInv'
<1> USE DEF CheckerInv
<1>1. \A d \in Callers \ {c} : pc[d] \notin {"fetch", "store"}
    BY Zenon DEF FetchInv
<1>2. TypeOK'
    BY Zenon DEF TypeOK, Release, MayReturn, Held
<1>3. CacheInv'
    BY Zenon DEF CacheInv, MayReturn, Compared, Good
<1>4. FetchInv'
    BY <1>1, Zenon DEF FetchInv, Release
<1>5. AnswerInv'
  <2> SUFFICES ASSUME NEW d \in Callers
               PROVE  /\ now'[d] <= clock'
                      /\ pc'[d] # "idle" => answer'[d] = None
                      /\ Compared(answer'[d])
                      /\ Good(answer'[d]) => now'[d] < answer'[d].at + TTL \/ now'[d] <= answer'[d].at
    BY Zenon DEF AnswerInv, Compared, Good
  <2>1. CASE d = c
    BY <2>1, Zenon DEF Release, MayReturn, TypeOK, AnswerInv
  <2>2. CASE d # c
    BY <2>2, Zenon DEF Release, TypeOK, AnswerInv
  <2>3. QED
    BY <2>1, <2>2, Zenon
<1>6. QED
    BY <1>2, <1>3, <1>4, <1>5, Zenon

LEMMA StoreStep ==
    ASSUME CheckerInv, NEW c \in Callers, Store(c)
    PROVE  CheckerInv'
<1> USE DEF CheckerInv, Store
<1>1. /\ Good(saw[c]) /\ Compared(saw[c]) /\ now[c] <= saw[c].at /\ saw[c].latest <= released
      /\ saw[c] \in Held
    BY Zenon DEF FetchInv, TypeOK
<1>2. saw[c] \in Results /\ saw[c].at \in Times
    BY <1>1, ResultFacts, Zenon
<1>3. saw[c].at + TTL \in Nat /\ saw[c].at + TTL <= saw[c].at + TTL
    BY <1>2, CheckerAssumption DEF Times
<1>4. MayReturn(c, saw[c])
    BY <1>1, <1>2, Zenon DEF MayReturn
<1>5. QED
    BY <1>1, <1>3, <1>4, ReleaseStep, Zenon

LEMMA FailStep ==
    ASSUME CheckerInv, NEW c \in Callers, Fail(c)
    PROVE  CheckerInv'
<1> USE DEF CheckerInv, Fail
<1>1. saw[c] = cached /\ cached \in Held
    BY Zenon DEF FetchInv, TypeOK
<1>2. PICK r : r = fallbackResult(cached)
    BY Zenon
<1>3. ~Good(r) /\ (r.latest # None => cached # None /\ r.latest = cached.latest)
    BY <1>1, <1>2, FallbackFacts, Zenon
<1>4. r.latest # None => r.latest <= released
    BY <1>3, Zenon DEF CacheInv
<1>5. clock + FailureTTL \in Nat
    BY CheckerAssumption DEF TypeOK, Times
<1>6. MayReturn(c, r)
    BY <1>1, <1>2, MayFallBack, Zenon
<1>7. Release(c, r) /\ cached' = r /\ expires' \in Nat
    BY <1>1, <1>2, <1>5, Zenon
<1>8. QED
    BY <1>3, <1>4, <1>6, <1>7, ReleaseStep, Zenon

LEMMA CheckerStep == CheckerInv /\ [Next]_vars => CheckerInv'
<1> SUFFICES ASSUME CheckerInv, [Next]_vars PROVE CheckerInv'
    BY Zenon
<1>1. CASE Tick \/ Publish
    BY <1>1, TimeStep, Zenon
<1>2. ASSUME NEW c \in Callers, (\E f \in BOOLEAN : Call(c, f)) \/ Step(c) \/ GiveUp(c)
      PROVE  CheckerInv'
    BY <1>2, AnswersStep, WaitingStep, FetchStep, AnsweredStep, StoreStep, FailStep, Zenon DEF Step
<1>3. CASE UNCHANGED vars
    BY <1>3, Zenon DEF CheckerInv, TypeOK, CacheInv, FetchInv, AnswerInv, Compared, Good,
                vars, shared, local
<1>4. QED
    BY <1>1, <1>2, <1>3, Zenon DEF Next

(***************************************************************************)
(* The invariant of the checker: one caller at a time asks upstream and    *)
(* writes, its copy is what is cached until it does, and every good result *)
(* is the comparison of a release that was the latest at the time it names.*)
(***************************************************************************)
THEOREM CheckerInvariance == Spec => []CheckerInv
<1>1. Init => CheckerInv
    BY CheckerInit, Zenon
<1>2. CheckerInv /\ [Next]_vars => CheckerInv'
    BY CheckerStep, Zenon
<1>3. QED
    BY <1>1, <1>2, PTL DEF Spec

(***************************************************************************)
(* An answer that is not marked was checked upstream within TTL of the     *)
(* time the caller read, for any lifetimes and any number of callers that  *)
(* join, are throttled, give up or see the call fail (Checker.check).      *)
(***************************************************************************)
THEOREM AnswersAreRecent == Spec => []FreshIsRecent
<1>1. CheckerInv => FreshIsRecent
    BY Zenon DEF CheckerInv, AnswerInv, FreshIsRecent, Good
<1>2. QED
    BY <1>1, CheckerInvariance, PTL

(***************************************************************************)
(* An answer offers a release exactly when the SemVer standard puts it     *)
(* above the running version, for all versions (resultFor, compareSemVer). *)
(***************************************************************************)
THEOREM AnswersMatchStandard == Spec => []MatchesStandard
<1>1. CheckerInv => MatchesStandard
  <2> SUFFICES ASSUME CheckerInv, NEW c \in Callers, Good(answer[c])
               PROVE  (answer[c].status = "update_available")
                        = Precedes(Current, Releases[answer[c].latest])
    BY Zenon DEF MatchesStandard, Good
  <2>1. PICK r \in DOMAIN Releases, t \in Times : answer[c] = resultFor(r, t) /\ answer[c].latest = r
    BY ResultFacts, Zenon DEF CheckerInv, TypeOK, AnswerInv, Compared
  <2>2. answer[c].status = IF updateAvailable(Releases[r], Current)
                           THEN "update_available" ELSE "current"
    BY <2>1 DEF resultFor
  <2>3. Releases[r] \in SemanticVersions /\ Current \in SemanticVersions
    BY CheckerAssumption
  <2>4. updateAvailable(Releases[r], Current) <=> Precedes(Current, Releases[r])
    BY <2>3, AvailableIsAbove, Zenon
  <2>5. Precedes(Current, Releases[r]) \in BOOLEAN
    BY Zenon DEF Precedes
  <2>6. answer[c].status = "update_available" <=> Precedes(Current, Releases[answer[c].latest])
    BY <2>1, <2>2, <2>4, Zenon
  <2>7. QED
    BY <2>1, <2>5, <2>6, Zenon
<1>2. QED
    BY <1>1, CheckerInvariance, PTL

(***************************************************************************)
(* What is known of the newest release is never lost or replaced by an     *)
(* older one, whatever calls fail, overlap or end late.                    *)
(***************************************************************************)
THEOREM NewestIsKept == Spec => ReleaseNotForgotten
<1>1. ASSUME CheckerInv, [Next]_vars, cached # None, cached.latest # None
      PROVE  cached'.latest # None /\ cached'.latest >= cached.latest
  <2> USE <1>1 DEF CheckerInv
  <2>1. cached.latest \in Nat
    BY ResultFacts, CheckerAssumption DEF TypeOK
  <2>2. ASSUME NEW c \in Callers, Store(c)
        PROVE  cached'.latest # None /\ cached'.latest >= cached.latest
    <3>1. cached' = saw[c] /\ Good(saw[c]) /\ cached.latest <= saw[c].latest /\ saw[c] \in Held
      BY <2>2, Zenon DEF Store, FetchInv, TypeOK
    <3>2. saw[c].latest # None /\ saw[c].latest \in Nat
      BY <3>1, ResultFacts, CheckerAssumption
    <3>3. QED
      BY <2>1, <3>1, <3>2, Zenon
  <2>3. ASSUME NEW c \in Callers, Fail(c)
        PROVE  cached'.latest # None /\ cached'.latest >= cached.latest
    <3>1. cached' = fallbackResult(cached) /\ cached \in Held
      BY <2>3, Zenon DEF Fail, FetchInv, TypeOK
    <3>2. QED
      BY <2>1, <3>1, FallbackFacts
  <2>4. \/ \E c \in Callers : Store(c) \/ Fail(c)
        \/ cached' = cached
    BY Zenon DEF Next, Step, Tick, Publish, Call, Serve, Join, Throttle, Fetch, Answered, Wake,
           GiveUp, shared, vars
  <2>5. QED
    BY <2>1, <2>2, <2>3, <2>4
<1>2. QED
    BY <1>1, CheckerInvariance, PTL DEF Spec, ReleaseNotForgotten

=============================================================================
