------------------------------- MODULE SemVer -------------------------------
(***************************************************************************)
(* The version comparison behind "an update is available" (compareSemVer   *)
(* of update/checker.go), on parsed versions.  A version is its core,      *)
(* <<major, minor, patch>>, and its prerelease identifiers; an identifier  *)
(* is numeric or not, and `value' is its number or its place in the byte   *)
(* order of the non-numeric ones.  Build metadata is dropped by the        *)
(* parser.                                                                 *)
(***************************************************************************)
EXTENDS Integers, Sequences, FiniteSetsExt

Identifiers(values) == [numeric : BOOLEAN, value : values]

(* compareUint, compareInt and compareNumericStrings. *)
compareInt(left, right) ==
    IF left < right THEN -1 ELSE IF left > right THEN 1 ELSE 0

(* The places where two sequences differ, as far as both reach. *)
Differences(left, right) ==
    {i \in DOMAIN left \cap DOMAIN right : left[i] # right[i]}

(* Two different identifiers: numeric ones rank below the others. *)
compareIdentifier(left, right) ==
    IF left.numeric = right.numeric THEN compareInt(left.value, right.value)
    ELSE IF left.numeric THEN -1 ELSE 1

(* A release ranks above its prereleases; prereleases rank by the first    *)
(* identifier that differs, and then by how many they have.                *)
comparePrerelease(left, right) ==
    IF left = <<>> /\ right # <<>> THEN 1
    ELSE IF left # <<>> /\ right = <<>> THEN -1
    ELSE LET D == Differences(left, right) IN
         IF D = {} THEN compareInt(Len(left), Len(right))
         ELSE compareIdentifier(left[Min(D)], right[Min(D)])

compareSemVer(left, right) ==
    LET D == Differences(left.core, right.core) IN
    IF D # {} THEN compareInt(left.core[Min(D)], right.core[Min(D)])
    ELSE comparePrerelease(left.prerelease, right.prerelease)

(* resultFor: an update is available. *)
updateAvailable(latest, current) == compareSemVer(latest, current) > 0
-----------------------------------------------------------------------------
CONSTANTS Cores, Values, MaxIdentifiers   \* the versions considered

ASSUME VersionsAssumption ==
    /\ Cores \subseteq [1..3 -> Nat]
    /\ Values \subseteq Nat
    /\ MaxIdentifiers \in Nat

SemanticVersions ==
    [core : Cores,
     prerelease : UNION {[1..n -> Identifiers(Values)] : n \in 0..MaxIdentifiers}]

(* Precedence as the SemVer standard states it, by a key for each place: a *)
(* missing identifier is the lowest of its place, except that no           *)
(* prerelease at all is the highest.                                       *)
Key(v, i) ==
    IF v.prerelease = <<>> THEN <<3, 0>>
    ELSE IF i > Len(v.prerelease) THEN <<0, 0>>
    ELSE LET d == v.prerelease[i] IN <<IF d.numeric THEN 1 ELSE 2, d.value>>

LexBelow(s, t) ==
    \E i \in DOMAIN s : s[i] < t[i] /\ \A j \in 1..(i - 1) : s[j] = t[j]

Precedes(v, w) ==
    \/ LexBelow(v.core, w.core)
    \/ /\ v.core = w.core
       /\ \E i \in 1..MaxIdentifiers :
             /\ LexBelow(Key(v, i), Key(w, i))
             /\ \A j \in 1..(i - 1) : Key(v, j) = Key(w, j)

(* compareSemVer orders the versions of S as the standard does, and that   *)
(* is a total order.                                                       *)
OrdersAsStandard(S) ==
    \A a, b \in S :
        /\ compareSemVer(a, b) = IF Precedes(a, b) THEN -1 ELSE IF Precedes(b, a) THEN 1 ELSE 0
        /\ compareSemVer(a, b) = 0 <=> a = b
        /\ \A c \in S : updateAvailable(a, b) /\ updateAvailable(b, c) => updateAvailable(a, c)
=============================================================================
