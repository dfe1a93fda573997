----------------------------- MODULE UserProofs -----------------------------
(***************************************************************************)
(* Proofs about User for all sets of specs, tags, policies, documents and  *)
(* paths, every Unescape and budget: its types, that no CR is forgotten    *)
(* before its user is what it says, and that it implements Lifecycle.      *)
(* Lemmas about the tags come first.                                       *)
(***************************************************************************)
EXTENDS User, ReconcilerProofs, FiniteSetTheorems, SequenceTheorems, WellFoundedInduction

-----------------------------------------------------------------------------
\* A set of indices has an end: among what follows each of them (or precedes it), some set
\* includes no other one.
LEMMA LastOf ==
  ASSUME NEW n \in Nat, NEW S \in SUBSET (1..n), S # {}
  PROVE  \E i \in S : \A j \in S : j <= i
<1> DEFINE after(i) == {j \in S : j > i}
           T == {after(i) : i \in S}
<1>1. IsFiniteSet(S)
  <2>1. IsFiniteSet(1..n)
    BY FS_Interval
  <2> QED
    BY <2>1, FS_Subset
<1>2. IsWellFoundedOn(StrictSubsetOrdering(S), FiniteSubsetsOf(S))
  BY FS_StrictSubsetOrderingWellFounded
<1>3. T \subseteq FiniteSubsetsOf(S) /\ T # {}
  <2>1. FiniteSubsetsOf(S) = SUBSET S
    BY <1>1, FS_FiniteSubsetsOfFinite
  <2>2. \A i \in S : after(i) \in SUBSET S
    OBVIOUS
  <2>3. T \in SUBSET (SUBSET S)
    BY <2>2
  <2>4. T # {}
    OBVIOUS
  <2> HIDE DEF T
  <2> QED
    BY <2>1, <2>3, <2>4
<1>4. PICK x \in T : \A y \in T : ~(<<y, x>> \in StrictSubsetOrdering(S))
  <2> HIDE DEF T
  <2> QED
    BY <1>2, <1>3, WFMin
<1>5. PICK i \in S : x = after(i)
  BY <1>4
<1>6. ASSUME NEW j \in S, ~(j <= i)
      PROVE  FALSE
  <2>1. i \in Nat /\ j \in Nat
    BY <1>5
  <2>2. j \in after(i) /\ j \notin after(j)
    BY <1>6, <2>1
  <2>3. after(j) \subseteq after(i)
    <3> SUFFICES ASSUME NEW m \in after(j)
                 PROVE  m > i
      OBVIOUS
    <3>1. m \in Nat /\ m > j
      OBVIOUS
    <3> QED
      BY <1>6, <2>1, <3>1
  <2>4. <<after(j), after(i)>> \in StrictSubsetOrdering(S)
    BY <2>2, <2>3 DEF StrictSubsetOrdering
  <2>5. after(j) \in T
    OBVIOUS
  <2> QED
    BY <1>4, <1>5, <2>4, <2>5
<1> QED
  BY <1>5, <1>6

LEMMA FirstOf ==
  ASSUME NEW n \in Nat, NEW S \in SUBSET (1..n), S # {}
  PROVE  \E i \in S : \A j \in S : i <= j
<1> DEFINE R == {i \in 1..n : n + 1 - i \in S}
<1>1. PICK s \in S : TRUE
  OBVIOUS
<1>2. n + 1 - s \in R
  BY <1>1
<1>3. PICK r \in R : \A q \in R : q <= r
  BY <1>2, LastOf
<1>4. ASSUME NEW j \in S
      PROVE  n + 1 - r <= j
  <2>1. n + 1 - j \in R
    OBVIOUS
  <2>2. n + 1 - j <= r
    BY <1>3, <2>1
  <2> QED
    BY <1>3, <2>2
<1> QED
  BY <1>3, <1>4

-----------------------------------------------------------------------------
\* A list of tags has finitely many keys.
LEMMA KeysFinite ==
  ASSUME NEW tags \in Seq(Tag)
  PROVE  Keys(tags) \subseteq TagKeys /\ IsFiniteSet(Keys(tags))
<1>1. Len(tags) \in Nat /\ DOMAIN tags = 1..Len(tags) /\ \A i \in DOMAIN tags : tags[i] \in Tag
  BY LenProperties
<1> DEFINE f == [i \in 1..Len(tags) |-> tags[i].key]
<1>2. Keys(tags) = {tags[i].key : i \in 1..Len(tags)}
  BY <1>1 DEF Keys, Range
<1>3. f \in Surjection(1..Len(tags), Keys(tags))
  BY <1>2 DEF Surjection
<1>4. IsFiniteSet(1..Len(tags))
  BY <1>1, FS_Interval
<1> QED
  BY <1>1, <1>2, <1>3, <1>4, FS_Surjection DEF Tag

\* The map of a list gives each of its keys the value of a tag of it, the empty one for nil.
LEMMA ToMapIs ==
  ASSUME NEW tags \in Seq(Tag)
  PROVE  /\ DOMAIN ToMap(tags) = Keys(tags)
         /\ \A k \in Keys(tags) :
               /\ ToMap(tags)[k] \in TagValues
               /\ \E t \in Range(tags) :
                     t.key = k /\ ToMap(tags)[k] = IF t.value = Nil THEN Empty ELSE t.value
<1>1. Len(tags) \in Nat /\ DOMAIN tags = 1..Len(tags) /\ \A i \in DOMAIN tags : tags[i] \in Tag
  BY LenProperties
<1> DEFINE last(k) == CHOOSE i \in DOMAIN tags :
                         tags[i].key = k /\ \A j \in i + 1..Len(tags) : tags[j].key # k
<1>2. ToMap(tags) = [k \in Keys(tags) |-> IF tags[last(k)].value = Nil THEN Empty
                                          ELSE tags[last(k)].value]
  BY DEF ToMap
<1>3. ASSUME NEW k \in Keys(tags)
      PROVE  last(k) \in DOMAIN tags /\ tags[last(k)].key = k
  <2> DEFINE S == {i \in 1..Len(tags) : tags[i].key = k}
  <2>1. S # {}
    BY <1>1 DEF Keys, Range
  <2>2. PICK i \in S : \A j \in S : j <= i
    BY <1>1, <2>1, LastOf
  <2>3. \A j \in i + 1..Len(tags) : tags[j].key # k
    BY <1>1, <2>2
  <2> QED
    BY <1>1, <2>2, <2>3
<1> HIDE DEF last
<1>4. ASSUME NEW k \in Keys(tags)
      PROVE  tags[last(k)] \in Range(tags) /\ tags[last(k)] \in Tag
  BY <1>1, <1>3 DEF Range
<1> QED
  BY <1>2, <1>3, <1>4, TagsAssumption DEF Tag

\* A list in which every key is given once, with a value.
Normal(tags) ==
    /\ tags \in Seq([key : TagKeys, value : TagValues])
    /\ \A i, j \in DOMAIN tags : tags[i].key = tags[j].key => i = j

\* A map of tags.
Mapping(map) ==
    /\ DOMAIN map \subseteq TagKeys /\ IsFiniteSet(DOMAIN map)
    /\ map = [k \in DOMAIN map |-> map[k]]
    /\ \A k \in DOMAIN map : map[k] \in TagValues

LEMMA NormalIs ==
  ASSUME NEW tags, Normal(tags)
  PROVE  /\ tags \in Seq(Tag)
         /\ \A t \in Range(tags) : t \in [key : TagKeys, value : TagValues]
         /\ \A t, u \in Range(tags) : t.key = u.key => t = u
<1>1. tags \in Seq(Tag)
  <2>1. [key : TagKeys, value : TagValues] \subseteq Tag
    BY DEF Tag
  <2> QED
    BY <2>1, SeqMonotonic DEF Normal
<1>2. \A i \in DOMAIN tags : tags[i] \in [key : TagKeys, value : TagValues]
  <2>1. tags \in Seq([key : TagKeys, value : TagValues])
    BY DEF Normal
  <2> QED
    BY <2>1, LenProperties
<1> QED
  BY <1>1, <1>2 DEF Normal, Range

\* A normal list and its map say the same.
LEMMA NormalMap ==
  ASSUME NEW tags, Normal(tags)
  PROVE  \A t \in Range(tags) : t.key \in Keys(tags) /\ ToMap(tags)[t.key] = t.value
<1>1. tags \in Seq(Tag)
  BY NormalIs
<1> SUFFICES ASSUME NEW t \in Range(tags)
             PROVE  t.key \in Keys(tags) /\ ToMap(tags)[t.key] = t.value
  OBVIOUS
<1>2. t.key \in Keys(tags)
  BY DEF Keys
<1>3. PICK u \in Range(tags) :
          u.key = t.key /\ ToMap(tags)[t.key] = IF u.value = Nil THEN Empty ELSE u.value
  BY <1>1, <1>2, ToMapIs
<1>4. u = t /\ t.value # Nil
  BY <1>3, NormalIs, TagsAssumption
<1> QED
  BY <1>2, <1>3, <1>4

LEMMA MapOfList ==
  ASSUME NEW tags \in Seq(Tag)
  PROVE  Mapping(ToMap(tags)) /\ DOMAIN ToMap(tags) = Keys(tags)
<1>1. ToMap(tags) = [k \in Keys(tags) |-> ToMap(tags)[k]]
  BY DEF ToMap
<1> QED
  BY <1>1, KeysFinite, ToMapIs DEF Mapping

\* The list of a map is normal and has its tags.
LEMMA ListOfMap ==
  ASSUME NEW map, Mapping(map)
  PROVE  /\ Normal(FromACKTags(map))
         /\ Range(FromACKTags(map)) = {[key |-> k, value |-> map[k]] : k \in DOMAIN map}
         /\ Keys(FromACKTags(map)) = DOMAIN map
         /\ ToMap(FromACKTags(map)) = map
<1> DEFINE keys == SetToSeq(DOMAIN map)
           n == Cardinality(DOMAIN map)
           tags == FromACKTags(map)
<1>1. n \in Nat /\ ExistsBijection(1..n, DOMAIN map)
  BY FS_CardinalityType DEF Mapping
<1>2. keys \in [1..n -> DOMAIN map] /\ IsInjective(keys)
  <2>1. \E f \in [1..n -> DOMAIN map] : IsInjective(f)
    BY <1>1 DEF ExistsBijection, Bijection, Injection, IsInjective
  <2> QED
    BY <2>1 DEF SetToSeq
<1>3. \A k \in DOMAIN map : \E i \in 1..n : keys[i] = k
  <2>1. IsFiniteSet(1..n) /\ Cardinality(1..n) = n
    BY <1>1, FS_Interval
  <2>2. keys \in Injection(1..n, DOMAIN map)
    BY <1>2 DEF Injection, IsInjective
  <2>3. keys \in Surjection(1..n, DOMAIN map)
    BY <2>1, <2>2, FS_Injection DEF Mapping
  <2> QED
    BY <2>3 DEF Surjection
<1> HIDE DEF keys, n
<1>4. tags = [i \in 1..n |-> [key |-> keys[i], value |-> map[keys[i]]]]
  BY <1>2 DEF FromACKTags, keys
<1> HIDE DEF tags
<1>5. Normal(tags)
  <2>1. \A i \in 1..n : keys[i] \in TagKeys /\ map[keys[i]] \in TagValues
    BY <1>2 DEF Mapping
  <2>2. tags \in [1..n -> [key : TagKeys, value : TagValues]]
    BY <1>4, <2>1
  <2>3. tags \in Seq([key : TagKeys, value : TagValues])
    <3>1. ASSUME NEW S, NEW f \in [1..n -> S]
          PROVE  f \in Seq(S)
      BY <1>1
    <3> QED
      BY <2>2, <3>1
  <2> QED
    BY <1>2, <1>4, <2>3 DEF Normal, IsInjective
<1>6. Range(tags) = {[key |-> k, value |-> map[k]] : k \in DOMAIN map}
  BY <1>2, <1>3, <1>4 DEF Range
<1>7. Keys(tags) = DOMAIN map
  <2>1. ASSUME NEW k \in DOMAIN map
        PROVE  k \in Keys(tags)
    <3>1. [key |-> k, value |-> map[k]] \in Range(tags)
      BY <1>6
    <3>2. [key |-> k, value |-> map[k]].key = k
      OBVIOUS
    <3> QED
      BY <3>1, <3>2 DEF Keys
  <2>2. \A t \in Range(tags) : t.key \in DOMAIN map
    BY <1>6
  <2> QED
    BY <2>1, <2>2 DEF Keys
<1>8. ToMap(tags) = map
  <2>1. ASSUME NEW k \in DOMAIN map
        PROVE  ToMap(tags)[k] = map[k]
    <3>1. [key |-> k, value |-> map[k]] \in Range(tags)
      BY <1>6
    <3>2. /\ [key |-> k, value |-> map[k]].key = k
          /\ [key |-> k, value |-> map[k]].value = map[k]
      OBVIOUS
    <3> QED
      BY <1>5, <3>1, <3>2, NormalMap
  <2>2. ToMap(tags) = [k \in DOMAIN map |-> ToMap(tags)[k]]
    BY <1>7 DEF ToMap
  <2> QED
    BY <2>1, <2>2 DEF Mapping
<1> QED
  BY <1>5, <1>6, <1>7, <1>8 DEF tags

-----------------------------------------------------------------------------
\* What the controller does with lists of tags, as sets of tags.
LEMMA MergedIs ==
  ASSUME NEW f, Mapping(f), NEW g, Mapping(g)
  PROVE  Mapping(Over(f, g)) /\ DOMAIN Over(f, g) = DOMAIN f \cup DOMAIN g
<1>1. IsFiniteSet(DOMAIN f \cup DOMAIN g)
  BY FS_Union DEF Mapping
<1> QED
  BY <1>1 DEF Mapping, Over

LEMMA RestrictedIs ==
  ASSUME NEW f, Mapping(f), NEW S \in SUBSET DOMAIN f
  PROVE  Mapping(Restrict(f, S)) /\ DOMAIN Restrict(f, S) = S
<1>1. IsFiniteSet(S)
  BY FS_Subset DEF Mapping
<1> QED
  BY <1>1 DEF Mapping, Restrict

LEMMA EnsuredIs ==
  ASSUME NEW tags \in Seq(Tag)
  PROVE  /\ Normal(EnsureTags(tags))
         /\ Keys(tags) \cap SystemKeys = {} => Keys(EnsureTags(tags)) \cap SystemKeys = {}
<1> DEFINE map == Over(ToMap(tags), ControllerTags)
<1>1. Mapping(ToMap(tags)) /\ DOMAIN ToMap(tags) = Keys(tags)
  BY MapOfList
<1>2. Mapping(ControllerTags) /\ DOMAIN ControllerTags \cap SystemKeys = {}
  BY TagsAssumption DEF Mapping
<1>3. Mapping(map) /\ DOMAIN map = Keys(tags) \cup DOMAIN ControllerTags
  BY <1>1, <1>2, MergedIs
<1> HIDE DEF map
<1>4. Normal(FromACKTags(map)) /\ Keys(FromACKTags(map)) = DOMAIN map
  BY <1>3, ListOfMap
<1>5. EnsureTags(tags) = FromACKTags(map)
  BY DEF EnsureTags, map
<1> QED
  BY <1>2, <1>3, <1>4, <1>5

\* Nothing joins the desired tags when none of those found is AWS's.
LEMMA MirroredIs ==
  ASSUME NEW d, Normal(d), NEW l \in Seq(Tag)
  PROVE  /\ Normal(MirrorAWSTags(d, l))
         /\ Keys(l) \cap SystemKeys = {} => Range(MirrorAWSTags(d, l)) = Range(d)
<1> DEFINE aws == Restrict(ToMap(l), Keys(l) \cap SystemKeys)
           map == Over(aws, ToMap(d))
<1>1. Mapping(ToMap(l)) /\ DOMAIN ToMap(l) = Keys(l)
  BY MapOfList
<1>2. Mapping(ToMap(d)) /\ DOMAIN ToMap(d) = Keys(d)
  BY NormalIs, MapOfList
<1>3. Mapping(aws) /\ DOMAIN aws = Keys(l) \cap SystemKeys
  BY <1>1, RestrictedIs
<1> HIDE DEF aws
<1>4. Mapping(map) /\ DOMAIN map = DOMAIN aws \cup Keys(d)
  BY <1>2, <1>3, MergedIs
<1>5. \A k \in Keys(d) : k \notin DOMAIN aws => map[k] = ToMap(d)[k]
  BY <1>2 DEF Over
<1> HIDE DEF map
<1>6. /\ Normal(FromACKTags(map))
      /\ Range(FromACKTags(map)) = {[key |-> k, value |-> map[k]] : k \in DOMAIN map}
  BY <1>4, ListOfMap
<1>7. MirrorAWSTags(d, l) = FromACKTags(map)
  BY DEF MirrorAWSTags, map, aws
<1>8. ASSUME Keys(l) \cap SystemKeys = {}
      PROVE  {[key |-> k, value |-> map[k]] : k \in DOMAIN map} = Range(d)
  <2>1. DOMAIN map = Keys(d) /\ \A k \in Keys(d) : map[k] = ToMap(d)[k]
    BY <1>3, <1>4, <1>5, <1>8
  <2>2. ASSUME NEW t \in Range(d)
        PROVE  t.key \in Keys(d) /\ t = [key |-> t.key, value |-> map[t.key]]
    <3>1. t.key \in Keys(d) /\ ToMap(d)[t.key] = t.value
      BY NormalMap
    <3>2. t \in [key : TagKeys, value : TagValues]
      BY NormalIs
    <3> QED
      BY <2>1, <3>1, <3>2
  <2>3. ASSUME NEW k \in Keys(d)
        PROVE  [key |-> k, value |-> map[k]] \in Range(d)
    <3>1. PICK t \in Range(d) : t.key = k
      BY DEF Keys
    <3> QED
      BY <2>2, <3>1
  <2> QED
    BY <2>1, <2>2, <2>3
<1> QED
  BY <1>6, <1>7, <1>8

LEMMA AddedIs ==
  ASSUME NEW d, Normal(d), NEW l
  PROVE  /\ ToAdd(d, l) \subseteq [key : TagKeys, value : TagValues]
         /\ \A t, u \in ToAdd(d, l) : t.key = u.key => t = u
         /\ IsFiniteSet({t.key : t \in ToAdd(d, l)})
<1>1. {t.key : t \in ToAdd(d, l)} \subseteq Keys(d) /\ IsFiniteSet(Keys(d))
  BY NormalIs, KeysFinite DEF Keys, ToAdd
<1>2. IsFiniteSet({t.key : t \in ToAdd(d, l)})
  BY <1>1, FS_Subset
<1> QED
  BY <1>2, NormalIs DEF ToAdd

LEMMA TaggedIs ==
  ASSUME NEW tags, Normal(tags), NEW added \in SUBSET [key : TagKeys, value : TagValues],
         \A t, u \in added : t.key = u.key => t = u,
         IsFiniteSet({t.key : t \in added})
  PROVE  /\ Normal(Tagged(tags, added))
         /\ Range(Tagged(tags, added)) =
               added \cup {t \in Range(tags) : \A u \in added : u.key # t.key}
<1> DEFINE K == {t.key : t \in added}
           f == [k \in K |-> (CHOOSE t \in added : t.key = k).value]
           map == Over(f, ToMap(tags))
<1>1. Mapping(ToMap(tags)) /\ DOMAIN ToMap(tags) = Keys(tags)
  BY NormalIs, MapOfList
<1>2. added \subseteq [key : TagKeys, value : TagValues]
      /\ \A t, u \in added : t.key = u.key => t = u
  OBVIOUS
<1>3. \A t \in added : t.key \in K /\ f[t.key] = t.value
  BY <1>2
<1>4. Mapping(f) /\ DOMAIN f = K
  <2>1. IsFiniteSet(K)
    OBVIOUS
  <2>2. \A k \in K : k \in TagKeys /\ f[k] \in TagValues
    BY <1>2, <1>3
  <2>3. DOMAIN f = K /\ f = [k \in K |-> f[k]]
    OBVIOUS
  <2> HIDE DEF f
  <2> QED
    BY <2>1, <2>2, <2>3 DEF Mapping
<1> HIDE DEF f
<1>5. Mapping(map) /\ DOMAIN map = K \cup Keys(tags)
  BY <1>1, <1>4, MergedIs
<1>6. \A k \in DOMAIN map : map[k] = IF k \in K THEN f[k] ELSE ToMap(tags)[k]
  BY <1>4 DEF Over
<1> HIDE DEF map
<1>7. /\ Normal(FromACKTags(map))
      /\ Range(FromACKTags(map)) = {[key |-> k, value |-> map[k]] : k \in DOMAIN map}
  BY <1>5, ListOfMap
<1>8. Tagged(tags, added) = FromACKTags(map)
  BY DEF Tagged, map, f
<1> DEFINE rest == {t \in Range(tags) : \A u \in added : u.key # t.key}
<1>9. ASSUME NEW t \in added \cup rest
      PROVE  t.key \in DOMAIN map /\ t = [key |-> t.key, value |-> map[t.key]]
  <2>1. CASE t \in added
    BY <1>2, <1>3, <1>5, <1>6, <2>1
  <2>2. CASE t \in rest
    <3>1. t.key \in Keys(tags) /\ ToMap(tags)[t.key] = t.value /\ t.key \notin K
      BY <2>2, NormalMap
    <3>2. t \in [key : TagKeys, value : TagValues]
      BY <2>2, NormalIs
    <3> QED
      BY <1>5, <1>6, <3>1, <3>2
  <2> QED
    BY <2>1, <2>2
<1>10. ASSUME NEW k \in DOMAIN map
       PROVE  [key |-> k, value |-> map[k]] \in added \cup rest
  <2>1. PICK t \in added \cup rest : t.key = k
    <3>1. CASE k \in K
      BY <3>1
    <3>2. CASE k \notin K
      BY <1>5, <3>2 DEF Keys
    <3> QED
      BY <3>1, <3>2
  <2> QED
    BY <1>9, <2>1
<1> HIDE DEF rest
<1>11. {[key |-> k, value |-> map[k]] : k \in DOMAIN map} = added \cup rest
  BY <1>9, <1>10
<1> QED
  BY <1>7, <1>8, <1>11 DEF rest

LEMMA UntaggedIs ==
  ASSUME NEW tags, Normal(tags), NEW removed
  PROVE  /\ Normal(Untagged(tags, removed))
         /\ Range(Untagged(tags, removed)) =
               {t \in Range(tags) : \A u \in removed : u.key # t.key}
<1> DEFINE K == Keys(tags) \ {t.key : t \in removed}
           map == Restrict(ToMap(tags), K)
           rest == {t \in Range(tags) : \A u \in removed : u.key # t.key}
<1>1. Mapping(ToMap(tags)) /\ DOMAIN ToMap(tags) = Keys(tags)
  BY NormalIs, MapOfList
<1>2. Mapping(map) /\ DOMAIN map = K
  BY <1>1, RestrictedIs
<1>3. \A k \in K : map[k] = ToMap(tags)[k]
  BY DEF Restrict
<1> HIDE DEF map
<1>4. /\ Normal(FromACKTags(map))
      /\ Range(FromACKTags(map)) = {[key |-> k, value |-> map[k]] : k \in DOMAIN map}
  BY <1>2, ListOfMap
<1>5. Untagged(tags, removed) = FromACKTags(map)
  BY DEF Untagged, map
<1>6. ASSUME NEW t \in rest
      PROVE  t.key \in K /\ t = [key |-> t.key, value |-> map[t.key]]
  <2>1. t.key \in K /\ ToMap(tags)[t.key] = t.value
    BY NormalMap
  <2>2. t \in [key : TagKeys, value : TagValues]
    BY NormalIs
  <2> QED
    BY <1>3, <2>1, <2>2
<1>7. ASSUME NEW k \in K
      PROVE  [key |-> k, value |-> map[k]] \in rest
  <2>1. PICK t \in rest : t.key = k
    BY DEF Keys
  <2> QED
    BY <1>6, <2>1
<1> HIDE DEF rest, K
<1>8. {[key |-> k, value |-> map[k]] : k \in DOMAIN map} = rest
  BY <1>2, <1>6, <1>7
<1> QED
  BY <1>4, <1>5, <1>8 DEF rest

\* compareTags finds every difference, though the list may have the tags twice.
LEMMA ComparedIs ==
  ASSUME NEW d, Normal(d), NEW o, Normal(o), NEW l \in Seq(Tag), Range(l) = Range(o),
         ~CompareTags(d, l)
  PROVE  Range(d) = Range(o)
<1> DEFINE first(k) == l[CHOOSE i \in DOMAIN l :
                            l[i].key = k /\ \A j \in 1..(i - 1) : l[j].key # k]
           common == Keys(d) \cap Keys(l)
           changed == {t \in Range(d) :
                          t.key \in common /\ ~EqualStrings(t.value, first(t.key).value)}
<1>1. /\ {first(t.key) : t \in changed} \cup {t \in Range(l) : t.key \notin common} = {}
      /\ Keys(d) \ common = {}
  BY DEF CompareTags, EqualTags, ComputeTagsDelta
<1> HIDE DEF changed
<1>2. changed = {} /\ Keys(d) = Keys(l)
  <2> HIDE DEF first
  <2>1. ASSUME NEW t \in changed
        PROVE  FALSE
    <3>1. first(t.key) \in {first(u.key) : u \in changed}
      OBVIOUS
    <3> QED
      BY <1>1, <3>1
  <2>2. \A t \in Range(l) : t.key \in Keys(d)
    BY <1>1
  <2>3. Keys(l) \subseteq Keys(d)
    BY <2>2 DEF Keys
  <2> QED
    BY <1>1, <2>1, <2>3
<1>3. ASSUME NEW k \in Keys(l)
      PROVE  first(k) \in Range(l) /\ first(k).key = k
  <2>1. Len(l) \in Nat /\ DOMAIN l = 1..Len(l)
    BY LenProperties
  <2> DEFINE S == {i \in 1..Len(l) : l[i].key = k}
  <2>2. S # {}
    BY <2>1 DEF Keys, Range
  <2>3. PICK i \in S : \A j \in S : i <= j
    BY <2>1, <2>2, FirstOf
  <2>4. \A j \in 1..(i - 1) : l[j].key # k
    BY <2>1, <2>3
  <2>5. \E m \in DOMAIN l : l[m].key = k /\ \A j \in 1..(m - 1) : l[j].key # k
    BY <2>1, <2>4
  <2> QED
    BY <2>5 DEF Range
<1>4. ASSUME NEW t \in Range(d)
      PROVE  t \in Range(o)
  <2>1. t.key \in Keys(l) /\ t.key \in common
    BY <1>2 DEF Keys
  <2>2. EqualStrings(t.value, first(t.key).value)
    BY <1>2, <2>1 DEF changed
  <2>3. first(t.key) \in Range(o) /\ first(t.key).key = t.key
    BY <1>3, <2>1
  <2>4. t \in [key : TagKeys, value : TagValues]
        /\ first(t.key) \in [key : TagKeys, value : TagValues]
    BY <2>3, NormalIs
  <2> HIDE DEF first
  <2>5. t.value = first(t.key).value
    BY <2>2, <2>4, TagsAssumption DEF EqualStrings
  <2>6. t = first(t.key)
    BY <2>3, <2>4, <2>5
  <2> QED
    BY <2>3, <2>6
<1>5. ASSUME NEW t \in Range(o)
      PROVE  t \in Range(d)
  <2>1. t.key \in Keys(d)
    BY <1>2 DEF Keys
  <2>2. PICK u \in Range(d) : u.key = t.key
    BY <2>1 DEF Keys
  <2>3. u = t
    BY <1>4, <2>2, NormalIs
  <2> QED
    BY <2>3
<1> QED
  BY <1>4, <1>5

-----------------------------------------------------------------------------
SoundUser == Sound(Content, Places, Calls)

Reads == {"listPolicies", "listInline", "readInline", "listTags"}

\* The calls that are left: only after a reading that is complete, and what is put has
\* a document.  Tags are normal in IAM, and once EnsureTags has completed the desired ones.
Shape ==
    /\ SoundUser
    /\ (todo # {}) = (pc \in {"readInline", "update"})
    /\ pc \in Reads \cup {"update", "patch"} => latest \in Content
    /\ pc \in Reads \cup {"read", "update"} => op # "create"
    /\ pc \in {"manage", "create"} => op = "sync"
    /\ exists => Normal(object.tags)
    /\ pc \notin {"idle", "read"} /\ op # "delete" => Normal(desired.tags)
    /\ pc = "update" =>
           /\ \A n \in InlineNames : <<"PutUserPolicy", n>> \in todo => desired.inline[n] # None
           /\ op = "delete" => <<"TagUser", None>> \notin todo

Undisturbed == budget["drift"] = Budget["drift"]

\* A reconcile of a CR that is to stay, without anybody else at work.
Alone == op = "sync" /\ Undisturbed

\* The tags that a spec asks for, with those of the controller.
Ensured(s) == Range(EnsureTags(s.tags))

\* All tags come from specs.
Origin ==
    /\ \E s \in Specs : cr.spec.tags = s.tags
    /\ pc = "read" => \E s \in Specs : desired.tags = s.tags
    /\ Undisturbed /\ exists => \A t \in Range(object.tags) : \E s \in Specs : t \in Ensured(s)
    /\ Undisturbed /\ pc \notin {"idle", "read"} /\ op # "delete" =>
           \E s \in Specs : Range(desired.tags) = Ensured(s)

\* What has been read is what is there.
ReadProgress ==
    pc \in Reads =>
        /\ exists
        /\ latest.path = object.path /\ latest.boundary = object.boundary
        /\ pc # "listPolicies" => latest.policies = object.policies
        /\ pc \in {"readInline", "listTags"} => \A n \in InlineNames :
               latest.inline[n] = object.inline[n] \/ <<"GetUserPolicy", n>> \in todo
        /\ pc = "listTags" => Range(latest.tags) \subseteq Range(object.tags)

PoliciesProgress ==
    /\ \A p \in desired.policies :
           p \in object.policies \/ <<"AttachUserPolicy", p>> \in todo
    /\ \A p \in object.policies \ desired.policies : <<"DetachUserPolicy", p>> \in todo
    /\ \A p \in PolicyARNs :
           /\ <<"DetachUserPolicy", p>> \in todo => p \notin desired.policies
           /\ <<"AttachUserPolicy", p>> \in todo => p \in desired.policies

InlineProgress ==
    \A n \in InlineNames :
        IF desired.inline[n] = None
        THEN object.inline[n] = None \/ <<"DeleteUserPolicy", n>> \in todo
        ELSE /\ \/ object.inline[n] \in {desired.inline[n], Unescape[desired.inline[n]]}
                \/ <<"PutUserPolicy", n>> \in todo
             /\ <<"DeleteUserPolicy", n>> \notin todo

\* A tag that is not desired is still to be taken off, with all of its key.  That loses a
\* desired one only where specs disagree about a value.
TagsProgress ==
    /\ \A t \in Range(object.tags) \ Range(desired.tags) :
           /\ <<"UntagUser", None>> \in todo
           /\ \E u \in ToRemove(desired.tags, latest.tags) : u.key = t.key
    /\ \A t \in Range(desired.tags) :
           \/ t.key \in Keys(object.tags) \cup Contested
           \/ <<"TagUser", None>> \in todo /\ t \in ToAdd(desired.tags, latest.tags)
    /\ <<"UntagUser", None>> \in todo =>
           \A u \in ToRemove(desired.tags, latest.tags) :
               u.key \in Keys(desired.tags) => u.key \in Contested

BoundaryProgress ==
    /\ \/ object.boundary = desired.boundary
       \/ SyncUserPermissionsBoundary(desired) \subseteq todo
    /\ \A p \in PolicyARNs :
           <<"PutUserPermissionsBoundary", p>> \in todo => p = desired.boundary
    /\ <<"DeleteUserPermissionsBoundary", None>> \in todo => desired.boundary = None

PathProgress ==
    /\ desired.path \in {None, object.path} \/ <<"UpdateUser", desired.path>> \in todo
    /\ \A p \in Maybe(Paths) : <<"UpdateUser", p>> \in todo => p = desired.path

AllProgress ==
    PoliciesProgress /\ InlineProgress /\ TagsProgress /\ BoundaryProgress /\ PathProgress

\* What the user is not yet is still to be done.
UpdateProgress ==
    pc \in {"update", "lateInit", "patch"} =>
        /\ exists
        /\ AllProgress
        /\ pc = "patch" => latest.path = object.path

Progress == Alone => ReadProgress /\ UpdateProgress

\* Does the completed copy d say what s does?
Agrees(d, s) ==
    /\ d.policies = s.policies /\ d.inline = s.inline
    /\ d.boundary = s.boundary /\ d.path = s.path
    /\ Range(d.tags) = Ensured(s)

\* The queue knows what the reconcile does not.
QueueInv ==
    /\ budget["drift"] <= Budget["drift"]
    /\ Undisturbed =>
           /\ op = "sync" /\ pc # "idle" =>
                 \/ queued \/ ~cr.here
                 \/ IF pc = "read" THEN cr.spec = desired ELSE Agrees(desired, cr.spec)
           /\ pc # "idle" /\ op = "delete" => cr.deleting
           /\ pc \in {"lateInit", "patch"} => op # "delete"
           /\ NothingForgotten

Inv == Shape /\ Origin /\ Progress /\ QueueInv

\* May d be the desired copy from here on?
Completed(d) ==
    /\ d \in Content
    /\ op # "delete" => Normal(d.tags)
    /\ Undisturbed /\ op # "delete" => \E s \in Specs : Range(d.tags) = Ensured(s)
    /\ Alone => queued \/ ~cr.here \/ Agrees(d, cr.spec)

-----------------------------------------------------------------------------
\* The types of what the user and its copies hold.
LEMMA ContentTypes ==
  ASSUME NEW o \in Content
  PROVE  /\ o.policies \subseteq PolicyARNs /\ o.inline \in [InlineNames -> Maybe(Docs)]
         /\ o.tags \in Seq(Tag) /\ o.boundary \in Maybe(PolicyARNs) /\ o.path \in Maybe(Paths)
         /\ o # None /\ \A n \in InlineNames : o.inline[n] \in Maybe(Docs)
  BY UserAssumption DEF Content

\* A reconcile that is over leaves nothing behind in its todo, and the CR in the queue
\* unless that is all there is to say.
LEMMA EndInv ==
  ASSUME Inv, SoundUser', Idle, object' = object, cr'.spec.tags = cr.spec.tags,
         budget'["drift"] = budget["drift"], queued' \/ ~cr'.here
  PROVE  Inv'
<1>1. pc' = "idle" /\ op' = "sync" /\ todo' = {}
  BY DEF Idle
<1>2. Shape'
  BY <1>1 DEF Inv, Shape, Reads, exists
<1>3. Origin'
  BY <1>1 DEF Inv, Origin, Undisturbed, exists
<1>4. Progress'
  BY <1>1 DEF Progress, ReadProgress, UpdateProgress, Reads
<1>5. QueueInv'
  BY <1>1 DEF Inv, QueueInv, Undisturbed, NothingForgotten
<1> QED
  BY <1>2, <1>3, <1>4, <1>5 DEF Inv

LEMMA SpendDrift ==
  ASSUME Inv, NEW w \in Misfortunes, w # "drift", Spend(w)
  PROVE  budget'["drift"] = budget["drift"] /\ budget' \in [Misfortunes -> Nat]
<1>1. budget \in [Misfortunes -> Nat] /\ "drift" \in Misfortunes /\ SoundUser
  BY DEF Inv, Shape, SoundUser, Sound, CommonTypes, Misfortunes
<1>2. budget' = [budget EXCEPT ![w] = @ - 1] /\ budget[w] > 0
  BY DEF Spend
<1>3. budget'["drift"] = budget["drift"]
  BY <1>1, <1>2
<1> QED
  BY <1>1, <1>3, SpendSound DEF SoundUser

LEMMA RefusedInv ==
  ASSUME Inv, Refused("Recoverable") \/ CallFails
  PROVE  Inv'
<1>1. SoundUser /\ cr \in CRType(Content) /\ id \in BOOLEAN
  BY DEF Inv, Shape, SoundUser, Sound, CommonTypes, CRType
<1>2. "Recoverable" \in Outcomes /\ "fault" \in Misfortunes
  BY DEF Outcomes, Misfortunes
<1>3. SoundUser'
  BY <1>1, <1>2, RefusedSound DEF SoundUser
<1>4. Finish("Recoverable") /\ object' = object
  BY DEF Refused, CallFails
<1>5. budget'["drift"] = budget["drift"]
  BY <1>2, SpendDrift DEF CallFails, Refused
<1>6. Idle /\ cr' = [cr EXCEPT !.id = @ \/ id] /\ queued' = (queued \/ "Recoverable" \in {"Unsynced", "Recoverable"})
  BY <1>4 DEF Finish, FinishWith
<1>7. queued' /\ cr'.spec = cr.spec
  BY <1>1, <1>6 DEF CRType
<1> QED
  BY <1>3, <1>4, <1>5, <1>6, <1>7, EndInv

LEMMA CodeOutcome ==
  ASSUME NEW code, code # "InvalidInput"
  PROVE  terminalAWSError(code) = "Recoverable"
  BY DEF terminalAWSError

\* A step between two calls, with the desired copy d, leaves what the queue knows as it is.
LEMMA GoesOnInv ==
  ASSUME Inv, pc # "idle", NEW q, q \notin {"idle", "read"}, Goto(q), NEW d, Completed(d),
         desired' = d, op' = op \/ (op = "sync" /\ op' = "create"),
         q \in {"lateInit", "patch"} => op' # "delete",
         Undisturbed /\ exists' => \A t \in Range(object'.tags) : \E s \in Specs : t \in Ensured(s)
  PROVE  Origin' /\ QueueInv'
<1>1. cr' = cr /\ cond' = cond /\ queued' = queued /\ drift' = drift /\ budget' = budget /\ pc' = q
  BY DEF Goto
<1>2. Origin'
  BY <1>1 DEF Inv, Origin, Completed, Undisturbed
<1>3. QueueInv'
  BY <1>1 DEF Inv, QueueInv, Completed, Alone, Undisturbed, NothingForgotten
<1> QED
  BY <1>2, <1>3

LEMMA DesiredStays ==
  ASSUME Inv, pc \notin {"idle", "read"}
  PROVE  Completed(desired)
  BY DEF Inv, Shape, SoundUser, Sound, Origin, QueueInv, Completed, Alone

-----------------------------------------------------------------------------
\* The types of the calls.
LEMMA CallTypes ==
  ASSUME NEW d \in Content, NEW l \in Content
  PROVE  /\ SyncManagedPolicies(d, l) \subseteq Calls /\ SyncInlinePolicies(d, l) \subseteq Calls
         /\ Changes(d, l) \subseteq Calls
<1>1. SyncManagedPolicies(d, l) \subseteq Calls
  BY ContentTypes DEF SyncManagedPolicies, Calls
<1>2. SyncInlinePolicies(d, l) \subseteq Calls
  BY DEF SyncInlinePolicies, Calls
<1>3. <<"UpdateUser", d.path>> \in Calls
  BY ContentTypes DEF Calls
<1>4. SyncTags(d, l) \subseteq Calls
  BY DEF SyncTags, When, Calls
<1>5. SyncUserPermissionsBoundary(d) \subseteq Calls
  BY ContentTypes DEF SyncUserPermissionsBoundary, Calls, Maybe
<1> QED
  BY <1>1, <1>2, <1>3, <1>4, <1>5 DEF Changes, When

\* The calls of an update are just those for the differences.
LEMMA PolicyChanges ==
  ASSUME NEW d \in Content, NEW l \in Content
  PROVE  /\ \A p \in PolicyARNs :
               /\ <<"AttachUserPolicy", p>> \in Changes(d, l) <=> p \in d.policies \ l.policies
               /\ <<"DetachUserPolicy", p>> \in Changes(d, l) <=> p \in l.policies \ d.policies
         /\ \A n \in InlineNames :
               /\ <<"PutUserPolicy", n>> \in Changes(d, l)
                     <=> d.inline[n] \notin {None, l.inline[n]}
               /\ <<"DeleteUserPolicy", n>> \in Changes(d, l)
                     <=> l.inline[n] # None /\ d.inline[n] = None
  BY DEF Changes, SyncManagedPolicies, SyncInlinePolicies, SyncTags, SyncUserPermissionsBoundary,
         When

LEMMA OtherChanges ==
  ASSUME NEW d \in Content, NEW l \in Content
  PROVE  /\ <<"TagUser", None>> \in Changes(d, l)
               <=> CompareTags(d.tags, l.tags) /\ ToAdd(d.tags, l.tags) # {}
         /\ <<"UntagUser", None>> \in Changes(d, l)
               <=> CompareTags(d.tags, l.tags) /\ ToRemove(d.tags, l.tags) # {}
         /\ d.boundary # l.boundary => SyncUserPermissionsBoundary(d) \subseteq Changes(d, l)
         /\ \A p \in PolicyARNs :
               <<"PutUserPermissionsBoundary", p>> \in Changes(d, l) => p = d.boundary
         /\ <<"DeleteUserPermissionsBoundary", None>> \in Changes(d, l) => d.boundary = None
         /\ \A p \in Maybe(Paths) :
               <<"UpdateUser", p>> \in Changes(d, l) <=> d.path # l.path /\ p = d.path
  BY DEF Changes, SyncManagedPolicies, SyncInlinePolicies, SyncTags, SyncUserPermissionsBoundary,
         When

LEMMA EmptyingIs ==
  ASSUME NEW l \in Content
  PROVE  /\ Emptying(l) \subseteq Calls
         /\ \A n \in InlineNames : <<"PutUserPolicy", n>> \notin Emptying(l)
         /\ <<"TagUser", None>> \notin Emptying(l)
<1> DEFINE bare == [l EXCEPT !.policies = {}]
           blank == [l EXCEPT !.inline = NoInline]
<1>1. bare \in Content /\ blank \in Content /\ blank.inline = NoInline
  BY DEF Content, NoInline, Maybe
<1>2. Emptying(l) = SyncManagedPolicies(bare, l) \cup SyncInlinePolicies(blank, l)
  BY DEF Emptying
<1>3. \A n \in InlineNames : blank.inline[n] = None
  BY <1>1 DEF NoInline
<1> HIDE DEF bare, blank
<1>4. Emptying(l) \subseteq Calls
  BY <1>1, <1>2, CallTypes
<1>5. <<"TagUser", None>> \notin Emptying(l)
  BY <1>2 DEF SyncManagedPolicies, SyncInlinePolicies
<1>6. ASSUME NEW n \in InlineNames
      PROVE  <<"PutUserPolicy", n>> \notin Emptying(l)
  BY <1>2, <1>3 DEF SyncManagedPolicies, SyncInlinePolicies
<1> QED
  BY <1>4, <1>5, <1>6

-----------------------------------------------------------------------------
\* Where the desired copy is changed: by EnsureTags, and by the tags of AWS.
LEMMA EnsuredCompleted ==
  ASSUME Inv, pc = "read", NEW d,
         d = IF op = "delete" THEN desired
             ELSE [desired EXCEPT !.tags = EnsureTags(desired.tags)]
  PROVE  Completed(d)
<1>1. desired \in Content /\ op \in {"sync", "create", "delete"} /\ op # "create"
  BY DEF Inv, Shape, SoundUser, Sound, CommonTypes
<1>2. CASE op = "delete"
  BY <1>1, <1>2 DEF Completed, Alone
<1>3. CASE op # "delete"
  <2>1. Normal(EnsureTags(desired.tags))
    BY <1>1, ContentTypes, EnsuredIs
  <2>2. EnsureTags(desired.tags) \in Seq(Tag)
    BY <2>1, NormalIs
  <2>3. /\ d \in Content /\ d.tags = EnsureTags(desired.tags) /\ d.policies = desired.policies
        /\ d.inline = desired.inline /\ d.boundary = desired.boundary /\ d.path = desired.path
    BY <1>1, <1>3, <2>2 DEF Content
  <2>4. PICK s \in Specs : desired.tags = s.tags
    BY DEF Inv, Origin
  <2>5. Range(d.tags) = Ensured(s)
    BY <2>3, <2>4 DEF Ensured
  <2>6. Alone => queued \/ ~cr.here \/ cr.spec = desired
    BY DEF Alone, Inv, QueueInv
  <2>7. cr.spec = desired => Agrees(d, cr.spec)
    BY <2>3 DEF Agrees, Ensured
  <2> QED
    BY <2>1, <2>3, <2>5, <2>6, <2>7 DEF Completed
<1> QED
  BY <1>2, <1>3

\* A spec never has tags of AWS, so that none of those that come from specs is one.
LEMMA NoSystemKeys ==
  ASSUME NEW s \in Specs, NEW t \in Ensured(s)
  PROVE  t.key \notin SystemKeys
<1>1. s.tags \in Seq(Tag) /\ Keys(s.tags) \cap SystemKeys = {}
  BY UserAssumption, ContentTypes
<1>2. t.key \in Keys(EnsureTags(s.tags))
  BY DEF Ensured, Keys
<1> QED
  BY <1>1, <1>2, EnsuredIs

LEMMA MirroredCompleted ==
  ASSUME Inv, exists, pc = "listTags", NEW l \in Content,
         Undisturbed /\ op # "delete" => Range(l.tags) = Range(object.tags),
         NEW d, d = IF op = "delete" THEN desired
                    ELSE [desired EXCEPT !.tags = MirrorAWSTags(desired.tags, l.tags)]
  PROVE  Completed(d)
<1>1. Completed(desired) /\ desired \in Content
  BY DesiredStays DEF Completed
<1>2. CASE op = "delete"
  BY <1>1, <1>2
<1>3. CASE op # "delete"
  <2>1. Normal(desired.tags) /\ l.tags \in Seq(Tag)
    BY <1>1, <1>3, ContentTypes DEF Completed
  <2>2. Normal(MirrorAWSTags(desired.tags, l.tags))
    BY <2>1, MirroredIs
  <2>3. MirrorAWSTags(desired.tags, l.tags) \in Seq(Tag)
    BY <2>2, NormalIs
  <2>4. /\ d \in Content /\ d.tags = MirrorAWSTags(desired.tags, l.tags)
        /\ d.policies = desired.policies /\ d.inline = desired.inline
        /\ d.boundary = desired.boundary /\ d.path = desired.path
    BY <1>1, <1>3, <2>3 DEF Content
  <2>5. ASSUME Undisturbed
        PROVE  Range(d.tags) = Range(desired.tags)
    <3>1. \A t \in Range(l.tags) : t.key \notin SystemKeys
      BY <1>3, <2>5, NoSystemKeys DEF Inv, Origin
    <3>2. Keys(l.tags) \cap SystemKeys = {}
      BY <3>1 DEF Keys
    <3> QED
      BY <2>1, <2>4, <3>2, MirroredIs
  <2> QED
    BY <1>1, <1>3, <2>2, <2>4, <2>5 DEF Completed, Alone, Agrees
<1> QED
  BY <1>2, <1>3

-----------------------------------------------------------------------------
\* The next call of a reading.
LEMMA ReadingInv ==
  ASSUME Inv, exists, NEW q \in Reads, NEW l \in Content, NEW calls \in SUBSET Calls,
         NEW d, Completed(d),
         pc \in Reads \cup {"read"}, Goto(q), latest' = l, todo' = calls, desired' = d,
         UNCHANGED <<object, op, id>>,
         (calls # {}) = (q = "readInline"),
         Alone =>
            /\ l.path = object.path /\ l.boundary = object.boundary
            /\ q # "listPolicies" => l.policies = object.policies
            /\ q \in {"readInline", "listTags"} => \A n \in InlineNames :
                   l.inline[n] = object.inline[n] \/ <<"GetUserPolicy", n>> \in calls
            /\ q = "listTags" => Range(l.tags) \subseteq Range(object.tags)
  PROVE  Inv'
<1>1. /\ SoundUser /\ pc # "idle" /\ op # "create"
      /\ op \in {"sync", "create", "delete"} /\ id \in BOOLEAN /\ d \in Content
      /\ object \in Content \cup {None} /\ Normal(object.tags)
  BY DEF Inv, Shape, SoundUser, Sound, CommonTypes, Reads, Completed
<1>2. /\ pc' = q /\ object' = object /\ op' = op /\ id' = id /\ desired' = d
      /\ UNCHANGED <<cr, cond, queued, drift, budget>>
  BY DEF Goto
<1>3. q \in Places /\ q \notin {"idle", "read", "update", "lateInit", "patch", "manage", "create"}
  BY DEF Reads, Places
<1>4. SoundUser'
  BY <1>1, <1>2, <1>3, GotoSound DEF SoundUser
<1>5. Shape'
  BY <1>1, <1>2, <1>3, <1>4 DEF Shape, Completed
<1>6. Progress'
  BY <1>2, <1>3 DEF Progress, ReadProgress, UpdateProgress, Alone, Undisturbed, exists
<1>7. Undisturbed /\ exists' => \A t \in Range(object'.tags) : \E s \in Specs : t \in Ensured(s)
  BY <1>2 DEF Inv, Origin
<1>8. Origin' /\ QueueInv'
  BY <1>1, <1>2, <1>3, <1>7, GoesOnInv
<1> QED
  BY <1>5, <1>6, <1>8 DEF Inv

LEMMA ContestedIs ==
  ASSUME NEW s \in Specs, NEW r \in Specs, NEW t \in Ensured(s), NEW u \in Ensured(r),
         t.key = u.key, t # u
  PROVE  t.key \in Contested
<1>1. Normal(EnsureTags(s.tags)) /\ Normal(EnsureTags(r.tags))
  BY UserAssumption, ContentTypes, EnsuredIs
<1>2. /\ t \in [key : TagKeys, value : TagValues] /\ u \in [key : TagKeys, value : TagValues]
      /\ t.key \in Keys(EnsureTags(s.tags)) /\ Wanted(s)[t.key] = t.value
      /\ u.key \in Keys(EnsureTags(r.tags)) /\ Wanted(r)[u.key] = u.value
  BY <1>1, NormalIs, NormalMap DEF Ensured, Wanted
<1>3. DOMAIN Wanted(s) = Keys(EnsureTags(s.tags)) /\ DOMAIN Wanted(r) = Keys(EnsureTags(r.tags))
  BY <1>1, NormalIs, MapOfList DEF Wanted
<1>4. t.value # u.value /\ t.key \in TagKeys
  BY <1>2
<1> QED
  BY <1>2, <1>3, <1>4 DEF Contested

\* What an update of the tags begins with.
LEMMA TagsBegun ==
  ASSUME NEW d \in Content, Normal(d.tags), NEW l \in Content, NEW o, Normal(o),
         Range(l.tags) = Range(o),
         \A t \in Range(o) : \E s \in Specs : t \in Ensured(s),
         \E s \in Specs : Range(d.tags) = Ensured(s)
  PROVE  /\ \A t \in Range(o) \ Range(d.tags) :
               /\ <<"UntagUser", None>> \in Changes(d, l)
               /\ t \in ToRemove(d.tags, l.tags)
         /\ \A t \in Range(d.tags) :
               \/ t.key \in Keys(o)
               \/ <<"TagUser", None>> \in Changes(d, l) /\ t \in ToAdd(d.tags, l.tags)
         /\ \A u \in ToRemove(d.tags, l.tags) : u.key \in Keys(d.tags) => u.key \in Contested
<1>1. l.tags \in Seq(Tag)
  BY ContentTypes
<1>2. Range(d.tags) # Range(o) => CompareTags(d.tags, l.tags)
  BY <1>1, ComparedIs
<1>3. ASSUME NEW t \in Range(o) \ Range(d.tags)
      PROVE  <<"UntagUser", None>> \in Changes(d, l) /\ t \in ToRemove(d.tags, l.tags)
  <2>1. t \in ToRemove(d.tags, l.tags) /\ Range(d.tags) # Range(o)
    BY DEF ToRemove
  <2> QED
    BY <1>2, <2>1, OtherChanges
<1>4. ASSUME NEW t \in Range(d.tags), t.key \notin Keys(o)
      PROVE  <<"TagUser", None>> \in Changes(d, l) /\ t \in ToAdd(d.tags, l.tags)
  <2>1. t \notin Range(o)
    BY <1>4 DEF Keys
  <2>2. t \in ToAdd(d.tags, l.tags) /\ Range(d.tags) # Range(o)
    BY <2>1 DEF ToAdd
  <2> QED
    BY <1>2, <2>2, OtherChanges
<1>5. ASSUME NEW u \in ToRemove(d.tags, l.tags), u.key \in Keys(d.tags)
      PROVE  u.key \in Contested
  <2>1. u \in Range(o) /\ u \notin Range(d.tags)
    BY DEF ToRemove
  <2>2. PICK w \in Range(d.tags) : w.key = u.key
    BY <1>5 DEF Keys
  <2>3. PICK s \in Specs : u \in Ensured(s)
    BY <2>1
  <2>4. PICK r \in Specs : w \in Ensured(r)
    BY <2>2
  <2> QED
    BY <2>1, <2>2, <2>3, <2>4, ContestedIs
<1> QED
  BY <1>3, <1>4, <1>5

\* An update, or what follows when there is nothing to update, begins with what was read.
LEMMA BegunInv ==
  ASSUME Inv, exists, pc = "listTags", NEW l \in Content, NEW d, Completed(d),
         NEW calls, calls = IF op = "delete" THEN Emptying(l) ELSE Changes(d, l),
         latest' = l, desired' = d, todo' = calls, Goto(After(calls)), UNCHANGED <<object, op, id>>,
         Alone => /\ l.path = object.path /\ l.boundary = object.boundary
                  /\ l.policies = object.policies
                  /\ \A n \in InlineNames : l.inline[n] = object.inline[n]
                  /\ Range(l.tags) = Range(object.tags)
  PROVE  Inv'
<1>1. /\ SoundUser /\ pc # "idle" /\ op # "create"
      /\ op \in {"sync", "create", "delete"} /\ id \in BOOLEAN /\ d \in Content
      /\ object \in Content /\ Normal(object.tags)
  BY DEF Inv, Shape, SoundUser, Sound, CommonTypes, Reads, exists, Completed
<1>2. /\ pc' = After(calls) /\ object' = object /\ op' = op /\ id' = id /\ desired' = d
      /\ UNCHANGED <<cr, cond, queued, drift, budget>>
  BY DEF Goto
<1>3. /\ After(calls) \in Places \cup SharedPlaces
      /\ After(calls) \in {"update", "deleteUser", "lateInit"}
      /\ (calls # {}) = (After(calls) = "update")
      /\ After(calls) = "lateInit" => op # "delete"
  BY DEF After, Places, SharedPlaces
<1>4. /\ calls \subseteq Calls
      /\ \A n \in InlineNames : <<"PutUserPolicy", n>> \in calls => d.inline[n] # None
      /\ op = "delete" => <<"TagUser", None>> \notin calls
  <2>1. CASE op = "delete"
    BY <2>1, EmptyingIs
  <2>2. CASE op # "delete"
    BY <1>1, <2>2, CallTypes, PolicyChanges
  <2> QED
    BY <2>1, <2>2
<1>5. SoundUser'
  BY <1>1, <1>2, <1>3, <1>4, GotoSound DEF SoundUser
<1>6. Shape'
  BY <1>1, <1>2, <1>3, <1>4, <1>5 DEF Shape, Reads, Completed
<1>7. Progress'
  <2> SUFFICES ASSUME Alone
               PROVE  (ReadProgress /\ UpdateProgress)'
    BY <1>2 DEF Progress, Alone, Undisturbed
  <2>1. calls = Changes(d, l)
    BY DEF Alone
  <2>2. PoliciesProgress'
    <3>1. \A p \in PolicyARNs :
              /\ <<"AttachUserPolicy", p>> \in calls <=> p \in d.policies \ l.policies
              /\ <<"DetachUserPolicy", p>> \in calls <=> p \in l.policies \ d.policies
      BY <1>1, <2>1, PolicyChanges
    <3>2. l.policies \subseteq PolicyARNs /\ d.policies \subseteq PolicyARNs
      BY <1>1, ContentTypes
    <3>3. object'.policies = l.policies /\ desired'.policies = d.policies /\ todo' = calls
      BY <1>2
    <3> QED
      BY <3>1, <3>2, <3>3 DEF PoliciesProgress
  <2>3. InlineProgress'
    <3>1. \A n \in InlineNames :
              /\ <<"PutUserPolicy", n>> \in calls <=> d.inline[n] \notin {None, l.inline[n]}
              /\ <<"DeleteUserPolicy", n>> \in calls <=> l.inline[n] # None /\ d.inline[n] = None
      BY <1>1, <2>1, PolicyChanges
    <3>2. \A n \in InlineNames : object'.inline[n] = l.inline[n]
      BY <1>2
    <3>3. desired' = d /\ todo' = calls
      BY <1>2
    <3> QED
      BY <3>1, <3>2, <3>3 DEF InlineProgress
  <2>4. TagsProgress'
    <3>1. /\ Normal(d.tags) /\ \E s \in Specs : Range(d.tags) = Ensured(s)
          /\ \A t \in Range(object.tags) : \E s \in Specs : t \in Ensured(s)
      BY DEF Alone, Completed, Inv, Origin
    <3>2. /\ \A t \in Range(object.tags) \ Range(d.tags) :
                /\ <<"UntagUser", None>> \in calls
                /\ t \in ToRemove(d.tags, l.tags)
          /\ \A t \in Range(d.tags) :
                \/ t.key \in Keys(object.tags)
                \/ <<"TagUser", None>> \in calls /\ t \in ToAdd(d.tags, l.tags)
          /\ \A u \in ToRemove(d.tags, l.tags) : u.key \in Keys(d.tags) => u.key \in Contested
      BY <1>1, <2>1, <3>1, TagsBegun
    <3>3. object' = object /\ desired' = d /\ latest' = l /\ todo' = calls
      BY <1>2
    <3> QED
      BY <3>2, <3>3 DEF TagsProgress
  <2>5. BoundaryProgress'
    BY <1>1, <1>2, <2>1, OtherChanges DEF BoundaryProgress
  <2>6. PathProgress'
    BY <1>1, <1>2, <2>1, OtherChanges, ContentTypes DEF PathProgress
  <2>7. AllProgress'
    BY <2>2, <2>3, <2>4, <2>5, <2>6 DEF AllProgress
  <2> QED
    BY <1>2, <1>3, <2>7 DEF ReadProgress, UpdateProgress, Reads, exists
<1>8. Undisturbed /\ exists' => \A t \in Range(object'.tags) : \E s \in Specs : t \in Ensured(s)
  BY <1>2 DEF Inv, Origin
<1>9. Origin' /\ QueueInv'
  BY <1>1, <1>2, <1>3, <1>8, GoesOnInv
<1> QED
  BY <1>6, <1>7, <1>9 DEF Inv

LEMMA GetUserInv ==
  ASSUME Inv, GetUser
  PROVE  Inv'
<1>1. /\ SoundUser /\ pc = "read" /\ todo = {} /\ op # "create" /\ object \in Content \cup {None}
      /\ op \in {"sync", "create", "delete"} /\ id \in BOOLEAN
  BY DEF Inv, Shape, SoundUser, Sound, CommonTypes, GetUser
<1> DEFINE d == IF op = "delete" THEN desired
                ELSE [desired EXCEPT !.tags = EnsureTags(desired.tags)]
           q == IF exists THEN "listPolicies" ELSE IF op = "delete" THEN "unmanage" ELSE "manage"
<1>2. ASSUME desired' = d, latest' = object, Goto(q), UNCHANGED <<object, op, id, todo>>
      PROVE  Inv'
  <2>1. Completed(d)
    BY <1>1, EnsuredCompleted
  <2> HIDE DEF d
  <2>2. CASE exists
    <3>1. object \in Content /\ todo' = {} /\ "listPolicies" \in Reads /\ Goto("listPolicies")
      BY <1>1, <1>2, <2>2 DEF exists, Reads
    <3> QED
      BY <1>1, <1>2, <2>1, <2>2, <3>1, ReadingInv
  <2>3. CASE ~exists
    <3>1. /\ q \in {"unmanage", "manage"} /\ (q = "manage" => op = "sync")
          /\ q \in Places \cup SharedPlaces
      BY <1>1, <2>3 DEF SharedPlaces
    <3>2. /\ pc' = q /\ object' = object /\ op' = op /\ id' = id /\ desired' = d /\ todo' = {}
          /\ ~exists'
      BY <1>1, <1>2, <2>3 DEF Goto, exists
    <3> HIDE DEF q
    <3>3. SoundUser'
      BY <1>1, <1>2, <2>1, <3>1, <3>2, GotoSound DEF SoundUser, Completed
    <3>4. Shape'
      BY <2>1, <3>1, <3>2, <3>3 DEF Shape, Reads, Completed
    <3>5. Origin' /\ QueueInv'
      BY <1>1, <1>2, <2>1, <3>1, <3>2, GoesOnInv
    <3>6. Progress'
      BY <3>1, <3>2 DEF Progress, ReadProgress, UpdateProgress, Reads
    <3> QED
      BY <3>4, <3>5, <3>6 DEF Inv
  <2> QED
    BY <2>2, <2>3
<1> QED
  BY <1>1, <1>2, RefusedInv DEF GetUser

LEMMA NoSuchEntityInv ==
  ASSUME Inv, Refused(terminalAWSError("NoSuchEntity"))
  PROVE  Inv'
<1>1. terminalAWSError("NoSuchEntity") = "Recoverable"
  BY CodeOutcome
<1> QED
  BY <1>1, RefusedInv

LEMMA ListAttachedInv ==
  ASSUME Inv, ListAttachedUserPolicies
  PROVE  Inv'
<1>1. SoundUser /\ pc = "listPolicies" /\ todo = {} /\ object \in Content \cup {None}
      /\ latest \in Content
  BY DEF Inv, Shape, SoundUser, Sound, CommonTypes, ListAttachedUserPolicies, Reads
<1>2. ASSUME exists, latest' = [latest EXCEPT !.policies = object.policies], Goto("listInline"),
             UNCHANGED <<object, op, id, desired, todo>>
      PROVE  Inv'
  <2> DEFINE l == [latest EXCEPT !.policies = object.policies]
  <2>1. object.policies \subseteq PolicyARNs
    BY <1>1, <1>2, ContentTypes DEF exists
  <2>2. l \in Content /\ l.policies = object.policies /\ l.path = latest.path
        /\ l.boundary = latest.boundary
    BY <1>1, <2>1 DEF Content
  <2>3. Alone => latest.path = object.path /\ latest.boundary = object.boundary
    BY <1>1 DEF Inv, Progress, ReadProgress, Reads
  <2>4. todo' = {} /\ UNCHANGED <<object, op, id>> /\ latest' = l /\ desired' = desired
    BY <1>1, <1>2
  <2>5. "listInline" \in Reads /\ Completed(desired)
    BY <1>1, DesiredStays DEF Reads
  <2> HIDE DEF l
  <2> QED
    BY <1>1, <1>2, <2>2, <2>3, <2>4, <2>5, ReadingInv DEF Reads
<1> QED
  BY <1>2, RefusedInv, NoSuchEntityInv DEF ListAttachedUserPolicies

\* What there is still to be read of the inline policies, or an empty list of tags.
LEMMA ReadInlineInv ==
  ASSUME Inv, exists, pc \in {"listInline", "readInline"}, NEW l \in Content,
         NEW pending \in SUBSET Calls, ReadInline(l, pending),
         Alone => /\ l.path = object.path /\ l.boundary = object.boundary
                  /\ l.policies = object.policies
                  /\ \A n \in InlineNames :
                         l.inline[n] = object.inline[n] \/ <<"GetUserPolicy", n>> \in pending
  PROVE  Inv'
<1>1. todo' = pending /\ UNCHANGED <<object, op, id>> /\ desired' = desired
  BY DEF ReadInline
<1>2. Completed(desired)
  BY DesiredStays
<1>3. CASE pending # {}
  <2>1. latest' = l /\ Goto("readInline") /\ "readInline" \in Reads
    BY <1>3 DEF ReadInline, Reads
  <2> QED
    BY <1>1, <1>2, <1>3, <2>1, ReadingInv DEF Reads
<1>4. CASE pending = {}
  <2> DEFINE m == [l EXCEPT !.tags = <<>>]
  <2>1. latest' = m /\ Goto("listTags") /\ "listTags" \in Reads
    BY <1>4 DEF ReadInline, Reads
  <2>2. <<>> \in Seq(Tag) /\ Range(<<>>) = {}
    BY DEF Range
  <2>3. m \in Content /\ m.path = l.path /\ m.boundary = l.boundary /\ m.policies = l.policies
        /\ m.inline = l.inline /\ m.tags = <<>>
    BY <2>2 DEF Content
  <2>4. Range(m.tags) \subseteq Range(object.tags)
    BY <2>2, <2>3
  <2> HIDE DEF m
  <2> QED
    BY <1>1, <1>2, <1>4, <2>1, <2>3, <2>4, ReadingInv DEF Reads
<1> QED
  BY <1>3, <1>4

LEMMA ListInlineInv ==
  ASSUME Inv, ListUserPolicies
  PROVE  Inv'
<1>1. pc = "listInline" /\ object \in Content \cup {None} /\ latest \in Content
  BY DEF Inv, Shape, SoundUser, Sound, CommonTypes, ListUserPolicies, Reads
<1> DEFINE l == [latest EXCEPT !.inline = NoInline]
           pending == {<<"GetUserPolicy", n>> : n \in {m \in InlineNames : object.inline[m] # None}}
<1>2. ASSUME exists, ReadInline(l, pending)
      PROVE  Inv'
  <2>1. l \in Content /\ l.policies = latest.policies /\ l.path = latest.path
        /\ l.boundary = latest.boundary /\ l.inline = NoInline
    BY <1>1 DEF Content, NoInline, Maybe
  <2>2. pending \in SUBSET Calls
    BY DEF Calls
  <2>3. \A n \in InlineNames :
            l.inline[n] = object.inline[n] \/ <<"GetUserPolicy", n>> \in pending
    BY <2>1 DEF NoInline
  <2>4. Alone => /\ latest.path = object.path /\ latest.boundary = object.boundary
                 /\ latest.policies = object.policies
    BY <1>1 DEF Inv, Progress, ReadProgress, Reads
  <2> HIDE DEF l, pending
  <2> QED
    BY <1>1, <1>2, <2>1, <2>2, <2>3, <2>4, ReadInlineInv
<1> QED
  BY <1>2, RefusedInv, NoSuchEntityInv DEF ListUserPolicies

LEMMA GetPolicyInv ==
  ASSUME Inv, GetUserPolicy
  PROVE  Inv'
<1>1. pc = "readInline" /\ object \in Content \cup {None} /\ latest \in Content /\ todo \subseteq Calls
  BY DEF Inv, Shape, SoundUser, Sound, CommonTypes, GetUserPolicy, Reads
<1>2. ASSUME NEW n \in InlineNames, exists,
             ReadInline([latest EXCEPT !.inline[n] = object.inline[n]], todo \ {<<"GetUserPolicy", n>>})
      PROVE  Inv'
  <2> DEFINE l == [latest EXCEPT !.inline[n] = object.inline[n]]
             pending == todo \ {<<"GetUserPolicy", n>>}
  <2>1. object.inline[n] \in Maybe(Docs) /\ latest.inline \in [InlineNames -> Maybe(Docs)]
    BY <1>1, <1>2, ContentTypes DEF exists
  <2>2. [latest.inline EXCEPT ![n] = object.inline[n]] \in [InlineNames -> Maybe(Docs)]
    BY <2>1
  <2>3. l \in Content /\ l.policies = latest.policies /\ l.path = latest.path
        /\ l.boundary = latest.boundary
        /\ l.inline = [latest.inline EXCEPT ![n] = object.inline[n]]
    BY <1>1, <2>2 DEF Content
  <2>4. Alone => /\ latest.path = object.path /\ latest.boundary = object.boundary
                 /\ latest.policies = object.policies
                 /\ \A m \in InlineNames :
                        latest.inline[m] = object.inline[m] \/ <<"GetUserPolicy", m>> \in todo
    BY <1>1 DEF Inv, Progress, ReadProgress, Reads
  <2>5. ASSUME Alone, NEW m \in InlineNames
        PROVE  l.inline[m] = object.inline[m] \/ <<"GetUserPolicy", m>> \in pending
    <3>1. CASE m = n
      BY <2>1, <2>3, <3>1
    <3>2. CASE m # n
      BY <2>1, <2>3, <2>4, <2>5, <3>2
    <3> QED
      BY <3>1, <3>2
  <2>6. pending \in SUBSET Calls
    BY <1>1
  <2> HIDE DEF l, pending
  <2> QED
    BY <1>1, <1>2, <2>3, <2>4, <2>5, <2>6, ReadInlineInv DEF l, pending
<1> QED
  BY <1>2, RefusedInv, NoSuchEntityInv DEF GetUserPolicy

\* A page of the tags, of which the first comes again after each that is truncated: no tag
\* is read that is not there, and with the last page all of them have been.
LEMMA ListTagsInv ==
  ASSUME Inv, ListUserTags
  PROVE  Inv'
<1>1. /\ SoundUser /\ pc = "listTags" /\ todo = {} /\ object \in Content \cup {None}
      /\ latest \in Content
  BY DEF Inv, Shape, SoundUser, Sound, CommonTypes, ListUserTags, Reads
<1>2. Alone => /\ latest.path = object.path /\ latest.boundary = object.boundary
               /\ latest.policies = object.policies
               /\ \A n \in InlineNames : latest.inline[n] = object.inline[n]
               /\ Range(latest.tags) \subseteq Range(object.tags)
  BY <1>1 DEF Inv, Progress, ReadProgress, Reads
<1>3. ASSUME exists
      PROVE  object \in Content /\ object.tags \in Seq(Tag) /\ latest.tags \in Seq(Tag)
             /\ DOMAIN object.tags = 1..Len(object.tags) /\ Len(object.tags) \in Nat
  <2>1. object \in Content
    BY <1>1, <1>3 DEF exists
  <2> QED
    BY <1>1, <2>1, ContentTypes, LenProperties
<1>4. ASSUME exists, NEW n \in 1..(Len(object.tags) - 1),
             latest' = [latest EXCEPT !.tags = latest.tags \o SubSeq(object.tags, 1, n)],
             Goto("listTags"), UNCHANGED <<object, op, id, desired, todo>>
      PROVE  Inv'
  <2> DEFINE page == SubSeq(object.tags, 1, n)
             l == [latest EXCEPT !.tags = latest.tags \o page]
  <2>1. /\ \A i \in 1..n : object.tags[i] \in Tag /\ object.tags[i] \in Range(object.tags)
        /\ n \in Int
    BY <1>3, <1>4, ElementOfSeq DEF Range
  <2>2. page \in Seq(Tag) /\ page \in Seq(Range(object.tags))
    BY <2>1, SubSeqProperties
  <2>3. Range(page) \subseteq Range(object.tags)
    BY <2>2, RangeOfSeq
  <2> HIDE DEF page
  <2>4. /\ latest.tags \o page \in Seq(Tag)
        /\ Range(latest.tags \o page) = Range(latest.tags) \cup Range(page)
    BY <1>3, <1>4, <2>2, ConcatProperties, RangeConcatenation
  <2>5. l \in Content /\ l.policies = latest.policies /\ l.path = latest.path
        /\ l.boundary = latest.boundary /\ l.inline = latest.inline
        /\ l.tags = latest.tags \o page
    BY <1>1, <2>4 DEF Content
  <2>6. latest' = l /\ todo' = {} /\ UNCHANGED <<object, op, id>> /\ desired' = desired
    BY <1>1, <1>4 DEF page
  <2>7. "listTags" \in Reads /\ Completed(desired) /\ exists /\ Goto("listTags")
    BY <1>1, <1>4, DesiredStays DEF Reads
  <2> HIDE DEF l
  <2>8. /\ l \in Content
        /\ Alone => /\ l.path = object.path /\ l.boundary = object.boundary
                    /\ l.policies = object.policies
                    /\ \A m \in InlineNames : l.inline[m] = object.inline[m]
                    /\ Range(l.tags) \subseteq Range(object.tags)
    BY <1>2, <2>3, <2>4, <2>5
  <2> QED
    BY <1>1, <2>6, <2>7, <2>8, ReadingInv DEF Reads
<1>5. ASSUME exists,
             NEW l, l = [latest EXCEPT !.tags = latest.tags \o object.tags],
             NEW d, d = [desired EXCEPT !.tags = IF op = "delete" THEN desired.tags
                                                 ELSE MirrorAWSTags(desired.tags, l.tags)],
             NEW calls, calls = IF op = "delete" THEN Emptying(l) ELSE Changes(d, l),
             latest' = l, desired' = d, todo' = calls, Goto(After(calls)),
             UNCHANGED <<object, op, id>>
      PROVE  Inv'
  <2>1. /\ latest.tags \o object.tags \in Seq(Tag)
        /\ Range(latest.tags \o object.tags) = Range(latest.tags) \cup Range(object.tags)
    BY <1>3, <1>5, ConcatProperties, RangeConcatenation
  <2>2. l \in Content /\ l.policies = latest.policies /\ l.path = latest.path
        /\ l.boundary = latest.boundary /\ l.inline = latest.inline
        /\ l.tags = latest.tags \o object.tags
    BY <1>1, <1>5, <2>1 DEF Content
  <2>3. Alone => Range(l.tags) = Range(object.tags)
    BY <1>2, <2>1, <2>2
  <2>4. op \in {"sync", "delete"} /\ desired \in Content
    BY <1>1 DEF Inv, Shape, SoundUser, Sound, CommonTypes, Reads
  <2>5. d = IF op = "delete" THEN desired
            ELSE [desired EXCEPT !.tags = MirrorAWSTags(desired.tags, l.tags)]
    <3>1. CASE op = "delete"
      BY <1>5, <2>4, <3>1 DEF Content
    <3>2. CASE op # "delete"
      BY <1>5, <3>2
    <3> QED
      BY <3>1, <3>2
  <2>6. Undisturbed /\ op # "delete" => Range(l.tags) = Range(object.tags)
    BY <2>3, <2>4 DEF Alone
  <2>7. Completed(d)
    BY <1>1, <1>5, <2>2, <2>5, <2>6, MirroredCompleted
  <2>8. /\ l \in Content
        /\ Alone => /\ l.path = object.path /\ l.boundary = object.boundary
                    /\ l.policies = object.policies
                    /\ \A n \in InlineNames : l.inline[n] = object.inline[n]
                    /\ Range(l.tags) = Range(object.tags)
    BY <1>2, <2>2, <2>3
  <2>9. /\ latest' = l /\ desired' = d /\ todo' = calls /\ Goto(After(calls))
        /\ UNCHANGED <<object, op, id>> /\ exists
        /\ calls = IF op = "delete" THEN Emptying(l) ELSE Changes(d, l)
    BY <1>5
  <2> QED
    BY <1>1, <2>7, <2>8, <2>9, BegunInv
<1>6. ASSUME exists,
             \E l \in {[latest EXCEPT !.tags = @ \o object.tags]} :
             \E d \in {[desired EXCEPT !.tags = IF op = "delete" THEN @
                                               ELSE MirrorAWSTags(@, l.tags)]} :
             \E calls \in {IF op = "delete" THEN Emptying(l) ELSE Changes(d, l)} :
                /\ latest' = l
                /\ desired' = d
                /\ todo' = calls
                /\ Goto(After(calls)),
             UNCHANGED <<object, op, id>>
      PROVE  Inv'
  BY <1>5, <1>6
<1> QED
  BY <1>4, <1>6, RefusedInv, NoSuchEntityInv DEF ListUserTags

-----------------------------------------------------------------------------
\* A call is made and leaves less to do.
LEMMA DoneInv ==
  ASSUME Inv, pc = "update", exists, NEW call \in todo, NEW o \in Content,
         object' = o, todo' = todo \ {call}, Goto(After(todo \ {call})),
         UNCHANGED <<op, id, desired, latest>>,
         Normal(o.tags),
         Undisturbed => \A t \in Range(o.tags) : \E s \in Specs : t \in Ensured(s),
         Alone => AllProgress'
  PROVE  Inv'
<1>1. /\ SoundUser /\ pc # "idle" /\ op # "create" /\ todo \subseteq Calls
      /\ op \in {"sync", "create", "delete"} /\ id \in BOOLEAN /\ desired \in Content
      /\ latest \in Content /\ Completed(desired)
  BY DesiredStays DEF Inv, Shape, SoundUser, Sound, CommonTypes
<1>2. /\ pc' = After(todo') /\ op' = op /\ id' = id /\ desired' = desired /\ latest' = latest
      /\ UNCHANGED <<cr, cond, queued, drift, budget>>
  BY DEF Goto
<1>3. /\ After(todo') \in Places \cup SharedPlaces
      /\ After(todo') \in {"update", "deleteUser", "lateInit"}
      /\ (todo' # {}) = (After(todo') = "update")
      /\ After(todo') = "lateInit" => op # "delete"
  BY DEF After, Places, SharedPlaces
<1>4. SoundUser'
  BY <1>1, <1>2, <1>3, GotoSound DEF SoundUser
<1>5. Shape'
  BY <1>1, <1>2, <1>3, <1>4 DEF Inv, Shape, Reads
<1>6. Progress'
  <2>1. exists'
    BY ContentTypes DEF exists
  <2> QED
    BY <1>2, <1>3, <2>1 DEF Progress, Alone, Undisturbed, ReadProgress, UpdateProgress, Reads
<1>7. Origin' /\ QueueInv'
  BY <1>1, <1>2, <1>3, GoesOnInv
<1> QED
  BY <1>5, <1>6, <1>7 DEF Inv

LEMMA AttemptInv ==
  ASSUME Inv, NEW call, NEW condition, NEW o, NEW code, code # "InvalidInput",
         Attempt(call, condition, o, code),
         pc = "update" /\ call \in todo /\ exists /\ condition =>
            /\ o \in Content /\ Normal(o.tags)
            /\ Undisturbed => \A t \in Range(o.tags) : \E s \in Specs : t \in Ensured(s),
         /\ Alone /\ exists /\ condition /\ pc = "update" /\ call \in todo
         /\ object' = o /\ todo' = todo \ {call} /\ desired' = desired /\ latest' = latest
         => AllProgress'
  PROVE  Inv' /\ exists' = exists
<1>1. pc = "update" /\ Due(call) /\ call \in todo
  BY DEF Attempt, Due
<1>2. CASE exists /\ condition /\ object' = o /\ todo' = todo \ {call}
           /\ Goto(After(todo \ {call})) /\ UNCHANGED <<op, id, desired, latest>>
  <2>1. o # None
    BY <1>1, <1>2, UserAssumption
  <2>2. exists' = exists
    BY <1>2, <2>1 DEF exists
  <2> QED
    BY <1>1, <1>2, <2>2, DoneInv
<1>3. terminalAWSError(code) = "Recoverable" /\ terminalAWSError("NoSuchEntity") = "Recoverable"
  BY CodeOutcome
<1>4. CASE Refused(terminalAWSError("NoSuchEntity")) \/ Refused(terminalAWSError(code)) \/ CallFails
  <2>1. object' = object
    BY <1>4 DEF Refused, CallFails
  <2> QED
    BY <1>3, <1>4, <2>1, RefusedInv DEF exists
<1> QED
  BY <1>2, <1>4 DEF Attempt

\* What the user and its copies hold during an update.
LEMMA UpdateTypes ==
  ASSUME Inv, pc = "update", exists
  PROVE  /\ object \in Content /\ desired \in Content /\ latest \in Content
         /\ Normal(object.tags) /\ (op # "delete" => Normal(desired.tags))
         /\ Undisturbed => \A t \in Range(object.tags) : \E s \in Specs : t \in Ensured(s)
         /\ Alone => AllProgress
<1>1. object \in Content /\ desired \in Content /\ latest \in Content
  BY DEF Inv, Shape, SoundUser, Sound, CommonTypes, exists
<1> QED
  BY <1>1 DEF Inv, Shape, Origin, Progress, UpdateProgress

LEMMA AttachInv ==
  ASSUME Inv, AttachUserPolicy
  PROVE  Inv' /\ exists' = exists
<1>1. PICK p \in PolicyARNs :
          Attempt(<<"AttachUserPolicy", p>>, TRUE, [object EXCEPT !.policies = @ \cup {p}], "None")
  BY DEF AttachUserPolicy
<1> DEFINE call == <<"AttachUserPolicy", p>>
           o == [object EXCEPT !.policies = object.policies \cup {p}]
<1>2. ASSUME pc = "update", exists
      PROVE  /\ o \in Content /\ o.policies = object.policies \cup {p}
             /\ o.inline = object.inline /\ o.tags = object.tags
             /\ o.boundary = object.boundary /\ o.path = object.path
  BY <1>2, UpdateTypes DEF Content
<1>3. ASSUME pc = "update", exists
      PROVE  /\ o \in Content /\ Normal(o.tags)
             /\ Undisturbed => \A t \in Range(o.tags) : \E s \in Specs : t \in Ensured(s)
  BY <1>2, <1>3, UpdateTypes
<1>4. ASSUME Alone, exists, pc = "update", call \in todo,
             object' = o, todo' = todo \ {call}, desired' = desired, latest' = latest
      PROVE  AllProgress'
  <2>1. /\ PoliciesProgress /\ InlineProgress /\ TagsProgress /\ BoundaryProgress
        /\ PathProgress /\ desired \in Content
    BY <1>4, UpdateTypes DEF AllProgress
  <2>2. /\ object'.inline = object.inline /\ object'.tags = object.tags
        /\ object'.boundary = object.boundary /\ object'.path = object.path
        /\ object'.policies = object.policies \cup {p}
        /\ todo' = todo \ {<<"AttachUserPolicy", p>>}
    BY <1>2, <1>4
  <2>3. PoliciesProgress'
    BY <1>4, <2>1, <2>2 DEF PoliciesProgress
  <2>4. InlineProgress'
    BY <1>4, <2>1, <2>2 DEF InlineProgress
  <2>5. TagsProgress'
    BY <1>4, <2>1, <2>2 DEF TagsProgress
  <2>6. BoundaryProgress'
    BY <1>4, <2>1, <2>2 DEF BoundaryProgress, SyncUserPermissionsBoundary
  <2>7. PathProgress'
    BY <1>4, <2>1, <2>2 DEF PathProgress
  <2> QED
    BY <2>3, <2>4, <2>5, <2>6, <2>7 DEF AllProgress
<1>5. Attempt(call, TRUE, o, "None") /\ "None" # "InvalidInput"
  BY <1>1
<1> HIDE DEF call, o
<1> QED
  BY <1>3, <1>4, <1>5, AttemptInv

LEMMA DetachInv ==
  ASSUME Inv, DetachUserPolicy
  PROVE  Inv' /\ exists' = exists
<1>1. PICK p \in PolicyARNs :
          Attempt(<<"DetachUserPolicy", p>>, p \in object.policies, [object EXCEPT !.policies = @ \ {p}], "NoSuchEntity")
  BY DEF DetachUserPolicy
<1> DEFINE call == <<"DetachUserPolicy", p>>
           o == [object EXCEPT !.policies = object.policies \ {p}]
<1>2. ASSUME pc = "update", exists
      PROVE  /\ o \in Content /\ o.policies = object.policies \ {p}
             /\ o.inline = object.inline /\ o.tags = object.tags
             /\ o.boundary = object.boundary /\ o.path = object.path
  BY <1>2, UpdateTypes DEF Content
<1>3. ASSUME pc = "update", exists
      PROVE  /\ o \in Content /\ Normal(o.tags)
             /\ Undisturbed => \A t \in Range(o.tags) : \E s \in Specs : t \in Ensured(s)
  BY <1>2, <1>3, UpdateTypes
<1>4. ASSUME Alone, exists, pc = "update", call \in todo,
             object' = o, todo' = todo \ {call}, desired' = desired, latest' = latest
      PROVE  AllProgress'
  <2>1. /\ PoliciesProgress /\ InlineProgress /\ TagsProgress /\ BoundaryProgress
        /\ PathProgress /\ desired \in Content
    BY <1>4, UpdateTypes DEF AllProgress
  <2>2. /\ object'.inline = object.inline /\ object'.tags = object.tags
        /\ object'.boundary = object.boundary /\ object'.path = object.path
        /\ object'.policies = object.policies \ {p}
        /\ todo' = todo \ {<<"DetachUserPolicy", p>>}
    BY <1>2, <1>4
  <2>3. PoliciesProgress'
    BY <1>4, <2>1, <2>2 DEF PoliciesProgress
  <2>4. InlineProgress'
    BY <1>4, <2>1, <2>2 DEF InlineProgress
  <2>5. TagsProgress'
    BY <1>4, <2>1, <2>2 DEF TagsProgress
  <2>6. BoundaryProgress'
    BY <1>4, <2>1, <2>2 DEF BoundaryProgress, SyncUserPermissionsBoundary
  <2>7. PathProgress'
    BY <1>4, <2>1, <2>2 DEF PathProgress
  <2> QED
    BY <2>3, <2>4, <2>5, <2>6, <2>7 DEF AllProgress
<1>5. Attempt(call, p \in object.policies, o, "NoSuchEntity") /\ "NoSuchEntity" # "InvalidInput"
  BY <1>1
<1> HIDE DEF call, o
<1> QED
  BY <1>3, <1>4, <1>5, AttemptInv

LEMMA PutBoundaryInv ==
  ASSUME Inv, PutUserPermissionsBoundary
  PROVE  Inv' /\ exists' = exists
<1>1. PICK p \in PolicyARNs :
          Attempt(<<"PutUserPermissionsBoundary", p>>, TRUE, [object EXCEPT !.boundary = p], "None")
  BY DEF PutUserPermissionsBoundary
<1> DEFINE call == <<"PutUserPermissionsBoundary", p>>
           o == [object EXCEPT !.boundary = p]
<1>2. ASSUME pc = "update", exists
      PROVE  /\ o \in Content /\ o.boundary = p
             /\ o.policies = object.policies /\ o.inline = object.inline
             /\ o.tags = object.tags /\ o.path = object.path
  BY <1>2, UpdateTypes DEF Content, Maybe
<1>3. ASSUME pc = "update", exists
      PROVE  /\ o \in Content /\ Normal(o.tags)
             /\ Undisturbed => \A t \in Range(o.tags) : \E s \in Specs : t \in Ensured(s)
  BY <1>2, <1>3, UpdateTypes
<1>4. ASSUME Alone, exists, pc = "update", call \in todo,
             object' = o, todo' = todo \ {call}, desired' = desired, latest' = latest
      PROVE  AllProgress'
  <2>1. /\ PoliciesProgress /\ InlineProgress /\ TagsProgress /\ BoundaryProgress
        /\ PathProgress /\ desired \in Content
    BY <1>4, UpdateTypes DEF AllProgress
  <2>2. /\ object'.policies = object.policies /\ object'.inline = object.inline
        /\ object'.tags = object.tags /\ object'.path = object.path
        /\ object'.boundary = p
        /\ todo' = todo \ {<<"PutUserPermissionsBoundary", p>>}
    BY <1>2, <1>4
  <2>3. PoliciesProgress'
    BY <1>4, <2>1, <2>2 DEF PoliciesProgress
  <2>4. InlineProgress'
    BY <1>4, <2>1, <2>2 DEF InlineProgress
  <2>5. TagsProgress'
    BY <1>4, <2>1, <2>2 DEF TagsProgress
  <2>6. BoundaryProgress'
    BY <1>4, <2>1, <2>2 DEF BoundaryProgress, SyncUserPermissionsBoundary
  <2>7. PathProgress'
    BY <1>4, <2>1, <2>2 DEF PathProgress
  <2> QED
    BY <2>3, <2>4, <2>5, <2>6, <2>7 DEF AllProgress
<1>5. Attempt(call, TRUE, o, "None") /\ "None" # "InvalidInput"
  BY <1>1
<1> HIDE DEF call, o
<1> QED
  BY <1>3, <1>4, <1>5, AttemptInv

LEMMA DeleteBoundaryInv ==
  ASSUME Inv, DeleteUserPermissionsBoundary
  PROVE  Inv' /\ exists' = exists
<1>1. Attempt(<<"DeleteUserPermissionsBoundary", None>>, TRUE, [object EXCEPT !.boundary = None], "None")
  BY DEF DeleteUserPermissionsBoundary
<1> DEFINE call == <<"DeleteUserPermissionsBoundary", None>>
           o == [object EXCEPT !.boundary = None]
<1>2. ASSUME pc = "update", exists
      PROVE  /\ o \in Content /\ o.boundary = None
             /\ o.policies = object.policies /\ o.inline = object.inline
             /\ o.tags = object.tags /\ o.path = object.path
  BY <1>2, UpdateTypes DEF Content, Maybe
<1>3. ASSUME pc = "update", exists
      PROVE  /\ o \in Content /\ Normal(o.tags)
             /\ Undisturbed => \A t \in Range(o.tags) : \E s \in Specs : t \in Ensured(s)
  BY <1>2, <1>3, UpdateTypes
<1>4. ASSUME Alone, exists, pc = "update", call \in todo,
             object' = o, todo' = todo \ {call}, desired' = desired, latest' = latest
      PROVE  AllProgress'
  <2>1. /\ PoliciesProgress /\ InlineProgress /\ TagsProgress /\ BoundaryProgress
        /\ PathProgress /\ desired \in Content
    BY <1>4, UpdateTypes DEF AllProgress
  <2>2. /\ object'.policies = object.policies /\ object'.inline = object.inline
        /\ object'.tags = object.tags /\ object'.path = object.path
        /\ object'.boundary = None
        /\ todo' = todo \ {<<"DeleteUserPermissionsBoundary", None>>}
    BY <1>2, <1>4
  <2>3. PoliciesProgress'
    BY <1>4, <2>1, <2>2 DEF PoliciesProgress
  <2>4. InlineProgress'
    BY <1>4, <2>1, <2>2 DEF InlineProgress
  <2>5. TagsProgress'
    BY <1>4, <2>1, <2>2 DEF TagsProgress
  <2>6. BoundaryProgress'
    BY <1>4, <2>1, <2>2 DEF BoundaryProgress, SyncUserPermissionsBoundary
  <2>7. PathProgress'
    BY <1>4, <2>1, <2>2 DEF PathProgress
  <2> QED
    BY <2>3, <2>4, <2>5, <2>6, <2>7 DEF AllProgress
<1>5. Attempt(call, TRUE, o, "None") /\ "None" # "InvalidInput"
  BY <1>1
<1> HIDE DEF call, o
<1> QED
  BY <1>3, <1>4, <1>5, AttemptInv

LEMMA UpdateUserInv ==
  ASSUME Inv, UpdateUser
  PROVE  Inv' /\ exists' = exists
<1>1. PICK p \in Maybe(Paths) :
          Attempt(<<"UpdateUser", p>>, TRUE, [object EXCEPT !.path = IF p = None THEN @ ELSE p], "None")
  BY DEF UpdateUser
<1> DEFINE call == <<"UpdateUser", p>>
           o == [object EXCEPT !.path = IF p = None THEN object.path ELSE p]
<1>2. ASSUME pc = "update", exists
      PROVE  /\ o \in Content /\ o.path = (IF p = None THEN object.path ELSE p)
             /\ o.policies = object.policies /\ o.inline = object.inline
             /\ o.tags = object.tags /\ o.boundary = object.boundary
  BY <1>2, UpdateTypes DEF Content, Maybe
<1>3. ASSUME pc = "update", exists
      PROVE  /\ o \in Content /\ Normal(o.tags)
             /\ Undisturbed => \A t \in Range(o.tags) : \E s \in Specs : t \in Ensured(s)
  BY <1>2, <1>3, UpdateTypes
<1>4. ASSUME Alone, exists, pc = "update", call \in todo,
             object' = o, todo' = todo \ {call}, desired' = desired, latest' = latest
      PROVE  AllProgress'
  <2>1. /\ PoliciesProgress /\ InlineProgress /\ TagsProgress /\ BoundaryProgress
        /\ PathProgress /\ desired \in Content
    BY <1>4, UpdateTypes DEF AllProgress
  <2>2. /\ object'.policies = object.policies /\ object'.inline = object.inline
        /\ object'.tags = object.tags /\ object'.boundary = object.boundary
        /\ object'.path = (IF p = None THEN object.path ELSE p)
        /\ todo' = todo \ {<<"UpdateUser", p>>}
    BY <1>2, <1>4
  <2>3. PoliciesProgress'
    BY <1>4, <2>1, <2>2 DEF PoliciesProgress
  <2>4. InlineProgress'
    BY <1>4, <2>1, <2>2 DEF InlineProgress
  <2>5. TagsProgress'
    BY <1>4, <2>1, <2>2 DEF TagsProgress
  <2>6. BoundaryProgress'
    BY <1>4, <2>1, <2>2 DEF BoundaryProgress, SyncUserPermissionsBoundary
  <2>7. PathProgress'
    BY <1>4, <2>1, <2>2 DEF PathProgress
  <2> QED
    BY <2>3, <2>4, <2>5, <2>6, <2>7 DEF AllProgress
<1>5. Attempt(call, TRUE, o, "None") /\ "None" # "InvalidInput"
  BY <1>1
<1> HIDE DEF call, o
<1> QED
  BY <1>3, <1>4, <1>5, AttemptInv

\* An inline policy is changed, all else stays.
LEMMA InlineCallInv ==
  ASSUME Inv, NEW name \in {"PutUserPolicy", "DeleteUserPolicy"}, NEW n \in InlineNames,
         NEW condition, NEW doc, NEW code, code # "InvalidInput",
         Attempt(<<name, n>>, condition, [object EXCEPT !.inline[n] = doc], code),
         pc = "update" /\ condition /\ <<name, n>> \in todo => doc \in Maybe(Docs),
         pc = "update" /\ Alone /\ <<name, n>> \in todo /\ InlineProgress =>
            IF name = "DeleteUserPolicy" THEN doc = None ELSE doc = Unescape[desired.inline[n]]
  PROVE  Inv' /\ exists' = exists
<1> DEFINE call == <<name, n>>
           o == [object EXCEPT !.inline[n] = doc]
<1>1. pc = "update" /\ call \in todo
  BY DEF Attempt, Due
<1>2. ASSUME exists, condition
      PROVE  /\ o \in Content /\ o.policies = object.policies /\ o.tags = object.tags
             /\ o.boundary = object.boundary /\ o.path = object.path
             /\ o.inline = [object.inline EXCEPT ![n] = doc]
             /\ object.inline \in [InlineNames -> Maybe(Docs)]
  <2>1. object \in Content /\ object.inline \in [InlineNames -> Maybe(Docs)]
    BY <1>1, <1>2, UpdateTypes, ContentTypes
  <2>2. [object.inline EXCEPT ![n] = doc] \in [InlineNames -> Maybe(Docs)]
    BY <1>1, <1>2, <2>1
  <2> QED
    BY <2>1, <2>2 DEF Content
<1>3. ASSUME exists, condition
      PROVE  /\ o \in Content /\ Normal(o.tags)
             /\ Undisturbed => \A t \in Range(o.tags) : \E s \in Specs : t \in Ensured(s)
  BY <1>1, <1>2, <1>3, UpdateTypes
<1>4. ASSUME Alone, exists, condition,
             object' = o, todo' = todo \ {call}, desired' = desired, latest' = latest
      PROVE  AllProgress'
  <2>1. /\ PoliciesProgress /\ InlineProgress /\ TagsProgress /\ BoundaryProgress
        /\ PathProgress /\ desired \in Content
    BY <1>1, <1>4, UpdateTypes DEF AllProgress
  <2>2. /\ object'.policies = object.policies /\ object'.tags = object.tags
        /\ object'.boundary = object.boundary /\ object'.path = object.path
        /\ object'.inline = [object.inline EXCEPT ![n] = doc]
        /\ todo' = todo \ {<<name, n>>}
    BY <1>2, <1>4
  <2>3. PoliciesProgress'
    BY <1>4, <2>1, <2>2 DEF PoliciesProgress
  <2>4. TagsProgress'
    BY <1>4, <2>1, <2>2 DEF TagsProgress
  <2>5. BoundaryProgress'
    BY <1>4, <2>1, <2>2 DEF BoundaryProgress, SyncUserPermissionsBoundary
  <2>6. PathProgress'
    BY <1>4, <2>1, <2>2 DEF PathProgress
  <2>7. InlineProgress'
    <3> SUFFICES ASSUME NEW m \in InlineNames
                 PROVE  IF desired.inline[m] = None
                        THEN object'.inline[m] = None \/ <<"DeleteUserPolicy", m>> \in todo'
                        ELSE /\ \/ object'.inline[m] \in {desired.inline[m], Unescape[desired.inline[m]]}
                                \/ <<"PutUserPolicy", m>> \in todo'
                             /\ <<"DeleteUserPolicy", m>> \notin todo'
      BY <1>4 DEF InlineProgress
    <3>1. object'.inline[m] = IF m = n THEN doc ELSE object.inline[m]
      BY <1>2, <1>4, <2>2
    <3>2. CASE m # n
      BY <2>1, <2>2, <3>1, <3>2 DEF InlineProgress
    <3>3. CASE m = n /\ name = "DeleteUserPolicy"
      BY <1>1, <1>4, <2>1, <2>2, <3>1, <3>3 DEF InlineProgress
    <3>4. CASE m = n /\ name = "PutUserPolicy"
      <4>1. desired.inline[n] # None
        BY <1>1, <3>4 DEF Inv, Shape
      <4>2. doc = Unescape[desired.inline[n]]
        BY <1>1, <1>4, <2>1, <3>4
      <4> QED
        BY <2>1, <2>2, <3>1, <3>4, <4>1, <4>2 DEF InlineProgress
    <3> QED
      BY <3>2, <3>3, <3>4
  <2> QED
    BY <2>3, <2>4, <2>5, <2>6, <2>7 DEF AllProgress
<1> HIDE DEF call, o
<1>5. Attempt(call, condition, o, code)
  BY DEF call, o
<1> QED
  BY <1>1, <1>3, <1>4, <1>5, AttemptInv

LEMMA PutInv ==
  ASSUME Inv, PutUserPolicy
  PROVE  Inv' /\ exists' = exists
<1> DEFINE code(doc) == IF doc = None THEN "EscapeError" ELSE "MalformedPolicyDocument"
<1>1. PICK n \in InlineNames :
          Attempt(<<"PutUserPolicy", n>>, Unescape[desired.inline[n]] \notin BadDocs \cup {None},
                  [object EXCEPT !.inline[n] = Unescape[desired.inline[n]]],
                  code(Unescape[desired.inline[n]]))
  BY DEF PutUserPolicy
<1>2. ASSUME pc = "update", <<"PutUserPolicy", n>> \in todo
      PROVE  Unescape[desired.inline[n]] \in Maybe(Docs)
  <2>1. desired.inline[n] # None
    BY <1>2 DEF Inv, Shape
  <2>2. desired \in Content
    BY <1>2 DEF Inv, Shape, SoundUser, Sound
  <2>3. desired.inline[n] \in Docs
    BY <2>1, <2>2, ContentTypes DEF Maybe
  <2> QED
    BY <2>3, UserAssumption
<1>3. \A doc : code(doc) # "InvalidInput"
  OBVIOUS
<1> HIDE DEF code
<1> QED
  BY <1>1, <1>2, <1>3, InlineCallInv

LEMMA DeleteInlineInv ==
  ASSUME Inv, DeleteUserPolicy
  PROVE  Inv' /\ exists' = exists
<1>1. None \in Maybe(Docs) /\ "NoSuchEntity" # "InvalidInput"
  BY DEF Maybe
<1> QED
  BY <1>1, InlineCallInv DEF DeleteUserPolicy

\* The tags are changed, all else stays.
LEMMA TagsCallInv ==
  ASSUME Inv, NEW name \in {"TagUser", "UntagUser"}, NEW tags,
         Attempt(<<name, None>>, TRUE, [object EXCEPT !.tags = tags], "None"),
         pc = "update" /\ exists /\ <<name, None>> \in todo =>
            /\ Normal(tags)
            /\ Undisturbed => \A t \in Range(tags) : \E s \in Specs : t \in Ensured(s),
         /\ Alone /\ exists /\ pc = "update" /\ <<name, None>> \in todo
         /\ object'.tags = tags /\ todo' = todo \ {<<name, None>>}
         /\ desired' = desired /\ latest' = latest
         => TagsProgress'
  PROVE  Inv' /\ exists' = exists
<1> DEFINE call == <<name, None>>
           o == [object EXCEPT !.tags = tags]
<1>1. pc = "update" /\ call \in todo
  BY DEF Attempt, Due
<1>2. ASSUME exists
      PROVE  /\ o \in Content /\ o.policies = object.policies /\ o.inline = object.inline
             /\ o.boundary = object.boundary /\ o.path = object.path /\ o.tags = tags
  <2>1. object \in Content /\ tags \in Seq(Tag)
    BY <1>1, <1>2, UpdateTypes, NormalIs
  <2> QED
    BY <2>1 DEF Content
<1>3. ASSUME exists
      PROVE  /\ o \in Content /\ Normal(o.tags)
             /\ Undisturbed => \A t \in Range(o.tags) : \E s \in Specs : t \in Ensured(s)
  BY <1>1, <1>2, <1>3
<1>4. ASSUME Alone, exists,
             object' = o, todo' = todo \ {call}, desired' = desired, latest' = latest
      PROVE  AllProgress'
  <2>1. /\ PoliciesProgress /\ InlineProgress /\ BoundaryProgress /\ PathProgress
        /\ desired \in Content
    BY <1>1, <1>4, UpdateTypes DEF AllProgress
  <2>2. /\ object'.policies = object.policies /\ object'.inline = object.inline
        /\ object'.boundary = object.boundary /\ object'.path = object.path
        /\ object'.tags = tags /\ todo' = todo \ {<<name, None>>}
    BY <1>2, <1>4
  <2>3. PoliciesProgress'
    BY <1>4, <2>1, <2>2 DEF PoliciesProgress
  <2>4. InlineProgress'
    BY <1>4, <2>1, <2>2 DEF InlineProgress
  <2>5. TagsProgress'
    BY <1>1, <1>4, <2>2
  <2>6. BoundaryProgress'
    BY <1>4, <2>1, <2>2 DEF BoundaryProgress, SyncUserPermissionsBoundary
  <2>7. PathProgress'
    BY <1>4, <2>1, <2>2 DEF PathProgress
  <2> QED
    BY <2>3, <2>4, <2>5, <2>6, <2>7 DEF AllProgress
<1>5. Attempt(call, TRUE, o, "None") /\ "None" # "InvalidInput"
  OBVIOUS
<1> HIDE DEF call, o
<1> QED
  BY <1>1, <1>3, <1>4, <1>5, AttemptInv

\* What is added comes from the desired tags.
LEMMA AddTagsInv ==
  ASSUME Inv, AddTags
  PROVE  Inv' /\ exists' = exists
<1> DEFINE A == ToAdd(desired.tags, latest.tags)
           tags == Tagged(object.tags, A)
<1>1. Attempt(<<"TagUser", None>>, TRUE, [object EXCEPT !.tags = tags], "None")
  BY DEF AddTags
<1>2. ASSUME pc = "update", exists, <<"TagUser", None>> \in todo
      PROVE  /\ Normal(tags)
             /\ Range(tags) = A \cup {t \in Range(object.tags) : \A u \in A : u.key # t.key}
             /\ Undisturbed => \A t \in Range(tags) : \E s \in Specs : t \in Ensured(s)
  <2>1. op # "delete" /\ Normal(object.tags) /\ Normal(desired.tags)
    BY <1>2, UpdateTypes DEF Inv, Shape
  <2>2. /\ Normal(tags)
        /\ Range(tags) = A \cup {t \in Range(object.tags) : \A u \in A : u.key # t.key}
    <3>1. /\ A \subseteq [key : TagKeys, value : TagValues]
          /\ \A t, u \in A : t.key = u.key => t = u
          /\ IsFiniteSet({t.key : t \in A})
      BY <2>1, AddedIs
    <3> HIDE DEF A
    <3> QED
      BY <2>1, <3>1, TaggedIs
  <2>3. Undisturbed => \A t \in Range(object.tags) : \E s \in Specs : t \in Ensured(s)
    BY <1>2, UpdateTypes
  <2>4. Undisturbed => \A t \in A : \E s \in Specs : t \in Ensured(s)
    BY <1>2, <2>1 DEF Inv, Origin, ToAdd
  <2> HIDE DEF tags, A
  <2> QED
    BY <2>2, <2>3, <2>4
<1>3. ASSUME Alone, exists, pc = "update", <<"TagUser", None>> \in todo, object'.tags = tags,
             todo' = todo \ {<<"TagUser", None>>}, desired' = desired, latest' = latest
      PROVE  TagsProgress'
  <2>1. TagsProgress
    BY <1>3, UpdateTypes DEF AllProgress
  <2>2. Range(tags) = A \cup {t \in Range(object.tags) : \A u \in A : u.key # t.key}
        /\ A \subseteq Range(desired.tags)
    BY <1>2, <1>3 DEF ToAdd
  <2> HIDE DEF tags
  <2>3. ASSUME NEW t \in Range(tags) \ Range(desired.tags)
        PROVE  /\ <<"UntagUser", None>> \in todo \ {<<"TagUser", None>>}
               /\ \E u \in ToRemove(desired.tags, latest.tags) : u.key = t.key
    <3>1. t \in Range(object.tags) \ Range(desired.tags)
      BY <2>2
    <3> QED
      BY <2>1, <3>1 DEF TagsProgress
  <2>4. ASSUME NEW t \in Range(desired.tags)
        PROVE  t.key \in Keys(tags) \cup Contested
    <3>1. CASE t \in A
      BY <2>2, <3>1 DEF Keys
    <3>2. CASE t.key \in Keys(object.tags)
      <4>1. PICK w \in Range(object.tags) : w.key = t.key
        BY <3>2 DEF Keys
      <4>2. w \in Range(tags) \/ \E u \in A : u.key = t.key
        BY <2>2, <4>1
      <4> QED
        BY <2>2, <4>1, <4>2 DEF Keys
    <3> QED
      BY <2>1, <3>1, <3>2 DEF TagsProgress
  <2>5. <<"UntagUser", None>> \in todo =>
            \A u \in ToRemove(desired.tags, latest.tags) :
                u.key \in Keys(desired.tags) => u.key \in Contested
    BY <2>1 DEF TagsProgress
  <2> QED
    BY <1>3, <2>3, <2>4, <2>5 DEF TagsProgress
<1> HIDE DEF tags
<1> QED
  BY <1>1, <1>2, <1>3, TagsCallInv

\* A desired tag that goes with the old one of its key has a contested value.
LEMMA RemoveTagsInv ==
  ASSUME Inv, RemoveTags
  PROVE  Inv' /\ exists' = exists
<1> DEFINE R == ToRemove(desired.tags, latest.tags)
           tags == Untagged(object.tags, R)
<1>1. Attempt(<<"UntagUser", None>>, TRUE, [object EXCEPT !.tags = tags], "None")
  BY DEF RemoveTags
<1>2. ASSUME pc = "update", exists
      PROVE  /\ Normal(tags)
             /\ Range(tags) = {t \in Range(object.tags) : \A u \in R : u.key # t.key}
             /\ Undisturbed => \A t \in Range(tags) : \E s \in Specs : t \in Ensured(s)
  <2>1. /\ Normal(tags)
        /\ Range(tags) = {t \in Range(object.tags) : \A u \in R : u.key # t.key}
    BY <1>2, UpdateTypes, UntaggedIs
  <2>2. Undisturbed => \A t \in Range(object.tags) : \E s \in Specs : t \in Ensured(s)
    BY <1>2, UpdateTypes
  <2> HIDE DEF tags
  <2> QED
    BY <2>1, <2>2
<1>3. ASSUME Alone, exists, pc = "update", <<"UntagUser", None>> \in todo, object'.tags = tags,
             todo' = todo \ {<<"UntagUser", None>>}, desired' = desired, latest' = latest
      PROVE  TagsProgress'
  <2>1. TagsProgress
    BY <1>3, UpdateTypes DEF AllProgress
  <2>2. Range(tags) = {t \in Range(object.tags) : \A u \in R : u.key # t.key}
    BY <1>2, <1>3
  <2> HIDE DEF tags
  <2>3. \A t \in Range(tags) : t \in Range(desired.tags)
    BY <2>1, <2>2 DEF TagsProgress
  <2>4. ASSUME NEW t \in Range(desired.tags)
        PROVE  \/ t.key \in Keys(tags) \cup Contested
               \/ <<"TagUser", None>> \in todo' /\ t \in ToAdd(desired.tags, latest.tags)
    <3>1. CASE t.key \in Keys(object.tags)
      <4>1. PICK w \in Range(object.tags) : w.key = t.key
        BY <3>1 DEF Keys
      <4>2. CASE w \in Range(tags)
        BY <4>1, <4>2 DEF Keys
      <4>3. CASE w \notin Range(tags)
        <5>1. PICK u \in R : u.key = t.key
          BY <2>2, <4>1, <4>3
        <5>2. t.key \in Keys(desired.tags)
          BY DEF Keys
        <5> QED
          BY <1>3, <2>1, <5>1, <5>2 DEF TagsProgress
      <4> QED
        BY <4>2, <4>3
    <3> QED
      BY <1>3, <2>1, <3>1 DEF TagsProgress
  <2>5. <<"UntagUser", None>> \notin todo'
    BY <1>3
  <2> QED
    BY <1>3, <2>3, <2>4, <2>5 DEF TagsProgress
<1> HIDE DEF tags
<1> QED
  BY <1>1, <1>2, <1>3, TagsCallInv

-----------------------------------------------------------------------------
\* Creation, late initialization, the patch of the CR and deletion.
LEMMA CreateInv ==
  ASSUME Inv, CreateUser
  PROVE  Inv'
<1>1. /\ SoundUser /\ pc = "create" /\ op = "sync" /\ todo = {} /\ id \in BOOLEAN
      /\ desired \in Content /\ Normal(desired.tags) /\ Completed(desired)
      /\ latest \in Content \cup {None}
  <2>1. pc = "create"
    BY DEF CreateUser
  <2> QED
    BY <2>1, DesiredStays DEF Inv, Shape, SoundUser, Sound, CommonTypes
<1>2. ASSUME object' = [policies |-> {}, inline |-> NoInline, tags |-> desired.tags,
                        boundary |-> desired.boundary,
                        path |-> IF desired.path = None THEN DefaultPath ELSE desired.path],
             op' = "create", Goto("lateInit"), UNCHANGED <<id, desired, latest, todo>>
      PROVE  Inv'
  <2>1. /\ desired.path \in Maybe(Paths) /\ desired.boundary \in Maybe(PolicyARNs)
        /\ desired.tags \in Seq(Tag)
    BY <1>1, ContentTypes
  <2>2. object' \in Content /\ object'.tags = desired.tags
    BY <1>2, <2>1, UserAssumption DEF Content, NoInline, Maybe
  <2>3. pc' = "lateInit" /\ todo' = {} /\ desired' = desired
        /\ UNCHANGED <<cr, cond, queued, drift, budget>>
    BY <1>1, <1>2 DEF Goto
  <2>4. SoundUser'
    <3>1. /\ Goto("lateInit") /\ id' = id /\ desired' = desired /\ latest' = latest
          /\ todo' = {} /\ op' = "create"
      BY <1>1, <1>2
    <3>2. Sound(Content, Places, Calls) /\ "lateInit" \in Places \cup SharedPlaces
      BY <1>1 DEF SoundUser, SharedPlaces
    <3> QED
      BY <1>1, <2>2, <3>1, <3>2, GotoSound DEF SoundUser
  <2>5. Shape'
    BY <1>1, <1>2, <2>2, <2>3, <2>4 DEF Shape, Reads
  <2>6. Undisturbed => \A t \in Range(object'.tags) : \E s \in Specs : t \in Ensured(s)
    BY <1>1, <2>2 DEF Completed
  <2>7. Origin' /\ QueueInv'
    BY <1>1, <1>2, <2>3, <2>6, GoesOnInv
  <2>8. Progress'
    BY <1>2 DEF Progress, Alone
  <2> QED
    BY <2>5, <2>7, <2>8 DEF Inv
<1> QED
  BY <1>2, RefusedInv DEF CreateUser

LEMMA LateInitializeInv ==
  ASSUME Inv, LateInitialize
  PROVE  Inv'
<1>1. /\ SoundUser /\ pc = "lateInit" /\ todo = {} /\ id \in BOOLEAN /\ desired \in Content
      /\ object \in Content \cup {None} /\ op \in {"sync", "create", "delete"}
  BY DEF Inv, Shape, SoundUser, Sound, CommonTypes, LateInitialize
<1>2. ASSUME exists, latest' = object, Goto("patch"), UNCHANGED <<object, op, id, desired, todo>>
      PROVE  Inv'
  <2>1. /\ object \in Content /\ object' = object /\ op' = op /\ id' = id /\ desired' = desired
        /\ todo' = {} /\ pc' = "patch" /\ latest' = object
        /\ UNCHANGED <<cr, cond, queued, drift, budget>>
    BY <1>1, <1>2 DEF Goto, exists
  <2>2. SoundUser'
    BY <1>1, <1>2, <2>1, GotoSound DEF SoundUser, SharedPlaces
  <2>3. Undisturbed => op # "delete"
    BY <1>1 DEF Inv, QueueInv
  <2>4. QueueInv'
    BY <1>1, <2>1, <2>3 DEF Inv, QueueInv, Undisturbed, NothingForgotten
  <2>5. Origin'
    BY <1>1, <2>1 DEF Inv, Origin, Undisturbed, exists
  <2>6. Progress'
    <3> SUFFICES ASSUME Alone
                 PROVE  (ReadProgress /\ UpdateProgress)'
      BY <2>1 DEF Progress, Alone, Undisturbed
    <3>1. AllProgress
      BY <1>1 DEF Inv, Progress, UpdateProgress
    <3>2. PoliciesProgress' /\ InlineProgress'
      BY <1>1, <2>1, <3>1 DEF AllProgress, PoliciesProgress, InlineProgress
    <3>3. TagsProgress'
      BY <1>1, <2>1, <3>1 DEF AllProgress, TagsProgress
    <3>4. BoundaryProgress' /\ PathProgress'
      BY <1>1, <2>1, <3>1 DEF AllProgress, BoundaryProgress, PathProgress
    <3> QED
      BY <1>2, <2>1, <3>2, <3>3, <3>4 DEF AllProgress, ReadProgress, UpdateProgress, Reads, exists
  <2>7. Shape'
    BY <1>1, <1>2, <2>1, <2>2 DEF Inv, Shape, Reads, exists
  <2> QED
    BY <2>4, <2>5, <2>6, <2>7 DEF Inv
<1> QED
  BY <1>2, RefusedInv DEF LateInitialize

\* With nothing left to do, the user has the tags that its spec asks for.
LEMMA TagsMatch ==
  ASSUME NEW s \in Content, NEW o, Normal(o), NEW d, Range(d) = Ensured(s),
         Range(o) \subseteq Range(d),
         \A t \in Range(d) : t.key \in Keys(o) \cup Contested
  PROVE  /\ \A k \in Keys(o) : k \in DOMAIN Wanted(s) /\ ToMap(o)[k] = Wanted(s)[k]
         /\ DOMAIN Wanted(s) \subseteq Keys(o) \cup Contested
<1>1. Normal(EnsureTags(s.tags))
  BY ContentTypes, EnsuredIs
<1>2. DOMAIN Wanted(s) = Keys(EnsureTags(s.tags))
  BY <1>1, NormalIs, MapOfList DEF Wanted
<1>3. ASSUME NEW k \in Keys(o)
      PROVE  k \in DOMAIN Wanted(s) /\ ToMap(o)[k] = Wanted(s)[k]
  <2>1. PICK t \in Range(o) : t.key = k
    BY DEF Keys
  <2>2. ToMap(o)[k] = t.value
    BY <2>1, NormalMap
  <2>3. t \in Range(EnsureTags(s.tags))
    BY DEF Ensured
  <2>4. k \in Keys(EnsureTags(s.tags)) /\ Wanted(s)[k] = t.value
    BY <1>1, <2>1, <2>3, NormalMap DEF Wanted
  <2> QED
    BY <1>2, <2>2, <2>4
<1>4. ASSUME NEW k \in DOMAIN Wanted(s)
      PROVE  k \in Keys(o) \cup Contested
  <2>1. PICK t \in Range(EnsureTags(s.tags)) : t.key = k
    BY <1>2 DEF Keys
  <2> QED
    BY <2>1 DEF Ensured
<1> QED
  BY <1>3, <1>4

\* The end of a reconcile that reports success: the user is what the CR says, unless it is
\* in the queue again.
LEMMA PatchInv ==
  ASSUME Inv, PatchCR
  PROVE  Inv'
<1>1. /\ SoundUser /\ pc = "patch" /\ todo = {} /\ desired \in Content /\ latest \in Content
      /\ cr \in CRType(Content) /\ queued \in BOOLEAN
      /\ op \in {"sync", "create", "delete"} /\ {"Synced", "Unsynced"} \subseteq Outcomes
      /\ "patch" \in Misfortunes
  BY DEF Inv, Shape, SoundUser, Sound, CommonTypes, PatchCR, Patch, Outcomes, CRType, Misfortunes
<1> DEFINE s == IF desired.path # None THEN cr.spec ELSE [cr.spec EXCEPT !.path = latest.path]
           o == IF op = "create" THEN "Unsynced" ELSE "Synced"
<1>2. cr.spec \in Content /\ latest.path \in Maybe(Paths)
  BY <1>1, ContentTypes DEF CRType
<1>3. /\ s \in Content /\ s.policies = cr.spec.policies /\ s.inline = cr.spec.inline
      /\ s.tags = cr.spec.tags /\ s.boundary = cr.spec.boundary
      /\ s.path = IF desired.path # None THEN cr.spec.path ELSE latest.path
  BY <1>2 DEF Content
<1>4. o \in Outcomes /\ Patch(o, s)
  BY <1>1 DEF PatchCR
<1>5. o = "Unsynced" \/ op # "create"
  OBVIOUS
<1> HIDE DEF s, o
<1>6. SoundUser' /\ pc' = "idle" /\ todo' = {} /\ object' = object
  BY <1>1, <1>3, <1>4, PatchSound DEF SoundUser
<1>7. ASSUME FinishWith(o, [cr EXCEPT !.spec = s]), UNCHANGED budget
      PROVE  Inv'
  <2>1. /\ cond' = o /\ queued' = (queued \/ o \in {"Unsynced", "Recoverable"}) /\ Idle
        /\ cr' = [[cr EXCEPT !.spec = s] EXCEPT !.id = @ \/ id]
    BY <1>7 DEF FinishWith
  <2>2. cr'.here = cr.here /\ cr'.deleting = cr.deleting /\ cr'.spec = s
    BY <1>1, <2>1 DEF CRType
  <2>3. CASE op = "create" \/ queued \/ ~cr.here
    <3>1. queued' \/ ~cr'.here
      BY <1>5, <2>1, <2>2, <2>3
    <3>2. cr'.spec.tags = cr.spec.tags /\ budget'["drift"] = budget["drift"]
      BY <1>3, <1>7, <2>2
    <3> QED
      BY <1>6, <2>1, <3>1, <3>2, EndInv
  <2>4. CASE op # "create" /\ ~queued /\ cr.here
    <3>1. Undisturbed => Agrees(desired, cr.spec) /\ Alone
      BY <1>1, <2>4 DEF Inv, QueueInv, Alone
    <3>2. ASSUME Undisturbed
          PROVE  Matches(cr.spec)'
      <4>1. exists /\ AllProgress /\ latest.path = object.path
        BY <1>1, <3>1, <3>2 DEF Inv, Progress, UpdateProgress
      <4>2. object \in Content /\ object' = object /\ exists'
        BY <1>1, <1>6, <4>1 DEF exists, SoundUser, Sound, CommonTypes
      <4>3. object.policies = s.policies
        BY <1>1, <1>3, <3>1, <3>2, <4>1, <4>2, ContentTypes DEF AllProgress, PoliciesProgress, Agrees
      <4>4. \A n \in InlineNames :
               IF s.inline[n] = None THEN object.inline[n] = None
               ELSE object.inline[n] \in {s.inline[n], Unescape[s.inline[n]]}
        BY <1>1, <1>3, <3>1, <3>2, <4>1 DEF AllProgress, InlineProgress, Agrees
      <4>5. /\ \A k \in Keys(object.tags) :
                  k \in DOMAIN Wanted(s) /\ ToMap(object.tags)[k] = Wanted(s)[k]
            /\ DOMAIN Wanted(s) \subseteq Keys(object.tags) \cup Contested
        <5>1. Normal(object.tags) /\ Range(desired.tags) = Ensured(s)
          BY <1>3, <3>1, <3>2, <4>1 DEF Inv, Shape, Agrees, Ensured
        <5>2. /\ Range(object.tags) \subseteq Range(desired.tags)
              /\ \A t \in Range(desired.tags) : t.key \in Keys(object.tags) \cup Contested
          BY <1>1, <4>1 DEF AllProgress, TagsProgress
        <5> QED
          BY <1>3, <5>1, <5>2, TagsMatch
      <4>6. object.boundary = s.boundary
        BY <1>1, <1>3, <3>1, <3>2, <4>1
           DEF AllProgress, BoundaryProgress, SyncUserPermissionsBoundary, Agrees
      <4>7. s.path \in {None, object.path}
        BY <1>1, <1>3, <3>1, <3>2, <4>1 DEF AllProgress, PathProgress, Agrees
      <4>8. cr'.spec = s
        BY <2>2
      <4> QED
        BY <4>2, <4>3, <4>4, <4>5, <4>6, <4>7, <4>8 DEF Matches
    <3>3. op' = "sync" /\ budget' = budget
      BY <1>7, <2>1 DEF Idle
    <3>4. QueueInv'
      BY <1>6, <3>2, <3>3 DEF Inv, QueueInv, Undisturbed, NothingForgotten
    <3>5. Shape' /\ Progress'
      BY <1>6, <3>3 DEF Inv, Shape, Progress, ReadProgress, UpdateProgress, Reads, exists
    <3>6. Origin'
      BY <1>3, <1>6, <2>2, <3>3 DEF Inv, Origin, Undisturbed, exists
    <3> QED
      BY <3>4, <3>5, <3>6 DEF Inv
  <2> QED
    BY <2>3, <2>4
<1>8. ASSUME Spend("patch"), queued' = TRUE, Idle, cr' = cr
      PROVE  Inv'
  <2>1. budget'["drift"] = budget["drift"]
    BY <1>1, <1>8, SpendDrift
  <2> QED
    BY <1>6, <1>8, <2>1, EndInv
<1> QED
  BY <1>4, <1>7, <1>8 DEF Patch

LEMMA DeleteInv ==
  ASSUME Inv, DeleteUser
  PROVE  Inv'
<1>1. SoundUser /\ pc = "deleteUser" /\ todo = {}
  BY DEF Inv, Shape, DeleteUser
<1>2. CASE Answered(None, "unmanage")
  <2>1. SoundUser' /\ UNCHANGED copies /\ pc' = "unmanage"
    BY <1>1, <1>2, AnsweredSound DEF SoundUser, SharedPlaces
  <2>2. /\ op' = op /\ desired' = desired /\ todo' = {} /\ object' = None
        /\ UNCHANGED <<cr, cond, queued, drift, budget>>
    BY <1>1, <1>2, <2>1 DEF copies, Answered, Goto
  <2>3. ~exists'
    BY <2>2 DEF exists
  <2>4. Completed(desired)
    BY <1>1, DesiredStays
  <2>5. Origin' /\ QueueInv'
    BY <1>1, <1>2, <2>2, <2>3, <2>4, GoesOnInv DEF Answered
  <2>6. Shape' /\ Progress'
    BY <1>1, <2>1, <2>2, <2>3 DEF Inv, Shape, Progress, ReadProgress, UpdateProgress, Reads
  <2> QED
    BY <2>5, <2>6 DEF Inv
<1> QED
  BY <1>2, RefusedInv DEF DeleteUser

\* The finalizer, and a crash.
LEMMA FinalizerInv ==
  ASSUME Inv, MarkManaged \/ MarkUnmanaged \/ Crash
  PROVE  Inv'
<1>1. SoundUser /\ cr \in CRType(Content) /\ "crash" \in Misfortunes
  BY DEF Inv, Shape, SoundUser, Sound, CommonTypes, CRType, Misfortunes
<1>2. CASE MarkManaged /\ cr.here
  <2>1. SoundUser'
    BY <1>1, <1>2, MarkManagedSound DEF SoundUser
  <2>2. /\ cr' = [cr EXCEPT !.managed = TRUE] /\ pc = "manage" /\ pc' = "create"
        /\ cond' = cond /\ queued' = queued /\ drift' = drift /\ budget' = budget
        /\ op' = op /\ desired' = desired /\ todo' = todo /\ latest' = latest /\ object' = object
    BY <1>2 DEF MarkManaged, copies
  <2>3. cr'.here = cr.here /\ cr'.deleting = cr.deleting /\ cr'.spec = cr.spec
    BY <1>1, <2>2 DEF CRType
  <2>4. QueueInv'
    BY <2>2, <2>3 DEF Inv, QueueInv, Undisturbed, NothingForgotten
  <2>5. Origin'
    BY <2>2, <2>3 DEF Inv, Origin, Undisturbed, exists
  <2>6. Shape' /\ Progress'
    BY <2>1, <2>2 DEF Inv, Shape, Progress, ReadProgress, UpdateProgress, Reads, exists
  <2> QED
    BY <2>4, <2>5, <2>6 DEF Inv
<1>3. CASE MarkManaged /\ ~cr.here
  <2>1. SoundUser'
    BY <1>1, <1>3, MarkManagedSound DEF SoundUser
  <2>2. budget' = budget /\ Idle /\ cr' = [cr EXCEPT !.id = @ \/ id] /\ object' = object
    BY <1>3 DEF MarkManaged, Finish, FinishWith
  <2>3. ~cr'.here /\ cr'.spec = cr.spec
    BY <1>1, <1>3, <2>2 DEF CRType
  <2> QED
    BY <2>1, <2>2, <2>3, EndInv
<1>4. CASE MarkUnmanaged
  <2>1. SoundUser'
    BY <1>1, <1>4, MarkUnmanagedSound DEF SoundUser
  <2>2. budget' = budget /\ Idle /\ cr' = [cr EXCEPT !.managed = FALSE, !.here = FALSE]
        /\ object' = object
    BY <1>4 DEF MarkUnmanaged
  <2>3. ~cr'.here /\ cr'.spec = cr.spec
    BY <1>1, <2>2 DEF CRType
  <2> QED
    BY <2>1, <2>2, <2>3, EndInv
<1>5. CASE Crash
  <2>1. SoundUser'
    BY <1>1, <1>5, CrashSound DEF SoundUser
  <2>2. budget'["drift"] = budget["drift"] /\ Idle /\ queued' = TRUE /\ cr' = cr /\ object' = object
    BY <1>1, <1>5, SpendDrift DEF Crash
  <2> QED
    BY <2>1, <2>2, EndInv
<1> QED
  BY <1>2, <1>3, <1>4, <1>5

\* What a reconcile has done stays done while nothing of it changes.
LEMMA ProgressStays ==
  ASSUME Inv, UNCHANGED <<object, pc, op, desired, latest, todo>>,
         budget'["drift"] = budget["drift"]
  PROVE  Progress'
<1>1. /\ object' = object /\ pc' = pc /\ op' = op /\ desired' = desired /\ latest' = latest
      /\ todo' = todo
  OBVIOUS
<1>2. Alone' = Alone /\ exists' = exists
  BY <1>1 DEF Alone, Undisturbed, exists
<1>3. ReadProgress' = ReadProgress
  BY <1>1, <1>2 DEF ReadProgress
<1>4. PoliciesProgress' = PoliciesProgress /\ InlineProgress' = InlineProgress
  BY <1>1 DEF PoliciesProgress, InlineProgress
<1>5. TagsProgress' = TagsProgress
  BY <1>1 DEF TagsProgress
<1>6. BoundaryProgress' = BoundaryProgress /\ PathProgress' = PathProgress
  BY <1>1 DEF BoundaryProgress, PathProgress
<1>7. UpdateProgress' = UpdateProgress
  BY <1>1, <1>2, <1>4, <1>5, <1>6 DEF UpdateProgress, AllProgress
<1> QED
  BY <1>2, <1>3, <1>7 DEF Inv, Progress

LEMMA AroundInv ==
  ASSUME Inv, Reconcile \/ Resync \/ EditSpec(Specs) \/ DeleteCR
  PROVE  Inv'
<1>1. SoundUser /\ cr \in CRType(Content) /\ "edit" \in Misfortunes
  BY DEF Inv, Shape, SoundUser, Sound, CommonTypes, CRType, Misfortunes
<1>2. CASE Reconcile
  <2>1. SoundUser' /\ UNCHANGED <<todo, object>> /\ pc' \in {"idle", "read"}
    BY <1>1, <1>2, ReconcileSound DEF SoundUser, Places
  <2>2. /\ cr' = cr /\ pc = "idle" /\ budget' = budget /\ todo' = {} /\ object' = object
        /\ pc' = "read" => /\ op' = IF cr.deleting THEN "delete" ELSE "sync"
                           /\ desired' = cr.spec
        /\ pc' = "idle" => ~cr.here
    BY <1>2, <2>1 DEF Reconcile, Inv, Shape
  <2>3. QueueInv'
    BY <2>1, <2>2 DEF Inv, QueueInv, Undisturbed, NothingForgotten
  <2>4. Origin'
    BY <2>1, <2>2 DEF Inv, Origin, Undisturbed, exists
  <2>5. Shape' /\ Progress'
    BY <2>1, <2>2 DEF Inv, Shape, Progress, ReadProgress, UpdateProgress, Reads, exists
  <2> QED
    BY <2>3, <2>4, <2>5 DEF Inv
<1>3. CASE Resync
  <2>1. SoundUser'
    BY <1>1, <1>3, ResyncSound DEF SoundUser
  <2>2. /\ pc = "idle" /\ pc' = "idle" /\ todo' = todo /\ queued' = TRUE /\ cr' = cr
        /\ object' = object /\ budget' = budget
    BY <1>3 DEF Resync, copies
  <2>3. QueueInv'
    BY <2>2 DEF Inv, QueueInv, Undisturbed, NothingForgotten
  <2>4. Origin'
    BY <2>2 DEF Inv, Origin, Undisturbed, exists
  <2>5. Shape' /\ Progress'
    BY <2>1, <2>2 DEF Inv, Shape, Progress, ReadProgress, UpdateProgress, Reads, exists
  <2> QED
    BY <2>3, <2>4, <2>5 DEF Inv
<1>4. CASE EditSpec(Specs) \/ DeleteCR
  <2>1. SoundUser' /\ UNCHANGED <<object, pc, copies, drift>>
    BY <1>1, <1>4, UserSound, UserAssumption DEF SoundUser
  <2>2. /\ object' = object /\ pc' = pc /\ queued' = TRUE
        /\ op' = op /\ desired' = desired /\ latest' = latest /\ todo' = todo
    BY <1>4, <2>1 DEF copies, EditSpec, DeleteCR
  <2>3. budget'["drift"] = budget["drift"]
    BY <1>1, <1>4, SpendDrift DEF EditSpec, DeleteCR
  <2>4. /\ cr.deleting => cr'.deleting
        /\ \E s \in Specs : cr'.spec.tags = s.tags
    <3>1. CASE EditSpec(Specs)
      <4>1. PICK s \in Specs : cr' = [cr EXCEPT !.spec = s]
        BY <3>1 DEF EditSpec
      <4> QED
        BY <1>1, <3>1, <4>1 DEF CRType, EditSpec
    <3>2. CASE DeleteCR
      BY <1>1, <3>2 DEF CRType, DeleteCR, Inv, Origin
    <3> QED
      BY <1>4, <3>1, <3>2
  <2>5. Shape'
    BY <2>1, <2>2 DEF Inv, Shape, exists
  <2>6. Origin'
    BY <2>2, <2>3, <2>4 DEF Inv, Origin, Undisturbed, exists
  <2>7. Progress'
    BY <2>2, <2>3, ProgressStays
  <2>8. QueueInv'
    BY <2>2, <2>3, <2>4 DEF Inv, QueueInv, Undisturbed, NothingForgotten
  <2> QED
    BY <2>5, <2>6, <2>7, <2>8 DEF Inv
<1> QED
  BY <1>2, <1>3, <1>4

\* What others do to the user can be IAM's content.
LEMMA DriftTypes ==
  ASSUME NEW o \in Content, Normal(o.tags)
  PROVE  /\ \A P \in SUBSET PolicyARNs : [o EXCEPT !.policies = P] \in Content
         /\ \A n \in InlineNames, doc \in Maybe(Docs \ BadDocs) :
                [o EXCEPT !.inline[n] = doc] \in Content
         /\ [o EXCEPT !.boundary = None] \in Content
         /\ \A k \in SystemKeys :
                LET tags == Tagged(o.tags, {[key |-> k, value |-> Empty]})
                IN  [o EXCEPT !.tags = tags] \in Content /\ Normal(tags)
<1>1. \A n \in InlineNames, doc \in Maybe(Docs \ BadDocs) :
          [o.inline EXCEPT ![n] = doc] \in [InlineNames -> Maybe(Docs)]
  BY ContentTypes DEF Maybe
<1>2. ASSUME NEW k \in SystemKeys
      PROVE  LET tags == Tagged(o.tags, {[key |-> k, value |-> Empty]})
             IN  [o EXCEPT !.tags = tags] \in Content /\ Normal(tags)
  <2> DEFINE t == [key |-> k, value |-> Empty]
             tags == Tagged(o.tags, {t})
  <2>1. t \in [key : TagKeys, value : TagValues]
    BY TagsAssumption
  <2>2. {u.key : u \in {t}} = {k} /\ IsFiniteSet({k})
    BY FS_Singleton
  <2> HIDE DEF t
  <2>3. Normal(tags)
    BY <2>1, <2>2, TaggedIs
  <2>4. tags \in Seq(Tag)
    BY <2>3, NormalIs
  <2> HIDE DEF tags
  <2>5. [o EXCEPT !.tags = tags] \in Content
    BY <2>4 DEF Content
  <2> QED
    BY <2>3, <2>5 DEF tags, t
<1> QED
  BY <1>1, <1>2 DEF Content, Maybe

LEMMA DriftInv ==
  ASSUME Inv, Drift
  PROVE  Inv'
<1>1. SoundUser /\ object \in Content \cup {None} /\ budget \in [Misfortunes -> Nat]
      /\ "drift" \in Misfortunes
  BY DEF Inv, Shape, SoundUser, Sound, CommonTypes, Misfortunes
<1>2. ASSUME NEW o \in Content \cup {None}, Drifts(o), o # None => Normal(o.tags)
      PROVE  Inv'
  <2>1. SoundUser' /\ UNCHANGED <<pc, copies>>
    BY <1>1, <1>2, DriftsSound DEF SoundUser
  <2>2. /\ pc' = pc /\ op' = op /\ desired' = desired /\ latest' = latest /\ todo' = todo
        /\ object' = o /\ cr' = cr
    BY <1>2, <2>1 DEF copies, Drifts
  <2>3. budget'["drift"] = budget["drift"] - 1
    BY <1>1, <1>2 DEF Drifts, Spend
  <2>4. budget["drift"] \in Nat /\ Budget["drift"] \in Nat /\ budget["drift"] <= Budget["drift"]
    BY <1>1, ReconcilerAssumption DEF Inv, QueueInv
  <2>5. ~Undisturbed' /\ budget'["drift"] <= Budget["drift"]
    BY <2>3, <2>4 DEF Undisturbed
  <2>6. QueueInv' /\ Progress'
    BY <2>5 DEF QueueInv, Progress, Alone
  <2>7. Origin'
    BY <2>2, <2>5 DEF Inv, Origin
  <2>8. Shape'
    BY <1>2, <2>1, <2>2 DEF Inv, Shape, exists
  <2> QED
    BY <2>6, <2>7, <2>8 DEF Inv
<1>3. exists => object \in Content /\ Normal(object.tags)
  BY <1>1 DEF Inv, Shape, exists
<1>4. ASSUME NEW p \in PolicyARNs, exists,
             Drifts([object EXCEPT !.policies = IF p \in object.policies THEN object.policies \ {p}
                                                ELSE object.policies \cup {p}])
      PROVE  Inv'
  <2> DEFINE P == IF p \in object.policies THEN object.policies \ {p} ELSE object.policies \cup {p}
             o == [object EXCEPT !.policies = P]
  <2>1. P \subseteq PolicyARNs
    BY <1>3, <1>4, ContentTypes
  <2> HIDE DEF P
  <2>2. o \in Content /\ o.tags = object.tags
    BY <1>3, <1>4, <2>1, DriftTypes DEF Content
  <2>3. Drifts(o)
    BY <1>4 DEF P
  <2> HIDE DEF o
  <2> QED
    BY <1>2, <1>3, <1>4, <2>2, <2>3
<1>5. ASSUME NEW n \in InlineNames, NEW doc \in Maybe(Docs \ BadDocs), exists,
             Drifts([object EXCEPT !.inline[n] = doc])
      PROVE  Inv'
  <2> DEFINE o == [object EXCEPT !.inline[n] = doc]
  <2>1. o \in Content /\ o.tags = object.tags
    BY <1>3, <1>5, DriftTypes DEF Content
  <2>2. Drifts(o)
    BY <1>5
  <2> HIDE DEF o
  <2> QED
    BY <1>2, <1>3, <1>5, <2>1, <2>2
<1>6. ASSUME NEW k \in SystemKeys, exists,
             Drifts([object EXCEPT !.tags = Tagged(object.tags, {[key |-> k, value |-> Empty]})])
      PROVE  Inv'
  <2> DEFINE tags == Tagged(object.tags, {[key |-> k, value |-> Empty]})
             o == [object EXCEPT !.tags = tags]
  <2>1. o \in Content /\ Normal(tags)
    BY <1>3, <1>6, DriftTypes
  <2>2. Drifts(o)
    BY <1>6
  <2> HIDE DEF tags
  <2>3. o.tags = tags
    BY <1>3, <1>6 DEF Content
  <2> HIDE DEF o
  <2> QED
    BY <1>2, <2>1, <2>2, <2>3
<1>7. ASSUME exists, Drifts([object EXCEPT !.boundary = None])
      PROVE  Inv'
  <2> DEFINE o == [object EXCEPT !.boundary = None]
  <2>1. o \in Content /\ o.tags = object.tags
    BY <1>3, <1>7, DriftTypes DEF Content
  <2>2. Drifts(o)
    BY <1>7
  <2> HIDE DEF o
  <2> QED
    BY <1>2, <1>3, <1>7, <2>1, <2>2
<1>8. ASSUME Drifts(None)
      PROVE  Inv'
  BY <1>2, <1>8
<1> QED
  BY <1>4, <1>5, <1>6, <1>7, <1>8 DEF Drift

LEMMA InvInit ==
  ASSUME Init(Specs)
  PROVE  Inv
<1>1. SoundUser
  BY InitSound, UserAssumption DEF SoundUser
<1>2. budget["drift"] = Budget["drift"] /\ Budget["drift"] \in Nat
  BY ReconcilerAssumption DEF Init, Misfortunes
<1>3. \E s \in Specs : cr.spec.tags = s.tags
  BY DEF Init
<1>4. /\ pc = "idle" /\ op = "sync" /\ todo = {} /\ ~exists /\ queued
  BY DEF Init, exists
<1>5. Shape /\ Progress
  BY <1>1, <1>4 DEF Shape, Progress, ReadProgress, UpdateProgress, Reads
<1> QED
  BY <1>2, <1>3, <1>4, <1>5 DEF Inv, Origin, QueueInv, NothingForgotten

LEMMA InvNext ==
  ASSUME Inv, [Next]_vars
  PROVE  Inv'
<1>1. CASE UNCHANGED vars
  <2>1. /\ cr' = cr /\ cond' = cond /\ queued' = queued /\ object' = object /\ pc' = pc
        /\ op' = op /\ id' = id /\ desired' = desired /\ latest' = latest /\ todo' = todo
        /\ drift' = drift /\ budget' = budget
    BY <1>1 DEF vars
  <2>2. Shape'
    BY <2>1 DEF Inv, Shape, SoundUser, Sound, CommonTypes, exists
  <2>3. Origin'
    BY <2>1 DEF Inv, Origin, Undisturbed, exists
  <2>4. Progress'
    BY <2>1, ProgressStays
  <2>5. QueueInv'
    BY <2>1 DEF Inv, QueueInv, Undisturbed, NothingForgotten, Matches, exists
  <2> QED
    BY <2>2, <2>3, <2>4, <2>5 DEF Inv
<1> QED
  BY <1>1, GetUserInv, ListAttachedInv, ListInlineInv, GetPolicyInv, ListTagsInv, AttachInv,
     DetachInv, PutInv, DeleteInlineInv, AddTagsInv, RemoveTagsInv, PutBoundaryInv,
     DeleteBoundaryInv, UpdateUserInv, CreateInv, LateInitializeInv, PatchInv, DeleteInv,
     FinalizerInv, AroundInv, DriftInv
     DEF Next, Controller, ReadOne, Update, Environment

LEMMA Invariant == Spec => []Inv
<1> QED
  BY InvInit, InvNext, PTL DEF Spec

\* The variables keep their types, and there are calls left to make exactly while inline
\* policies are read or an update is under way: the tags that are merged, mirrored, added
\* and taken off are always a list of tags.
THEOREM TypeCorrect == Spec => []TypeOK
<1>1. Inv => TypeOK
  BY DEF Inv, Shape, SoundUser, Sound, TypeOK
<1> QED
  BY <1>1, Invariant, PTL

\* A CR leaves the queue, as long as nobody else touches its user, only when the user is
\* what it says: not after a creation, an edit that came while it was reconciled, a call
\* that failed, a lost patch, a crash, or a list of tags that was read in part twice
\* (getTags).  Its tags are the desired ones, but for those of a key that two specs give
\* different values, which syncTags may take off after it has added them.
THEOREM NeverForgotten == Spec => []NothingForgotten
<1>1. Inv => NothingForgotten
  BY DEF Inv, QueueInv, Undisturbed, NothingForgotten
<1> QED
  BY <1>1, Invariant, PTL

-----------------------------------------------------------------------------
(* User implements Lifecycle.                                              *)

InvLife == Inv /\ LifeInv("deleteUser")

LEMMA LifeTypes ==
  ASSUME InvLife
  PROVE  /\ LifeInv("deleteUser") /\ cr \in CRType(Content) /\ cr.spec \in Content
         /\ cond \in Outcomes /\ ByName /\ (exists => object \in Content)
         /\ {"Unsynced", "Synced", "Recoverable", "Terminal"} \subseteq Outcomes
  BY UserAssumption DEF InvLife, Inv, Shape, SoundUser, Sound, CommonTypes, CRType, Outcomes, exists

LEMMA RefusedLife ==
  ASSUME InvLife, CallFails \/ Refused("Recoverable") \/ \E code : Refused(terminalAWSError(code))
  PROVE  LifeInv("deleteUser")' /\ Mapped
<1>1. CallFails \/ \E o \in Outcomes : Refused(o)
  BY LifeTypes DEF terminalAWSError
<1>2. "deleteUser" # "idle"
  OBVIOUS
<1> QED
  BY <1>1, <1>2, LifeTypes, FinishLife

LEMMA UserGoesOn ==
  ASSUME InvLife, pc # "idle", NEW q, Goto(q), UNCHANGED <<op, id>>, exists' = exists,
         q \in Reads \cup {"patch"} \/ \E calls : q = After(calls)
  PROVE  LifeInv("deleteUser")' /\ Mapped
<1>1. q \notin {"manage", "create", "unmanage"} /\ (q = "deleteUser" => op = "delete")
  BY DEF After, Reads
<1> QED
  BY <1>1, LifeTypes, GoesOnLife

LEMMA ReadLife ==
  ASSUME InvLife, ReadOne
  PROVE  LifeInv("deleteUser")' /\ Mapped
<1>1. ASSUME NEW l, NEW pending, ReadInline(l, pending), pc # "idle", object' = object
      PROVE  LifeInv("deleteUser")' /\ Mapped
  <2>1. UNCHANGED <<op, id>> /\ exists' = exists
    BY <1>1 DEF ReadInline, exists
  <2>2. Goto("readInline") \/ Goto("listTags")
    BY <1>1 DEF ReadInline
  <2> QED
    BY <1>1, <2>1, <2>2, UserGoesOn DEF Reads
<1>2. CASE GetUser
  <2>1. pc = "read"
    BY <1>2 DEF GetUser
  <2>2. ASSUME ~exists, Goto(IF op = "delete" THEN "unmanage" ELSE "manage"),
               UNCHANGED <<object, op, id>>
        PROVE  LifeInv("deleteUser")' /\ Mapped
    <3>1. /\ cr' = cr /\ object' = object /\ op' = op /\ id' = id
          /\ pc' = IF op = "delete" THEN "unmanage" ELSE "manage"
      BY <2>2 DEF Goto
    <3> QED
      BY <2>1, <2>2, <3>1, LifeTypes DEF LifeInv, Mapped, LifeVars, known, exists
  <2>3. ASSUME exists, Goto("listPolicies"), UNCHANGED <<object, op, id>>
        PROVE  LifeInv("deleteUser")' /\ Mapped
    BY <2>1, <2>3, UserGoesOn DEF Reads, exists
  <2> QED
    BY <1>2, <2>2, <2>3, RefusedLife DEF GetUser
<1>3. CASE ListAttachedUserPolicies
  <2>1. CASE Goto("listInline") /\ UNCHANGED <<object, op, id, desired, todo>>
    BY <1>3, <2>1, UserGoesOn DEF ListAttachedUserPolicies, Reads, exists
  <2> QED
    BY <1>3, <2>1, RefusedLife DEF ListAttachedUserPolicies
<1>4. CASE ListUserPolicies
  BY <1>1, <1>4, RefusedLife DEF ListUserPolicies, ReadInline
<1>5. CASE GetUserPolicy
  BY <1>1, <1>5, RefusedLife DEF GetUserPolicy, ReadInline
<1>6. CASE ListUserTags
  <2>1. CASE Goto("listTags") /\ UNCHANGED <<object, op, id, desired, todo>>
    BY <1>6, <2>1, UserGoesOn DEF ListUserTags, Reads, exists
  <2>2. ASSUME NEW calls, Goto(After(calls)), UNCHANGED <<object, op, id>>
        PROVE  LifeInv("deleteUser")' /\ Mapped
    BY <1>6, <2>2, UserGoesOn DEF ListUserTags, exists
  <2> QED
    BY <1>6, <2>1, <2>2, RefusedLife DEF ListUserTags
<1> QED
  BY <1>2, <1>3, <1>4, <1>5, <1>6 DEF ReadOne

\* No call of an update makes a user come or go.
LEMMA UpdateLife ==
  ASSUME InvLife, Update
  PROVE  LifeInv("deleteUser")' /\ Mapped
<1>1. exists' = exists
  BY AttachInv, DetachInv, PutInv, DeleteInlineInv, AddTagsInv, RemoveTagsInv, PutBoundaryInv,
     DeleteBoundaryInv, UpdateUserInv DEF Update, InvLife
<1>2. ASSUME NEW call, NEW condition, NEW o, NEW code, Attempt(call, condition, o, code)
      PROVE  LifeInv("deleteUser")' /\ Mapped
  <2>1. CASE Goto(After(todo \ {call})) /\ UNCHANGED <<op, id>>
    BY <1>1, <1>2, <2>1, UserGoesOn DEF Attempt
  <2> QED
    BY <1>2, <2>1, RefusedLife DEF Attempt
<1> QED
  BY <1>2 DEF Update, AttachUserPolicy, DetachUserPolicy, PutUserPolicy, DeleteUserPolicy,
              AddTags, RemoveTags, PutUserPermissionsBoundary, DeleteUserPermissionsBoundary,
              UpdateUser

LEMMA OtherCallsLife ==
  ASSUME InvLife, CreateUser \/ LateInitialize \/ PatchCR \/ DeleteUser
  PROVE  LifeInv("deleteUser")' /\ Mapped
<1>1. CASE CreateUser
  <2>1. CASE /\ object' = [policies |-> {}, inline |-> NoInline, tags |-> desired.tags,
                           boundary |-> desired.boundary,
                           path |-> IF desired.path = None THEN DefaultPath ELSE desired.path]
             /\ op' = "create" /\ Goto("lateInit") /\ id' = id
    <3>1. pc = "create" /\ desired \in Content
      BY <1>1 DEF CreateUser, InvLife, Inv, Shape, SoundUser, Sound
    <3>2. /\ desired.path \in Maybe(Paths) /\ desired.boundary \in Maybe(PolicyARNs)
          /\ desired.tags \in Seq(Tag)
      BY <3>1, ContentTypes
    <3>3. object' \in Content
      BY <2>1, <3>2, UserAssumption DEF Content, NoInline, Maybe
    <3>4. exists'
      BY <3>3, UserAssumption DEF exists
    <3>5. op' = "create" /\ Goto("lateInit") /\ id' = id
      BY <2>1
    <3> QED
      BY <3>1, <3>4, <3>5, LifeTypes, CreateLife
  <2> QED
    BY <1>1, <2>1, RefusedLife DEF CreateUser
<1>2. CASE LateInitialize
  <2>1. CASE Goto("patch") /\ UNCHANGED <<object, op, id, desired, todo>>
    BY <1>2, <2>1, UserGoesOn DEF LateInitialize, exists
  <2> QED
    BY <1>2, <2>1, RefusedLife DEF LateInitialize
<1>3. CASE PatchCR
  <2> DEFINE s == IF desired.path # None THEN cr.spec ELSE [cr.spec EXCEPT !.path = latest.path]
  <2>1. latest \in Content
    BY <1>3 DEF PatchCR, Patch, InvLife, Inv, Shape
  <2>2. s \in Content
    BY <2>1, LifeTypes DEF Content
  <2>3. \E o \in Outcomes : Patch(o, s)
    BY <1>3, LifeTypes DEF PatchCR
  <2> HIDE DEF s
  <2>4. "deleteUser" # "idle"
    OBVIOUS
  <2> QED
    BY <2>2, <2>3, <2>4, LifeTypes, FinishLife
<1>4. CASE DeleteUser
  <2>1. CASE exists /\ Answered(None, "unmanage")
    BY <1>4, <2>1, LifeTypes, DeleteLife DEF DeleteUser
  <2> QED
    BY <1>4, <2>1, RefusedLife DEF DeleteUser
<1> QED
  BY <1>1, <1>2, <1>3, <1>4

LEMMA StepLife == InvLife /\ [Next]_vars => InvLife' /\ Mapped
<1> SUFFICES ASSUME InvLife, [Next]_vars
             PROVE  LifeInv("deleteUser")' /\ Mapped
  BY InvNext DEF InvLife
<1>1. "deleteUser" \notin {"idle", "read", "create"}
  OBVIOUS
<1>2. CASE Reconcile \/ Resync
  BY <1>1, <1>2, LifeTypes, ReconcileLife
<1>3. CASE MarkManaged \/ MarkUnmanaged
  BY <1>1, <1>3, LifeTypes, FinalizerLife
<1>4. CASE Crash
  BY <1>1, <1>4, LifeTypes, FinishLife
<1>5. CASE EditSpec(Specs) \/ DeleteCR
  BY <1>1, <1>5, LifeTypes, UserLife
<1>6. CASE Drift
  BY <1>6, LifeTypes, DriftsLife DEF Drift
<1>7. CASE UNCHANGED vars
  <2>1. /\ cr' = cr /\ pc' = pc /\ id' = id /\ op' = op /\ object' = object
    BY <1>7 DEF vars
  <2> QED
    BY <2>1, LifeTypes DEF LifeInv, Mapped, LifeVars, known, exists
<1> QED
  BY <1>2, <1>3, <1>4, <1>5, <1>6, <1>7, ReadLife, UpdateLife, OtherCallsLife
     DEF Next, Controller, Environment

\* The detailed manager implements the abstract life cycle: a user is created only for a CR
\* with the finalizer, which goes only after the user.
THEOREM UserImplementsLifecycle == Spec => ImplementsLifecycle
<1>1. Init(Specs) => InvLife /\ L!Init
  BY InvInit, InitLife, UserAssumption DEF InvLife
<1>2. InvLife /\ [Next]_vars => InvLife' /\ [L!Next]_(L!vars)
  BY StepLife DEF Mapped, LifeVars, L!vars
<1> QED
  BY <1>1, <1>2, PTL DEF Spec, ImplementsLifecycle, L!Spec
=============================================================================
