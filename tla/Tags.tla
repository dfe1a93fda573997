-------------------------------- MODULE Tags --------------------------------
(***************************************************************************)
(* Tags as the controller handles them: lists in the CRs and in IAM's      *)
(* answers, maps while they are merged.  src/pkg/util/tags.go, and         *)
(* tags.go, EnsureTags and mirrorAWSTags, which are the same for every     *)
(* kind that has tags.                                                     *)
(*                                                                         *)
(* A list may name a key twice; a value may be nil until EnsureTags.       *)
(***************************************************************************)
EXTENDS SequencesExt

CONSTANTS
    TagKeys, TagValues,
    Nil,            \* a value that is not given
    Empty,          \* the empty value
    SystemKeys,     \* keys that begin with "aws:"
    ControllerTags  \* GetDefaultTags: what the controller tags everything with

ASSUME TagsAssumption ==
    /\ Empty \in TagValues
    /\ Nil \notin TagValues
    /\ SystemKeys \subseteq TagKeys
    /\ IsFiniteSet(DOMAIN ControllerTags)
    /\ DOMAIN ControllerTags \subseteq TagKeys \ SystemKeys
    /\ ControllerTags \in [DOMAIN ControllerTags -> TagValues]

Tag == [key : TagKeys, value : TagValues \cup {Nil}]

Keys(tags) == {t.key : t \in Range(tags)}

\* The map of convertToOrderedACKTags: of a key that is given twice the last value
\* stays.
ToMap(tags) ==
    LET last(k) == CHOOSE i \in DOMAIN tags :
                      tags[i].key = k /\ \A j \in i + 1..Len(tags) : tags[j].key # k
        given(v) == IF v = Nil THEN Empty ELSE v
    IN  [k \in Keys(tags) |-> given(tags[last(k)].value)]

\* Each key once.  The order, which is that of the desired tags, is of no consequence.
FromACKTags(map) ==
    LET keys == SetToSeq(DOMAIN map)
    IN  [i \in DOMAIN keys |-> [key |-> keys[i], value |-> map[keys[i]]]]

\* Two maps merged: f has precedence.
Over(f, g) == [k \in DOMAIN f \cup DOMAIN g |-> IF k \in DOMAIN f THEN f[k] ELSE g[k]]

\* The tags of the user have precedence.
EnsureTags(tags) == FromACKTags(Over(ToMap(tags), ControllerTags))

\* syncAWSTags: those of AWS that have been found join the desired ones.
MirrorAWSTags(desired, latest) ==
    FromACKTags(Over(Restrict(ToMap(latest), Keys(latest) \cap SystemKeys), ToMap(desired)))

\* equalStrings.  The code dereferences nil if just one is nil and the other is not empty;
\* that is not met, as values are given after EnsureTags and in what IAM lists.
EqualStrings(a, b) == a = b \/ {a, b} = {Nil, Empty}

\* What turns the list a into b: a tag is compared with the first of its key.
ComputeTagsDelta(a, b) ==
    LET first(k) == b[CHOOSE i \in DOMAIN b :
                         b[i].key = k /\ \A j \in 1..(i - 1) : b[j].key # k]
        common == Keys(a) \cap Keys(b)
        changed == {t \in Range(a) : t.key \in common /\ ~EqualStrings(t.value, first(t.key).value)}
    IN  [addedOrUpdated |-> {first(t.key) : t \in changed}
                                \cup {t \in Range(b) : t.key \notin common},
         removed |-> Keys(a) \ common]

EqualTags(a, b) == ComputeTagsDelta(a, b) = [addedOrUpdated |-> {}, removed |-> {}]

\* Does compareTags find a difference?
CompareTags(a, b) == Len(a) # Len(b) \/ ~EqualTags(a, b)

\* syncTags: by inTags, which compares keys and values.
ToAdd(desired, latest) == Range(desired) \ Range(latest)
ToRemove(desired, latest) == Range(latest) \ Range(desired)

\* What IAM has after the calls.
Tagged(tags, added) ==
    FromACKTags(Over([k \in {t.key : t \in added} |-> (CHOOSE t \in added : t.key = k).value],
                     ToMap(tags)))
Untagged(tags, removed) ==
    FromACKTags(Restrict(ToMap(tags), Keys(tags) \ {t.key : t \in removed}))
=============================================================================
