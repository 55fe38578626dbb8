--------------------------- MODULE FrozenKVHistory ---------------------------
(***************************************************************************)
(* FrozenKVHistory of adaptation/kv_history.py: the version of each        *)
(* token's KV as a list of half-open segments, merged on append and cut on *)
(* retraction.  It implements KVVersions.                                  *)
(***************************************************************************)
EXTENDS Naturals, Sequences

CONSTANTS
    MaxTokens,      \* bound: tokens of a history
    Versions        \* adapter versions

ASSUME HistoryAssumption == MaxTokens \in Nat /\ Versions \subseteq Nat

VARIABLE segments

Segment(start, stop, version) == [start |-> start, stop |-> stop, version |-> version]
Lesser(m, n) == IF m <= n THEN m ELSE n

\* The length property.
Length == IF segments = << >> THEN 0 ELSE segments[Len(segments)].stop

HistoryInit == segments = << >>

MergedFromLength(count, version) == Segment(Length, Length + count, version)
\* The last segment extended by count tokens of its own version.
Merged(count, version) == Segment(segments[Len(segments)].start, Length + count, version)

MergeableAlways(version) == segments # << >>
Mergeable(version) == segments # << >> /\ segments[Len(segments)].version = version

\* append: extend the last segment if it has this version, else add one.
AppendKV(count, version) ==
    /\ Length + count <= MaxTokens
    /\ segments' =
         IF Mergeable(version)
         THEN [segments EXCEPT ![Len(segments)] = Merged(count, version)]
         ELSE Append(segments, Segment(Length, Length + count, version))

\* A retained segment ends at the new length at the latest.
Cut(segment, length) ==
    Segment(segment.start, Lesser(segment.stop, length), segment.version)

\* The segments before the first one that starts at or after the new length.
Retained(length) ==
    {i \in DOMAIN segments : \A j \in 1..i : segments[j].start < length}

\* retract: drop and cut segments down to length tokens.
Retract(length) ==
    /\ length <= Length
    /\ segments' = [i \in Retained(length) |-> Cut(segments[i], length)]

HistoryNext ==
    \/ \E count \in 1..MaxTokens, version \in Versions : AppendKV(count, version)
    \/ \E length \in 0..MaxTokens : Retract(length)

HistorySpec == HistoryInit /\ [][HistoryNext]_segments

\* version_at: the first segment that covers the token.
Covers(i, token) == segments[i].start <= token /\ token < segments[i].stop
SegmentOf(token) ==
    CHOOSE i \in DOMAIN segments :
        Covers(i, token) /\ \A j \in 1..(i - 1) : ~Covers(j, token)
VersionAt(token) == segments[SegmentOf(token)].version
-----------------------------------------------------------------------------
\* What the constructor of a segment accepts: a non-empty half-open interval.
KVSegment == {s \in [start : Nat, stop : Nat, version : Versions] : s.start < s.stop}

\* Type invariant: a list of segments that the constructor accepts.
HistoryTypeOK == segments \in Seq(KVSegment)

\* The segments are non-empty, start at token 0, leave no gap, never overlap
\* and never repeat the version of their predecessor, so every token below
\* length has exactly one version and version_at raises for no such token.
SegmentsCanonical ==
    \A i \in DOMAIN segments :
        /\ segments[i].start < segments[i].stop
        /\ segments[i].start = IF i = 1 THEN 0 ELSE segments[i - 1].stop
        /\ i > 1 => segments[i].version # segments[i - 1].version

\* SegmentsCanonical, seen from any two segments and from any token: the form
\* of it that a step preserves.
SegmentsOrdered ==
    \A i, j \in DOMAIN segments : i < j => segments[i].stop <= segments[j].start
TokensCovered ==
    \A t \in 0..(Length - 1) : \E i \in DOMAIN segments : Covers(i, t)
HistoryInv == HistoryTypeOK /\ SegmentsCanonical /\ SegmentsOrdered /\ TokensCovered

\* The token-by-token history that the segments stand for.
Abstract == INSTANCE KVVersions WITH tokens <- [t \in 1..Length |-> VersionAt(t - 1)]

\* Appending and retracting segments is appending and retracting the versions
\* of single tokens: merging and cutting never change the version of a
\* retained token ("Append-only metadata for KV values that are never
\* reconstructed").
ImplementsTokenVersions == Abstract!Spec
=============================================================================
