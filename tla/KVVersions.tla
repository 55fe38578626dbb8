----------------------------- MODULE KVVersions -----------------------------
(***************************************************************************)
(* What a drafter-KV history promises: the adapter version each token's KV *)
(* was computed with, token by token.  Tokens are appended with one        *)
(* version and retracted from the end; nothing else ever changes.          *)
(***************************************************************************)
EXTENDS Naturals, Sequences

CONSTANTS
    MaxTokens,      \* bound: tokens of a history
    Versions        \* adapter versions

VARIABLE tokens     \* the version of each token's KV

AppendTokens(count, version) ==
    /\ Len(tokens) + count <= MaxTokens
    /\ tokens' = [t \in 1..(Len(tokens) + count) |->
                     IF t <= Len(tokens) THEN tokens[t] ELSE version]

RetractTokens(length) ==
    /\ length <= Len(tokens)
    /\ tokens' = [t \in 1..length |-> tokens[t]]

Init == tokens = << >>
Next ==
    \/ \E count \in 1..MaxTokens, version \in Versions : AppendTokens(count, version)
    \/ \E length \in 0..MaxTokens : RetractTokens(length)
Spec == Init /\ [][Next]_tokens
=============================================================================
