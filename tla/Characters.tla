----------------------------- MODULE Characters -----------------------------
(***************************************************************************)
(* A text is a sequence of characters, of which the scanners of this       *)
(* program tell only classes apart.  A loop that consumes characters one   *)
(* by one while they are of some class is the first place behind them.     *)
(***************************************************************************)
EXTENDS Naturals, Sequences, FiniteSetsExt

CONSTANTS Digit, Letter, Space      \* "_" is a Letter

\* What the scanners look for one by one is in no class, and classes are disjoint.
ASSUME CharactersAssumption ==
    /\ Digit \cap Letter = {} /\ Space \cap (Digit \cup Letter) = {}
    /\ {"=", ">", "<", "(", ")", "!", "\"", "\\", ".", "-", ":"} \cap (Digit \cup Letter \cup Space) = {}

At(s, i, chars) == i <= Len(s) /\ s[i] \in chars
\* The first place from i on without one of these characters.
RunEnd(s, i, chars) == Min({j \in i .. Len(s) + 1 : ~At(s, j, chars)})
\* The first place from i on with one of them, or behind the text.
NextOf(s, i, chars) == Min({j \in i .. Len(s) + 1 : j <= Len(s) => s[j] \in chars})
=============================================================================
