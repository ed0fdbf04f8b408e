---------------------------- MODULE MCWatchLoop ----------------------------
(***************************************************************************)
(* Small instances of WatchLoop, of three lines each: the store is given   *)
(* two good lines with an untimed one between them, the live loop two with *)
(* a malformed one between them, so that a good line also comes behind     *)
(* another one of the file that a rotation has put at the path.  With two  *)
(* bytes to a line, what is left of a line is blank.                       *)
(***************************************************************************)
EXTENDS WatchLoopProps

CONSTANTS a, b, untimed, garbage, blank

MCTexts == {a, b, untimed, garbage, blank}
MCKindOf ==
    [t \in MCTexts |->
        IF t = untimed THEN "untimed"
        ELSE IF t = garbage THEN "malformed"
        ELSE IF t = blank THEN "blank" ELSE "good"]

FirstTexts == <<a, untimed, b, a>>
MixedTexts == <<a, garbage, b>>
MCFirst == [n \in LineNumbers |-> IF n < Len(FirstTexts) THEN FirstTexts[n + 1] ELSE a]
MCMixed == [n \in LineNumbers |-> IF n < Len(MixedTexts) THEN MixedTexts[n + 1] ELSE a]
=============================================================================
