----------------------------- MODULE TextTyping -----------------------------
(***************************************************************************)
(* A text that comes into being one item at a time: a query as a user      *)
(* types it, a line as a logger writes it.  Sessions says for every kind   *)
(* of text from which items it is made and how long it may get.            *)
(***************************************************************************)
EXTENDS Naturals, Sequences

CONSTANT Sessions       \* what the text is -> [alphabet, length]

VARIABLES session, input
vars == <<session, input>>

Init == session \in DOMAIN Sessions /\ input = <<>>

Next ==
    /\ Len(input) < Sessions[session].length
    /\ \E c \in Sessions[session].alphabet : input' = Append(input, c)
    /\ UNCHANGED session

Spec == Init /\ [][Next]_vars

About(kind) == session = kind
=============================================================================
