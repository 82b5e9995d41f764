----------------------------- MODULE LineSession -----------------------------
(***************************************************************************)
(* A user at a query line: any character typed, any editing key pressed.   *)
(***************************************************************************)
EXTENDS LineEditing

CONSTANT MaxLine  \* bound on the characters of the line

VARIABLE line

Chars == DOMAIN Width

Init == line = EmptyLine

Type == \E c \in Chars : line # Panic /\ Len(line.text) < MaxLine /\ line' = insert_char(line, c)
Edit == line # Panic /\ line' \in Edits(line)
Move == line # Panic /\ line' \in Moves(line)

Next == Type \/ Edit \/ Move

Spec == Init /\ [][Next]_line

(***************************************************************************)
(* The test back_and_word_are_multibyte_safe, and the pickers' "Always on  *)
(* a UTF-8 char boundary; all mutating handlers maintain this invariant":  *)
(* no key ever cuts a character.                                           *)
(***************************************************************************)
MultibyteSafe == line # Panic /\ line.cursor \in Boundaries(line.text)
=============================================================================
