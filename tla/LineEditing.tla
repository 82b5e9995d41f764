----------------------------- MODULE LineEditing -----------------------------
(***************************************************************************)
(* The query line of the pickers (levelup-tui/src/editing.rs): a text and  *)
(* a cursor, the cursor a byte offset into the text's UTF-8.  An operation *)
(* that slices the text off a character boundary panics; its result is     *)
(* then Panic.                                                             *)
(***************************************************************************)
EXTENDS Naturals, Sequences, FiniteSets, SequencesExt, FiniteSetsExt

CONSTANTS
  Width,  \* the length in bytes of each character
  Blanks, \* char::is_whitespace
  Panic

Bytes(s) == FoldLeft(LAMBDA n, c : n + Width[c], 0, s)

\* The byte offsets at which a character of s starts, and its end.
Boundaries(s) == {Bytes(SubSeq(s, 1, i)) : i \in 0..Len(s)}

\* The number of characters before boundary pos.
CharsBefore(s, pos) == CHOOSE i \in 0..Len(s) : Bytes(SubSeq(s, 1, i)) = pos

Line(text, cursor) == [text |-> text, cursor |-> cursor]
EmptyLine == Line(<<>>, 0)

prev_offset(s, pos) == LET i == CharsBefore(s, pos) IN IF i = 0 THEN 0 ELSE pos - Width[s[i]]
next_offset(s, pos) == LET i == CharsBefore(s, pos) IN IF i = Len(s) THEN pos ELSE pos + Width[s[i + 1]]

\* String::replace_range(from..to, ""), which leaves the cursor at from.
Cut(l, from, to) ==
  IF {from, to} \subseteq Boundaries(l.text)
  THEN Line(SubSeq(l.text, 1, CharsBefore(l.text, from))
              \o SubSeq(l.text, CharsBefore(l.text, to) + 1, Len(l.text)), from)
  ELSE Panic

\* String::insert at the cursor, which moves past the character.
insert_char(l, c) ==
  LET i == CharsBefore(l.text, l.cursor)
  IN Line(SubSeq(l.text, 1, i) \o <<c>> \o SubSeq(l.text, i + 1, Len(l.text)), l.cursor + Width[c])

delete_back(l) == Cut(l, prev_offset(l.text, l.cursor), l.cursor)

delete_forward(l) == Cut(l, l.cursor, next_offset(l.text, l.cursor))
kill_to_end(l) == Cut(l, l.cursor, Bytes(l.text))
kill_line(l) == EmptyLine

\* Back over blanks, then over what is not; the search for the blank before
\* finds the byte it starts at, and goes on one byte behind that.
delete_word(l) ==
  LET n == CharsBefore(l.text, l.cursor)
      words == {i \in 1..n : l.text[i] \notin Blanks}
      trimmed == IF words = {} THEN 0 ELSE Max(words)
      blanks == {i \in 1..trimmed : l.text[i] \in Blanks}
      start == IF blanks = {} THEN 0 ELSE Bytes(SubSeq(l.text, 1, Max(blanks) - 1)) + 1
  IN Cut(l, start, l.cursor)

move_back(l) == [l EXCEPT !.cursor = prev_offset(l.text, @)]
move_forward(l) == [l EXCEPT !.cursor = next_offset(l.text, @)]
move_home(l) == [l EXCEPT !.cursor = 0]
move_end(l) == [l EXCEPT !.cursor = Bytes(l.text)]

\* The line after one of the editing keys.
Edits(l) == {delete_back(l), delete_forward(l), kill_to_end(l), kill_line(l), delete_word(l)}
Moves(l) == {move_back(l), move_forward(l), move_home(l), move_end(l)}
=============================================================================
