------------------------------ MODULE LineIndex ------------------------------
(* Offsets and positions, src/line_index.rs and src/line_index_ext.rs: the  *)
(* server counts bytes of UTF-8, the client lines and units of UTF-16.      *)
(* A text is a sequence of characters, and a character is the number of its *)
(* bytes, or Newline.                                                       *)
EXTENDS Integers, Sequences, FiniteSets

Newline == 0
Utf8(c)  == IF c = Newline THEN 1 ELSE c
Utf16(c) == IF c = 4 THEN 2 ELSE 1

\* The sum of the lengths of the first i characters, for every i.
Sums(text, Length(_)) ==
  LET sum[i \in 0..Len(text)] ==
        IF i = 0 THEN 0 ELSE sum[i - 1] + Length(text[i])
  IN  sum

Bytes(text) == Sums(text, Utf8)[Len(text)]

Position(l, c) == [line |-> l, col |-> c]

-----------------------------------------------------------------------------
(* LineIndex::new: where the lines begin, and the characters of each line   *)
(* that are not ASCII, by their columns.                                    *)

IndexOf(text) ==
  LET at == Sums(text, Utf8)
      Starts == SelectSeq([i \in 1..Len(text) |-> at[i]],
                          LAMBDA o : \E i \in DOMAIN text :
                                       at[i] = o /\ text[i] = Newline)
      newlines == <<0>> \o Starts
      LineOf(i) == Cardinality({k \in DOMAIN newlines : newlines[k] < at[i]})
      Wide(l) == SelectSeq([i \in DOMAIN text |-> i],
                   LAMBDA i : text[i] > 1 /\ LineOf(i) = l)
  IN  [ newlines |-> newlines,
        utf16_lines |->
          [l \in DOMAIN newlines |->
             [j \in DOMAIN Wide(l) |->
                [start |-> at[Wide(l)[j] - 1] - newlines[l],
                 end |-> at[Wide(l)[j]] - newlines[l]]]] ]

\* Utf16Char::len and len_utf16
Surplus(c) == (c.end - c.start) - Utf16(c.end - c.start)

\* line_col: partition_point counts the lines that begin at or before offset.
LineCol(index, offset) ==
  LET line == Cardinality({k \in DOMAIN index.newlines :
                             index.newlines[k] <= offset})
  IN  Position(line - 1, offset - index.newlines[line])

\* Mutant of ToUtf16Col: the character the column stands before is counted.
ToUtf16ColIncluding(chars, col) ==
  LET res[i \in 0..Len(chars)] ==
        IF i = 0 THEN col
        ELSE IF chars[i].start <= col THEN res[i - 1] - Surplus(chars[i])
             ELSE res[i - 1]
  IN  res[Len(chars)]

\* utf8_to_utf16_col; columns ascend, so that the break only saves time.
ToUtf16Col(chars, col) ==
  LET res[i \in 0..Len(chars)] ==
        IF i = 0 THEN col
        ELSE IF chars[i].end <= col THEN res[i - 1] - Surplus(chars[i])
             ELSE res[i - 1]
  IN  res[Len(chars)]

\* utf16_to_utf8_col: col is compared with the start in bytes, which is why
\* it has to have grown by the characters before.
ToUtf8Col(chars, col) ==
  LET res[i \in 0..Len(chars)] ==
        IF i = 0 THEN col
        ELSE IF res[i - 1] > chars[i].start
             THEN res[i - 1] + Surplus(chars[i]) ELSE res[i - 1]
  IN  res[Len(chars)]

\* line_col_lsp and offset_lsp
LineColLsp(index, offset) ==
  LET p == LineCol(index, offset)
  IN  Position(p.line, ToUtf16Col(index.utf16_lines[p.line + 1], p.col))

OffsetLsp(index, p) ==
  index.newlines[p.line + 1] + ToUtf8Col(index.utf16_lines[p.line + 1], p.col)

-----------------------------------------------------------------------------

\* The position before the character after the first i, as the client counts.
ClientPosition(text, i) ==
  LET breaks == {j \in 1..i : text[j] = Newline}
      start == IF breaks = {} THEN 0
               ELSE CHOOSE j \in breaks : \A k \in breaks : k <= j
      at == Sums(text, Utf16)
  IN  Position(Cardinality(breaks), at[i] - at[start])

(* The server and the client mean the same place: every position before or  *)
(* after a character of the text is converted to the client's position, and *)
(* the client's position back to the offset.                                *)
PositionsAgree(text) ==
  LET index == IndexOf(text)
      at == Sums(text, Utf8)
  IN  \A i \in 0..Len(text) :
        /\ LineColLsp(index, at[i]) = ClientPosition(text, i)
        /\ OffsetLsp(index, ClientPosition(text, i)) = at[i]
=============================================================================
