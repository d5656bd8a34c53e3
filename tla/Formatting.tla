------------------------------ MODULE Formatting ------------------------------
(* The formatter of BibTeX documents,                                       *)
(* src/features/formatting/bibtex_internal.rs.  Its output is a sequence of *)
(* tokens; a document has its tokens and its tree.                          *)
EXTENDS Tree, SequencesExt

CONSTANTS
  TabSize,      \* of the request
  InsertSpaces, \* of the request: an indentation is spaces, and not a tab
  LineLength,   \* formatter_line_length, or 80
  Lowered       \* str::to_lowercase, of the texts that it changes

\* With a larger tab, align - tab_size would be below 0 in a @preamble.
ASSUME FormatAssumption ==
  TabSize \in 1..10 /\ InsertSpaces \in BOOLEAN /\ LineLength \in Nat

Lower(text) == IF text \in DOMAIN Lowered THEN Lowered[text] ELSE text

Width(token) == Len(token.chars)
Widths(tokens) == Len(FlattenSeq([i \in DOMAIN tokens |-> tokens[i].chars]))

OpenBrace  == Tok("L_CURLY", "{", <<1>>)
CloseBrace == Tok("R_CURLY", "}", <<1>>)
Separator  == Tok("COMMA", ",", <<1>>)
Spaces(n)  == Tok("WHITESPACE", "", [i \in 1..n |-> 1])
LineEnd    == Tok("WHITESPACE", "", <<Newline>>)
Indent     == Spaces(IF InsertSpaces THEN TabSize ELSE 1)
Equality   == <<Spaces(1), Tok("EQUALITY_SIGN", "=", <<1>>), Spaces(1)>>

\* The token that a leaf of the tree is; one that is missing has no text.
NumberOf(T, n) == Cardinality({m \in 1..n : T[m].leaf /\ T[m].kind # "MISSING"})

Source(doc, n) ==
  IF doc.tree[n].kind = "MISSING" THEN Tok("MISSING", "", << >>)
  ELSE doc.tokens[NumberOf(doc.tree, n)]

\* visit_token_lowercase, of the type of an item.
TypeOf(doc, n) == [Source(doc, Get(doc.tree, n, "ty")) EXCEPT !.text = Lower(@)]

\* Mutant of ShouldInsertSpace: the columns alone are compared.
InsertSpaceInLine(index, previous, current) ==
  LineColLsp(index, previous.to).col < LineColLsp(index, current.from).col

ShouldInsertSpace(index, previous, current) ==
  \/ LineColLsp(index, previous.from).line # LineColLsp(index, current.from).line
  \/ LineColLsp(index, previous.to).col < LineColLsp(index, current.from).col

\* The next token of a value: on a new line, after a space, or at once.
Put(laid, token, space, align) ==
  IF laid.length + Width(token) + space > LineLength
  THEN [ out |-> laid.out \o <<LineEnd, Indent, Spaces(align - TabSize + 1), token>>,
         length |-> align + Width(token) ]
  ELSE [ out |-> laid.out \o [i \in 1..space |-> Spaces(1)] \o <<token>>,
         length |-> laid.length + space + Width(token) ]

\* visit_node of a VALUE: its tokens without the white space.
FormatValue(doc, index, value, align) ==
  LET T == doc.tree
      leaves == SelectSeq(Descendants(T, value),
                          LAMBDA n : T[n].leaf /\ T[n].kind # "WHITESPACE")
      Next(laid, i) ==
        Put(laid, Source(doc, leaves[i]),
            IF ShouldInsertSpace(index, T[leaves[i - 1]], T[leaves[i]]) THEN 1 ELSE 0, align)
      first == Source(doc, Head(leaves))
  IN  FoldLeft(Next, [out |-> <<first>>, length |-> align + Width(first)],
               [i \in 1..(Len(leaves) - 1) |-> i + 1]).out

\* An optional value, and what is written after one.
WithValue(doc, index, value, align, after) ==
  IF value = None THEN << >> ELSE FormatValue(doc, index, value, align) \o after

FormatPreamble(doc, index, n) ==
  LET start == <<TypeOf(doc, n), OpenBrace>>
  IN  start \o WithValue(doc, index, Get(doc.tree, n, "value"), Widths(start),
                         <<CloseBrace>>)

FormatString(doc, index, n) ==
  LET start == <<TypeOf(doc, n), OpenBrace>>
      name  == Get(doc.tree, n, "name")
      named == start \o <<Source(doc, name)>> \o Equality
  IN  IF name = None THEN start
      ELSE named \o WithValue(doc, index, Get(doc.tree, n, "value"), Widths(named),
                              <<CloseBrace>>)

\* A field without a value has no end of its line, either.
FormatField(doc, index, n) ==
  LET name == Source(doc, Get(doc.tree, n, "name"))
  IN  <<Indent, name>> \o Equality
        \o WithValue(doc, index, Get(doc.tree, n, "value"), TabSize + Width(name) + 3,
                     <<Separator, LineEnd>>)

\* The key is its words, with one space between them.
FormatEntry(doc, index, n) ==
  LET T == doc.tree
      start == <<TypeOf(doc, n), OpenBrace>>
      words == Children(T, Get(T, n, "key"), {"WORD"})
      key == FlattenSeq([i \in DOMAIN words |-> [j \in 1..(IF i = 1 THEN 0 ELSE 1) |-> Spaces(1)]
                                                  \o <<Source(doc, words[i])>>])
      fields == Fields(T, n)
  IN  IF Get(T, n, "key") = None THEN start
      ELSE start \o key \o <<Separator, LineEnd>>
             \o FlattenSeq([i \in DOMAIN fields |-> FormatField(doc, index, fields[i])])
             \o <<CloseBrace>>

\* What the lexer makes of the output.
Lexed(tokens) ==
  LET Join(read, t) ==
        IF t.chars = << >> THEN read
        ELSE IF read # << >> /\ t.kind \in {"WHITESPACE", "WORD"} /\ Last(read).kind = t.kind
        THEN Front(read) \o <<Tok(t.kind, Last(read).text \o t.text, Last(read).chars \o t.chars)>>
        ELSE Append(read, t)
  IN  FoldLeft(Join, << >>, tokens)

FormatItem(doc, index, n) ==
  CASE doc.tree[n].kind = "PREAMBLE" -> FormatPreamble(doc, index, n)
    [] doc.tree[n].kind = "STRING"   -> FormatString(doc, index, n)
    [] doc.tree[n].kind = "ENTRY"    -> FormatEntry(doc, index, n)

\* format_bibtex_internal: an edit for every item of the file.
FormatEdits(doc, index) ==
  LET items == Children(doc.tree, 1, {"PREAMBLE", "STRING", "ENTRY"})
      Edit(n) == BibtexRange(doc.tree, n) @@ [new |-> FormatItem(doc, index, n)]
  IN  [i \in DOMAIN items |-> Edit(items[i])]

FormatBibtexInternal(doc) ==
  FormatEdits(doc, IndexOf(FlattenSeq([i \in DOMAIN doc.tokens |-> doc.tokens[i].chars])))

-----------------------------------------------------------------------------

Items == {"PREAMBLE", "STRING", "ENTRY"}

\* The elements of the tree without the white space and the signs of an item,
\* which are written anew; types are the same in capitals and small letters.
KeptElements(T) ==
  LET Rewritten(n) == /\ Kind(T, Up(T, n)) \in Items
                      /\ T[n].kind \in {"L_CURLY", "R_CURLY", "L_PAREN", "R_PAREN", "COMMA", "MISSING"}
  IN  SelectSeq([n \in DOMAIN T |-> n], LAMBDA n : T[n].kind # "WHITESPACE" /\ ~Rewritten(n))

Meaning(T) ==
  LET kept == KeptElements(T)
      Name(n) == IF T[n].kind \in Bibtex!Types THEN Lower(T[n].text) ELSE T[n].text
  IN  [i \in DOMAIN kept |-> <<Len(Ancestors(T, kept[i])), T[kept[i]].kind, Name(kept[i])>>]

\* The tokens of the texts: between braces or quotes, white space is a part of
\* the value, and tokens without any between them are one word.
TextTokens(T) ==
  SelectSeq(KeptElements(T), LAMBDA n :
    T[n].leaf /\ \E g \in Range(Ancestors(T, n)) :
                     T[g].kind \in {"BRACE_GROUP", "QUOTE_GROUP"} /\ n # g + 1)

TokenBefore(doc, n) == doc.tokens[NumberOf(doc.tree, n) - 1]

IsApart(doc, n) == TokenBefore(doc, n).kind = "WHITESPACE"

\* The line before this token ends, as it has no room for the token.
IsBroken(doc, n) ==
  LET before == FlattenSeq([k \in 1..(NumberOf(doc.tree, n) - 2) |-> doc.tokens[k].chars])
      ended == {c \in DOMAIN before : before[c] = Newline}
      column == Cardinality({c \in DOMAIN before : \A e \in ended : e < c})
  IN  /\ IsApart(doc, n) /\ Contains(TokenBefore(doc, n).chars, Newline)
      /\ column + Width(Source(doc, n)) > LineLength

\* What is apart stays apart; what is not stays one word, unless the line is full.
WordsStay(old, new) ==
  LET was == TextTokens(old.tree)
      is == TextTokens(new.tree)
  IN  \A i \in DOMAIN was :
        IsApart(new, is[i]) # IsApart(old, was[i]) => IsBroken(new, is[i]) /\ ~IsApart(old, was[i])

\* Nothing but the last brace of an item is missing.
Finished(T) ==
  \A n \in Leaves(T) : T[n].kind = "MISSING" =>
    LET item == T[n].up
    IN  /\ T[item].kind \in Items
        /\ n = T[item].end
        /\ Get(T, item, IF T[item].kind = "ENTRY" THEN "key" ELSE "value") # None
=============================================================================
