------------------------------- MODULE Cursor -------------------------------
(* What a request points at, src/features/cursor.rs.                        *)
(*                                                                          *)
(* A request P has the documents of its subset, the one it is about first,  *)
(* the offset `at`, and `declaration`, whether references include it.  A    *)
(* document has its uri, language, tree and links.                          *)
EXTENDS Tree, SequencesExt

Main(P) == P.docs[1]

IsLatex(doc)  == doc.language = "latex"
IsBibtex(doc) == doc.language = "bibtex"
LatexDocs(P)  == SelectSeq(P.docs, IsLatex)

IsWord(T, t)    == Kind(T, t) = "WORD"
IsCommand(T, t) == Kind(T, t) \in Latex!CommandNames
IsType(T, t)    == Kind(T, t) \in Bibtex!Types

-----------------------------------------------------------------------------

\* Cursor::new_latex: the command the cursor follows, or else the word it
\* touches, or the command it precedes.
NewLatex(T, left, right) ==
  LET SpaceInKey(t) == /\ Kind(T, t) = "WHITESPACE"
                       /\ Kind(T, Up(T, t)) = "KEY"
  IN  IF IsCommand(T, left) THEN left
      ELSE IF IsWord(T, right) THEN right
      ELSE IF IsWord(T, left) THEN left
      ELSE IF ~IsCommand(T, right) /\ SpaceInKey(left) THEN left
      ELSE right

\* Cursor::new_bibtex
NewBibtex(T, left, right) ==
  IF IsType(T, right) THEN right
  ELSE IF IsType(T, left) \/ Kind(T, left) = "COMMAND_NAME" THEN left
  ELSE IF ~IsWord(T, right) /\ IsWord(T, left) THEN left
  ELSE right

\* CursorContext::new: the token of a LaTeX document, and that of a BibTeX one.
AsLatex(P) ==
  LET T == Main(P).tree
  IN  IF IsLatex(Main(P)) THEN NewLatex(T, LeftToken(T, P.at), RightToken(T, P.at))
      ELSE None

AsBibtex(P) ==
  LET T == Main(P).tree
  IN  IF IsBibtex(Main(P)) THEN NewBibtex(T, LeftToken(T, P.at), RightToken(T, P.at))
      ELSE None

AsLatexWord(P)  == IF IsWord(Main(P).tree, AsLatex(P)) THEN AsLatex(P) ELSE None
AsBibtexWord(P) == IF IsWord(Main(P).tree, AsBibtex(P)) THEN AsBibtex(P) ELSE None

\* command_range: without the backslash, and only after it.
CommandRange(P) ==
  LET T == Main(P).tree
      Named(t) == IF T[t].from = P.at THEN {} ELSE {Span(T[t].from + 1, T[t].to)}
  IN  IF IsCommand(T, AsLatex(P)) THEN Named(AsLatex(P))
      ELSE IF Kind(T, AsBibtex(P)) = "COMMAND_NAME" THEN Named(AsBibtex(P))
      ELSE {}

-----------------------------------------------------------------------------
(* The names the features ask for.  Each is the KEY at the cursor or of the *)
(* command at the cursor, or None.                                          *)

\* Key::cast(token.parent())
KeyOf(T, t) == IF Kind(T, Up(T, t)) = "KEY" THEN Up(T, t) ELSE None

FindCitationKeyWord(P) ==
  LET T == Main(P).tree
      key == KeyOf(T, AsLatexWord(P))
      group == Up(T, key)
  IN  IF Kind(T, group) = Words /\ Kind(T, Up(T, group)) = "CITATION"
        THEN key ELSE None

FindCitationKeyCommand(P) ==
  LET T == Main(P).tree
      citation == Up(T, AsLatex(P))
  IN  IF Kind(T, citation) = "CITATION"
        THEN Nth(Keys(T, Get(T, citation, "key_list")), 1) ELSE None

FindEntryKey(P) ==
  LET T == Main(P).tree
      key == KeyOf(T, AsBibtexWord(P))
  IN  IF Kind(T, Up(T, key)) = "ENTRY" THEN key ELSE None

LabelCommands == {"LABEL_DEFINITION", "LABEL_REFERENCE", "LABEL_REFERENCE_RANGE"}

FindLabelNameKey(P) ==
  LET T == Main(P).tree
      key == KeyOf(T, AsLatexWord(P))
  IN  IF Kind(T, Up(T, Up(T, key))) \in LabelCommands THEN key ELSE None

FindLabelNameCommand(P) ==
  LET T == Main(P).tree
      node == Up(T, AsLatex(P))
  IN  CASE Kind(T, node) = "LABEL_DEFINITION" -> Via(T, node, <<"name", "key">>)
        [] Kind(T, node) = "LABEL_REFERENCE" ->
             Nth(Keys(T, Get(T, node, "name_list")), 1)
        [] Kind(T, node) = "LABEL_REFERENCE_RANGE" ->
             Via(T, node, <<"from", "key">>)
        [] OTHER -> None

\* is_inside_latex_curly
InsideCurly(P, group) ==
  LET T == Main(P).tree
      r == LatexRange(T, group)
  IN  \/ r.from <= P.at /\ P.at < r.to
      \/ Get(T, group, "right_curly") = None

\* find_curly_group_word and find_curly_group_word_list: the group of kind k
\* around the cursor and the key in it, if there is one.
FindGroup(P, k) ==
  LET T == Main(P).tree
      key == KeyOf(T, AsLatex(P))
      group == IF Up(T, key) # None THEN Up(T, key) ELSE Up(T, AsLatex(P))
  IN  IF Kind(T, group) = k /\ InsideCurly(P, group)
        THEN {[group |-> group, key |-> key]} ELSE {}

FindCurlyGroupWord(P) == FindGroup(P, Word)
FindCurlyGroupWordList(P) == FindGroup(P, Words)

\* Mutant of GroupRange: to the end of the key, in an unclosed list, too.
RangeOfKey(P, found) ==
  IF found.key = None THEN Span(P.at, P.at) ELSE LatexRange(Main(P).tree, found.key)

\* The range that is replaced when the name is completed.  In an unclosed
\* list it ends with the word at the cursor.
GroupRange(P, found) ==
  LET T == Main(P).tree
      last == T[found.group].end
  IN  IF found.key = None THEN Span(P.at, P.at)
      ELSE IF T[found.group].kind = Words /\ T[last].kind = "MISSING"
        THEN Span(T[found.key].from, T[AsLatex(P)].to)
      ELSE LatexRange(T, found.key)

FindEnvironmentName(P) ==
  {f \in FindCurlyGroupWord(P) :
     Kind(Main(P).tree, Up(Main(P).tree, f.group)) \in {"BEGIN", "END"}}

OrElse(a, b) == IF a # None THEN a ELSE b
=============================================================================
