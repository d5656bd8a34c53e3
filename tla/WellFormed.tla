----------------------------- MODULE WellFormed -----------------------------
(* Well-formed LaTeX, told from the tokens alone: what a document still has *)
(* to say.  The arguments a command needs are the ones its accessors in     *)
(* src/syntax/latex/cst.rs look for.                                        *)
EXTENDS Grammars

Now(k)   == [kind |-> k, now |-> TRUE]    \* the next token must be k
Later(k) == [kind |-> k, now |-> FALSE]   \* k must come, after other things

NotWellFormed == <<Now("none")>>

\* What a document owes at its start: that it ends.
WholeDocument == <<Later(EOF)>>

Name       == <<Now("L_CURLY"), Now("WORD"), Now("R_CURLY")>>
NewCommand == <<Now("L_CURLY"), Now("GENERIC_COMMAND_NAME"), Now("R_CURLY")>>
Group      == <<Now("L_CURLY"), Later("R_CURLY")>>
Counter    == <<Now("L_BRACK"), Now("WORD"), Now("R_BRACK")>>
KeyValues  == <<Now("L_CURLY"), Now("WORD"), Now("EQUALITY_SIGN"), Now("WORD"),
                Now("R_CURLY")>>

DivisionNames == LatexParser!Divisions \union {"SUBSUBSECTION_NAME"}

\* Commands whose one argument is a name or a path.
WithName ==
  { "PACKAGE_INCLUDE_NAME", "CLASS_INCLUDE_NAME", "LATEX_INCLUDE_NAME",
    "BIBLATEX_INCLUDE_NAME", "BIBTEX_INCLUDE_NAME", "GRAPHICS_INCLUDE_NAME",
    "SVG_INCLUDE_NAME", "INKSCAPE_INCLUDE_NAME", "VERBATIM_INCLUDE_NAME",
    "CITATION_NAME", "LABEL_DEFINITION_NAME", "LABEL_REFERENCE_NAME",
    "GLOSSARY_ENTRY_REFERENCE_NAME", "ACRONYM_REFERENCE_NAME",
    "COLOR_REFERENCE_NAME", "TIKZ_LIBRARY_IMPORT_NAME" }

\* What the document has to say after a token of kind t.  \newlabel is left
\* out: even its complete form has a MISSING (the snapshot of
\* test_label_number records it).  \newtheorem has its counter, too: without
\* it the parser takes a [ that follows for one.
Obligation(t) ==
  CASE t = "L_CURLY" -> <<Later("R_CURLY")>>
    [] t = "L_BRACK" -> <<Later("R_BRACK")>>
    [] t = "L_PAREN" -> <<Later("R_PAREN")>>
    [] t = "DOLLAR"  -> <<Later("DOLLAR")>>
    [] t = "BEGIN_EQUATION_NAME" -> <<Later("END_EQUATION_NAME")>>
    [] t = "BEGIN_ENVIRONMENT_NAME" -> Name \o <<Later("END_ENVIRONMENT_NAME")>>
    [] t = "BEGIN_BLOCK_COMMENT_NAME" -> <<Later("END_BLOCK_COMMENT_NAME")>>
    [] t \in DivisionNames \ {"ENUM_ITEM_NAME"} -> Group
    [] t = "CAPTION_NAME" -> Group
    [] t \in WithName -> Name
    [] t \in {"IMPORT_NAME", "LABEL_REFERENCE_RANGE_NAME"} -> Name \o Name
    [] t \in {"COMMAND_DEFINITION_NAME", "MATH_OPERATOR_NAME"} -> NewCommand \o Group
    [] t \in {"GLOSSARY_ENTRY_DEFINITION_NAME", "ACRONYM_DECLARATION_NAME"} ->
         Name \o KeyValues
    [] t \in {"ACRONYM_DEFINITION_NAME", "ENVIRONMENT_DEFINITION_NAME"} ->
         Name \o Group \o Group
    [] t = "THEOREM_DEFINITION_NAME" -> Name \o Group \o Counter
    [] t = "COLOR_DEFINITION_NAME" -> Name \o Name \o Group
    [] t = "COLOR_SET_DEFINITION_NAME" -> Name \o Name \o Name \o Name
    [] t = "GRAPHICS_PATH_NAME" ->
         <<Now("L_CURLY")>> \o Name \o <<Now("R_CURLY")>>
    [] OTHER -> << >>

Closers ==
  { "R_CURLY", "R_BRACK", "R_PAREN", "END_EQUATION_NAME",
    "END_ENVIRONMENT_NAME", "END_BLOCK_COMMENT_NAME", EOF }

\* t may come where the item next is owed first.  A division or an item belongs
\* directly into the document, an environment or a group.
Allowed(next, t) ==
  t # next.kind =>
    /\ ~next.now
    /\ t \notin Closers \union {"LABEL_NUMBER_NAME"}
    /\ t \in DivisionNames => next.kind \in {EOF, "R_CURLY", "END_ENVIRONMENT_NAME"}

\* What is owed when t comes and o was owed.
Owed(o, t) ==
  CASE ~Allowed(Head(o), t) -> NotWellFormed
    [] t = Head(o).kind ->
         (IF t = "END_ENVIRONMENT_NAME" THEN Name ELSE << >>) \o Tail(o)
    [] OTHER -> Obligation(t) \o o
=============================================================================
