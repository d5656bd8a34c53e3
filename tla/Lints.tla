-------------------------------- MODULE Lints --------------------------------
(* What texlab reports about a tree by itself, src/diagnostics/latex.rs and *)
(* src/diagnostics/bibtex.rs.  A diagnostic has its code and its range.     *)
EXTENDS Tree

Diagnostic(code, range) == {[code |-> code, range |-> range]}
EmptyAt(offset) == Span(offset, offset)

-----------------------------------------------------------------------------

\* analyze_environment; its other environments go on to analyze_curly_group,
\* which they are not.
LintEnvironment(T, n) ==
  LET name1 == Via(T, n, <<"begin", "name", "key">>)
      name2 == Via(T, n, <<"end", "name", "key">>)
  IN  IF name1 = None \/ name2 = None \/ WordsOf(T, name1) = WordsOf(T, name2) THEN {}
      ELSE Diagnostic(3, LatexRange(T, name1))

Verbatim == {<<"asy">>, <<"lstlisting">>, <<"minted">>, <<"verbatim">>}

InVerbatim(T, n) ==
  \E a \in {Ancestors(T, n)[i] : i \in DOMAIN Ancestors(T, n)} :
    /\ T[a].kind = "ENVIRONMENT"
    /\ WordsOf(T, Via(T, a, <<"begin", "name", "key">>)) \in Verbatim

CurlyGroups ==
  { "CURLY_GROUP", "CURLY_GROUP_COMMAND", "CURLY_GROUP_KEY_VALUE",
    "CURLY_GROUP_WORD", "CURLY_GROUP_WORD_LIST" }

\* Mutant of LintCurlyGroup: lists of words are left out.
LintGroupsWithoutLists(T, n) ==
  IF InVerbatim(T, n) \/ Get(T, n, "right_curly") # None \/ T[n].kind = Words THEN {}
  ELSE Diagnostic(2, EmptyAt(T[n].to))

LintCurlyGroup(T, n) ==
  IF InVerbatim(T, n) \/ Get(T, n, "right_curly") # None THEN {}
  ELSE Diagnostic(2, EmptyAt(T[n].to))

LatexDiagnostics(T) ==
  UNION { CASE T[n].kind = "ENVIRONMENT" -> LintEnvironment(T, n)
            [] T[n].kind \in CurlyGroups -> LintCurlyGroup(T, n)
            [] T[n].kind = "ERROR" /\ T[FirstToken(T, n)].kind = "R_CURLY" ->
                 Diagnostic(1, TextRange(T, n))
            [] OTHER -> {} : n \in Nodes(T) }

-----------------------------------------------------------------------------

\* analyze_entry: the third test is entry.key() again, where one of the right
\* delimiter was meant, so that its diagnostic (6) is never reported.
LintEntry(T, n) ==
  IF Get(T, n, "left_delimiter") = None THEN
    Diagnostic(4, TextRange(T, Get(T, n, "ty")))
  ELSE IF Get(T, n, "key") = None THEN
    Diagnostic(5, TextRange(T, Get(T, n, "left_delimiter")))
  ELSE {}

\* analyze_field
LintField(T, n) ==
  IF Get(T, n, "equality_sign") = None THEN
    Diagnostic(7, EmptyAt(T[Get(T, n, "name")].to))
  ELSE IF Get(T, n, "value") = None THEN
    Diagnostic(8, EmptyAt(T[Get(T, n, "equality_sign")].to))
  ELSE {}

BibtexDiagnostics(T) ==
  UNION { CASE T[n].kind = "ENTRY" -> LintEntry(T, n)
            [] T[n].kind = "FIELD" -> LintField(T, n)
            [] OTHER -> {} : n \in Nodes(T) }

-----------------------------------------------------------------------------

\* The depth of the braces after the first i tokens, as TeX counts.
Depth(tokens) ==
  LET depth[i \in 0..Len(tokens)] ==
        IF i = 0 THEN 0
        ELSE depth[i - 1] + CASE tokens[i].kind = "L_CURLY" -> 1
                              [] tokens[i].kind = "R_CURLY" -> 0 - 1
                              [] OTHER -> 0
  IN  depth

Balanced(tokens) ==
  /\ \A i \in 0..Len(tokens) : Depth(tokens)[i] >= 0
  /\ Depth(tokens)[Len(tokens)] = 0

(* Braces that do not match are reported and only those: whatever the       *)
(* parser does to recover, there is an "Unexpected }" or a "Missing }" if   *)
(* and only if the braces of the document are not balanced.  What a         *)
(* \graphicspath and a verbatim environment contain is not looked at.       *)
BracesAreReported(tokens, T) ==
  \/ \E n \in Nodes(T) : T[n].kind = "GRAPHICS_PATH" \/ InVerbatim(T, n)
  \/ Balanced(tokens) <=> \A d \in LatexDiagnostics(T) : d.code \notin {1, 2}

(* What the parser had to fill in has a diagnostic at its node: an entry    *)
(* that lacks its brace or its key, and a field that lacks its equality     *)
(* sign or its value.  Not so the brace at the end of an entry, the third   *)
(* test of LintEntry.                                                       *)
GapsAreReported(T) ==
  \A n \in Nodes(T) :
    LET Gaps == {m \in Leaves(T) : T[m].up = n /\ T[m].kind = "MISSING"}
        Closing(m) == \E k \in n..m : T[k].up = n /\ T[k].kind = "KEY"
    IN  T[n].kind \in {"ENTRY", "FIELD"} /\ (\E m \in Gaps : ~Closing(m)) =>
          \E d \in BibtexDiagnostics(T) : Covers(TextRange(T, n), d.range)
=============================================================================
