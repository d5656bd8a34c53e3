-------------------------------- MODULE Tree --------------------------------
(* The concrete syntax trees of texlab as the features read them: the tree  *)
(* the parsers build (cstree), and the accessors of                         *)
(* src/syntax/latex/cst.rs and src/syntax/bibtex/cst.rs.                    *)
(*                                                                          *)
(* A document is a sequence of tokens; its tree is the sequence of its      *)
(* elements in preorder, each with its parent `up`, the last element `end`  *)
(* below it, and the bytes it covers.  0 stands for None.                   *)
EXTENDS SyntaxRules, LineIndex, TLC

Latex  == INSTANCE LatexGrammar
Bibtex == INSTANCE BibtexGrammar

None == 0

\* A token: what it stands for in names, and its characters.
Tok(k, t, chars) == [kind |-> k, text |-> t, chars |-> chars]

-----------------------------------------------------------------------------
(* Parsing: the rules of the grammars run over the tokens of a document.    *)

PeekKind(s) == IF s.rest = << >> THEN EOF ELSE Head(s.rest).kind

Element(s, k, t) ==
  [kind |-> k, text |-> t, leaf |-> FALSE, up |-> Head(s.open),
   end |-> Len(s.tree) + 1, from |-> s.at, to |-> s.at]

Push(s, e) == [s EXCEPT !.tree = Append(@, e)]

Start(s, k) ==
  [Push(s, Element(s, k, "")) EXCEPT !.open = <<Len(s.tree) + 1>> \o @]

Finish(s) ==
  [s EXCEPT !.tree[Head(s.open)].to = s.at,
            !.tree[Head(s.open)].end = Len(s.tree),
            !.open = Tail(@)]

AddMissing(s) == Push(s, [Element(s, "MISSING", "") EXCEPT !.leaf = TRUE])

Take(s) ==
  LET t == Head(s.rest)
  IN  [Push(s, [Element(s, t.kind, t.text)
                  EXCEPT !.to = @ + Bytes(t.chars), !.leaf = TRUE])
         EXCEPT !.rest = Tail(@), !.at = @ + Bytes(t.chars)]

RECURSIVE Run(_, _, _), Step(_, _, _), Loop(_, _, _, _)

\* The steps of a rule, up to a break.
Run(G, steps, s) ==
  IF steps = << >> \/ s.broken THEN s
  ELSE Run(G, Tail(steps), Step(G, Head(steps), s))

\* A loop whose body is run while the next token is one of ks.
Loop(G, ks, body, s) ==
  IF PeekKind(s) \notin ks THEN s
  ELSE LET t == Run(G, body, s)
       IN  IF t.broken THEN [t EXCEPT !.broken = FALSE]
           ELSE Loop(G, ks, body, t)

Step(G, step, s) ==
  CASE step.op = "open"     -> Start(s, step.kind)
    [] step.op = "close"    -> Finish(s)
    [] step.op = "missing"  -> AddMissing(s)
    [] step.op = "eat"      -> Take(s)
    [] step.op = "call"     -> Run(G, G.rules[step.rule], s)
    [] step.op = "dispatch" -> Run(G, G.arms[step.rule][PeekKind(s)], s)
    [] step.op = "if"       ->
         Run(G, IF PeekKind(s) \in step.kinds THEN step.yes ELSE step.no, s)
    [] step.op = "while"    -> Loop(G, step.kinds, step.body, s)
    [] step.op = "until"    ->
         Loop(G, G.tokens \ step.kinds, step.body, s)
    [] step.op = "break"    -> [s EXCEPT !.broken = TRUE]

Grammar ==
  [ latex |-> [rules |-> Latex!Rules, arms |-> Latex!Arms,
               tokens |-> Latex!Tokens],
    bibtex |-> [rules |-> Bibtex!Rules, arms |-> Bibtex!Arms,
                tokens |-> Bibtex!Tokens] ]

ParseWith(G, tokens) ==
  Run(G, G.rules.parse,
      [rest |-> tokens, tree |-> << >>, open |-> <<None>>, at |-> 0,
       broken |-> FALSE]).tree

ParseTree(language, tokens) == ParseWith(Grammar[language], tokens)

-----------------------------------------------------------------------------
(* Walking the tree                                                         *)

Nodes(T) == {n \in 1..Len(T) : ~T[n].leaf}
Leaves(T) == {n \in 1..Len(T) : T[n].leaf}

\* descendants(): the node and what is below it, in preorder.
Descendants(T, n) == [i \in 1..(T[n].end - n + 1) |-> n + i - 1]

Below(T, n, ks) ==
  SelectSeq(Descendants(T, n), LAMBDA i : i # n /\ T[i].kind \in ks)

\* children(): the children of a node that can be cast to one of ks.
Children(T, n, ks) ==
  SelectSeq(Descendants(T, n), LAMBDA i : T[i].up = n /\ T[i].kind \in ks)

Nth(s, j) == IF j \in DOMAIN s THEN s[j] ELSE None

RECURSIVE Ancestors(_, _)
\* ancestors(): the element itself, its parent, and so on to the root.
Ancestors(T, n) == IF n = None THEN << >> ELSE <<n>> \o Ancestors(T, T[n].up)

\* ancestors().find_map(cast)
Enclosing(T, n, ks) ==
  Nth(SelectSeq(Ancestors(T, n), LAMBDA i : T[i].kind \in ks), 1)

FirstToken(T, n) ==
  Nth(SelectSeq(Descendants(T, n), LAMBDA i : T[i].leaf), 1)

\* token_at_offset(): the tokens that touch an offset, empty ones left out;
\* there are two when it is between two tokens.
TokensAt(T, at) ==
  SelectSeq([i \in 1..Len(T) |-> i],
    LAMBDA i : /\ T[i].leaf /\ T[i].from < T[i].to
               /\ T[i].from <= at /\ at <= T[i].to)
LeftToken(T, at)  == Nth(TokensAt(T, at), 1)
RightToken(T, at) == Nth(TokensAt(T, at), Len(TokensAt(T, at)))

Up(T, n)   == IF n = None THEN None ELSE T[n].up
Kind(T, n) == IF n = None THEN "NONE" ELSE T[n].kind

Span(a, b) == [from |-> a, to |-> b]
TextRange(T, n) == Span(T[n].from, T[n].to)
Touches(r, at) == r.from <= at /\ at <= r.to
Covers(outer, inner) == outer.from <= inner.from /\ inner.to <= outer.to
Overlap(r, q) == r.from < q.to /\ q.from < r.to

-----------------------------------------------------------------------------
(* cst_node!: casting by kind, and the range without trailing trivia        *)

Trivia == {"LINE_BREAK", "WHITESPACE", "COMMENT"}

\* Mutant of SmallRange: the whole node, with the trivia it ends in.
WholeRange(T, n, skipped) == TextRange(T, n)

\* small_range: prev_token() goes on before the start of the node, so a node
\* of nothing but trivia ends before it begins: TextRange::new would panic.
SmallRange(T, n, skipped) ==
  LET solid == {i \in 1..T[n].end : T[i].leaf /\ T[i].kind \notin skipped}
      last == IF solid = {} THEN None
              ELSE CHOOSE i \in solid : \A j \in solid : j <= i
  IN  Span(T[n].from, IF last = None THEN T[n].from ELSE T[last].to)

LatexRange(T, n)  == SmallRange(T, n, Trivia)
BibtexRange(T, n) == SmallRange(T, n, {"WHITESPACE", "JUNK"})

Sections ==
  { "PART", "CHAPTER", "SECTION", "SUBSECTION", "SUBSUBSECTION", "PARAGRAPH",
    "SUBPARAGRAPH" }
Includes ==
  { "PACKAGE_INCLUDE", "CLASS_INCLUDE", "LATEX_INCLUDE", "BIBLATEX_INCLUDE",
    "BIBTEX_INCLUDE", "GRAPHICS_INCLUDE", "SVG_INCLUDE", "INKSCAPE_INCLUDE",
    "VERBATIM_INCLUDE" }
CommandDefinitions == {"COMMAND_DEFINITION", "MATH_OPERATOR"}

-----------------------------------------------------------------------------
(* Accessors: of which kinds the child is that a method returns             *)

Curly == [left_curly |-> {"L_CURLY"}, right_curly |-> {"R_CURLY"}]
Brack == [left_brack |-> {"L_BRACK"}, right_brack |-> {"R_BRACK"}]
Word  == "CURLY_GROUP_WORD"
Words == "CURLY_GROUP_WORD_LIST"

GroupAccessors ==
  [ CURLY_GROUP |-> Curly, BRACK_GROUP |-> Brack,
    PAREN_GROUP |-> [left_paren |-> {"L_PAREN"},
                     right_paren |-> {"R_PAREN"}],
    MIXED_GROUP |-> [left_delim |-> {"L_BRACK", "L_PAREN"},
                     right_delim |-> {"R_BRACK", "R_PAREN"}],
    CURLY_GROUP_WORD |-> Curly @@ [key |-> {"KEY"}],
    BRACK_GROUP_WORD |-> Brack @@ [key |-> {"KEY"}],
    CURLY_GROUP_WORD_LIST |-> Curly,
    CURLY_GROUP_COMMAND |-> Curly @@ [command |-> {"GENERIC_COMMAND_NAME"}]]

KeyValueAccessors ==
  [ KEY_VALUE_PAIR |-> [key |-> {"KEY"}, value |-> {"VALUE"}],
    CURLY_GROUP_KEY_VALUE |-> Curly @@ [body |-> {"KEY_VALUE_BODY"}],
    BRACK_GROUP_KEY_VALUE |-> Brack @@ [body |-> {"KEY_VALUE_BODY"}],
    GENERIC_COMMAND |-> [name |-> {"GENERIC_COMMAND_NAME"}] ]

StructureAccessors ==
  [ BEGIN |-> [name |-> {Word}, options |-> {"BRACK_GROUP"}],
    END |-> [name |-> {Word}],
    ENVIRONMENT |-> [begin |-> {"BEGIN"}, end |-> {"END"}],
    ENUM_ITEM |-> [label |-> {"BRACK_GROUP"}],
    CAPTION |-> [short |-> {"BRACK_GROUP"}, long |-> {"CURLY_GROUP"}] ]
  @@ [k \in Sections |-> [name |-> {"CURLY_GROUP"}]]

CitationAccessors ==
  [ CITATION |-> [prenote |-> {"BRACK_GROUP"},
                  postnote |-> {"BRACK_GROUP"}, key_list |-> {Words}] ]

IncludeAccessors ==
  [ IMPORT |-> [directory |-> {Word}, file |-> {Word}],
    TIKZ_LIBRARY_IMPORT |-> [name_list |-> {Words}] ]
  @@ [k \in Includes |-> [path_list |-> {Words}]]

LabelAccessors ==
  [ LABEL_DEFINITION |-> [name |-> {Word}],
    LABEL_REFERENCE |-> [name_list |-> {Words}],
    LABEL_REFERENCE_RANGE |-> [from |-> {Word}, to |-> {Word}],
    LABEL_NUMBER |-> [name |-> {Word}, text |-> {"CURLY_GROUP"}] ]

DefinitionAccessors ==
  [ THEOREM_DEFINITION |-> [name |-> {Word},
                            description |-> {"CURLY_GROUP"}],
    COLOR_DEFINITION |-> [name |-> {Word}, model |-> {Word},
                          spec |-> {"CURLY_GROUP"}],
    COLOR_SET_DEFINITION |-> [model_list |-> {Words}] ]
  @@ [k \in CommandDefinitions |->
        [name |-> {"CURLY_GROUP_COMMAND"},
         implementation |-> {"CURLY_GROUP"}]]
  @@ [k \in {"ACRONYM_DEFINITION", "ACRONYM_DECLARATION", "COLOR_REFERENCE",
             "GLOSSARY_ENTRY_REFERENCE", "GLOSSARY_ENTRY_DEFINITION"} |->
        [name |-> {Word}]]

Delimiters == [left_delimiter |-> {"L_CURLY", "L_PAREN"},
               right_delimiter |-> {"R_CURLY", "R_PAREN"}]
Assignment == [name |-> {"WORD"}, equality_sign |-> {"EQUALITY_SIGN"},
               value |-> {"VALUE"}]

BibtexAccessors ==
  [ PREAMBLE |-> Delimiters @@ [ty |-> {"PREAMBLE_TYPE"},
                                value |-> {"VALUE"}],
    STRING |-> Delimiters @@ Assignment @@ [ty |-> {"STRING_TYPE"}],
    ENTRY |-> Delimiters @@ [ty |-> {"ENTRY_TYPE"}, key |-> {"KEY"}],
    FIELD |-> Assignment,
    BRACE_GROUP |-> Curly,
    QUOTE_GROUP |-> [left_quote |-> {"QUOTE"},
                     right_quote |-> {"QUOTE"}] ]

LatexAccessors ==
  GroupAccessors @@ KeyValueAccessors @@ StructureAccessors
    @@ CitationAccessors @@ IncludeAccessors @@ LabelAccessors
    @@ DefinitionAccessors

\* A kind that both languages have is read as the LaTeX one; the two BibTeX
\* structs that would differ (KEY, VALUE) have no accessor here.
Accessors == LatexAccessors @@ BibtexAccessors

\* Mutant of Seconds: the second note of a citation is the first one again.
OtherSeconds ==
  { <<"IMPORT", "file">>, <<"LABEL_REFERENCE_RANGE", "to">>,
    <<"COLOR_DEFINITION", "model">>, <<"QUOTE_GROUP", "right_quote">> }

\* The methods that return the second such child: nth(1), or skip(1).
Seconds ==
  { <<"CITATION", "postnote">>, <<"IMPORT", "file">>,
    <<"LABEL_REFERENCE_RANGE", "to">>, <<"COLOR_DEFINITION", "model">>,
    <<"QUOTE_GROUP", "right_quote">> }

Get(T, n, method) ==
  Nth(Children(T, n, Accessors[T[n].kind][method]),
      IF <<T[n].kind, method>> \in Seconds THEN 2 ELSE 1)

RECURSIVE Via(_, _, _)
\* node.m1()?.m2()? ...
Via(T, n, methods) ==
  IF n = None \/ methods = << >> THEN n
  ELSE Via(T, Get(T, n, Head(methods)), Tail(methods))

\* The tokens a node is made of, as texts.
Texts(T, tokens) == [i \in DOMAIN tokens |-> T[tokens[i]].text]

\* Key::words, Text::words; a name is the sequence of its words, which
\* to_string joins and == compares.
WordsOf(T, n) == IF n = None THEN << >> ELSE Texts(T, Children(T, n, {"WORD"}))

\* CurlyGroupWordList::keys, GraphicsPath::path_list, Entry::fields, ...
Keys(T, n) == IF n = None THEN << >> ELSE Children(T, n, {"KEY"})
Paths(T, n) == Children(T, n, {Word})
Pairs(T, n) == IF n = None THEN << >> ELSE Children(T, n, {"KEY_VALUE_PAIR"})
Fields(T, n) == Children(T, n, {"FIELD"})
ValueTokens(T, n) == Children(T, n, {"TOKEN"})

\* content_text: the text between the delimiters without comments and white
\* space; None, as the empty set, when one of them is missing.
ContentText(T, n, left, right) ==
  IF left = None \/ right = None THEN {}
  ELSE {Texts(T, SelectSeq(Descendants(T, n), LAMBDA i :
          T[i].leaf /\ T[i].kind \notin Trivia /\ left < i /\ i < right))}

CurlyText(T, n) ==
  IF n = None THEN {}
  ELSE ContentText(T, n, Get(T, n, "left_curly"), Get(T, n, "right_curly"))
BrackText(T, n) ==
  IF n = None THEN {}
  ELSE ContentText(T, n, Get(T, n, "left_brack"), Get(T, n, "right_brack"))
=============================================================================
