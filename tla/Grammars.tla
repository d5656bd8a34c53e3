------------------------------ MODULE Grammars ------------------------------
(* The two parsers of texlab, by the language they parse.                   *)
EXTENDS SyntaxRules, Integers

LatexParser  == INSTANCE LatexGrammar
BibtexParser == INSTANCE BibtexGrammar

RulesOf(language) ==
  IF language = "latex" THEN LatexParser!Rules ELSE BibtexParser!Rules

ArmsOf(language) ==
  IF language = "latex" THEN LatexParser!Arms ELSE BibtexParser!Arms

TokensOf(language) ==
  IF language = "latex" THEN LatexParser!Tokens ELSE BibtexParser!Tokens

\* What peek() can return.
Looks(language) == TokensOf(language) \union {EOF}

FollowOf(language, k) ==
  IF language = "latex" THEN LatexParser!CanFollow(k)
                        ELSE BibtexParser!CanFollow(k)

\* The first token of the nodes that several functions start, each after a
\* check of its own: the tree's accessors (left_curly, KEY's first word) take
\* the delimiter for granted.
NodeBegins ==
  [ CURLY_GROUP |-> {"L_CURLY"}, CURLY_GROUP_WORD |-> {"L_CURLY"},
    CURLY_GROUP_WORD_LIST |-> {"L_CURLY"}, CURLY_GROUP_COMMAND |-> {"L_CURLY"},
    CURLY_GROUP_KEY_VALUE |-> {"L_CURLY"}, BRACK_GROUP |-> {"L_BRACK"},
    BRACK_GROUP_WORD |-> {"L_BRACK"}, BRACK_GROUP_KEY_VALUE |-> {"L_BRACK"},
    MIXED_GROUP |-> {"L_BRACK", "L_PAREN"}, KEY |-> {"WORD"},
    BEGIN |-> {"BEGIN_ENVIRONMENT_NAME"}, END |-> {"END_ENVIRONMENT_NAME"},
    TOKEN |-> {"L_CURLY", "QUOTE", "WORD"}, BRACE_GROUP |-> {"L_CURLY"},
    QUOTE_GROUP |-> {"QUOTE"}, FIELD |-> {"WORD"} ]
-----------------------------------------------------------------------------
(* What the nodes of LaTeX mean for what is in them.                        *)

CurlyKinds ==
  { "CURLY_GROUP", "CURLY_GROUP_WORD", "CURLY_GROUP_WORD_LIST",
    "CURLY_GROUP_COMMAND", "CURLY_GROUP_KEY_VALUE" }

\* Where an \end is an ordinary command: as the value of a key, as the only
\* word of a group and in the halves of a \newenvironment.
EndsNothing == {"VALUE", "CURLY_GROUP_WORD", "ENVIRONMENT_DEFINITION"}

\* A division's place in the hierarchy of a document; a list item is below.
Level ==
  [ PART |-> 0, CHAPTER |-> 1, SECTION |-> 2, SUBSECTION |-> 3,
    SUBSUBSECTION |-> 4, PARAGRAPH |-> 5, SUBPARAGRAPH |-> 6, ENUM_ITEM |-> 7 ]

\* Every node of A in a stack has one of B above it.
Shielded(nodes, A, B) ==
  \A i \in DOMAIN nodes : nodes[i] \in A =>
    \E j \in i + 1 .. Len(nodes) : nodes[j] \in B

\* b is not a division, or is right inside of one, a, that may have it.
Fits(a, b) == {a, b} \subseteq DOMAIN Level => Level[a] < Level[b]
=============================================================================
