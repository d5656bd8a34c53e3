------------------------------ MODULE ParserMC ------------------------------
(* The families of documents for the run of Parser.                         *)
EXTENDS Parser

CONSTANTS CommandLength,      \* tokens of a document about one command
          UnclosedLength,     \* tokens of a document that leaves things open
          WellFormedLength,   \* tokens of a well-formed document
          Spare,              \* tokens next to a command with its arguments
          BibtexLength        \* tokens of a BibTeX file

Latex(ks, n, fit) ==
  [language |-> "latex", tokens |-> ks, length |-> n, wellFormed |-> fit]

\* Each kind of token with what arguments are made of, in any order.
OneCommand ==
  { Latex({k, "L_CURLY", "R_CURLY", "L_BRACK", "WORD", "COMMA",
           "EQUALITY_SIGN", "WHITESPACE"}, CommandLength, FALSE) : k \in LatexParser!Tokens }

\* Groups, environments and divisions left open within each other.
Unclosed ==
  { Latex(ks, UnclosedLength, FALSE) : ks \in
      { {"L_CURLY", "R_CURLY", "L_BRACK", "DOLLAR", "BEGIN_EQUATION_NAME",
         "SECTION_NAME", "ENUM_ITEM_NAME", "GENERIC_COMMAND_NAME"},
        {"BEGIN_ENVIRONMENT_NAME", "END_ENVIRONMENT_NAME", "L_CURLY",
         "R_CURLY", "L_BRACK", "DOLLAR"},
        {"BEGIN_ENVIRONMENT_NAME", "END_ENVIRONMENT_NAME", "L_CURLY",
         "R_CURLY", "ENVIRONMENT_DEFINITION_NAME", "COMMAND_DEFINITION_NAME"},
        DivisionNames } }
  \union
  { Latex({"BEGIN_ENVIRONMENT_NAME", "END_ENVIRONMENT_NAME", "L_BRACK", "WORD",
           "EQUALITY_SIGN", "GRAPHICS_INCLUDE_NAME"}, UnclosedLength + 2, FALSE) }

\* A command k with its complete arguments and Spare tokens more.
Complete(k, ks) ==
  Latex({k, "L_CURLY", "R_CURLY"} \union ks, Len(Obligation(k)) + 1 + Spare, TRUE)

\* Everything nested properly, and every command with complete arguments.
WellFormed ==
  { Latex(LatexParser!Delimiters \union {"WORD", "DOLLAR"},
          WellFormedLength, TRUE),
    Latex({"WORD", "DOLLAR", "L_CURLY", "R_CURLY", "SECTION_NAME",
           "ENUM_ITEM_NAME", "BEGIN_EQUATION_NAME", "END_EQUATION_NAME"},
          WellFormedLength, TRUE),
    Latex({"WORD", "L_CURLY", "R_CURLY", "ENUM_ITEM_NAME",
           "BEGIN_ENVIRONMENT_NAME", "END_ENVIRONMENT_NAME"},
          WellFormedLength + 3, TRUE) }
  \union
  { Complete(k, {"WORD", "EQUALITY_SIGN"}) : k \in DOMAIN LatexParser!CommandRule }
  \union
  { Complete(k, {"GENERIC_COMMAND_NAME"}) :
      k \in {"COMMAND_DEFINITION_NAME", "MATH_OPERATOR_NAME"} }
  \union
  { Complete("THEOREM_DEFINITION_NAME", {"WORD", "L_BRACK", "R_BRACK"}),
    Complete("BEGIN_BLOCK_COMMENT_NAME", {"VERBATIM", "END_BLOCK_COMMENT_NAME"}) }

Bibtex ==
  { [language |-> "bibtex", tokens |-> BibtexParser!Tokens,
     length |-> BibtexLength, wellFormed |-> FALSE] }

MCDocuments == OneCommand \union Unclosed \union WellFormed \union Bibtex
=============================================================================
